--------------------------- MODULE WordHeapProofs ---------------------------
(***************************************************************************)
(* Proofs about module WordHeap, for every heap, table of limits, client   *)
(* and set of representable sizes.                                         *)
(*                                                                         *)
(* The words of a memory m represent a heap h of BlockHeap (Represents):   *)
(* the word at each block is its header, and the next pointers chain the   *)
(* blocks of each list.  Headers lie 8 bytes after a multiple of 16 and    *)
(* next pointers on one, so no header is ever overwritten by a link or a   *)
(* link by a header.  Each call on the words does to the heap they         *)
(* represent what the call of BlockHeap does, so that the invariant of     *)
(* BlockHeapProofs holds of it; and it leaves the payloads in use alone.   *)
(***************************************************************************)
EXTENDS WordHeap, FiniteSetTheorems, SequenceTheorems, WellFoundedInduction, TLAPS

(* A set of naturals that is not empty has a least element. *)
LEMMA LeastNatural ==
  ASSUME NEW T \in SUBSET Nat, T # {}
  PROVE  \E n \in T : \A m \in T : n <= m
<1>1. PICK n \in T : \A m \in T : ~ (<<m, n>> \in OpToRel(<, Nat))
  BY NatLessThanWellFounded, WFMin
<1>2. ASSUME NEW m \in T
      PROVE  n <= m
  <2>1. ASSUME m < n PROVE FALSE
    <3>1. <<m, n>> \in Nat \X Nat /\ <<m, n>>[1] < <<m, n>>[2]
      BY <2>1
    <3>2. <<m, n>> \in OpToRel(<, Nat)
      BY <3>1, Zenon DEF OpToRel
    <3> QED
      BY <1>1, <3>2
  <2> QED
    BY <2>1
<1> QED
  BY <1>2

B == INSTANCE BlockHeapProofs WITH heap <- HeapOf(mm)

USE DEF NULL, ALIGNMENT, WSIZE, SPLIT_MIN, Lists,
        B!NULL, B!ALIGNMENT, B!WSIZE, B!SPLIT_MIN, B!Lists

-----------------------------------------------------------------------------
(* The assumptions of BlockHeap hold.                                      *)
LEMMA BlockAssumptions == B!SizeClassAssumption /\ B!BlockHeapAssumption
BY SizeClassAssumption, MmWordsAssumption, WordHeapAssumption
   DEF B!SizeClassAssumption, B!BlockHeapAssumption, B!Representable, Representable

(* So is its arithmetic the same.                                          *)
LEMMA SameArithmetic ==
  /\ \A n : B!get_list_index(n) = get_list_index(n)
  /\ \A n : B!asize(n) = asize(n)
  /\ \A n : B!Representable(n) = Representable(n)
  /\ \A k, n : B!calloc_size(k, n) = calloc_size(k, n)
<1>1. \A n : B!get_list_index(n) = get_list_index(n)
  BY DEF B!get_list_index, get_list_index, B!Cardinality, Cardinality, B!IsFiniteSet, IsFiniteSet
<1>2. \A n : B!align(n) = align(n)
  BY DEF B!align, align
<1>3. \A n : B!asize(n) = asize(n)
  BY <1>2 DEF B!asize, asize
<1>4. \A n : B!Representable(n) = Representable(n)
  BY DEF B!Representable, Representable
<1>5. \A k, n : B!calloc_size(k, n) = calloc_size(k, n)
  BY DEF B!calloc_size, calloc_size
<1> QED
  BY <1>1, <1>3, <1>4, <1>5

-----------------------------------------------------------------------------
(* Words *)

OnHeap(a) == a \in Nat /\ a % 8 = 0 /\ a + 8 <= MaxHeap

MemShape(m) ==
  /\ m = [mem |-> m.mem, brk |-> m.brk, lists |-> m.lists]
  /\ m.mem \in [Words -> Int]
  /\ m.lists \in [Lists -> Nat]

(* Addresses on the heap are those of its words, one each.                 *)
LEMMA WordAddress ==
  /\ \A a : OnHeap(a) => a \div 8 \in Words
  /\ \A a, c : OnHeap(a) /\ OnHeap(c) /\ a # c => a \div 8 # c \div 8
<1>1. ASSUME NEW a, OnHeap(a)
      PROVE  a \div 8 \in Words /\ a = 8 * (a \div 8)
  <2>1. a \in Nat /\ a % 8 = 0 /\ a + 8 <= MaxHeap /\ MaxHeap \in Nat /\ MaxHeap % 8 = 0
    BY <1>1, MmWordsAssumption DEF OnHeap
  <2>2. a \div 8 >= 0 /\ a \div 8 <= MaxHeap \div 8 - 1
    BY <2>1
  <2> QED
    BY <2>1, <2>2 DEF Words
<1> QED
  BY <1>1

(* PUT changes one word.                                                   *)
LEMMA PutEffect ==
  ASSUME NEW m, MemShape(m), NEW a, OnHeap(a), NEW v \in Int
  PROVE  /\ MemShape(PUT(m, a, v))
         /\ PUT(m, a, v).brk = m.brk /\ PUT(m, a, v).lists = m.lists
         /\ GET(PUT(m, a, v), a) = v
         /\ \A c : OnHeap(c) /\ c # a => GET(PUT(m, a, v), c) = GET(m, c)
<1> DEFINE w == a \div 8
           M == [m.mem EXCEPT ![w] = v]
<1>1. w \in Words
  BY WordAddress
<1>2. PUT(m, a, v) = [m EXCEPT !.mem[w] = v]
  BY DEF PUT
<1> HIDE DEF w
<1>3. [m EXCEPT !.mem[w] = v] = [mem |-> M, brk |-> m.brk, lists |-> m.lists]
  <2>1. ASSUME NEW f, NEW k, NEW l
        PROVE  [[mem |-> f, brk |-> k, lists |-> l] EXCEPT !.mem[w] = v]
               = [mem |-> [f EXCEPT ![w] = v], brk |-> k, lists |-> l]
    OBVIOUS
  <2>2. m = [mem |-> m.mem, brk |-> m.brk, lists |-> m.lists]
    BY DEF MemShape
  <2> QED
    BY ONLY <2>1, <2>2
<1>4. M \in [Words -> Int] /\ M[w] = v /\ \A x \in Words : x # w => M[x] = m.mem[x]
  BY <1>1 DEF MemShape
<1>5. \A c : OnHeap(c) /\ c # a => c \div 8 \in Words /\ c \div 8 # w
  BY WordAddress DEF w
<1> HIDE DEF M
<1>6. PUT(m, a, v) = [mem |-> M, brk |-> m.brk, lists |-> m.lists]
  BY <1>2, <1>3
<1>7. GET(PUT(m, a, v), a) = v
  BY <1>6, <1>4 DEF GET, w
<1>8. ASSUME NEW c, OnHeap(c), c # a
      PROVE  GET(PUT(m, a, v), c) = GET(m, c)
  BY <1>4, <1>5, <1>6, <1>8 DEF GET
<1> QED
  BY <1>4, <1>6, <1>7, <1>8 DEF MemShape

(* Changing the head of a list changes nothing else.                       *)
LEMMA HeadEffect ==
  ASSUME NEW m, MemShape(m), NEW i \in Lists, NEW b \in Nat
  PROVE  LET g == [m EXCEPT !.lists[i] = b]
         IN  /\ MemShape(g) /\ g.brk = m.brk
             /\ g.lists[i] = b /\ \A j \in Lists : j # i => g.lists[j] = m.lists[j]
             /\ \A c : GET(g, c) = GET(m, c)
<1> DEFINE L == [m.lists EXCEPT ![i] = b]
<1>1. [m EXCEPT !.lists[i] = b] = [mem |-> m.mem, brk |-> m.brk, lists |-> L]
  BY DEF MemShape
<1>2. L \in [Lists -> Nat] /\ L[i] = b /\ \A j \in Lists : j # i => L[j] = m.lists[j]
  BY DEF MemShape
<1> HIDE DEF L
<1> QED
  BY <1>1, <1>2 DEF MemShape, GET

-----------------------------------------------------------------------------
(* What a memory represents *)

At(L, k) == IF k \in DOMAIN L THEN L[k] ELSE NULL

HeaderWord(c) == c.size + (IF c.alloc THEN 1 ELSE 0)

Chained(m, i, L) ==
  /\ m.lists[i] = At(L, 1)
  /\ \A k \in DOMAIN L : GET(m, L[k] + 8) = At(L, k + 1)

Represents(m, h) ==
  /\ MemShape(m)
  /\ m.brk = h.brk
  /\ \A b \in DOMAIN h.hdr : GET(m, b) = HeaderWord(h.hdr[b])
  /\ \A i \in Lists : Chained(m, i, h.lists[i])

(* Where blocks lie, and that no block is in two places of the lists; this *)
(* holds in the middle of a call too.                                      *)
IsSpot(b) == b \in Nat /\ b % 16 = 8 /\ b + 16 <= MaxHeap

Spaced(h) ==
  /\ B!HeapShape(h)
  /\ \A b \in DOMAIN h.hdr : IsSpot(b)
  /\ \A i \in Lists : \A k \in DOMAIN h.lists[i] : h.lists[i][k] \in DOMAIN h.hdr
  /\ \A i, j \in Lists : \A k \in DOMAIN h.lists[i], l \in DOMAIN h.lists[j] :
       h.lists[i][k] = h.lists[j][l] => i = j /\ k = l

(* The header and the next pointer of a block are two words, and those of  *)
(* no two blocks are the same.                                             *)
LEMMA SpotWords ==
  /\ \A b : IsSpot(b) => OnHeap(b) /\ OnHeap(b + 8)
  /\ \A b, c : IsSpot(b) /\ IsSpot(c) => b # c + 8
BY MmWordsAssumption DEF IsSpot, OnHeap

(* The blocks of a tiled heap, and so of every heap of the allocator, lie  *)
(* at such places, each in one list at most.                               *)
LEMMA TiledIsSpaced ==
  ASSUME NEW h, B!HeapShape(h), B!Tiled(h.brk, h.hdr), NEW X, B!ListsBut(h, X)
  PROVE  Spaced(h)
<1>1. ASSUME NEW b \in DOMAIN h.hdr
      PROVE  IsSpot(b)
  <2>1. /\ b \in Nat /\ h.hdr[b].size \in Nat /\ h.brk \in Nat /\ h.brk <= MaxHeap
        /\ h.hdr[b].size >= 16 /\ b % 16 = 8 /\ b + h.hdr[b].size <= h.brk
    BY MmWordsAssumption DEF B!Tiled, B!HeapShape
  <2> QED
    BY <2>1, MmWordsAssumption DEF IsSpot
<1>2. ASSUME NEW i \in Lists, NEW k \in DOMAIN h.lists[i]
      PROVE  /\ h.lists[i][k] \in DOMAIN h.hdr
             /\ get_list_index(h.hdr[h.lists[i][k]].size) = i
             /\ \A l \in DOMAIN h.lists[i] : h.lists[i][l] = h.lists[i][k] => l = k
  BY SameArithmetic DEF B!ListsBut, B!InItsList
<1> QED
  BY <1>1, <1>2 DEF Spaced

(* This holds between the calls.                                           *)
LEMMA HeapOKIsSpaced ==
  ASSUME NEW h, B!HeapOK(h)
  PROVE  Spaced(h)
BY TiledIsSpaced DEF B!HeapOK

-----------------------------------------------------------------------------
(* The helpers of mm.c on words and on blocks *)

(* g is h with another header at b, perhaps that of a new block.           *)
Reheaded(h, g, b) ==
  /\ B!HeapShape(g) /\ g.brk = h.brk /\ g.lists = h.lists
  /\ DOMAIN g.hdr = DOMAIN h.hdr \cup {b}
  /\ \A x \in DOMAIN h.hdr : x # b => g.hdr[x] = h.hdr[x]

(* Putting a header's word puts the header.                                *)
LEMMA HeaderPutRepresented ==
  ASSUME NEW m, NEW h, Represents(m, h), Spaced(h), NEW b, IsSpot(b),
         NEW g, Reheaded(h, g, b), HeaderWord(g.hdr[b]) \in Int
  PROVE  LET p == PUT(m, b, HeaderWord(g.hdr[b]))
         IN  /\ Represents(p, g) /\ Spaced(g)
             /\ \A c : OnHeap(c) /\ c # b => GET(p, c) = GET(m, c)
<1> DEFINE v == HeaderWord(g.hdr[b])
           p == PUT(m, b, v)
<1>1. b \in Nat /\ OnHeap(b)
  BY SpotWords DEF IsSpot
<1>3. /\ B!HeapShape(g) /\ g.brk = h.brk /\ g.lists = h.lists
      /\ DOMAIN g.hdr = DOMAIN h.hdr \cup {b}
      /\ \A x \in DOMAIN h.hdr : x # b => g.hdr[x] = h.hdr[x]
  BY DEF Reheaded
<1>4. /\ MemShape(p) /\ p.brk = m.brk /\ p.lists = m.lists
      /\ GET(p, b) = v /\ \A c : OnHeap(c) /\ c # b => GET(p, c) = GET(m, c)
  <2>1. v \in Int
    OBVIOUS
  <2> HIDE DEF v
  <2> QED
    BY <1>1, <2>1, PutEffect DEF Represents
<1> HIDE DEF p
<1>5. Spaced(g)
  BY <1>3 DEF Spaced
<1>6. ASSUME NEW x \in DOMAIN g.hdr
      PROVE  GET(p, x) = HeaderWord(g.hdr[x])
  <2>1. CASE x = b
    BY <2>1, <1>4
  <2>2. CASE x # b
    <3>1. x \in DOMAIN h.hdr /\ IsSpot(x)
      BY <2>2, <1>3 DEF Spaced
    <3>2. GET(m, x) = HeaderWord(h.hdr[x]) /\ g.hdr[x] = h.hdr[x] /\ GET(p, x) = GET(m, x)
      BY <2>2, <3>1, <1>3, <1>4, SpotWords DEF Represents
    <3> QED
      BY <3>2
  <2> QED
    BY <2>1, <2>2
<1>7. ASSUME NEW i \in Lists
      PROVE  Chained(p, i, g.lists[i])
  <2>1. Chained(m, i, h.lists[i])
    BY DEF Represents
  <2>2. ASSUME NEW k \in DOMAIN h.lists[i]
        PROVE  GET(p, h.lists[i][k] + 8) = GET(m, h.lists[i][k] + 8)
    <3>1. IsSpot(h.lists[i][k])
      BY DEF Spaced
    <3> QED
      BY <3>1, <1>4, SpotWords
  <2> QED
    BY <2>1, <2>2, <1>3, <1>4 DEF Chained
<1> QED
  BY <1>3, <1>4, <1>5, <1>6, <1>7 DEF Represents, p, v

(* PUT(b, PACK(n, 1)) and PUT(b, PACK(n, 0)) in particular.                *)
PutAllocated(h, b, n) == B!PutHeader(h, b, n, TRUE)
PutFree(h, b, n) == B!PutHeader(h, b, n, FALSE)

(* p and g are m and h with a header of size n written at b.               *)
HeaderWritten(m, h, p, g, b, n) ==
  /\ Represents(p, g) /\ Spaced(g) /\ Reheaded(h, g, b) /\ g.hdr[b].size = n
  /\ \A c : OnHeap(c) /\ c # b => GET(p, c) = GET(m, c)

(* That of a block handed out is,                                          *)
LEMMA PutAllocatedRepresented ==
  ASSUME NEW m, NEW h, Represents(m, h), Spaced(h), NEW b, IsSpot(b), NEW n \in Nat
  PROVE  HeaderWritten(m, h, PUT(m, b, n + 1), PutAllocated(h, b, n), b, n)
<1> DEFINE v == n + 1
           g == PutAllocated(h, b, n)
<1>1. b \in Nat /\ B!HeapShape(h)
  BY DEF IsSpot, Spaced
<1>2. B!HeaderPut(h, g, b, n, TRUE)
  BY <1>1, BlockAssumptions, B!PutHeaderEffect, Zenon DEF PutAllocated
<1> HIDE DEF g
<1>3. Reheaded(h, g, b) /\ g.hdr[b] = [size |-> n, alloc |-> TRUE]
  BY <1>2 DEF Reheaded, B!HeaderPut
<1>4. g.hdr[b].size = n /\ HeaderWord(g.hdr[b]) = v /\ v \in Int
  <2>1. g.hdr[b].size = n /\ g.hdr[b].alloc = TRUE
    BY <1>3
  <2>2. HeaderWord(g.hdr[b]) = n + 1
    BY <2>1 DEF HeaderWord
  <2> QED
    BY <2>1, <2>2
<1> HIDE DEF v
<1>5. /\ Represents(PUT(m, b, v), g) /\ Spaced(g)
      /\ \A c : OnHeap(c) /\ c # b => GET(PUT(m, b, v), c) = GET(m, c)
  BY <1>3, <1>4, HeaderPutRepresented
<1> QED
  BY <1>3, <1>4, <1>5 DEF HeaderWritten, v, g

(* and that of a block given back.                                         *)
LEMMA PutFreeRepresented ==
  ASSUME NEW m, NEW h, Represents(m, h), Spaced(h), NEW b, IsSpot(b), NEW n \in Nat
  PROVE  HeaderWritten(m, h, PUT(m, b, n + 0), PutFree(h, b, n), b, n)
<1> DEFINE v == n + 0
           g == PutFree(h, b, n)
<1>1. b \in Nat /\ B!HeapShape(h)
  BY DEF IsSpot, Spaced
<1>2. B!HeaderPut(h, g, b, n, FALSE)
  BY <1>1, BlockAssumptions, B!PutHeaderEffect, Zenon DEF PutFree
<1> HIDE DEF g
<1>3. Reheaded(h, g, b) /\ g.hdr[b] = [size |-> n, alloc |-> FALSE]
  BY <1>2 DEF Reheaded, B!HeaderPut
<1>4. g.hdr[b].size = n /\ HeaderWord(g.hdr[b]) = v /\ v \in Int
  <2>1. g.hdr[b].size = n /\ g.hdr[b].alloc = FALSE
    BY <1>3
  <2>2. HeaderWord(g.hdr[b]) = n + 0
    BY <2>1 DEF HeaderWord
  <2> QED
    BY <2>1, <2>2
<1> HIDE DEF v
<1>5. /\ Represents(PUT(m, b, v), g) /\ Spaced(g)
      /\ \A c : OnHeap(c) /\ c # b => GET(PUT(m, b, v), c) = GET(m, c)
  BY <1>3, <1>4, HeaderPutRepresented
<1> QED
  BY <1>3, <1>4, <1>5 DEF HeaderWritten, v, g

(* PushFree of a block that is in no list is Push.                         *)
LEMMA PushRepresented ==
  ASSUME NEW m, NEW h, Represents(m, h), Spaced(h), NEW b \in DOMAIN h.hdr,
         \A i \in Lists : \A k \in DOMAIN h.lists[i] : h.lists[i][k] # b
  PROVE  LET p == PushFree(m, b, get_list_index(h.hdr[b].size))
         IN  /\ Represents(p, B!Push(h, b)) /\ Spaced(B!Push(h, b))
             /\ \A c : OnHeap(c) /\ c # b + 8 => GET(p, c) = GET(m, c)
<1> DEFINE j == get_list_index(h.hdr[b].size)
           g == B!Push(h, b)
           old == h.lists[j]
           u == PUT(m, b + 8, m.lists[j])
           p == [u EXCEPT !.lists[j] = b]
<1>1. /\ B!HeapShape(g) /\ g.brk = h.brk /\ g.hdr = h.hdr /\ j \in Lists
      /\ g.lists[j] = B!Cons(b, old)
      /\ \A i \in Lists : i # j => g.lists[i] = h.lists[i]
  BY BlockAssumptions, SameArithmetic, B!PushEffect DEF Spaced
<1>2. IsSpot(b) /\ b \in Nat /\ OnHeap(b + 8) /\ old \in Seq(Nat)
  BY <1>1, SpotWords DEF Spaced, IsSpot, B!HeapShape
<1>4. PushFree(m, b, j) = p
  BY DEF PushFree
<1> HIDE DEF j, g, old
<1>3. /\ DOMAIN g.lists[j] = 1 .. Len(old) + 1 /\ DOMAIN old = 1 .. Len(old) /\ Len(old) \in Nat
      /\ g.lists[j][1] = b
      /\ \A k \in DOMAIN g.lists[j] : k # 1 => k - 1 \in DOMAIN old /\ g.lists[j][k] = old[k - 1]
  <2> DEFINE new == B!Cons(b, old)
  <2>1. /\ DOMAIN new = 1 .. Len(old) + 1 /\ new[1] = b
        /\ \A k \in DOMAIN new : k # 1 => k - 1 \in DOMAIN old /\ new[k] = old[k - 1]
    BY <1>2, BlockAssumptions, B!ConsElements
  <2>2. g.lists[j] = new
    BY <1>1
  <2> HIDE DEF new
  <2> QED
    BY <1>2, <2>1, <2>2
<1>5. m.lists[j] \in Nat /\ m.lists[j] = At(old, 1)
  BY <1>1 DEF Represents, MemShape, Chained, old
<1> HIDE DEF p
<1>6. /\ MemShape(u) /\ u.brk = m.brk /\ u.lists = m.lists
      /\ GET(u, b + 8) = m.lists[j] /\ \A c : OnHeap(c) /\ c # b + 8 => GET(u, c) = GET(m, c)
  <2> DEFINE w == m.lists[j]
  <2>1. MemShape(m) /\ w \in Int
    BY <1>5 DEF Represents
  <2> HIDE DEF w
  <2>2. LET q == PUT(m, b + 8, w)
        IN  /\ MemShape(q) /\ q.brk = m.brk /\ q.lists = m.lists
            /\ GET(q, b + 8) = w /\ \A c : OnHeap(c) /\ c # b + 8 => GET(q, c) = GET(m, c)
    <3>1. OnHeap(b + 8)
      BY <1>2
    <3> QED
      BY ONLY <2>1, <3>1, PutEffect
  <2> QED
    BY <2>2 DEF w
<1> HIDE DEF u
<1>7. /\ MemShape(p) /\ p.brk = m.brk
      /\ p.lists[j] = b /\ \A i \in Lists : i # j => p.lists[i] = m.lists[i]
      /\ GET(p, b + 8) = At(old, 1) /\ \A c : OnHeap(c) /\ c # b + 8 => GET(p, c) = GET(m, c)
  <2>1. /\ MemShape(p) /\ p.brk = u.brk
        /\ p.lists[j] = b /\ \A i \in Lists : i # j => p.lists[i] = u.lists[i]
        /\ \A c : GET(p, c) = GET(u, c)
    <3>1. MemShape(u) /\ j \in Lists /\ b \in Nat
      BY <1>1, <1>2, <1>6
    <3> QED
      BY ONLY <3>1, HeadEffect DEF p
  <2> QED
    BY <2>1, <1>5, <1>6
<1>8. \A x \in DOMAIN g.hdr : GET(p, x) = HeaderWord(g.hdr[x])
  <2> SUFFICES ASSUME NEW x \in DOMAIN h.hdr PROVE GET(p, x) = GET(m, x)
    BY <1>1 DEF Represents
  <2>1. IsSpot(x)
    BY DEF Spaced
  <2> QED
    BY <2>1, <1>2, <1>7, SpotWords
<1>9. ASSUME NEW i \in Lists, NEW k \in DOMAIN h.lists[i]
      PROVE  GET(p, h.lists[i][k] + 8) = At(h.lists[i], k + 1)
  <2>1. IsSpot(h.lists[i][k]) /\ h.lists[i][k] # b /\ h.lists[i][k] \in Nat
    BY DEF Spaced, IsSpot
  <2>2. GET(p, h.lists[i][k] + 8) = GET(m, h.lists[i][k] + 8)
    BY <2>1, <1>2, <1>7, SpotWords
  <2> QED
    BY <2>2 DEF Represents, Chained
<1>10. ASSUME NEW i \in Lists, i # j
       PROVE  Chained(p, i, g.lists[i])
  BY <1>1, <1>7, <1>9, <1>10 DEF Chained, Represents
<1>11. Chained(p, j, g.lists[j])
  <2>1. p.lists[j] = At(g.lists[j], 1)
    BY <1>3, <1>7 DEF At
  <2>2. ASSUME NEW k \in DOMAIN g.lists[j]
        PROVE  GET(p, g.lists[j][k] + 8) = At(g.lists[j], k + 1)
    <3>1. CASE k = 1
      <4>1. GET(p, g.lists[j][k] + 8) = At(old, 1)
        BY <3>1, <1>3, <1>7
      <4>2. At(old, 1) = At(g.lists[j], 2)
        BY <1>3 DEF At
      <4> QED
        BY <3>1, <4>1, <4>2
    <3>2. CASE k # 1
      <4>1. k - 1 \in DOMAIN old /\ g.lists[j][k] = old[k - 1]
        BY <3>2, <1>3
      <4>2. GET(p, old[k - 1] + 8) = At(old, k - 1 + 1)
        BY <4>1, <1>1, <1>9 DEF old
      <4>3. At(old, k - 1 + 1) = At(g.lists[j], k + 1)
        BY <4>1, <1>3 DEF At
      <4> QED
        BY <4>1, <4>2, <4>3
    <3> QED
      BY <3>1, <3>2
  <2> QED
    BY <2>1, <2>2 DEF Chained
<1>12. Represents(p, g)
  BY <1>1, <1>7, <1>8, <1>10, <1>11 DEF Represents
<1>13. ASSUME NEW i \in Lists, NEW k \in DOMAIN g.lists[i]
       PROVE  /\ i = j /\ k = 1 => g.lists[i][k] = b
              /\ ~ (i = j /\ k = 1) =>
                   LET l == IF i = j THEN k - 1 ELSE k
                   IN  l \in DOMAIN h.lists[i] /\ g.lists[i][k] = h.lists[i][l]
  BY <1>1, <1>3 DEF old
<1>14. ASSUME NEW i \in Lists, NEW k \in DOMAIN g.lists[i],
              NEW e \in Lists, NEW l \in DOMAIN g.lists[e],
              g.lists[i][k] = g.lists[e][l]
       PROVE  i = e /\ k = l
  <2>1. CASE (i = j /\ k = 1) \/ (e = j /\ l = 1)
    BY <2>1, <1>13, <1>14
  <2>2. CASE ~ (i = j /\ k = 1) /\ ~ (e = j /\ l = 1)
    <3> DEFINE x == IF i = j THEN k - 1 ELSE k
               y == IF e = j THEN l - 1 ELSE l
    <3>1. x \in DOMAIN h.lists[i] /\ y \in DOMAIN h.lists[e] /\ h.lists[i][x] = h.lists[e][y]
      BY <2>2, <1>13, <1>14
    <3>2. i = e /\ x = y
      BY <3>1 DEF Spaced
    <3>3. k \in Int /\ l \in Int
      <4>1. g.lists \in [Lists -> Seq(Nat)]
        BY <1>1, Zenon DEF B!HeapShape
      <4>2. ASSUME NEW f \in Seq(Nat), NEW n \in DOMAIN f PROVE n \in Int
        OBVIOUS
      <4> QED
        BY <4>1, <4>2
    <3> QED
      BY <3>2, <3>3
  <2> QED
    BY <2>1, <2>2
<1>15. \A i \in Lists : \A k \in DOMAIN g.lists[i] : g.lists[i][k] \in DOMAIN g.hdr
  BY <1>1, <1>13 DEF Spaced
<1>16. Spaced(g)
  BY <1>1, <1>14, <1>15 DEF Spaced
<1> QED
  BY <1>4, <1>7, <1>12, <1>16 DEF g, j

(* A header tells the size and the flag it was made of.                    *)
LEMMA HeaderRead ==
  ASSUME NEW m, NEW h, Represents(m, h), B!HeapShape(h), B!Tiled(h.brk, h.hdr),
         NEW b \in DOMAIN h.hdr
  PROVE  /\ h.hdr[b].size \in Nat /\ GET_SIZE(m, b) = h.hdr[b].size
         /\ GET_ALLOC(m, b) = 1 <=> h.hdr[b].alloc
<1>1. GET(m, b) = HeaderWord(h.hdr[b])
  BY DEF Represents
<1>2. h.hdr[b].size \in Nat /\ h.hdr[b].size % 16 = 0
  BY DEF B!HeapShape, B!Tiled
<1> DEFINE n == h.hdr[b].size
<1> HIDE DEF n
<1>3. CASE h.hdr[b].alloc
  <2>1. GET(m, b) = n + 1
    BY <1>1, <1>3 DEF HeaderWord, n
  <2>2. n \in Nat /\ n % 16 = 0
    BY <1>2 DEF n
  <2>3. 8 * ((n + 1) \div 8) = n /\ (n + 1) % 2 = 1
    BY <2>2
  <2>4. GET_SIZE(m, b) = n /\ GET_ALLOC(m, b) = 1
    BY <2>1, <2>3 DEF GET_SIZE, GET_ALLOC
  <2> QED
    BY <1>2, <1>3, <2>4 DEF n
<1>4. CASE ~ h.hdr[b].alloc
  <2>1. GET(m, b) = n + 0
    BY <1>1, <1>4 DEF HeaderWord, n
  <2>2. n \in Nat /\ n % 16 = 0
    BY <1>2 DEF n
  <2>3. 8 * (n \div 8) = n /\ n % 2 = 0 /\ n + 0 = n
    BY <2>2
  <2>4. GET_SIZE(m, b) = n /\ GET_ALLOC(m, b) = 0
    BY <2>1, <2>3 DEF GET_SIZE, GET_ALLOC
  <2> QED
    BY <1>2, <1>4, <2>4 DEF n
<1> QED
  BY <1>3, <1>4

(* A list is a sequence of addresses.                                      *)
LEMMA ListShape ==
  ASSUME NEW h, B!HeapShape(h), NEW i \in Lists
  PROVE  /\ h.lists[i] \in Seq(Nat) /\ Len(h.lists[i]) \in Nat
         /\ DOMAIN h.lists[i] = 1 .. Len(h.lists[i])
         /\ \A k \in DOMAIN h.lists[i] : h.lists[i][k] \in Nat
<1>1. h.lists[i] \in Seq(Nat)
  BY DEF B!HeapShape
<1>2. ASSUME NEW s \in Seq(Nat)
      PROVE  Len(s) \in Nat /\ DOMAIN s = 1 .. Len(s) /\ \A k \in DOMAIN s : s[k] \in Nat
  OBVIOUS
<1> QED
  BY <1>1, <1>2

(* The block a walk of a list remembers as the previous one.               *)
Before(L, k) == IF k = 1 THEN NULL ELSE L[k - 1]

(* Unlinking what a walk of list i stopped at takes it out of the list.    *)
LEMMA UnlinkRepresented ==
  ASSUME NEW m, NEW h, Represents(m, h), B!HeapOK(h),
         NEW i \in Lists, NEW k \in DOMAIN h.lists[i]
  PROVE  LET q == Unlink(m, Before(h.lists[i], k), h.lists[i][k])
             g == B!Unlink(h, i, k)
         IN  /\ Represents(q, g) /\ Spaced(g)
             /\ \A c : OnHeap(c) /\ (k # 1 => c # h.lists[i][k - 1] + 8) => GET(q, c) = GET(m, c)
<1> DEFINE L == h.lists[i]
           b == L[k]
           g == B!Unlink(h, i, k)
           new == g.lists[i]
           prev == Before(L, k)
           q == Unlink(m, prev, b)
           next == At(L, k + 1)
<1>1. Spaced(h) /\ B!HeapShape(h) /\ B!ListsBut(h, {}) /\ B!Tiled(h.brk, h.hdr)
  BY HeapOKIsSpaced DEF B!HeapOK
<1>2. L \in Seq(Nat) /\ DOMAIN L = 1 .. Len(L) /\ Len(L) \in Nat /\ k \in 1 .. Len(L)
      /\ \A l \in DOMAIN L : L[l] \in Nat
  BY <1>1, ListShape
<1>3. /\ B!HeapShape(g) /\ g.brk = h.brk /\ g.hdr = h.hdr
      /\ \A j \in Lists : j # i => g.lists[j] = h.lists[j]
      /\ new = B!RemoveAt(L, k)
  BY <1>1, BlockAssumptions, B!UnlinkEffect
<1> HIDE DEF g, new
<1>4. /\ DOMAIN new = 1 .. Len(L) - 1
      /\ \A l \in DOMAIN new : new[l] = IF l < k THEN L[l] ELSE L[l + 1]
  <2> HIDE DEF L
  <2>1. L \in Seq(Nat) /\ k \in DOMAIN L
    BY <1>2
  <2>2. /\ DOMAIN B!RemoveAt(L, k) = 1 .. Len(L) - 1
        /\ \A l \in DOMAIN B!RemoveAt(L, k) : B!RemoveAt(L, k)[l] = IF l < k THEN L[l] ELSE L[l + 1]
    BY <2>1, BlockAssumptions, B!RemoveAtElements
  <2> QED
    BY <1>3, <2>2
<1>5. Spaced(g)
  <2>1. B!ListsBut(g, {b})
    BY <1>1, BlockAssumptions, B!UnlinkKeepsLists DEF g
  <2> QED
    BY <1>1, <1>3, <2>1, TiledIsSpaced
<1>6. get_list_index(GET_SIZE(m, b)) = i /\ b \in DOMAIN h.hdr
  <2>1. B!InItsList(h, i, k)
    BY <1>1 DEF B!ListsBut
  <2>2. b \in DOMAIN h.hdr /\ get_list_index(h.hdr[b].size) = i
    BY <2>1, SameArithmetic DEF B!InItsList
  <2> QED
    BY <1>1, <2>2, HeaderRead
<1>7. NextFree(m, b) = next
  BY DEF Represents, Chained, NextFree
<1>8. next \in Nat
  BY <1>2 DEF At
<1>9. /\ \A j \in Lists : \A l \in DOMAIN h.lists[j] :
           /\ GET(m, h.lists[j][l] + 8) = At(h.lists[j], l + 1)
           /\ h.lists[j][l] \in Nat /\ OnHeap(h.lists[j][l] + 8) /\ IsSpot(h.lists[j][l])
           /\ k # 1 /\ ~ (j = i /\ l = k - 1) => h.lists[j][l] # L[k - 1]
      /\ MemShape(m) /\ m.brk = h.brk
      /\ \A j \in Lists : m.lists[j] = At(h.lists[j], 1)
  <2>1. ASSUME NEW j \in Lists, NEW l \in DOMAIN h.lists[j]
        PROVE  /\ GET(m, h.lists[j][l] + 8) = At(h.lists[j], l + 1)
               /\ h.lists[j][l] \in Nat /\ OnHeap(h.lists[j][l] + 8) /\ IsSpot(h.lists[j][l])
               /\ k # 1 /\ ~ (j = i /\ l = k - 1) => h.lists[j][l] # L[k - 1]
    <3>1. GET(m, h.lists[j][l] + 8) = At(h.lists[j], l + 1)
      BY DEF Represents, Chained
    <3>2. IsSpot(h.lists[j][l])
      BY <1>1 DEF Spaced
    <3>3. h.lists[j][l] \in Nat /\ OnHeap(h.lists[j][l] + 8)
      BY <3>2, SpotWords DEF IsSpot
    <3>4. ASSUME k # 1, ~ (j = i /\ l = k - 1) PROVE h.lists[j][l] # L[k - 1]
      <4>1. k - 1 \in DOMAIN h.lists[i]
        BY <1>2, <3>4
      <4> QED
        BY <1>1, <3>4, <4>1 DEF Spaced
    <3> QED
      BY <3>1, <3>2, <3>3, <3>4
  <2> QED
    BY <2>1 DEF Represents, Chained
<1>10. k # 1 => k - 1 \in DOMAIN L /\ prev = L[k - 1] /\ prev # NULL
  <2> SUFFICES ASSUME k # 1 PROVE k - 1 \in DOMAIN L /\ prev = L[k - 1] /\ prev # NULL
    OBVIOUS
  <2>1. k - 1 \in DOMAIN L
    BY <1>2
  <2>2. IsSpot(L[k - 1])
    BY <1>9, <2>1
  <2> QED
    BY <2>1, <2>2 DEF IsSpot, Before
<1> HIDE DEF b, L, next
<1>11. /\ MemShape(q) /\ q.brk = m.brk
       /\ \A j \in Lists : j # i => q.lists[j] = m.lists[j]
       /\ q.lists[i] = IF k = 1 THEN next ELSE m.lists[i]
       /\ k # 1 => GET(q, L[k - 1] + 8) = next
       /\ \A c : OnHeap(c) /\ (k # 1 => c # L[k - 1] + 8) => GET(q, c) = GET(m, c)
  <2>1. CASE k = 1
    <3>1. q = [m EXCEPT !.lists[i] = next]
      BY <2>1, <1>6, <1>7 DEF Unlink, Before
    <3>2. LET u == [m EXCEPT !.lists[i] = next]
          IN  /\ MemShape(u) /\ u.brk = m.brk
              /\ u.lists[i] = next /\ \A j \in Lists : j # i => u.lists[j] = m.lists[j]
              /\ \A c : GET(u, c) = GET(m, c)
      <4>1. MemShape(m)
        BY <1>9
      <4> QED
        BY <1>8, <4>1, HeadEffect
    <3> HIDE DEF q
    <3> QED
      BY <2>1, <3>1, <3>2
  <2>2. CASE k # 1
    <3>1. OnHeap(L[k - 1] + 8)
      BY <2>2, <1>9, <1>10 DEF L
    <3>2. q = PUT(m, L[k - 1] + 8, next)
      BY <2>2, <1>7, <1>10 DEF Unlink
    <3>3. LET u == PUT(m, L[k - 1] + 8, next)
          IN  /\ MemShape(u) /\ u.brk = m.brk /\ u.lists = m.lists
              /\ GET(u, L[k - 1] + 8) = next
              /\ \A c : OnHeap(c) /\ c # L[k - 1] + 8 => GET(u, c) = GET(m, c)
      <4> DEFINE a == L[k - 1] + 8
      <4>1. MemShape(m) /\ OnHeap(a) /\ next \in Int
        BY <1>8, <1>9, <3>1
      <4> HIDE DEF a
      <4>2. LET u == PUT(m, a, next)
            IN  /\ MemShape(u) /\ u.brk = m.brk /\ u.lists = m.lists
                /\ GET(u, a) = next
                /\ \A c : OnHeap(c) /\ c # a => GET(u, c) = GET(m, c)
        BY <4>1, PutEffect
      <4> QED
        BY <4>2 DEF a
    <3> HIDE DEF q
    <3> QED
      BY <2>2, <3>2, <3>3
  <2> QED
    BY <2>1, <2>2
<1> HIDE DEF q, prev
<1>12. \A x \in DOMAIN g.hdr : GET(q, x) = HeaderWord(g.hdr[x])
  <2> SUFFICES ASSUME NEW x \in DOMAIN h.hdr PROVE GET(q, x) = GET(m, x)
    BY <1>3 DEF Represents
  <2>1. IsSpot(x) /\ k # 1 => IsSpot(L[k - 1])
    BY <1>1, <1>9, <1>10 DEF Spaced, L
  <2> QED
    BY <2>1, <1>1, <1>11, SpotWords DEF Spaced
<1>13. ASSUME NEW j \in Lists, NEW l \in DOMAIN h.lists[j], ~ (j = i /\ l = k - 1)
       PROVE  GET(q, h.lists[j][l] + 8) = At(h.lists[j], l + 1)
  <2>1. /\ h.lists[j][l] \in Nat /\ OnHeap(h.lists[j][l] + 8)
        /\ GET(m, h.lists[j][l] + 8) = At(h.lists[j], l + 1)
    BY <1>9
  <2>2. k # 1 => L[k - 1] \in Nat /\ h.lists[j][l] # L[k - 1]
    BY <1>9, <1>10, <1>13, <1>2
  <2> QED
    BY <2>1, <2>2, <1>11
<1>14. ASSUME NEW j \in Lists, j # i
       PROVE  Chained(q, j, g.lists[j])
  BY <1>3, <1>9, <1>11, <1>13, <1>14 DEF Chained
<1>15. Chained(q, i, new)
  <2>1. q.lists[i] = At(new, 1)
    <3>1. CASE k = 1
      BY <3>1, <1>2, <1>4, <1>11 DEF At, next
    <3>2. CASE k # 1
      <4>1. 1 \in DOMAIN L /\ 1 \in DOMAIN new /\ new[1] = L[1]
        BY <3>2, <1>2, <1>4
      <4> QED
        BY <3>2, <4>1, <1>9, <1>11 DEF At, L
    <3> QED
      BY <3>1, <3>2
  <2>2. ASSUME NEW l \in DOMAIN new
        PROVE  GET(q, new[l] + 8) = At(new, l + 1)
    <3>1. l \in 1 .. Len(L) - 1 /\ Len(L) \in Nat /\ k \in 1 .. Len(L) /\ DOMAIN L = 1 .. Len(L)
      BY <1>2, <1>4
    <3>2. CASE l = k - 1
      <4>1. k # 1 /\ l < k
        BY <3>1, <3>2
      <4>2. new[l] = L[k - 1]
        BY <1>4, <3>2, <4>1
      <4>3. At(L, k + 1) = At(new, k)
        BY <1>4, <3>1, <3>2 DEF At
      <4>4. l + 1 = k
        BY <3>1, <3>2
      <4> QED
        BY <1>11, <4>1, <4>2, <4>3, <4>4 DEF next
    <3>3. CASE l < k - 1
      <4>1. new[l] = L[l] /\ l \in DOMAIN L /\ l # k - 1
        BY <1>4, <3>1, <3>3
      <4>2. GET(q, L[l] + 8) = At(L, l + 1)
        BY <4>1, <1>13 DEF L
      <4>3. At(L, l + 1) = At(new, l + 1)
        BY <1>4, <3>1, <3>3 DEF At
      <4> QED
        BY <4>1, <4>2, <4>3
    <3>4. CASE l > k - 1
      <4>1. new[l] = L[l + 1] /\ l + 1 \in DOMAIN L /\ l + 1 # k - 1
        BY <1>4, <3>1, <3>4
      <4>2. GET(q, L[l + 1] + 8) = At(L, l + 1 + 1)
        BY <4>1, <1>13 DEF L
      <4>3. At(L, l + 1 + 1) = At(new, l + 1)
        BY <1>4, <3>1, <3>4 DEF At
      <4> QED
        BY <4>1, <4>2, <4>3
    <3> QED
      BY <3>1, <3>2, <3>3, <3>4
  <2> QED
    BY <2>1, <2>2 DEF Chained
<1>16. Represents(q, g)
  BY <1>3, <1>9, <1>11, <1>12, <1>14, <1>15 DEF Represents, new
<1> QED
  BY <1>5, <1>11, <1>16 DEF q, g, L, b, prev

-----------------------------------------------------------------------------
(* Walks along a list *)

(* A list has no more blocks than the heap has room for.                   *)
LEMMA ListFits ==
  ASSUME NEW h, Spaced(h), NEW i \in Lists
  PROVE  Len(h.lists[i]) <= MaxBlocks
<1> DEFINE L == h.lists[i]
           n == Len(L)
           f == [k \in 1 .. n |-> (L[k] - 8) \div 16]
<1>1. n \in Nat /\ DOMAIN L = 1 .. n
  BY ListShape DEF Spaced
<1>2. MaxBlocks \in Nat
  BY MmWordsAssumption DEF MaxBlocks
<1>3. ASSUME NEW b, IsSpot(b)
      PROVE  (b - 8) \div 16 \in 0 .. MaxBlocks - 1 /\ b = 16 * ((b - 8) \div 16) + 8
  BY <1>3, MmWordsAssumption DEF IsSpot, MaxBlocks
<1>4. \A k \in 1 .. n : IsSpot(L[k]) /\ \A l \in 1 .. n : L[k] = L[l] => k = l
  BY <1>1 DEF Spaced
<1> HIDE DEF n, L
<1>5. f \in Injection(1 .. n, 0 .. MaxBlocks - 1)
  <2>1. \A k \in 1 .. n : f[k] \in 0 .. MaxBlocks - 1 /\ L[k] = 16 * f[k] + 8
    BY <1>3, <1>4
  <2>2. f \in [1 .. n -> 0 .. MaxBlocks - 1]
    BY <2>1
  <2> HIDE DEF f
  <2>3. \A k, l \in 1 .. n : f[k] = f[l] => k = l
    BY <1>4, <2>1
  <2> QED
    BY <2>2, <2>3 DEF Injection, IsInjective
<1> HIDE DEF f
<1>6. IsFiniteSet(0 .. MaxBlocks - 1) /\ Cardinality(0 .. MaxBlocks - 1) = MaxBlocks
  BY <1>2, FS_Interval, 0 \in Int, MaxBlocks - 1 \in Int
<1>7. Cardinality(1 .. n) = n
  BY <1>1, FS_Interval, 1 \in Int, n \in Int
<1>8. Cardinality(1 .. n) <= Cardinality(0 .. MaxBlocks - 1)
  BY <1>5, <1>6, FS_Injection
<1> QED
  BY <1>6, <1>7, <1>8 DEF n, L

(* What the walk has met after k steps. *)
Met(L, k) == [l \in 1 .. (IF k < Len(L) THEN k ELSE Len(L)) + 1 |-> At(L, l)]

(* The walk from the head of list i meets its blocks, in order, and NULL.  *)
LEMMA WalkMeetsList ==
  ASSUME NEW m, NEW h, Represents(m, h), Spaced(h), NEW i \in Lists
  PROVE  Walk(m, i) = Met(h.lists[i], Len(h.lists[i]))
<1> DEFINE L == h.lists[i]
           follow == [s \in Seq(Int) |->
                       IF Last(s) = NULL THEN s ELSE Append(s, NextFree(m, Last(s)))]
           Step(p) == [k \in 0 .. MaxBlocks |->
                        IF k = 0 THEN <<m.lists[i]>> ELSE follow[p[k - 1]]]
           path == CHOOSE p : p = Step(p)
           closed == [k \in 0 .. MaxBlocks |-> Met(L, k)]
<1>1. Walk(m, i) = path[MaxBlocks]
  BY DEF Walk
<1>2. /\ Len(L) \in Nat /\ DOMAIN L = 1 .. Len(L) /\ Len(L) <= MaxBlocks /\ MaxBlocks \in Nat
      /\ \A k \in DOMAIN L : L[k] \in Nat /\ L[k] # NULL /\ NextFree(m, L[k]) = At(L, k + 1)
  <2>1. Len(L) \in Nat /\ DOMAIN L = 1 .. Len(L) /\ Len(L) <= MaxBlocks
    BY ListShape, ListFits DEF Spaced
  <2>2. MaxBlocks \in Nat
    BY MmWordsAssumption DEF MaxBlocks
  <2>3. \A k \in DOMAIN L : IsSpot(L[k]) /\ NextFree(m, L[k]) = At(L, k + 1)
    BY DEF Spaced, Represents, Chained, NextFree
  <2>4. \A b : IsSpot(b) => b \in Nat /\ b # NULL
    BY DEF IsSpot
  <2> QED
    BY <2>1, <2>2, <2>3, <2>4
<1>3. m.lists[i] = At(L, 1)
  BY DEF Represents, Chained
<1> DEFINE n == Len(L)
<1>0. n \in Nat /\ n <= MaxBlocks /\ MaxBlocks \in Nat /\ DOMAIN L = 1 .. n
  BY <1>2
<1> HIDE DEF L, n
<1>4. \A k : At(L, k) \in Nat
  BY <1>2 DEF At
<1>5. ASSUME NEW k \in Nat
      PROVE  /\ Met(L, k) \in Seq(Int)
             /\ Len(Met(L, k)) = (IF k < n THEN k ELSE n) + 1
             /\ \A l \in 1 .. Len(Met(L, k)) : Met(L, k)[l] = At(L, l)
  <2> DEFINE e == (IF k < n THEN k ELSE n) + 1
             s == [l \in 1 .. e |-> At(L, l)]
  <2>1. e \in Nat
    BY <1>0
  <2> HIDE DEF e
  <2>2. s \in Seq(Int) /\ Len(s) = e /\ \A l \in 1 .. e : s[l] = At(L, l)
    <3>1. s \in [1 .. e -> Int]
      BY <1>4
    <3>2. DOMAIN s = 1 .. e /\ \A l \in 1 .. e : s[l] = At(L, l)
      OBVIOUS
    <3> HIDE DEF s
    <3>3. s \in Seq(Int)
      BY <2>1, <3>1, SeqDef
    <3> QED
      BY <2>1, <3>2, <3>3, LenProperties
  <2> QED
    BY <2>2 DEF Met, e, n
<1>6. Met(L, 0) = <<m.lists[i]>>
  <2>1. <<m.lists[i]>> \in Seq(Int) /\ Len(<<m.lists[i]>>) = 1 /\ <<m.lists[i]>>[1] = At(L, 1)
    BY <1>3, <1>4
  <2>2. Met(L, 0) \in Seq(Int) /\ Len(Met(L, 0)) = 1 /\ Met(L, 0)[1] = At(L, 1)
    <3>1. (IF 0 < n THEN 0 ELSE n) + 1 = 1 /\ 0 \in Nat /\ 1 \in 1 .. 1
      BY <1>0
    <3> QED
      BY <3>1, <1>5
  <2> QED
    BY <2>1, <2>2, SeqEqual
<1>7. ASSUME NEW k \in Nat
      PROVE  follow[Met(L, k)] = Met(L, k + 1)
  <2> DEFINE s == Met(L, k)
             t == Met(L, k + 1)
  <2>1. s \in Seq(Int) /\ t \in Seq(Int)
    BY <1>5, k + 1 \in Nat
  <2>2. follow[s] = IF Last(s) = NULL THEN s ELSE Append(s, NextFree(m, Last(s)))
    BY <2>1
  <2> HIDE DEF follow
  <2>3. CASE k < n
    <3>1. Len(s) = k + 1 /\ Last(s) = L[k + 1] /\ k + 1 \in DOMAIN L
      <4>1. (IF k < n THEN k ELSE n) + 1 = k + 1 /\ k + 1 \in 1 .. n /\ k + 1 \in 1 .. k + 1
        BY <1>0, <2>3
      <4>2. Len(s) = k + 1 /\ s[k + 1] = At(L, k + 1)
        BY <4>1, <1>5
      <4> QED
        BY <1>0, <4>1, <4>2 DEF Last, At
    <3>2. follow[s] = Append(s, At(L, k + 2))
      BY <1>2, <2>2, <3>1
    <3>3. Len(t) = k + 2 /\ \A l \in 1 .. k + 2 : t[l] = At(L, l)
      <4>1. (IF k + 1 < n THEN k + 1 ELSE n) + 1 = k + 2 /\ k + 1 \in Nat
        BY <1>0, <2>3
      <4> QED
        BY <4>1, <1>5
    <3>4. /\ Append(s, At(L, k + 2)) \in Seq(Int) /\ Len(Append(s, At(L, k + 2))) = k + 2
          /\ \A l \in 1 .. k + 1 : Append(s, At(L, k + 2))[l] = s[l]
          /\ Append(s, At(L, k + 2))[k + 2] = At(L, k + 2)
      <4> DEFINE z == At(L, k + 2)
      <4>1. z \in Int
        BY <1>4
      <4> HIDE DEF z, s
      <4>2. /\ Append(s, z) \in Seq(Int) /\ Len(Append(s, z)) = Len(s) + 1
            /\ \A l \in 1 .. Len(s) : Append(s, z)[l] = s[l]
            /\ Append(s, z)[Len(s) + 1] = z
        BY <2>1, <4>1, AppendProperties
      <4>3. Len(s) + 1 = k + 2
        BY <3>1
      <4> QED
        BY <3>1, <4>2, <4>3 DEF z
    <3>5. \A l \in 1 .. k + 1 : s[l] = At(L, l)
      BY <1>5, <3>1
    <3> HIDE DEF s, t
    <3>6. \A l \in 1 .. k + 2 : Append(s, At(L, k + 2))[l] = t[l]
      <4> SUFFICES ASSUME NEW l \in 1 .. k + 2 PROVE Append(s, At(L, k + 2))[l] = t[l]
        OBVIOUS
      <4>1. CASE l = k + 2
        BY <4>1, <3>3, <3>4
      <4>2. CASE l # k + 2
        <5>1. l \in 1 .. k + 1
          BY <4>2
        <5> QED
          BY <5>1, <3>3, <3>4, <3>5
      <4> QED
        BY <4>1, <4>2
    <3> QED
      BY <2>1, <3>2, <3>3, <3>4, <3>6, SeqEqual DEF s, t
  <2>4. CASE ~ k < n
    <3>1. Len(s) = n + 1 /\ Last(s) = NULL
      <4>1. (IF k < n THEN k ELSE n) + 1 = n + 1 /\ n + 1 \notin 1 .. n /\ n + 1 \in 1 .. n + 1
        BY <1>0, <2>4
      <4>2. Len(s) = n + 1 /\ s[n + 1] = At(L, n + 1)
        BY <4>1, <1>5
      <4> QED
        BY <1>0, <4>1, <4>2 DEF Last, At
    <3>2. s = t
      <4>1. (IF k < n THEN k ELSE n) = n /\ (IF k + 1 < n THEN k + 1 ELSE n) = n
        BY <1>0, <2>4
      <4> QED
        BY <4>1 DEF Met, n
    <3> QED
      BY <2>2, <3>1, <3>2
  <2> QED
    BY <2>3, <2>4
<1> HIDE DEF follow
<1>8. closed = Step(closed)
  <2> DEFINE next == Step(closed)
  <2>1. ASSUME NEW k \in 0 .. MaxBlocks
        PROVE  closed[k] = next[k]
    <3>1. closed[k] = Met(L, k) /\ next[k] = IF k = 0 THEN <<m.lists[i]>> ELSE follow[closed[k - 1]]
      OBVIOUS
    <3>2. CASE k = 0
      BY <3>1, <3>2, <1>6
    <3>3. CASE k # 0
      <4>1. k - 1 \in 0 .. MaxBlocks /\ k - 1 \in Nat /\ k - 1 + 1 = k
        BY <1>2, <3>3
      <4>2. closed[k - 1] = Met(L, k - 1)
        BY <4>1
      <4>3. follow[Met(L, k - 1)] = Met(L, k - 1 + 1)
        BY <4>1, <1>7
      <4> HIDE DEF closed, next
      <4> QED
        BY <3>1, <3>3, <4>1, <4>2, <4>3
    <3> QED
      BY <3>2, <3>3
  <2>2. DOMAIN closed = 0 .. MaxBlocks /\ DOMAIN next = 0 .. MaxBlocks
    OBVIOUS
  <2>3. closed = [k \in 0 .. MaxBlocks |-> closed[k]] /\ next = [k \in 0 .. MaxBlocks |-> next[k]]
    OBVIOUS
  <2> HIDE DEF closed, next
  <2>4. closed = next
    BY <2>1, <2>3
  <2> QED
    BY <2>4 DEF next
<1>9. path = Step(path)
  BY <1>8
<1> HIDE DEF path
<1>10. \A k \in 0 .. MaxBlocks : path[k] = IF k = 0 THEN <<m.lists[i]>> ELSE follow[path[k - 1]]
  BY <1>9
<1>11. ASSUME NEW k \in 0 .. MaxBlocks, path[k] # Met(L, k)
       PROVE  FALSE
  <2> DEFINE T == {l \in 0 .. MaxBlocks : path[l] # Met(L, l)}
  <2>1. T \in SUBSET Nat /\ T # {}
    BY <1>11
  <2>2. PICK l \in T : \A e \in T : l <= e
    BY <2>1, LeastNatural
  <2>3. l # 0
    BY <2>2, <1>2, <1>6, <1>10
  <2>4. l - 1 \in 0 .. MaxBlocks /\ l - 1 \in Nat /\ ~ (l <= l - 1) /\ l - 1 + 1 = l
    BY <2>2, <2>3, <1>2
  <2>5. path[l - 1] = Met(L, l - 1)
    BY <2>2, <2>4
  <2>6. path[l] = follow[Met(L, l - 1)]
    BY <1>10, <2>2, <2>3, <2>5
  <2>7. follow[Met(L, l - 1)] = Met(L, l - 1 + 1)
    BY <1>7, <2>4
  <2> QED
    BY <2>2, <2>4, <2>6, <2>7
<1>12. Met(L, MaxBlocks) = Met(L, Len(L))
  <2>1. (IF MaxBlocks < n THEN MaxBlocks ELSE n) = n /\ (IF n < n THEN n ELSE n) = n
    BY <1>0
  <2> QED
    BY <2>1 DEF Met, n
<1>13. path[MaxBlocks] = Met(L, MaxBlocks)
  BY <1>2, <1>11
<1> QED
  BY <1>1, <1>12, <1>13 DEF path, L

(* The first block of list i that has n bytes, or the end of the list.     *)
LEMMA FirstFitStops ==
  ASSUME NEW m, NEW h, Represents(m, h), B!HeapOK(h), NEW n \in Nat, NEW i \in Lists
  PROVE  LET L == h.lists[i]
         IN  \E k \in 1 .. Len(L) + 1 :
               /\ FirstFit(m, n, i) = [prev |-> Before(L, k), block |-> At(L, k)]
               /\ \A l \in 1 .. k - 1 : ~ B!Fits(h, n, i, l)
               /\ k \in DOMAIN L => B!Fits(h, n, i, k)
<1> DEFINE L == h.lists[i]
           met == Walk(m, i)
           Stops(k) == k = Len(met) \/ GET_SIZE(m, met[k]) >= n
           First(k) == Stops(k) /\ \A l \in 1 .. k - 1 : ~ Stops(l)
           e == CHOOSE k \in DOMAIN met : First(k)
<1>1. B!HeapShape(h) /\ B!Tiled(h.brk, h.hdr) /\ Spaced(h)
  BY HeapOKIsSpaced DEF B!HeapOK
<1>2. Len(L) \in Nat /\ DOMAIN L = 1 .. Len(L)
  BY <1>1, ListShape
<1>3. met = [l \in 1 .. Len(L) + 1 |-> At(L, l)]
  <2>1. met = Met(L, Len(L))
    BY <1>1, WalkMeetsList
  <2>2. (IF Len(L) < Len(L) THEN Len(L) ELSE Len(L)) = Len(L)
    OBVIOUS
  <2> QED
    BY <2>1, <2>2 DEF Met
<1>4. Len(met) = Len(L) + 1 /\ DOMAIN met = 1 .. Len(L) + 1
      /\ \A l \in 1 .. Len(L) + 1 : met[l] = At(L, l)
  <2> DEFINE x == Len(L) + 1
             s == [l \in 1 .. x |-> At(L, l)]
  <2>1. x \in Nat
    BY <1>2
  <2> HIDE DEF x, met
  <2>2. Len(s) = x /\ DOMAIN s = 1 .. x /\ \A l \in 1 .. x : s[l] = At(L, l)
    BY <2>1
  <2> QED
    BY <1>3, <2>2 DEF x
<1>5. \A l \in DOMAIN L : GET_SIZE(m, met[l]) >= n <=> B!Fits(h, n, i, l)
  <2> SUFFICES ASSUME NEW l \in DOMAIN L
               PROVE  GET_SIZE(m, L[l]) >= n <=> B!Fits(h, n, i, l)
    BY <1>2, <1>4 DEF At
  <2>1. L[l] \in DOMAIN h.hdr
    BY <1>1 DEF Spaced
  <2>2. GET_SIZE(m, L[l]) = h.hdr[L[l]].size
    BY <1>1, <2>1, HeaderRead
  <2> QED
    BY <2>2 DEF B!Fits
<1>6. FirstFit(m, n, i) = [prev |-> IF e = 1 THEN NULL ELSE met[e - 1], block |-> met[e]]
  BY DEF FirstFit, FitOn
<1> HIDE DEF met, L
<1>7. \E k \in DOMAIN met : First(k)
  <2> DEFINE T == {k \in DOMAIN met : Stops(k)}
  <2>1. T \in SUBSET Nat /\ Len(met) \in T
    BY <1>2, <1>4
  <2>2. PICK k \in T : \A l \in T : k <= l
    BY <2>1, LeastNatural
  <2>3. ASSUME NEW l \in 1 .. k - 1, Stops(l)
        PROVE  FALSE
    <3>1. l \in DOMAIN met /\ ~ (k <= l)
      BY <2>1, <2>2, <1>2, <1>4
    <3> QED
      BY <2>2, <2>3, <3>1
  <2> QED
    BY <2>2, <2>3
<1>8. e \in DOMAIN met /\ First(e)
  BY <1>7
<1> HIDE DEF e
<1>9. e \in 1 .. Len(L) + 1
  BY <1>4, <1>8
<1>10. FirstFit(m, n, i) = [prev |-> Before(L, e), block |-> At(L, e)]
  <2>1. met[e] = At(L, e)
    BY <1>4, <1>9
  <2>2. (IF e = 1 THEN NULL ELSE met[e - 1]) = Before(L, e)
    <3>1. CASE e = 1
      BY <3>1 DEF Before
    <3>2. CASE e # 1
      <4>1. e - 1 \in 1 .. Len(L) + 1 /\ e - 1 \in DOMAIN L
        BY <3>2, <1>2, <1>9
      <4> QED
        BY <3>2, <4>1, <1>4 DEF Before, At
    <3> QED
      BY <3>1, <3>2
  <2> QED
    BY <1>6, <2>1, <2>2
<1>11. ASSUME NEW l \in 1 .. e - 1
       PROVE  ~ B!Fits(h, n, i, l)
  <2>1. l \in DOMAIN L
    BY <1>2, <1>9
  <2> QED
    BY <2>1, <1>5, <1>8
<1>12. e \in DOMAIN L => B!Fits(h, n, i, e)
  <2> SUFFICES ASSUME e \in DOMAIN L PROVE B!Fits(h, n, i, e)
    OBVIOUS
  <2>1. e # Len(met)
    BY <1>2, <1>4
  <2> QED
    BY <2>1, <1>5, <1>8
<1> QED
  BY <1>9, <1>10, <1>11, <1>12 DEF L

(* At most one position is the one malloc's loops stop at.                 *)
LEMMA FirstFitUnique ==
  ASSUME NEW h, B!HeapShape(h), NEW n \in Nat,
         NEW i \in Lists, NEW k \in DOMAIN h.lists[i], B!IsFirstFit(h, n, i, k),
         NEW j \in Lists, NEW l \in DOMAIN h.lists[j], B!IsFirstFit(h, n, j, l)
  PROVE  i = j /\ k = l
<1>1. get_list_index(n) \in Int /\ SearchedLists \in Int
  <2>1. B!get_list_index(n) \in Lists
    BY BlockAssumptions, B!ListIndexType
  <2> QED
    BY <2>1, SameArithmetic, SizeClassAssumption
<1>2. /\ i >= get_list_index(n) /\ j >= get_list_index(n) /\ i \in Int /\ j \in Int
      /\ B!Fits(h, n, i, k) /\ B!Fits(h, n, j, l)
      /\ \A x \in 1 .. k - 1 : ~ B!Fits(h, n, i, x)
      /\ \A x \in 1 .. l - 1 : ~ B!Fits(h, n, j, x)
      /\ \A x \in get_list_index(n) .. i - 1 : \A y \in DOMAIN h.lists[x] : ~ B!Fits(h, n, x, y)
      /\ \A x \in get_list_index(n) .. j - 1 : \A y \in DOMAIN h.lists[x] : ~ B!Fits(h, n, x, y)
  BY <1>1, SameArithmetic DEF B!IsFirstFit
<1>3. i = j
  <2>1. ~ (i < j) /\ ~ (j < i)
    BY <1>1, <1>2
  <2> QED
    BY <1>2, <2>1
<1>4. k \in Nat /\ l \in Nat /\ k >= 1 /\ l >= 1
  <2>1. k \in 1 .. Len(h.lists[i]) /\ l \in 1 .. Len(h.lists[j])
    BY ListShape
  <2> QED
    BY <2>1
<1>5. ~ (k < l) /\ ~ (l < k)
  BY <1>2, <1>3, <1>4
<1> QED
  BY <1>3, <1>4, <1>5

(* The search over the words stops where that over the blocks does.        *)
LEMMA SearchFinds ==
  ASSUME NEW m, NEW h, Represents(m, h), B!HeapOK(h), NEW n \in Nat
  PROVE  LET fit == SearchLists(m, n)
         IN  \/ /\ fit.block = NULL
                /\ ~ \E i \in Lists : \E k \in DOMAIN h.lists[i] : B!IsFirstFit(h, n, i, k)
             \/ /\ fit.block # NULL
                /\ \E i \in Lists : \E k \in DOMAIN h.lists[i] :
                     /\ B!IsFirstFit(h, n, i, k)
                     /\ fit.prev = Before(h.lists[i], k) /\ fit.block = h.lists[i][k]
<1> DEFINE from == get_list_index(n)
           Visited == from .. SearchedLists - 1
           Found == {i \in Visited : FirstFit(m, n, i).block # NULL}
           fit == SearchLists(m, n)
<1>1. from \in Lists /\ from \in Nat /\ SearchedLists \in Nat /\ Visited \subseteq Lists
      /\ \A i \in Visited : from .. i - 1 \subseteq Visited
  <2>1. B!get_list_index(n) \in Lists
    BY BlockAssumptions, B!ListIndexType
  <2> QED
    BY <2>1, SameArithmetic, SizeClassAssumption
<1>2. B!HeapShape(h) /\ Spaced(h)
  BY HeapOKIsSpaced DEF B!HeapOK
<1>3. fit = IF Found = {} THEN [prev |-> NULL, block |-> NULL]
            ELSE FirstFit(m, n, CHOOSE i \in Found : \A j \in Found : i <= j)
  BY DEF SearchLists
<1>4. ASSUME NEW i \in Visited
      PROVE  i \in Found <=> \E k \in DOMAIN h.lists[i] : B!Fits(h, n, i, k)
  <2>1. i \in Lists
    BY <1>1
  <2>2. PICK k \in 1 .. Len(h.lists[i]) + 1 :
           /\ FirstFit(m, n, i) = [prev |-> Before(h.lists[i], k), block |-> At(h.lists[i], k)]
           /\ \A l \in 1 .. k - 1 : ~ B!Fits(h, n, i, l)
           /\ k \in DOMAIN h.lists[i] => B!Fits(h, n, i, k)
    BY <2>1, FirstFitStops
  <2>3. DOMAIN h.lists[i] = 1 .. Len(h.lists[i]) /\ Len(h.lists[i]) \in Nat
    BY <1>2, <2>1, ListShape
  <2>4. CASE k \in DOMAIN h.lists[i]
    <3>1. IsSpot(h.lists[i][k])
      BY <1>2, <2>1, <2>4 DEF Spaced
    <3>2. At(h.lists[i], k) # NULL
      BY <2>4, <3>1 DEF At, IsSpot
    <3> QED
      BY <2>2, <2>4, <3>2
  <2>5. CASE k \notin DOMAIN h.lists[i]
    <3>1. At(h.lists[i], k) = NULL
      BY <2>5 DEF At
    <3>2. k = Len(h.lists[i]) + 1 /\ 1 .. k - 1 = DOMAIN h.lists[i]
      BY <2>3, <2>5
    <3> QED
      BY <2>2, <3>1, <3>2
  <2> QED
    BY <2>4, <2>5
<1> HIDE DEF fit, Found
<1>5. CASE Found = {}
  <2>1. fit.block = NULL
    BY <1>3, <1>5
  <2>2. ASSUME NEW i \in Lists, NEW k \in DOMAIN h.lists[i], B!IsFirstFit(h, n, i, k)
        PROVE  FALSE
    <3>1. i \in Visited /\ B!Fits(h, n, i, k)
      BY <2>2, SameArithmetic DEF B!IsFirstFit
    <3> QED
      BY <1>4, <1>5, <3>1
  <2> QED
    BY <2>1, <2>2 DEF fit
<1>6. CASE Found # {}
  <2> DEFINE i == CHOOSE i \in Found : \A j \in Found : i <= j
  <2>1. Found \subseteq Visited /\ Found \in SUBSET Nat
    BY <1>1 DEF Found
  <2>2. i \in Found /\ \A j \in Found : i <= j
    <3>1. \E x \in Found : \A j \in Found : x <= j
      BY <1>6, <2>1, LeastNatural
    <3> QED
      BY <3>1
  <2>3. fit = FirstFit(m, n, i)
    BY <1>3, <1>6
  <2> HIDE DEF i
  <2>4. i \in Visited /\ i \in Lists /\ i \in Nat
    BY <1>1, <2>1, <2>2
  <2>5. PICK k \in 1 .. Len(h.lists[i]) + 1 :
           /\ FirstFit(m, n, i) = [prev |-> Before(h.lists[i], k), block |-> At(h.lists[i], k)]
           /\ \A l \in 1 .. k - 1 : ~ B!Fits(h, n, i, l)
           /\ k \in DOMAIN h.lists[i] => B!Fits(h, n, i, k)
    BY <2>4, FirstFitStops
  <2>6. At(h.lists[i], k) # NULL
    BY <2>2, <2>5 DEF Found
  <2>7. k \in DOMAIN h.lists[i] /\ At(h.lists[i], k) = h.lists[i][k]
    BY <2>6 DEF At
  <2>8. ASSUME NEW j \in from .. i - 1, NEW l \in DOMAIN h.lists[j], B!Fits(h, n, j, l)
        PROVE  FALSE
    <3>1. j \in Visited /\ ~ (i <= j)
      BY <1>1, <2>4
    <3> QED
      BY <1>4, <2>2, <2>8, <3>1
  <2>9. B!IsFirstFit(h, n, i, k)
    BY <2>4, <2>5, <2>7, <2>8, SameArithmetic DEF B!IsFirstFit
  <2> QED
    BY <2>3, <2>4, <2>5, <2>6, <2>7, <2>9 DEF fit
<1> QED
  BY <1>5, <1>6

-----------------------------------------------------------------------------
(* The calls of mm.c on words and on blocks *)

(* The words the client may use: those behind the header of a block that   *)
(* is allocated.                                                           *)
InPayload(h, c) ==
  \E b \in B!AllocatedIn(h) : b + 8 <= c /\ c < b + h.hdr[b].size

Kept(m, q, h) == \A c : OnHeap(c) /\ InPayload(h, c) => GET(q, c) = GET(m, c)

(* A word in use is in no block that is free, and below the break.         *)
LEMMA PayloadApart ==
  ASSUME NEW h, B!HeapOK(h), NEW c, OnHeap(c), InPayload(h, c)
  PROVE  /\ c < h.brk
         /\ \A b \in DOMAIN h.hdr : /\ c # b
                                    /\ ~ h.hdr[b].alloc => c < b \/ b + h.hdr[b].size <= c
<1>1. PICK a \in B!AllocatedIn(h) : a + 8 <= c /\ c < a + h.hdr[a].size
  BY DEF InPayload
<1>2. /\ a \in DOMAIN h.hdr /\ h.hdr[a].alloc /\ a + h.hdr[a].size <= h.brk
      /\ \A b \in DOMAIN h.hdr : /\ b \in Nat /\ h.hdr[b].size \in Nat
                                 /\ a < b => a + h.hdr[a].size <= b
                                 /\ b < a => b + h.hdr[b].size <= a
      /\ h.brk \in Nat
  <2>1. a \in DOMAIN h.hdr /\ h.hdr[a].alloc
    BY DEF B!AllocatedIn
  <2>2. B!HeapShape(h) /\ B!Tiled(h.brk, h.hdr)
    BY DEF B!HeapOK
  <2>3. h.brk \in Nat /\ \A b \in DOMAIN h.hdr : b \in Nat /\ h.hdr[b].size \in Nat
    BY <2>2, MmWordsAssumption DEF B!HeapShape
  <2> QED
    BY <2>1, <2>2, <2>3 DEF B!Tiled
<1>3. c \in Nat
  BY DEF OnHeap
<1> QED
  BY <1>1, <1>2, <1>3

(* split of a free block that is in no list changes words of that block    *)
(* only.                                                                   *)
LEMMA SplitRepresented ==
  ASSUME NEW m, NEW h, Represents(m, h), B!HeapShape(h), B!Tiled(h.brk, h.hdr),
         NEW b \in DOMAIN h.hdr, B!ListsBut(h, {b}),
         NEW n \in Nat, n % 16 = 0, n >= 16, n <= h.hdr[b].size
  PROVE  /\ Represents(split(m, n, b), B!split(h, b, n))
         /\ \A c : OnHeap(c) /\ (c < b \/ b + h.hdr[b].size <= c) =>
              GET(split(m, n, b), c) = GET(m, c)
<1> DEFINE s == h.hdr[b].size
           d == s - n
<1>1. Spaced(h)
  BY TiledIsSpaced
<1>2. /\ b \in Nat /\ s \in Nat /\ GET_SIZE(m, b) = s /\ IsSpot(b)
      /\ b + s <= MaxHeap /\ b % 16 = 8
  <2>1. b \in Nat /\ s \in Nat /\ b + s <= h.brk /\ h.brk <= MaxHeap /\ h.brk \in Nat
    BY MmWordsAssumption DEF B!HeapShape, B!Tiled
  <2>2. IsSpot(b) /\ GET_SIZE(m, b) = s
    BY <1>1, HeaderRead DEF Spaced
  <2> QED
    BY <2>1, <2>2, MmWordsAssumption DEF IsSpot
<1>3. d \in Nat
  BY <1>2
<1>6. s >= 16 /\ \A c \in DOMAIN h.hdr : b < c => b + s <= c
  BY DEF B!Tiled
<1> HIDE DEF s
<1>4. CASE ~ (d >= 32)
  <2> DEFINE p == PUT(m, b, s + 1)
             g == PutAllocated(h, b, s)
  <2>1. split(m, n, b) = p /\ B!split(h, b, n) = g
    BY <1>2, <1>4 DEF split, B!split, PACK, s, PutAllocated
  <2>2. Represents(p, g) /\ \A c : OnHeap(c) /\ c # b => GET(p, c) = GET(m, c)
    <3>1. HeaderWritten(m, h, p, g, b, s)
      BY <1>1, <1>2, PutAllocatedRepresented
    <3> QED
      BY <3>1 DEF HeaderWritten
  <2> HIDE DEF p, g
  <2>3. \A c : OnHeap(c) /\ (c < b \/ b + s <= c) => c # b
    BY <1>2, <1>6
  <2> QED
    BY <2>1, <2>2, <2>3 DEF s
<1>5. CASE d >= 32
  <2> DEFINE e == b + n
             m1 == PUT(m, b, n + 1)
             h1 == PutAllocated(h, b, n)
             m2 == PUT(m1, e, d + 0)
             h2 == PutFree(h1, e, d)
             j == get_list_index(d)
  <2>1. split(m, n, b) = PushFree(m2, e, j) /\ B!split(h, b, n) = B!Push(h2, e)
    BY <1>2, <1>5 DEF split, B!split, PACK, s, PutAllocated, PutFree
  <2>2. /\ Represents(m1, h1) /\ Spaced(h1) /\ Reheaded(h, h1, b)
        /\ \A c : OnHeap(c) /\ c # b => GET(m1, c) = GET(m, c)
    <3>1. HeaderWritten(m, h, m1, h1, b, n)
      BY <1>1, <1>2, PutAllocatedRepresented
    <3> HIDE DEF m1, h1
    <3> QED
      BY <3>1 DEF HeaderWritten
  <2> HIDE DEF m1, h1
  <2>4. IsSpot(e) /\ e \in Nat /\ OnHeap(e) /\ OnHeap(e + 8)
    <3>1. e \in Nat /\ e % 16 = 8 /\ e + 16 <= MaxHeap
      <4>1. b \in Nat /\ s \in Nat /\ b % 16 = 8 /\ b + s <= MaxHeap /\ s - n >= 32 /\ MaxHeap \in Nat
        BY <1>2, <1>5, MmWordsAssumption
      <4>2. (b + n) % 16 = 8
        BY ONLY <4>1, n \in Nat, n % 16 = 0
      <4> QED
        BY <4>1, <4>2
    <3> QED
      BY <3>1, SpotWords DEF IsSpot
  <2>5. /\ Represents(m2, h2) /\ Spaced(h2)
        /\ \A c : OnHeap(c) /\ c # e => GET(m2, c) = GET(m1, c)
        /\ Reheaded(h1, h2, e) /\ h2.hdr[e].size = d
    <3> HIDE DEF e, d
    <3>1. HeaderWritten(m1, h1, m2, h2, e, d)
      BY <1>3, <2>2, <2>4, PutFreeRepresented
    <3> HIDE DEF m2, h2
    <3> QED
      BY <3>1 DEF HeaderWritten
  <2> HIDE DEF m2, h2, e, j
  <2>7. e \in DOMAIN h2.hdr /\ h2.hdr[e].size = d /\ h2.lists = h.lists
    BY <2>2, <2>5 DEF Reheaded
  <2>8. \A i \in Lists : \A k \in DOMAIN h2.lists[i] : h2.lists[i][k] # e
    <3>1. e \notin DOMAIN h.hdr
      BY <1>2, <1>5, <1>6 DEF e
    <3> QED
      BY <1>1, <2>7, <3>1 DEF Spaced
  <2>9. LET p == PushFree(m2, e, j)
        IN  /\ Represents(p, B!Push(h2, e))
            /\ \A c : OnHeap(c) /\ c # e + 8 => GET(p, c) = GET(m2, c)
    BY <2>5, <2>7, <2>8, PushRepresented DEF j
  <2>10. \A c : OnHeap(c) /\ (c < b \/ b + s <= c) => c # b /\ c # e /\ c # e + 8
    <3> SUFFICES ASSUME NEW c \in Nat, c < b \/ b + s <= c PROVE c # b /\ c # e /\ c # e + 8
      BY DEF OnHeap
    <3> QED
      BY <1>2, <1>5 DEF e
  <2> QED
    BY <2>1, <2>2, <2>5, <2>9, <2>10, <2>4, <1>2 DEF s
<1> QED
  BY <1>4, <1>5

(* malloc on the words: the block and the pointer are those of malloc on   *)
(* the blocks, and no word in use changes.                                 *)
LEMMA MallocRepresented ==
  ASSUME NEW m, NEW h, Represents(m, h), B!HeapOK(h), NEW size \in Nat, Representable(size)
  PROVE  LET r == malloc(m, size)
             R == B!malloc(h, size)
         IN  Represents(r.mm, R.heap) /\ r.ptr = R.ptr /\ Kept(m, r.mm, h)
<1> DEFINE n == asize(size)
           fit == SearchLists(m, n)
           r == malloc(m, size)
           R == B!malloc(h, size)
           found == \E i \in Lists : \E k \in DOMAIN h.lists[i] : B!IsFirstFit(h, n, i, k)
<1>1. n \in Nat /\ n % 16 = 0 /\ n >= 16
  BY BlockAssumptions, B!AsizeHolds, SameArithmetic
<1>2. /\ B!HeapShape(h) /\ B!Tiled(h.brk, h.hdr) /\ Spaced(h) /\ B!ListsBut(h, {})
      /\ h.brk \in Nat /\ m.brk = h.brk
  BY HeapOKIsSpaced, MmWordsAssumption DEF B!HeapOK, B!HeapShape, Represents
<1>3. CASE size = 0
  BY <1>3 DEF malloc, B!malloc, Kept
<1>4. CASE size # 0 /\ found
  <2> DEFINE i == CHOOSE i \in Lists : \E k \in DOMAIN h.lists[i] : B!IsFirstFit(h, n, i, k)
             k == CHOOSE k \in DOMAIN h.lists[i] : B!IsFirstFit(h, n, i, k)
             b == h.lists[i][k]
  <2>1. R = [heap |-> B!split(B!Unlink(h, i, k), b, n), ptr |-> b + 8]
    BY <1>4, SameArithmetic DEF B!malloc
  <2>2. i \in Lists /\ k \in DOMAIN h.lists[i] /\ B!IsFirstFit(h, n, i, k)
    BY <1>4
  <2> HIDE DEF i, k
  <2>3. fit.block # NULL /\ fit.prev = Before(h.lists[i], k) /\ fit.block = b
    <3>1. /\ fit.block # NULL
          /\ \E x \in Lists : \E y \in DOMAIN h.lists[x] :
               /\ B!IsFirstFit(h, n, x, y)
               /\ fit.prev = Before(h.lists[x], y) /\ fit.block = h.lists[x][y]
      BY <1>1, <1>4, SearchFinds
    <3> QED
      BY <1>1, <1>2, <2>2, <3>1, FirstFitUnique
  <2> DEFINE q == Unlink(m, Before(h.lists[i], k), b)
             u == B!Unlink(h, i, k)
  <2>4. r = [mm |-> split(q, n, b), ptr |-> b + 8]
    BY <1>4, <2>3 DEF malloc
  <2>5. /\ Represents(q, u)
        /\ \A c : OnHeap(c) /\ (k # 1 => c # h.lists[i][k - 1] + 8) => GET(q, c) = GET(m, c)
    BY <2>2, UnlinkRepresented
  <2>6. /\ B!HeapShape(u) /\ u.brk = h.brk /\ u.hdr = h.hdr /\ B!ListsBut(u, {b})
    BY <1>2, <2>2, BlockAssumptions, B!UnlinkEffect, B!UnlinkKeepsLists
  <2>7. b \in DOMAIN h.hdr /\ ~ h.hdr[b].alloc /\ n <= h.hdr[b].size /\ IsSpot(b)
        /\ \A y \in DOMAIN h.lists[i] :
             h.lists[i][y] \in DOMAIN h.hdr /\ ~ h.hdr[h.lists[i][y]].alloc
    <3>1. h.hdr[b].size >= n
      BY <2>2 DEF B!IsFirstFit, B!Fits
    <3>2. \A y \in DOMAIN h.lists[i] :
            h.lists[i][y] \in DOMAIN h.hdr /\ ~ h.hdr[h.lists[i][y]].alloc
      BY <1>2, <2>2 DEF B!ListsBut, B!InItsList
    <3>3. b \in DOMAIN h.hdr /\ IsSpot(b)
      BY <1>2, <2>2 DEF Spaced
    <3>4. h.hdr[b].size \in Nat
      BY <1>2, <3>3 DEF B!HeapShape
    <3> QED
      BY <1>1, <2>2, <3>1, <3>2, <3>3, <3>4
  <2> HIDE DEF q, u, b
  <2>8. /\ Represents(split(q, n, b), B!split(u, b, n))
        /\ \A c : OnHeap(c) /\ (c < b \/ b + h.hdr[b].size <= c) =>
             GET(split(q, n, b), c) = GET(q, c)
    <3>1. /\ B!Tiled(u.brk, u.hdr) /\ b \in DOMAIN u.hdr /\ n <= u.hdr[b].size
          /\ u.hdr[b].size = h.hdr[b].size
      BY <1>2, <2>6, <2>7
    <3>2. /\ Represents(split(q, n, b), B!split(u, b, n))
          /\ \A c : OnHeap(c) /\ (c < b \/ b + u.hdr[b].size <= c) =>
               GET(split(q, n, b), c) = GET(q, c)
      <4> HIDE DEF n
      <4>1. Represents(q, u) /\ B!HeapShape(u) /\ B!ListsBut(u, {b})
        BY <2>5, <2>6
      <4> QED
        BY ONLY <1>1, <3>1, <4>1, SplitRepresented
    <3> QED
      BY <3>1, <3>2
  <2>9. Kept(m, split(q, n, b), h)
    <3> SUFFICES ASSUME NEW c, OnHeap(c), InPayload(h, c)
                 PROVE  GET(split(q, n, b), c) = GET(m, c)
      BY DEF Kept
    <3>1. c < b \/ b + h.hdr[b].size <= c
      BY <2>7, PayloadApart
    <3>2. k # 1 => c # h.lists[i][k - 1] + 8
      <4> SUFFICES ASSUME k # 1, c = h.lists[i][k - 1] + 8 PROVE FALSE
        OBVIOUS
      <4> DEFINE a == h.lists[i][k - 1]
      <4>1. k - 1 \in DOMAIN h.lists[i]
        <5>1. k \in 1 .. Len(h.lists[i]) /\ DOMAIN h.lists[i] = 1 .. Len(h.lists[i])
          BY <1>2, <2>2, ListShape
        <5> QED
          BY <5>1
      <4>2. a \in DOMAIN h.hdr /\ ~ h.hdr[a].alloc
        BY <2>7, <4>1
      <4>3. a \in Nat /\ h.hdr[a].size \in Nat /\ h.hdr[a].size >= 16
        BY <1>2, <4>2 DEF B!HeapShape, B!Tiled
      <4>4. c < a \/ a + h.hdr[a].size <= c
        BY <4>2, PayloadApart
      <4> QED
        BY <4>3, <4>4
    <3> QED
      BY <2>5, <2>8, <3>1, <3>2
  <2> QED
    BY <2>1, <2>4, <2>8, <2>9 DEF u
<1>5. CASE size # 0 /\ ~ found /\ SbrkOK(m, n)
  <2> DEFINE g == [h EXCEPT !.brk = @ + n]
             q == [m EXCEPT !.brk = @ + n]
  <2>1. fit.block = NULL
    BY <1>1, <1>5, SearchFinds
  <2>2. r = [mm |-> PUT(q, h.brk, n + 1), ptr |-> h.brk + 8]
    BY <1>2, <1>5, <2>1 DEF malloc, PACK
  <2>3. R = [heap |-> PutAllocated(g, h.brk, n), ptr |-> h.brk + 8]
    BY <1>2, <1>5, SameArithmetic DEF B!malloc, SbrkOK, B!SbrkOK, PutAllocated
  <2>4. /\ h.brk + n <= MaxHeap /\ h.brk + n \in Nat /\ h.brk >= 8 /\ h.brk % 16 = 8
    BY <1>1, <1>2, <1>5 DEF SbrkOK, B!HeapShape, B!Tiled
  <2>5. g = [brk |-> h.brk + n, hdr |-> h.hdr, lists |-> h.lists]
    BY <1>2 DEF B!HeapShape
  <2>6. q = [mem |-> m.mem, brk |-> m.brk + n, lists |-> m.lists]
    BY DEF Represents, MemShape
  <2> HIDE DEF g, q
  <2>7. Spaced(g)
    <3>1. B!HeapShape(g)
      <4>1. /\ g = [brk |-> g.brk, hdr |-> g.hdr, lists |-> g.lists]
            /\ g.brk = h.brk + n /\ g.hdr = h.hdr /\ g.lists = h.lists
        BY <2>5
      <4>2. g.brk \in 8 .. MaxHeap
        BY <4>1, <1>1, <1>2, <2>4
      <4> QED
        BY <1>2, <4>1, <4>2 DEF B!HeapShape
    <3> QED
      BY <1>2, <2>5, <3>1 DEF Spaced
  <2>8. Represents(q, g)
    <3>1. /\ g.brk = h.brk + n /\ g.hdr = h.hdr /\ g.lists = h.lists
          /\ q.mem = m.mem /\ q.lists = m.lists /\ q.brk = m.brk + n
      BY <2>5, <2>6
    <3>2. MemShape(q)
      BY <2>6, <3>1 DEF Represents, MemShape
    <3>3. \A c : GET(q, c) = GET(m, c)
      BY <3>1 DEF GET
    <3>4. \A b \in DOMAIN g.hdr : GET(q, b) = HeaderWord(g.hdr[b])
      BY <3>1, <3>3 DEF Represents
    <3>5. \A i \in Lists : Chained(q, i, g.lists[i])
      BY <3>1, <3>3 DEF Represents, Chained
    <3> QED
      BY <1>2, <3>1, <3>2, <3>4, <3>5 DEF Represents
  <2>9. IsSpot(h.brk)
    <3>1. h.brk + 16 <= MaxHeap
      BY <1>1, <1>2, <2>4, MmWordsAssumption
    <3> QED
      BY <1>2, <2>4, <3>1 DEF IsSpot
  <2> DEFINE p == PUT(q, h.brk, n + 1)
             w == PutAllocated(g, h.brk, n)
  <2>12. r.mm = p /\ R.heap = w /\ r.ptr = R.ptr
    BY <2>2, <2>3
  <2>10. Represents(p, w) /\ \A c : OnHeap(c) /\ c # h.brk => GET(p, c) = GET(q, c)
    <3> HIDE DEF n
    <3>1. HeaderWritten(q, g, p, w, h.brk, n)
      BY <1>1, <2>7, <2>8, <2>9, PutAllocatedRepresented
    <3> HIDE DEF p, w
    <3> QED
      BY <3>1 DEF HeaderWritten
  <2> HIDE DEF p, w, r, R
  <2>11. Kept(m, p, h)
    <3> SUFFICES ASSUME NEW c, OnHeap(c), InPayload(h, c)
                 PROVE  GET(p, c) = GET(m, c)
      BY DEF Kept
    <3>1. c \in Nat /\ c < h.brk
      BY PayloadApart DEF OnHeap
    <3>2. GET(q, c) = GET(m, c)
      BY <2>6 DEF GET
    <3> QED
      BY <1>2, <2>10, <3>1, <3>2
  <2> QED
    BY <2>10, <2>11, <2>12 DEF r, R
<1>6. CASE size # 0 /\ ~ found /\ ~ SbrkOK(m, n)
  <2>1. fit.block = NULL
    BY <1>1, <1>6, SearchFinds
  <2>2. r = [mm |-> m, ptr |-> NULL]
    BY <1>6, <2>1 DEF malloc
  <2>3. R = [heap |-> h, ptr |-> NULL]
    BY <1>2, <1>6, SameArithmetic DEF B!malloc, SbrkOK, B!SbrkOK
  <2> QED
    BY <2>2, <2>3 DEF Kept
<1> QED
  BY <1>3, <1>4, <1>5, <1>6

(* free of an allocated block changes the two words it puts there.         *)
LEMMA FreeRepresented ==
  ASSUME NEW m, NEW h, Represents(m, h), B!HeapOK(h),
         NEW p \in Nat, p - 8 \in B!AllocatedIn(h)
  PROVE  /\ Represents(free(m, p), B!free(h, p)) /\ B!HeapOK(B!free(h, p))
         /\ Kept(m, free(m, p), B!free(h, p))
<1> DEFINE b == p - 8
           n == h.hdr[b].size
           j == get_list_index(n)
           q == PUT(m, b, n + 0)
           g == PutFree(h, b, n)
           f == B!free(h, p)
<1>1. /\ Spaced(h) /\ B!HeapShape(h) /\ B!Tiled(h.brk, h.hdr) /\ B!ListsBut(h, {})
      /\ b \in DOMAIN h.hdr /\ h.hdr[b].alloc /\ IsSpot(b) /\ p # NULL
  <2>1. Spaced(h) /\ B!HeapShape(h) /\ B!Tiled(h.brk, h.hdr) /\ B!ListsBut(h, {})
    BY HeapOKIsSpaced DEF B!HeapOK
  <2>2. b \in DOMAIN h.hdr /\ h.hdr[b].alloc
    BY DEF B!AllocatedIn
  <2>3. IsSpot(b)
    BY <2>1, <2>2 DEF Spaced
  <2>4. p # NULL
    BY <2>3 DEF IsSpot
  <2> QED
    BY <2>1, <2>2, <2>3, <2>4
<1>2. n \in Nat /\ GET_SIZE(m, b) = n
  BY <1>1, HeaderRead
<1>3. free(m, p) = PushFree(q, b, j) /\ f = B!Push(g, b)
  BY <1>1, <1>2 DEF free, B!free, HDRP, PACK, PutFree
<1>4. /\ B!HeapOK(f) /\ B!AllocatedIn(f) = B!AllocatedIn(h) \ {b}
  BY BlockAssumptions, B!FreePreserves
<1> HIDE DEF b, n, f
<1>5. /\ Represents(q, g) /\ Spaced(g) /\ Reheaded(h, g, b) /\ g.hdr[b].size = n
      /\ \A c : OnHeap(c) /\ c # b => GET(q, c) = GET(m, c)
  <2>1. HeaderWritten(m, h, q, g, b, n)
    BY <1>1, <1>2, PutFreeRepresented
  <2> HIDE DEF q, g
  <2> QED
    BY <2>1 DEF HeaderWritten
<1> HIDE DEF q, g, j
<1>6. b \in DOMAIN g.hdr /\ g.lists = h.lists
  BY <1>1, <1>5 DEF Reheaded
<1>7. \A i \in Lists : \A k \in DOMAIN g.lists[i] : g.lists[i][k] # b
  BY <1>1, <1>6 DEF B!ListsBut, B!InItsList
<1>8. LET r == PushFree(q, b, j)
      IN  /\ Represents(r, B!Push(g, b))
          /\ \A c : OnHeap(c) /\ c # b + 8 => GET(r, c) = GET(q, c)
  BY <1>5, <1>6, <1>7, PushRepresented DEF j
<1>9. /\ b \in DOMAIN f.hdr /\ f.hdr[b].size \in Nat /\ f.hdr[b].size >= 16
      /\ ~ f.hdr[b].alloc
  <2>1. B!HeapShape(g)
    BY <1>5 DEF Spaced
  <2>2. f.hdr = g.hdr
    BY <1>3, <1>6, <2>1, BlockAssumptions, B!PushEffect
  <2>3. b \in DOMAIN f.hdr /\ b \notin B!AllocatedIn(f)
    BY <1>4, <1>6, <2>2
  <2>4. ~ f.hdr[b].alloc
    BY <2>3 DEF B!AllocatedIn
  <2>5. f.hdr[b].size \in Nat /\ f.hdr[b].size >= 16
    BY <1>4, <2>3 DEF B!HeapOK, B!HeapShape, B!Tiled
  <2> QED
    BY <2>3, <2>4, <2>5
<1>10. Kept(m, free(m, p), f)
  <2> SUFFICES ASSUME NEW c, OnHeap(c), InPayload(f, c)
               PROVE  GET(free(m, p), c) = GET(m, c)
    BY DEF Kept
  <2>1. c < b \/ b + f.hdr[b].size <= c
    BY <1>4, <1>9, PayloadApart
  <2>2. c # b /\ c # b + 8
    BY <2>1, <1>1, <1>9 DEF OnHeap, IsSpot
  <2> QED
    BY <1>3, <1>5, <1>8, <2>2
<1> QED
  BY <1>3, <1>4, <1>8, <1>10 DEF f

(* Bytes written from address a on go to the words from there on.          *)
LEMMA WriteEffect ==
  ASSUME NEW m, MemShape(m), NEW a \in Nat, a % 8 = 0, NEW n \in Nat,
         NEW f, \A k \in 0 .. n \div 8 - 1 : f[k] \in Int
  PROVE  LET q == WriteBytes(m, a, n, f)
         IN  /\ MemShape(q) /\ q.brk = m.brk /\ q.lists = m.lists
             /\ \A k \in 0 .. n \div 8 - 1 : OnHeap(a + 8 * k) => GET(q, a + 8 * k) = f[k]
             /\ \A c : OnHeap(c) /\ (c < a \/ a + n <= c) => GET(q, c) = GET(m, c)
<1> DEFINE q == WriteBytes(m, a, n, f)
           first == a \div 8
           whole == n \div 8
           F == [w \in Words |->
                  IF w - first \in 0 .. whole - 1 THEN f[w - first]
                  ELSE IF w - first = whole /\ n % 8 # 0 THEN PARTIAL
                  ELSE m.mem[w]]
<1>1. q = [mem |-> F, brk |-> m.brk, lists |-> m.lists]
  <2>1. q = [m EXCEPT !.mem = F]
    BY DEF WriteBytes
  <2> HIDE DEF F, q
  <2> QED
    BY <2>1 DEF MemShape
<1>2. /\ first \in Nat /\ whole \in Nat /\ a = 8 * first
      /\ 8 * whole <= n /\ n < 8 * whole + 8 /\ (n % 8 = 0 => n = 8 * whole)
  OBVIOUS
<1>3. \A w \in Words : w \in Nat
  BY MmWordsAssumption DEF Words
<1>4. F \in [Words -> Int]
  <2> SUFFICES ASSUME NEW w \in Words PROVE F[w] \in Int
    OBVIOUS
  <2>1. m.mem[w] \in Int /\ PARTIAL \in Int
    BY DEF MemShape, PARTIAL
  <2>2. F[w] = IF w - first \in 0 .. whole - 1 THEN f[w - first]
               ELSE IF w - first = whole /\ n % 8 # 0 THEN PARTIAL
               ELSE m.mem[w]
    OBVIOUS
  <2> HIDE DEF F, first
  <2> QED
    BY <2>1, <2>2
<1>5. ASSUME NEW c, OnHeap(c)
      PROVE  c \in Nat /\ c \div 8 \in Words /\ c = 8 * (c \div 8)
  <2>1. c \in Nat /\ c % 8 = 0 /\ c \div 8 \in Words
    BY <1>5, WordAddress DEF OnHeap
  <2> QED
    BY <2>1
<1>6. \A w \in Words :
        /\ w - first \in 0 .. whole - 1 => F[w] = f[w - first]
        /\ (w - first \notin 0 .. whole - 1 /\ ~ (w - first = whole /\ n % 8 # 0)) => F[w] = m.mem[w]
  OBVIOUS
<1> HIDE DEF F, first, whole, q
<1>7. ASSUME NEW k \in 0 .. whole - 1, OnHeap(a + 8 * k)
      PROVE  GET(q, a + 8 * k) = f[k]
  <2>1. k \in Nat /\ (a + 8 * k) \div 8 = first + k
    BY <1>2
  <2>2. first + k \in Words /\ (first + k) - first = k
    BY <1>2, <1>5, <1>7, <2>1
  <2>3. F[first + k] = f[k]
    BY <1>6, <2>2
  <2> QED
    BY <1>1, <2>1, <2>3 DEF GET
<1>8. ASSUME NEW c, OnHeap(c), c < a \/ a + n <= c
      PROVE  GET(q, c) = GET(m, c)
  <2> DEFINE w == c \div 8
  <2>1. c \in Nat /\ w \in Words /\ c = 8 * w /\ w \in Nat
    BY <1>3, <1>5, <1>8
  <2> HIDE DEF w
  <2>2. w - first \notin 0 .. whole - 1 /\ ~ (w - first = whole /\ n % 8 # 0)
    BY <1>2, <1>8, <2>1
  <2>3. F[w] = m.mem[w]
    BY <1>6, <2>1, <2>2
  <2> QED
    BY <1>1, <2>3 DEF GET, w
<1> QED
  BY <1>1, <1>4, <1>7, <1>8 DEF MemShape, q, whole

(* c is in the payload of another block than b.                            *)
Elsewhere(h, b, c) ==
  \E a \in B!AllocatedIn(h) \ {b} : a + 8 <= c /\ c < a + h.hdr[a].size

(* Bytes written into the payload of an allocated block are in no header,  *)
(* no next pointer and no other payload.                                   *)
LEMMA WriteRepresented ==
  ASSUME NEW m, NEW h, Represents(m, h), B!HeapOK(h), NEW b \in B!AllocatedIn(h),
         NEW n \in Nat, n + 8 <= h.hdr[b].size,
         NEW f, \A k \in 0 .. n \div 8 - 1 : f[k] \in Int
  PROVE  LET q == WriteBytes(m, b + 8, n, f)
         IN  /\ Represents(q, h)
             /\ \A k \in 0 .. n \div 8 - 1 : GET(q, b + 8 + 8 * k) = f[k]
             /\ \A c : OnHeap(c) /\ Elsewhere(h, b, c) => GET(q, c) = GET(m, c)
<1> DEFINE q == WriteBytes(m, b + 8, n, f)
<1>1. /\ Spaced(h) /\ B!HeapShape(h) /\ B!Tiled(h.brk, h.hdr) /\ B!ListsBut(h, {})
      /\ b \in DOMAIN h.hdr /\ h.hdr[b].alloc /\ IsSpot(b)
  <2>1. Spaced(h) /\ B!HeapShape(h) /\ B!Tiled(h.brk, h.hdr) /\ B!ListsBut(h, {})
    BY HeapOKIsSpaced DEF B!HeapOK
  <2>2. b \in DOMAIN h.hdr /\ h.hdr[b].alloc
    BY DEF B!AllocatedIn
  <2> QED
    BY <2>1, <2>2 DEF Spaced
<1>2. /\ b \in Nat /\ b % 16 = 8 /\ h.hdr[b].size \in Nat /\ b + h.hdr[b].size <= MaxHeap
      /\ \A x \in DOMAIN h.hdr : /\ x \in Nat /\ h.hdr[x].size \in Nat /\ h.hdr[x].size >= 16
                                 /\ x < b => x + h.hdr[x].size <= b
                                 /\ b < x => b + h.hdr[b].size <= x
  <2>1. h.brk <= MaxHeap /\ h.brk \in Nat
    BY <1>1, MmWordsAssumption DEF B!HeapShape
  <2>2. \A x \in DOMAIN h.hdr : /\ x \in Nat /\ h.hdr[x].size \in Nat /\ h.hdr[x].size >= 16
                                /\ x < b => x + h.hdr[x].size <= b
                                /\ b < x => b + h.hdr[b].size <= x
    BY <1>1 DEF B!HeapShape, B!Tiled
  <2>3. b % 16 = 8 /\ b + h.hdr[b].size <= h.brk
    BY <1>1 DEF B!Tiled
  <2> QED
    BY <1>1, <2>1, <2>2, <2>3, MmWordsAssumption
<1>3. b + 8 \in Nat /\ (b + 8) % 8 = 0
  BY <1>2
<1>4. /\ MemShape(q) /\ q.brk = m.brk /\ q.lists = m.lists
      /\ \A k \in 0 .. n \div 8 - 1 : OnHeap(b + 8 + 8 * k) => GET(q, b + 8 + 8 * k) = f[k]
      /\ \A c : OnHeap(c) /\ (c < b + 8 \/ b + 8 + n <= c) => GET(q, c) = GET(m, c)
  <2> DEFINE a == b + 8
  <2>1. MemShape(m) /\ a \in Nat /\ a % 8 = 0
    BY <1>3 DEF Represents
  <2> HIDE DEF a
  <2>2. LET r == WriteBytes(m, a, n, f)
        IN  /\ MemShape(r) /\ r.brk = m.brk /\ r.lists = m.lists
            /\ \A k \in 0 .. n \div 8 - 1 : OnHeap(a + 8 * k) => GET(r, a + 8 * k) = f[k]
            /\ \A c : OnHeap(c) /\ (c < a \/ a + n <= c) => GET(r, c) = GET(m, c)
    BY <2>1, WriteEffect
  <2> QED
    BY <2>2 DEF a
<1> HIDE DEF q
<1>5. ASSUME NEW x \in DOMAIN h.hdr
      PROVE  GET(q, x) = GET(m, x) /\ (x # b => GET(q, x + 8) = GET(m, x + 8))
  <2>1. OnHeap(x) /\ OnHeap(x + 8)
    BY <1>1, SpotWords DEF Spaced
  <2>2. x < b + 8 \/ b + 8 + n <= x
    BY <1>2
  <2>3. x # b => x + 8 < b + 8 \/ b + 8 + n <= x + 8
    BY <1>2
  <2> QED
    BY <1>4, <2>1, <2>2, <2>3
<1>6. \A i \in Lists : \A k \in DOMAIN h.lists[i] :
        h.lists[i][k] \in DOMAIN h.hdr /\ h.lists[i][k] # b
  BY <1>1 DEF B!ListsBut, B!InItsList
<1>7. Represents(q, h)
  <2>1. \A x \in DOMAIN h.hdr : GET(q, x) = HeaderWord(h.hdr[x])
    BY <1>5 DEF Represents
  <2>2. \A i \in Lists : Chained(q, i, h.lists[i])
    BY <1>4, <1>5, <1>6 DEF Represents, Chained
  <2> QED
    BY <1>4, <2>1, <2>2 DEF Represents
<1>8. ASSUME NEW k \in 0 .. n \div 8 - 1
      PROVE  GET(q, b + 8 + 8 * k) = f[k]
  <2>1. k \in Nat /\ 8 * k + 8 <= n
    OBVIOUS
  <2>2. b + 8 + 8 * k \in Nat /\ (b + 8 + 8 * k) % 8 = 0 /\ b + 8 + 8 * k + 8 <= MaxHeap
    BY <1>2, <2>1, MmWordsAssumption
  <2> QED
    BY <1>4, <2>2 DEF OnHeap
<1>9. ASSUME NEW c, OnHeap(c), Elsewhere(h, b, c)
      PROVE  GET(q, c) = GET(m, c)
  <2>1. PICK a \in B!AllocatedIn(h) \ {b} : a + 8 <= c /\ c < a + h.hdr[a].size
    BY <1>9 DEF Elsewhere
  <2>2. a \in DOMAIN h.hdr /\ a # b /\ c \in Nat
    BY <1>9, <2>1 DEF B!AllocatedIn, OnHeap
  <2>3. c < b + 8 \/ b + 8 + n <= c
    BY <1>2, <2>1, <2>2
  <2> QED
    BY <1>4, <1>9, <2>3
<1> QED
  BY <1>7, <1>8, <1>9 DEF q

-----------------------------------------------------------------------------
(* The heap that the words spell *)

(* Of the addresses below the break, the blocks are the first one and      *)
(* those where another block ends.                                         *)
LEMMA BlocksAdjoin ==
  ASSUME NEW h, B!HeapOK(h), NEW a \in Nat
  PROVE  a \in DOMAIN h.hdr <=>
           /\ a < h.brk
           /\ a = 8 \/ \E b \in DOMAIN h.hdr : b < a /\ b + h.hdr[b].size = a
<1> DEFINE D == DOMAIN h.hdr
           brk == h.brk
           sz(b) == h.hdr[b].size
<1>1. /\ brk \in Nat /\ brk >= 8
      /\ \A b \in D : /\ b \in Nat /\ sz(b) \in Nat /\ sz(b) >= 16 /\ b % 16 = 8
                      /\ b + sz(b) \in D \cup {brk} /\ b + sz(b) <= brk
      /\ \A b, c \in D : b < c => b + sz(b) <= c
      /\ brk # 8 => 8 \in D
  <2>1. brk \in Nat /\ brk >= 8 /\ \A b \in D : b \in Nat /\ sz(b) \in Nat
    BY MmWordsAssumption DEF B!HeapOK, B!HeapShape
  <2> QED
    BY <2>1 DEF B!HeapOK, B!Tiled
<1> HIDE DEF D, brk, sz
<1>2. ASSUME a \in D
      PROVE  a < brk /\ (a = 8 \/ \E b \in D : b < a /\ b + sz(b) = a)
  <2>1. a < brk
    BY <1>1, <1>2
  <2>2. CASE a = 8
    BY <2>1, <2>2
  <2>3. CASE a # 8
    <3>1. 8 < a /\ 8 \in D
      BY <1>1, <1>2, <2>1, <2>3
    <3> DEFINE T == {a - b : b \in {x \in D : x < a}}
    <3>2. T \in SUBSET Nat /\ T # {}
      BY <1>1, <3>1
    <3>3. PICK t \in T : \A s \in T : t <= s
      BY <3>2, LeastNatural
    <3>4. PICK b \in D : b < a /\ t = a - b
      OBVIOUS
    <3> HIDE DEF T
    <3>5. \A x \in D : x < a => x <= b
      <4> SUFFICES ASSUME NEW x \in D, x < a PROVE x <= b
        OBVIOUS
      <4>1. a - x \in T
        BY DEF T
      <4>2. x \in Nat /\ b \in Nat
        BY <1>1
      <4> QED
        BY <3>3, <3>4, <4>1, <4>2
    <3>6. b + sz(b) <= a /\ b + sz(b) \in D \cup {brk} /\ b < b + sz(b) /\ b + sz(b) \in Nat /\ b \in Nat
      BY <1>1, <1>2, <3>4
    <3>7. b + sz(b) = a
      <4>1. CASE b + sz(b) = brk
        BY <4>1, <2>1, <3>6, <1>1
      <4>2. CASE b + sz(b) \in D /\ b + sz(b) < a
        BY <4>2, <3>5, <3>6
      <4> QED
        BY <4>1, <4>2, <3>6
    <3> QED
      BY <2>1, <3>4, <3>7
  <2> QED
    BY <2>2, <2>3
<1>3. ASSUME a < brk, a = 8 \/ \E b \in D : b < a /\ b + sz(b) = a
      PROVE  a \in D
  BY <1>1, <1>3
<1> QED
  BY <1>2, <1>3 DEF D, brk, sz

(* Walking the headers meets the blocks of the heap and nothing else.      *)
LEMMA BlocksMet ==
  ASSUME NEW m, NEW h, Represents(m, h), B!HeapOK(h)
  PROVE  BlocksOf(m) = DOMAIN h.hdr
<1> DEFINE D == DOMAIN h.hdr
           Meets(f, a) == /\ a < m.brk
                          /\ \/ a = WSIZE
                             \/ \E b \in Spots : b < a /\ b + GET_SIZE(m, b) = a /\ f[b]
           Step(f) == [a \in Spots |-> Meets(f, a)]
           met == CHOOSE f : f = Step(f)
           closed == [a \in Spots |-> a \in D]
<1>1. BlocksOf(m) = {a \in Spots : met[a]}
  BY DEF BlocksOf
<1>2. Spots \subseteq Nat /\ D \subseteq Spots
  <2>1. MaxBlocks \in Nat /\ MaxHeap \in Nat
    BY MmWordsAssumption DEF MaxBlocks
  <2>2. ASSUME NEW b, IsSpot(b)
        PROVE  b \in Spots
    <3>1. b \in Nat /\ b = 16 * (b \div 16) + 8 /\ b + 16 <= MaxHeap
      BY <2>2 DEF IsSpot
    <3>2. b \div 16 \in 0 .. MaxBlocks - 1
      BY <2>1, <3>1 DEF MaxBlocks
    <3> QED
      BY <3>1, <3>2 DEF Spots
  <2>3. \A b \in D : IsSpot(b)
    BY HeapOKIsSpaced DEF Spaced
  <2> QED
    BY <2>1, <2>2, <2>3 DEF Spots
<1>3. \A b \in D : GET_SIZE(m, b) = h.hdr[b].size
  BY HeaderRead DEF B!HeapOK
<1>4. m.brk = h.brk
  BY DEF Represents
(* What a function says of the addresses below a decides what Meets says   *)
(* of a.                                                                   *)
<1>5. ASSUME NEW f, NEW a \in Spots, \A b \in Spots : b < a => (f[b] <=> b \in D)
      PROVE  Meets(f, a) <=> a \in D
  <2>1. Meets(f, a) <=> /\ a < h.brk
                        /\ a = 8 \/ \E b \in D : b < a /\ b + h.hdr[b].size = a
    BY <1>2, <1>3, <1>4, <1>5, Zenon
  <2>2. a \in Nat
    BY <1>2
  <2> QED
    BY <2>1, <2>2, BlocksAdjoin, Zenon
<1>6. closed = Step(closed)
  <2>1. ASSUME NEW a \in Spots
        PROVE  (a \in D) = Meets(closed, a)
    <3>1. \A b \in Spots : b < a => (closed[b] <=> b \in D)
      BY Zenon
    <3> HIDE DEF closed, Meets
    <3>2. Meets(closed, a) <=> a \in D
      BY <1>5, <3>1, Zenon
    <3>3. Meets(closed, a) \in BOOLEAN
      BY SMT DEF Meets
    <3>4. (a \in D) \in BOOLEAN
      BY SMT
    <3> QED
      BY <3>2, <3>3, <3>4, SMT
  <2> DEFINE g == Step(closed)
  <2>2. g = [a \in Spots |-> Meets(closed, a)]
    BY Zenon
  <2>3. closed = [a \in Spots |-> a \in D]
    BY Zenon
  <2> HIDE DEF closed, Meets, g
  <2>4. [a \in Spots |-> a \in D] = [a \in Spots |-> Meets(closed, a)]
    BY <2>1, Zenon
  <2>5. closed = g
    BY <2>2, <2>3, <2>4, Zenon
  <2> QED
    BY <2>5, Zenon DEF g
<1>7. met = Step(met)
  BY <1>6, Zenon
<1> HIDE DEF met
<1>8. \A a \in Spots : met[a] = Meets(met, a)
  BY <1>7, Zenon
<1> HIDE DEF Meets
<1>9. \A a \in Spots : met[a] <=> a \in D
  <2> DEFINE T == {a \in Spots : ~ (met[a] <=> a \in D)}
  <2> SUFFICES ASSUME T # {} PROVE FALSE
    BY Zenon
  <2>1. T \in SUBSET Nat
    BY <1>2, Zenon
  <2>2. PICK a \in T : \A b \in T : a <= b
    BY <2>1, LeastNatural, Zenon
  <2>3. a \in Spots /\ a \in Nat
    BY <2>1, Zenon
  <2>4. ASSUME NEW b \in Spots, b < a
        PROVE  b \notin T
    <3> HIDE DEF T
    <3>1. b \in Nat
      BY <1>2
    <3>2. ~ (a <= b)
      BY <2>3, <2>4, <3>1
    <3> QED
      BY <2>2, <3>2
  <2>5. \A b \in Spots : b < a => (met[b] <=> b \in D)
    BY <2>4, Zenon
  <2>6. Meets(met, a) <=> a \in D
    BY <1>5, <2>3, <2>5, Zenon
  <2>7. met[a] <=> a \in D
    BY <1>8, <2>3, <2>6, Zenon
  <2> QED
    BY <2>7, Zenon
<1> QED
  BY <1>1, <1>2, <1>9, Zenon

(* What stands before the end of a walk are the list's blocks.             *)
LEMMA ListMet ==
  ASSUME NEW m, NEW h, Represents(m, h), Spaced(h), NEW i \in Lists
  PROVE  ListOf(m, i) = h.lists[i]
<1> DEFINE L == h.lists[i]
           n == Len(L)
           met == [l \in 1 .. n + 1 |-> At(L, l)]
<1>1. L \in Seq(Nat) /\ n \in Nat /\ DOMAIN L = 1 .. n /\ \A k \in DOMAIN L : L[k] \in Nat
  BY ListShape DEF Spaced
<1>2. Walk(m, i) = met
  <2>1. Walk(m, i) = Met(L, n)
    BY WalkMeetsList
  <2>2. (IF n < n THEN n ELSE n) = n
    OBVIOUS
  <2> QED
    BY <2>1, <2>2 DEF Met
<1> HIDE DEF n, L
<1>3. met \in Seq(Int) /\ Len(met) = n + 1 /\ \A k \in 1 .. n : met[k] = L[k]
  <2>1. \A k : At(L, k) \in Int
    BY <1>1 DEF At
  <2>2. met \in [1 .. n + 1 -> Int] /\ n + 1 \in Nat
    BY <1>1, <2>1
  <2>3. \A k \in 1 .. n : met[k] = L[k]
    BY <1>1 DEF At
  <2>4. DOMAIN met = 1 .. n + 1
    OBVIOUS
  <2> HIDE DEF met
  <2>5. met \in Seq(Int)
    BY <2>2, SeqDef
  <2> QED
    BY <1>1, <2>2, <2>3, <2>4, <2>5, LenProperties
<1>4. ListOf(m, i) = SubSeq(met, 1, n)
  <2>1. Len(met) - 1 = n
    BY <1>1, <1>3
  <2> QED
    BY <1>2, <2>1 DEF ListOf, Front
<1> HIDE DEF met
<1>5. /\ SubSeq(met, 1, n) \in Seq(Int) /\ Len(SubSeq(met, 1, n)) = n
      /\ \A k \in 1 .. n : SubSeq(met, 1, n)[k] = met[k]
  <2>1. \A k \in 1 .. n : met[k] \in Int
    BY <1>1, <1>3
  <2> QED
    BY <1>1, <2>1, SubSeqProperties
<1>6. L \in Seq(Int) /\ Len(L) = n
  BY <1>1 DEF n
<1> QED
  BY <1>3, <1>4, <1>5, <1>6, SeqEqual DEF L

(* A memory represents no heap but the one its words spell.                *)
LEMMA HeapOfRepresented ==
  ASSUME NEW m, NEW h, Represents(m, h), B!HeapOK(h)
  PROVE  HeapOf(m) = h
<1> DEFINE H == [b \in BlocksOf(m) |-> [size |-> GET_SIZE(m, b), alloc |-> GET_ALLOC(m, b) = 1]]
           Ls == [i \in Lists |-> ListOf(m, i)]
<1>1. HeapOf(m) = [brk |-> m.brk, hdr |-> H, lists |-> Ls]
  BY DEF HeapOf
<1>2. B!HeapShape(h) /\ B!Tiled(h.brk, h.hdr) /\ Spaced(h)
  BY HeapOKIsSpaced DEF B!HeapOK
<1>3. H = h.hdr
  <2>1. BlocksOf(m) = DOMAIN h.hdr
    BY BlocksMet
  <2>2. h.hdr \in [DOMAIN h.hdr -> [size : Nat, alloc : BOOLEAN]]
    BY <1>2 DEF B!HeapShape
  <2>3. ASSUME NEW b \in DOMAIN h.hdr
        PROVE  h.hdr[b] = [size |-> GET_SIZE(m, b), alloc |-> GET_ALLOC(m, b) = 1]
    <3>1. GET_SIZE(m, b) = h.hdr[b].size /\ (GET_ALLOC(m, b) = 1 <=> h.hdr[b].alloc)
      BY <1>2, HeaderRead
    <3>2. h.hdr[b] = [size |-> h.hdr[b].size, alloc |-> h.hdr[b].alloc] /\ h.hdr[b].alloc \in BOOLEAN
      BY <2>2
    <3>3. h.hdr[b].alloc = (GET_ALLOC(m, b) = 1)
      BY <3>1, <3>2, Zenon
    <3> QED
      BY <3>1, <3>2, <3>3, Zenon
  <2>4. h.hdr = [b \in DOMAIN h.hdr |-> h.hdr[b]]
    BY <2>2
  <2> QED
    BY <2>1, <2>3, <2>4, Zenon
<1>4. Ls = h.lists
  <2>1. h.lists = [i \in Lists |-> h.lists[i]]
    BY <1>2 DEF B!HeapShape
  <2>2. \A i \in Lists : ListOf(m, i) = h.lists[i]
    BY <1>2, ListMet
  <2> QED
    BY <2>1, <2>2, Zenon
<1>5. m.brk = h.brk /\ h = [brk |-> h.brk, hdr |-> h.hdr, lists |-> h.lists]
  BY <1>2 DEF Represents, B!HeapShape
<1> QED
  BY <1>1, <1>3, <1>4, <1>5, Zenon

-----------------------------------------------------------------------------
(* The client's data *)

(* The client relies on the words d in the n bytes at p.                   *)
Holds(m, p, d) == \A k \in 1 .. Len(d) : GET(m, p + 8 * (k - 1)) = d[k]

Relied(m, p, n, d) ==
  /\ d \in Seq(Int)
  /\ p = NULL => n = 0 /\ d = << >>
  /\ p # NULL => Len(d) = n \div 8
  /\ Holds(m, p, d)

InBlock(h, b, c) == b + 8 <= c /\ c < b + h.hdr[b].size

(* The words the client relies on lie in their block.                      *)
LEMMA ReliedInBlock ==
  ASSUME NEW h, B!HeapOK(h), NEW b \in B!AllocatedIn(h), NEW n \in Nat,
         n + 8 <= h.hdr[b].size, NEW k \in 0 .. n \div 8 - 1
  PROVE  OnHeap(b + 8 + 8 * k) /\ InBlock(h, b, b + 8 + 8 * k)
<1>1. b \in DOMAIN h.hdr
  BY DEF B!AllocatedIn
<1>2. /\ b \in Nat /\ h.hdr[b].size \in Nat /\ h.brk \in Nat /\ h.brk <= MaxHeap
      /\ b % 16 = 8 /\ b + h.hdr[b].size <= h.brk
  BY <1>1, MmWordsAssumption DEF B!HeapOK, B!HeapShape, B!Tiled
<1>3. k \in Nat /\ 8 * k + 8 <= n
  OBVIOUS
<1> DEFINE c == b + 8 + 8 * k
           s == h.hdr[b].size
<1> HIDE DEF s
<1>4. b \in Nat /\ s \in Nat /\ b + s <= MaxHeap /\ n + 8 <= s /\ MaxHeap \in Nat
  BY <1>2, MmWordsAssumption DEF s
<1>5. c \in Nat /\ c % 8 = 0
  BY <1>2, <1>3
<1>6. c + 8 <= MaxHeap /\ b + 8 <= c /\ c < b + s
  BY <1>3, <1>4
<1> QED
  BY <1>5, <1>6 DEF OnHeap, InBlock, s

(* They stay where nothing changes their block.                            *)
LEMMA ReliedKept ==
  ASSUME NEW h, B!HeapOK(h), NEW b \in B!AllocatedIn(h), NEW n \in Nat,
         n + 8 <= h.hdr[b].size, NEW m, NEW d, Relied(m, b + 8, n, d),
         NEW q, \A c : OnHeap(c) /\ InBlock(h, b, c) => GET(q, c) = GET(m, c)
  PROVE  Relied(q, b + 8, n, d)
<1>1. b \in Nat
  <2>1. b \in DOMAIN h.hdr
    BY DEF B!AllocatedIn
  <2> QED
    BY <2>1 DEF B!HeapOK, B!HeapShape
<1>2. d \in Seq(Int) /\ Len(d) = n \div 8 /\ Holds(m, b + 8, d)
  BY <1>1 DEF Relied
<1>3. ASSUME NEW k \in 1 .. Len(d)
      PROVE  GET(q, b + 8 + 8 * (k - 1)) = d[k]
  <2>1. k - 1 \in 0 .. n \div 8 - 1
    BY <1>2
  <2>2. OnHeap(b + 8 + 8 * (k - 1)) /\ InBlock(h, b, b + 8 + 8 * (k - 1))
    BY <2>1, ReliedInBlock
  <2> QED
    BY <1>2, <2>2 DEF Holds
<1> QED
  BY <1>2, <1>3 DEF Relied, Holds

(* What it relies on under every id that is not in X.                      *)
ReliedBut(m, p, r, d, X) == \A x \in Ids \ X : Relied(m, p[x], r[x], d[x])

(* What the client writes into the block of id it can rely on, and on all  *)
(* it relied on elsewhere.                                                 *)
LEMMA WriteRelied ==
  ASSUME NEW h, B!HeapOK(h), NEW p, NEW r, B!Owned(h, p, r),
         NEW id \in Ids, p[id] # NULL,
         NEW m, Represents(m, h), NEW d, ReliedBut(m, p, r, d, {id}),
         NEW f, NEW w \in Seq(Int), Len(w) = r[id] \div 8,
         \A k \in 1 .. Len(w) : f[k - 1] = w[k]
  PROVE  LET q == WriteBytes(m, p[id], r[id], f)
         IN  /\ Represents(q, h)
             /\ ReliedBut(q, p, r, d, {id}) /\ Relied(q, p[id], r[id], w)
<1> DEFINE b == p[id] - 8
           n == r[id]
           q == WriteBytes(m, p[id], n, f)
<1>1. /\ b \in B!AllocatedIn(h) /\ n \in Nat /\ n + 8 <= h.hdr[b].size
      /\ p[id] \in Nat /\ p[id] = b + 8
  <2>1. b \in B!AllocatedIn(h) /\ n \in Nat /\ n + 8 <= h.hdr[b].size /\ p[id] \in Nat
    BY DEF B!Owned
  <2> QED
    BY <2>1
<1> HIDE DEF b, n
<1>2. \A k \in 0 .. n \div 8 - 1 : f[k] \in Int /\ f[k] = w[k + 1]
  <2> SUFFICES ASSUME NEW k \in 0 .. n \div 8 - 1 PROVE f[k] \in Int /\ f[k] = w[k + 1]
    OBVIOUS
  <2>1. k + 1 \in 1 .. Len(w) /\ (k + 1) - 1 = k
    BY <1>1 DEF n
  <2>2. f[(k + 1) - 1] = w[k + 1]
    BY <2>1
  <2>3. w[k + 1] \in Int
    BY <2>1
  <2> QED
    BY <2>1, <2>2, <2>3
<1>3. LET u == WriteBytes(m, b + 8, n, f)
      IN  /\ Represents(u, h)
          /\ \A k \in 0 .. n \div 8 - 1 : GET(u, b + 8 + 8 * k) = f[k]
          /\ \A c : OnHeap(c) /\ Elsewhere(h, b, c) => GET(u, c) = GET(m, c)
  <2>1. \A k \in 0 .. n \div 8 - 1 : f[k] \in Int
    BY <1>2
  <2> QED
    BY <1>1, <2>1, WriteRepresented
<1>4. q = WriteBytes(m, b + 8, n, f)
  BY <1>1
<1> HIDE DEF q
<1>5. ReliedBut(q, p, r, d, {id})
  <2> SUFFICES ASSUME NEW x \in Ids \ {id} PROVE Relied(q, p[x], r[x], d[x])
    BY DEF ReliedBut
  <2>1. Relied(m, p[x], r[x], d[x])
    BY DEF ReliedBut
  <2>2. CASE p[x] = NULL
    BY <2>1, <2>2 DEF Relied, Holds
  <2>3. CASE p[x] # NULL
    <3> DEFINE a == p[x] - 8
    <3>1. /\ a \in B!AllocatedIn(h) /\ r[x] \in Nat /\ r[x] + 8 <= h.hdr[a].size
          /\ p[x] \in Nat /\ p[x] = a + 8 /\ p[x] # p[id]
      <4>1. a \in B!AllocatedIn(h) /\ r[x] \in Nat /\ r[x] + 8 <= h.hdr[a].size /\ p[x] \in Nat
        BY <2>3 DEF B!Owned
      <4>2. p[x] # p[id]
        BY <2>3 DEF B!Owned
      <4> QED
        BY <4>1, <4>2
    <3>2. a # b
      BY <1>1, <3>1
    <3> HIDE DEF a
    <3>3. \A c : OnHeap(c) /\ InBlock(h, a, c) => GET(q, c) = GET(m, c)
      BY <1>3, <1>4, <3>1, <3>2 DEF Elsewhere, InBlock
    <3> QED
      BY <2>1, <3>1, <3>3, ReliedKept
  <2> QED
    BY <2>2, <2>3
<1>6. Relied(q, b + 8, n, w)
  <2>1. Len(w) = n \div 8
    BY DEF n
  <2>2. ASSUME NEW k \in 1 .. Len(w)
        PROVE  GET(q, b + 8 + 8 * (k - 1)) = w[k]
    <3>1. k - 1 \in 0 .. n \div 8 - 1
      BY <1>1, <2>1
    <3>2. f[k - 1] = w[k]
      OBVIOUS
    <3> QED
      BY <1>3, <1>4, <3>1, <3>2
  <2>3. b + 8 # NULL
    BY <1>1
  <2> QED
    BY <2>1, <2>2, <2>3 DEF Relied, Holds
<1> QED
  BY <1>1, <1>3, <1>4, <1>5, <1>6 DEF n, q

(* malloc leaves what the client relies on.                                *)
LEMMA MallocRelied ==
  ASSUME NEW h, B!HeapOK(h), NEW p, NEW r, B!Owned(h, p, r),
         NEW m, NEW d, ReliedBut(m, p, r, d, {}),
         NEW q, Kept(m, q, h)
  PROVE  ReliedBut(q, p, r, d, {})
<1> SUFFICES ASSUME NEW x \in Ids PROVE Relied(q, p[x], r[x], d[x])
  BY DEF ReliedBut
<1>1. Relied(m, p[x], r[x], d[x])
  BY DEF ReliedBut
<1>2. CASE p[x] = NULL
  BY <1>1, <1>2 DEF Relied, Holds
<1>3. CASE p[x] # NULL
  <2> DEFINE a == p[x] - 8
  <2>1. /\ a \in B!AllocatedIn(h) /\ r[x] \in Nat /\ r[x] + 8 <= h.hdr[a].size
        /\ p[x] \in Nat
    BY <1>3 DEF B!Owned
  <2>2. p[x] = a + 8
    BY <2>1
  <2> HIDE DEF a
  <2>3. \A c : OnHeap(c) /\ InBlock(h, a, c) => GET(q, c) = GET(m, c)
    BY <2>1 DEF Kept, InPayload, InBlock
  <2> QED
    BY <1>1, <2>1, <2>2, <2>3, ReliedKept
<1> QED
  BY <1>2, <1>3

(* free leaves what the client relies on elsewhere.                        *)
LEMMA FreeRelied ==
  ASSUME NEW h, B!HeapOK(h), NEW p, NEW r, B!Owned(h, p, r),
         NEW id \in Ids, p[id] # NULL,
         NEW m, Represents(m, h), NEW d, ReliedBut(m, p, r, d, {id})
  PROVE  ReliedBut(free(m, p[id]), p, r, d, {id})
<1> DEFINE b == p[id] - 8
           f == B!free(h, p[id])
           q == free(m, p[id])
<1>1. b \in B!AllocatedIn(h) /\ p[id] \in Nat
  BY DEF B!Owned
<1>2. Kept(m, q, f) /\ B!HeapOK(f)
  BY <1>1, FreeRepresented
<1>3. B!AllocatedIn(f) = B!AllocatedIn(h) \ {b} /\ \A x \in B!AllocatedIn(f) : f.hdr[x] = h.hdr[x]
  BY <1>1, BlockAssumptions, B!FreePreserves
<1> HIDE DEF b, f, q
<1> SUFFICES ASSUME NEW x \in Ids \ {id} PROVE Relied(q, p[x], r[x], d[x])
  BY DEF ReliedBut, q
<1>4. Relied(m, p[x], r[x], d[x])
  BY DEF ReliedBut
<1>5. CASE p[x] = NULL
  BY <1>4, <1>5 DEF Relied, Holds
<1>6. CASE p[x] # NULL
  <2> DEFINE a == p[x] - 8
  <2>1. /\ a \in B!AllocatedIn(h) /\ r[x] \in Nat /\ r[x] + 8 <= h.hdr[a].size
        /\ p[x] \in Nat /\ p[x] # p[id]
    BY <1>6 DEF B!Owned
  <2>2. p[x] = a + 8 /\ a # b
    BY <1>1, <2>1 DEF b
  <2> HIDE DEF a
  <2>3. a \in B!AllocatedIn(f) /\ r[x] + 8 <= f.hdr[a].size
    BY <1>3, <2>1, <2>2
  <2>4. \A c : OnHeap(c) /\ InBlock(f, a, c) => GET(q, c) = GET(m, c)
    BY <1>2, <2>3 DEF Kept, InPayload, InBlock
  <2> QED
    BY <1>2, <1>4, <2>1, <2>2, <2>3, <2>4, ReliedKept
<1> QED
  BY <1>5, <1>6

-----------------------------------------------------------------------------
(* The client's calls: what each leaves in the memory                      *)

(* What Fill writes is what the client then relies on.                     *)
LEMMA ExtendShape ==
  ASSUME NEW id \in Ids, NEW s \in Seq(Int), NEW n \in Nat
  PROVE  /\ Extend(id, s, n) \in Seq(Int) /\ Len(Extend(id, s, n)) = n \div 8
         /\ \A k \in 1 .. n \div 8 :
              Extend(id, s, n)[k] = IF k <= Len(s) THEN s[k] ELSE Tag(id, k - 1)
<1> DEFINE e == n \div 8
           w == [k \in 1 .. e |-> IF k <= Len(s) THEN s[k] ELSE Tag(id, k - 1)]
<1>1. e \in Nat
  OBVIOUS
<1>2. Extend(id, s, n) = w
  BY DEF Extend
<1> HIDE DEF e
<1>3. \A k \in 1 .. e : w[k] = (IF k <= Len(s) THEN s[k] ELSE Tag(id, k - 1)) /\ w[k] \in Int
  <2> SUFFICES ASSUME NEW k \in 1 .. e
               PROVE  w[k] = (IF k <= Len(s) THEN s[k] ELSE Tag(id, k - 1)) /\ w[k] \in Int
    OBVIOUS
  <2>1. id \in Nat
    BY WordHeapAssumption
  <2>2. Tag(id, k - 1) \in Int
    BY <1>1, <2>1 DEF Tag
  <2>3. k <= Len(s) => s[k] \in Int
    BY <1>1
  <2>4. w[k] = IF k <= Len(s) THEN s[k] ELSE Tag(id, k - 1)
    OBVIOUS
  <2> HIDE DEF w
  <2> QED
    BY <2>2, <2>3, <2>4
<1>4. DOMAIN w = 1 .. e /\ w = [k \in 1 .. e |-> w[k]]
  OBVIOUS
<1> HIDE DEF w
<1>5. w \in [1 .. e -> Int]
  BY <1>3, <1>4
<1>6. w \in Seq(Int)
  BY <1>1, <1>5, SeqDef
<1>7. Len(w) = e
  BY <1>1, <1>4, <1>6, LenProperties
<1> QED
  BY <1>2, <1>3, <1>6, <1>7 DEF e

(* Every word of the memory is a number.                                   *)
LEMMA WordsAreInts ==
  ASSUME NEW m, MemShape(m), NEW c, OnHeap(c)
  PROVE  GET(m, c) \in Int
BY WordAddress DEF MemShape, GET

(* malloc or calloc under an id that held nothing.                         *)
Granted(h, m, p, r, d, id, n, f, w) ==
  LET R == B!malloc(h, n)
      u == malloc(m, n)
      q == IF u.ptr = NULL THEN u.mm ELSE WriteBytes(u.mm, u.ptr, n, f)
      p1 == [p EXCEPT ![id] = u.ptr]
      r1 == [r EXCEPT ![id] = IF u.ptr = NULL THEN 0 ELSE n]
      d1 == [d EXCEPT ![id] = IF u.ptr = NULL THEN << >> ELSE w]
  IN  /\ Represents(q, R.heap) /\ B!HeapOK(R.heap) /\ u.ptr = R.ptr
      /\ d1 \in [Ids -> Seq(Int)] /\ ReliedBut(q, p1, r1, d1, {})

(* It is so for every id that holds nothing and every representable size.  *)
LEMMA GrantData ==
  ASSUME NEW h, B!HeapOK(h), NEW m, Represents(m, h),
         NEW p, NEW r, B!Owned(h, p, r), NEW d \in [Ids -> Seq(Int)], ReliedBut(m, p, r, d, {}),
         NEW id \in Ids, p[id] = NULL, NEW n \in Nat, Representable(n),
         NEW f, NEW w \in Seq(Int), Len(w) = n \div 8, \A k \in 1 .. Len(w) : f[k - 1] = w[k]
  PROVE  Granted(h, m, p, r, d, id, n, f, w)
<1> DEFINE R == B!malloc(h, n)
           u == malloc(m, n)
           g == R.heap
           q == IF u.ptr = NULL THEN u.mm ELSE WriteBytes(u.mm, u.ptr, n, f)
           p1 == [p EXCEPT ![id] = u.ptr]
           r1 == [r EXCEPT ![id] = IF u.ptr = NULL THEN 0 ELSE n]
           d1 == [d EXCEPT ![id] = IF u.ptr = NULL THEN << >> ELSE w]
<1>1. Represents(u.mm, g) /\ u.ptr = R.ptr /\ Kept(m, u.mm, h)
  BY MallocRepresented
<1>2. \/ R.ptr = NULL /\ g = h
      \/ /\ n # 0 /\ R.ptr - 8 \in Nat /\ R.ptr \in Nat
         /\ B!HandsOut(h, g, R.ptr - 8, n + 8)
  BY BlockAssumptions, SameArithmetic, B!MallocPreserves
<1>3. ReliedBut(u.mm, p, r, d, {})
  BY <1>1, MallocRelied
<1>4. p \in [Ids -> Nat] /\ r \in [Ids -> Nat]
  BY DEF B!Owned
<1> HIDE DEF u, R
<1>5. /\ p1[id] = u.ptr /\ r1[id] = (IF u.ptr = NULL THEN 0 ELSE n)
      /\ d1[id] = (IF u.ptr = NULL THEN << >> ELSE w)
      /\ \A x \in Ids : x # id => p1[x] = p[x] /\ r1[x] = r[x] /\ d1[x] = d[x]
      /\ d1 \in [Ids -> Seq(Int)]
  <2>1. << >> \in Seq(Int)
    OBVIOUS
  <2> QED
    BY <1>4, <2>1
<1> HIDE DEF p1, r1, d1
<1>6. CASE R.ptr = NULL
  <2>1. q = u.mm /\ g = h /\ p1[id] = NULL /\ r1[id] = 0 /\ d1[id] = << >>
    BY <1>1, <1>2, <1>5, <1>6
  <2> HIDE DEF q, g
  <2>2. Relied(q, p1[id], r1[id], d1[id])
    BY <2>1 DEF Relied, Holds
  <2>3. ReliedBut(q, p1, r1, d1, {})
    BY <1>3, <1>5, <2>1, <2>2 DEF ReliedBut
  <2> QED
    BY <1>1, <1>5, <2>1, <2>3 DEF Granted, p1, r1, d1, q, g, u, R
<1>7. CASE R.ptr # NULL
  <2> DEFINE b == R.ptr - 8
  <2>1. /\ n # 0 /\ b \in Nat /\ R.ptr \in Nat /\ B!HandsOut(h, g, b, n + 8)
        /\ u.ptr = b + 8 /\ u.ptr # NULL
    BY <1>1, <1>2, <1>7
  <2> HIDE DEF b, g
  <2>2. q = WriteBytes(u.mm, p1[id], r1[id], f) /\ p1[id] = b + 8 /\ r1[id] = n /\ d1[id] = w
    BY <1>5, <2>1
  <2>3. p1 = [p EXCEPT ![id] = b + 8] /\ r1 = [r EXCEPT ![id] = n]
    BY <2>1 DEF p1, r1
  <2> HIDE DEF q
  <2>4. B!HeapOK(g) /\ B!Owned(g, p1, r1)
    <3>1. n > 0
      BY <2>1
    <3>2. B!Owned(g, [p EXCEPT ![id] = b + 8], [r EXCEPT ![id] = n])
      BY <2>1, <3>1, BlockAssumptions, B!OwnedAfterGrant
    <3> QED
      BY <2>1, <2>3, <3>2 DEF B!HandsOut
  <2>5. ReliedBut(u.mm, p1, r1, d1, {id})
    BY <1>3, <1>5 DEF ReliedBut
  <2>6. /\ Represents(q, g)
        /\ ReliedBut(q, p1, r1, d1, {id}) /\ Relied(q, p1[id], r1[id], w)
    <3>1. p1[id] # NULL /\ Len(w) = r1[id] \div 8
      BY <2>1, <2>2
    <3> QED
      BY <1>1, <2>2, <2>4, <2>5, <3>1, WriteRelied
  <2>7. ReliedBut(q, p1, r1, d1, {})
    BY <2>2, <2>6 DEF ReliedBut
  <2> QED
    BY <1>1, <1>5, <2>4, <2>6, <2>7 DEF Granted, p1, r1, d1, q, g, u, R
<1> QED
  BY <1>6, <1>7

(* free of what an id holds.                                               *)
Released(h, m, p, r, d, id) ==
  LET g == B!free(h, p[id])
      q == free(m, p[id])
      d1 == [d EXCEPT ![id] = << >>]
  IN  /\ Represents(q, g) /\ B!HeapOK(g) /\ d1 \in [Ids -> Seq(Int)]
      /\ ReliedBut(q, [p EXCEPT ![id] = NULL], [r EXCEPT ![id] = 0], d1, {})

(* It is so for every id.                                                  *)
LEMMA ReleaseData ==
  ASSUME NEW h, B!HeapOK(h), NEW m, Represents(m, h),
         NEW p, NEW r, B!Owned(h, p, r), NEW d \in [Ids -> Seq(Int)], ReliedBut(m, p, r, d, {}),
         NEW id \in Ids
  PROVE  Released(h, m, p, r, d, id)
<1> DEFINE g == B!free(h, p[id])
           q == free(m, p[id])
           p1 == [p EXCEPT ![id] = NULL]
           r1 == [r EXCEPT ![id] = 0]
           d1 == [d EXCEPT ![id] = << >>]
<1>1. p \in [Ids -> Nat] /\ r \in [Ids -> Nat] /\ << >> \in Seq(Int)
  BY DEF B!Owned
<1>2. /\ p1[id] = NULL /\ r1[id] = 0 /\ d1[id] = << >>
      /\ \A x \in Ids : x # id => p1[x] = p[x] /\ r1[x] = r[x] /\ d1[x] = d[x]
      /\ d1 \in [Ids -> Seq(Int)]
  BY <1>1
<1> HIDE DEF p1, r1, d1
<1>3. Represents(q, g) /\ B!HeapOK(g) /\ ReliedBut(q, p, r, d, {id})
  <2>1. CASE p[id] = NULL
    BY <2>1 DEF free, B!free, ReliedBut
  <2>2. CASE p[id] # NULL
    <3>1. p[id] \in Nat /\ p[id] - 8 \in B!AllocatedIn(h)
      BY <2>2 DEF B!Owned
    <3>2. ReliedBut(m, p, r, d, {id})
      BY DEF ReliedBut
    <3> QED
      BY <2>2, <3>1, <3>2, FreeRepresented, FreeRelied
  <2> QED
    BY <2>1, <2>2
<1> HIDE DEF q, g
<1>4. ReliedBut(q, p1, r1, d1, {})
  <2>1. Relied(q, p1[id], r1[id], d1[id])
    <3>1. Len(<< >>) = 0
      OBVIOUS
    <3> QED
      BY <1>1, <1>2, <3>1 DEF Relied, Holds
  <2> QED
    BY <1>2, <1>3, <2>1 DEF ReliedBut
<1> QED
  BY <1>2, <1>3, <1>4 DEF Released, p1, r1, d1, q, g

(* realloc copies the data to the block b that malloc handed out and       *)
(* releases the old one: the first words of the new payload are what the   *)
(* client relied on in the old one, and all else it relies on stays.       *)
Copied(p, r, d, id, n, g, b, u) ==
  LET cs == MinOf(n, GET_SIZE(u, p[id] - 8) - 8)
      q == free(memcpy(u, b + 8, p[id], cs), p[id])
      fh == B!free(g, p[id])
  IN  /\ Represents(q, fh) /\ B!HeapOK(fh)
      /\ ReliedBut(q, p, r, d, {id})
      /\ \A k \in 1 .. MinOf(Len(d[id]), n \div 8) :
           OnHeap(b + 8 * k) /\ GET(q, b + 8 * k) = d[id][k]

(* It is so for every block that malloc hands out.                         *)
LEMMA CopyData ==
  ASSUME NEW h, B!HeapOK(h), NEW m,
         NEW p, NEW r, B!Owned(h, p, r), NEW d, ReliedBut(m, p, r, d, {}),
         NEW id \in Ids, p[id] # NULL, NEW n \in Nat, n > 0,
         NEW g, NEW b \in Nat, B!HandsOut(h, g, b, n + 8),
         NEW u, Represents(u, g), Kept(m, u, h)
  PROVE  Copied(p, r, d, id, n, g, b, u)
<1> DEFINE o == p[id] - 8
           s == h.hdr[o].size
           cs == MinOf(n, GET_SIZE(u, p[id] - 8) - 8)
           f == WordsFrom(u, p[id], cs)
           v == memcpy(u, b + 8, p[id], cs)
           q == free(v, p[id])
           fh == B!free(g, p[id])
<1>1. /\ o \in B!AllocatedIn(h) /\ r[id] \in Nat /\ r[id] + 8 <= s /\ p[id] \in Nat /\ p[id] = o + 8
  <2>1. o \in B!AllocatedIn(h) /\ r[id] \in Nat /\ r[id] + 8 <= s /\ p[id] \in Nat
    BY DEF B!Owned
  <2> QED
    BY <2>1
<1>2. /\ B!HeapOK(g) /\ o \in B!AllocatedIn(g) /\ b \in B!AllocatedIn(g) /\ o # b
      /\ g.hdr[o].size = s /\ g.hdr[b].size >= n + 8
      /\ \A x \in B!AllocatedIn(h) : x \in B!AllocatedIn(g) /\ x # b /\ g.hdr[x] = h.hdr[x]
  BY <1>1 DEF B!HandsOut
<1>3. o \in DOMAIN g.hdr /\ g.hdr[b].size \in Nat /\ o \in Nat
  BY <1>2 DEF B!HeapOK, B!HeapShape, B!AllocatedIn
<1>4. s \in Nat /\ GET_SIZE(u, p[id] - 8) = s
  <2>1. g.hdr[o].size \in Nat /\ GET_SIZE(u, o) = g.hdr[o].size
    BY <1>2, <1>3, HeaderRead DEF B!HeapOK
  <2> QED
    BY <1>2, <2>1
<1> HIDE DEF s
<1>5. /\ cs = MinOf(n, s - 8) /\ cs \in Nat /\ cs <= n /\ cs + 8 <= s
      /\ cs = n \/ cs + 8 = s
  BY <1>1, <1>4 DEF MinOf
<1> HIDE DEF cs, o
<1>6. \A k \in 0 .. cs \div 8 - 1 : f[k] = GET(u, p[id] + 8 * k) /\ f[k] \in Int
  <2> SUFFICES ASSUME NEW k \in 0 .. cs \div 8 - 1 PROVE f[k] = GET(u, p[id] + 8 * k) /\ f[k] \in Int
    OBVIOUS
  <2>1. OnHeap(o + 8 + 8 * k)
    BY <1>2, <1>5, ReliedInBlock
  <2>2. f[k] = GET(u, p[id] + 8 * k)
    BY DEF WordsFrom
  <2> QED
    BY <1>1, <2>1, <2>2, WordsAreInts DEF Represents
<1>7. v = WriteBytes(u, b + 8, cs, f)
  BY DEF memcpy
<1> HIDE DEF f
<1>8. /\ Represents(v, g)
      /\ \A k \in 0 .. cs \div 8 - 1 : GET(v, b + 8 + 8 * k) = f[k]
      /\ \A c : OnHeap(c) /\ Elsewhere(g, b, c) => GET(v, c) = GET(u, c)
  <2>1. cs + 8 <= g.hdr[b].size
    BY <1>2, <1>3, <1>5
  <2>2. \A k \in 0 .. cs \div 8 - 1 : f[k] \in Int
    BY <1>6
  <2>3. LET z == WriteBytes(u, b + 8, cs, f)
        IN  /\ Represents(z, g)
            /\ \A k \in 0 .. cs \div 8 - 1 : GET(z, b + 8 + 8 * k) = f[k]
            /\ \A c : OnHeap(c) /\ Elsewhere(g, b, c) => GET(z, c) = GET(u, c)
    <3>1. Represents(u, g) /\ B!HeapOK(g) /\ b \in B!AllocatedIn(g) /\ cs \in Nat
      BY <1>2, <1>5
    <3> QED
      BY ONLY <3>1, <2>1, <2>2, WriteRepresented
  <2> HIDE DEF v
  <2> QED
    BY <1>7, <2>3
<1> HIDE DEF v
<1>9. /\ Represents(q, fh) /\ B!HeapOK(fh) /\ Kept(v, q, fh)
      /\ B!AllocatedIn(fh) = B!AllocatedIn(g) \ {o}
      /\ \A x \in B!AllocatedIn(fh) : fh.hdr[x] = g.hdr[x]
  <2>1. p[id] - 8 = o
    BY DEF o
  <2>2. Represents(q, fh) /\ B!HeapOK(fh) /\ Kept(v, q, fh)
    BY <1>1, <1>2, <1>8, <2>1, FreeRepresented
  <2>3. /\ B!AllocatedIn(fh) = B!AllocatedIn(g) \ {o}
        /\ \A x \in B!AllocatedIn(fh) : fh.hdr[x] = g.hdr[x]
    BY <1>1, <1>2, <2>1, BlockAssumptions, B!FreePreserves
  <2> QED
    BY <2>2, <2>3
<1> HIDE DEF q, fh
<1>10. ReliedBut(q, p, r, d, {id})
  <2> SUFFICES ASSUME NEW x \in Ids \ {id} PROVE Relied(q, p[x], r[x], d[x])
    BY DEF ReliedBut
  <2>1. Relied(m, p[x], r[x], d[x])
    BY DEF ReliedBut
  <2>2. CASE p[x] = NULL
    BY <2>1, <2>2 DEF Relied, Holds
  <2>3. CASE p[x] # NULL
    <3> DEFINE a == p[x] - 8
    <3>1. /\ a \in B!AllocatedIn(h) /\ r[x] \in Nat /\ r[x] + 8 <= h.hdr[a].size
          /\ p[x] \in Nat /\ p[x] # p[id]
      BY <2>3 DEF B!Owned
    <3>2. p[x] = a + 8 /\ a # o
      BY <1>1, <3>1
    <3> HIDE DEF a
    <3>3. /\ a \in B!AllocatedIn(g) /\ a # b /\ g.hdr[a] = h.hdr[a]
          /\ a \in B!AllocatedIn(fh) /\ fh.hdr[a] = h.hdr[a]
      BY <1>2, <1>9, <3>1, <3>2
    <3>4. ASSUME NEW c, OnHeap(c), InBlock(h, a, c)
          PROVE  GET(q, c) = GET(m, c)
      <4>1. GET(u, c) = GET(m, c)
        BY <3>1, <3>4 DEF Kept, InPayload, InBlock
      <4>2. GET(v, c) = GET(u, c)
        BY <1>8, <3>3, <3>4 DEF Elsewhere, InBlock
      <4>3. GET(q, c) = GET(v, c)
        BY <1>9, <3>3, <3>4 DEF Kept, InPayload, InBlock
      <4> QED
        BY <4>1, <4>2, <4>3
    <3> QED
      BY <2>1, <3>1, <3>2, <3>4, ReliedKept
  <2> QED
    BY <2>2, <2>3
<1>11. ASSUME NEW k \in 1 .. MinOf(Len(d[id]), n \div 8)
       PROVE  OnHeap(b + 8 * k) /\ GET(q, b + 8 * k) = d[id][k]
  <2>1. Relied(m, p[id], r[id], d[id])
    BY DEF ReliedBut
  <2>2. d[id] \in Seq(Int) /\ Len(d[id]) = r[id] \div 8 /\ Holds(m, p[id], d[id])
    BY <2>1 DEF Relied
  <2>3. Len(d[id]) \in Nat
    BY <2>2
  <2> DEFINE e == Len(d[id])
  <2> HIDE DEF e
  <2>4. k \in Nat /\ 1 <= k /\ k <= e /\ k <= n \div 8
    BY <2>3 DEF MinOf, e
  <2>5. 8 * k <= r[id] /\ 8 * k <= n
    BY <1>1, <2>2, <2>4 DEF e
  <2>6. 8 * k <= cs
    <3> DEFINE z == 8 * k
               y == r[id]
    <3>1. z \in Nat /\ z <= y /\ z <= n /\ y \in Nat /\ y + 8 <= s
      BY <1>1, <2>4, <2>5
    <3> HIDE DEF z, y
    <3>2. z <= cs
      BY ONLY <3>1, <1>4, <1>5, n \in Nat
    <3> QED
      BY <3>2 DEF z
  <2> DEFINE j == k - 1
  <2>7. j \in 0 .. cs \div 8 - 1 /\ j \in 0 .. r[id] \div 8 - 1 /\ k = j + 1
    <3>1. j \in Nat /\ k = j + 1
      BY <2>4
    <3> HIDE DEF j
    <3>2. ASSUME NEW x \in Nat, 8 * k <= x
          PROVE  j \in 0 .. x \div 8 - 1
      BY <3>1, <3>2
    <3> QED
      BY <1>1, <1>5, <2>5, <2>6, <3>1, <3>2
  <2> HIDE DEF j
  <2>8. b + 8 * k = b + 8 + 8 * j /\ p[id] + 8 * (k - 1) = o + 8 + 8 * j /\ p[id] + 8 * j = o + 8 + 8 * j
    <3>1. k - 1 = j /\ j \in Nat /\ o \in Nat
      BY <1>3, <2>7
    <3> QED
      BY ONLY b \in Nat, <1>1, <2>7, <3>1
  <2>9. GET(v, b + 8 * k) = GET(u, o + 8 + 8 * j)
    BY <1>6, <1>8, <2>7, <2>8
  <2>10. GET(u, o + 8 + 8 * j) = GET(m, o + 8 + 8 * j)
    <3>1. r[id] + 8 <= h.hdr[o].size
      BY <1>1 DEF s
    <3>2. OnHeap(o + 8 + 8 * j) /\ InBlock(h, o, o + 8 + 8 * j)
      BY <1>1, <2>7, <3>1, ReliedInBlock
    <3> QED
      BY <1>1, <3>2 DEF Kept, InPayload, InBlock
  <2>11. GET(m, o + 8 + 8 * j) = d[id][k]
    BY <2>2, <2>4, <2>8 DEF Holds, e
  <2>12. OnHeap(b + 8 * k) /\ GET(q, b + 8 * k) = GET(v, b + 8 * k)
    <3>1. b \in B!AllocatedIn(fh) /\ cs + 8 <= fh.hdr[b].size
      BY <1>2, <1>3, <1>5, <1>9
    <3>2. OnHeap(b + 8 + 8 * j) /\ InBlock(fh, b, b + 8 + 8 * j)
      BY <1>5, <1>9, <2>7, <3>1, ReliedInBlock
    <3> QED
      BY <1>9, <2>8, <3>1, <3>2 DEF Kept, InPayload, InBlock
  <2> QED
    BY <2>9, <2>10, <2>11, <2>12
<1> QED
  BY <1>9, <1>10, <1>11 DEF Copied, q, fh, v, cs

(* Fill writes the words of Extend, given that the kept ones are there.    *)
LEMMA FillWrites ==
  ASSUME NEW id \in Ids, NEW s \in Seq(Int), NEW n \in Nat,
         NEW q, NEW p \in Nat, p # NULL, Holds(q, p, s)
  PROVE  \E f : /\ Fill(q, id, p, Len(s), n) = WriteBytes(q, p, n, f)
                /\ \A k \in 1 .. n \div 8 : f[k - 1] = Extend(id, s, n)[k]
<1> DEFINE l == Len(s)
           f == [k \in 0 .. n \div 8 - 1 |-> IF k < l THEN GET(q, p + 8 * k) ELSE Tag(id, k)]
<1>1. Fill(q, id, p, l, n) = WriteBytes(q, p, n, f)
  BY DEF Fill
<1>2. l \in Nat
  OBVIOUS
<1>3. ASSUME NEW k \in 1 .. n \div 8
      PROVE  f[k - 1] = Extend(id, s, n)[k]
  <2>1. Extend(id, s, n)[k] = IF k <= l THEN s[k] ELSE Tag(id, k - 1)
    BY ExtendShape
  <2>2. k - 1 \in 0 .. n \div 8 - 1
    OBVIOUS
  <2>3. f[k - 1] = IF k - 1 < l THEN GET(q, p + 8 * (k - 1)) ELSE Tag(id, k - 1)
    BY <2>2
  <2>4. k <= l => GET(q, p + 8 * (k - 1)) = s[k]
    BY DEF Holds
  <2> HIDE DEF f, l
  <2>5. k <= l <=> k - 1 < l
    BY <1>2
  <2> QED
    BY <2>1, <2>3, <2>4, <2>5
<1> QED
  BY <1>1, <1>3

(* The words that realloc's new size keeps.                                *)
LEMMA KeptWords ==
  ASSUME NEW d \in Seq(Int), NEW n \in Nat
  PROVE  LET s == SubSeq(d, 1, MinOf(Len(d), n))
         IN  /\ s \in Seq(Int) /\ Len(s) = MinOf(Len(d), n)
             /\ \A k \in 1 .. Len(s) : s[k] = d[k]
<1> DEFINE l == MinOf(Len(d), n)
<1>1. l \in Nat /\ l <= Len(d)
  BY DEF MinOf
<1> HIDE DEF l
<1>2. SubSeq(d, 1, l) \in Seq(Int) /\ Len(SubSeq(d, 1, l)) = l
  <2>1. l = 0 \/ 1 \in 1 .. Len(d)
    BY <1>1
  <2> QED
    BY <1>1, <2>1, SubSeqProperties
<1>3. \A k \in 1 .. l : SubSeq(d, 1, l)[k] = d[k]
  BY <1>1, SubSeqProperties
<1> QED
  BY <1>2, <1>3 DEF l

(* A realloc that moves the block of id.                                   *)
Moved(h, m, p, r, d, id, n) ==
  LET R == B!realloc(h, p[id], n)
      u == realloc(m, p[id], n)
      s == SubSeq(d[id], 1, MinOf(Len(d[id]), n \div 8))
      q == Fill(u.mm, id, u.ptr, Len(s), n)
      p1 == [p EXCEPT ![id] = u.ptr]
      r1 == [r EXCEPT ![id] = n]
      d1 == [d EXCEPT ![id] = Extend(id, s, n)]
  IN  /\ Represents(q, R.heap) /\ B!HeapOK(R.heap) /\ u.ptr = R.ptr /\ u.ptr # NULL
      /\ d1 \in [Ids -> Seq(Int)] /\ ReliedBut(q, p1, r1, d1, {})

(* It is so for every id that holds a block, when malloc finds one.        *)
LEMMA MoveData ==
  ASSUME NEW h, B!HeapOK(h), NEW m, Represents(m, h),
         NEW p, NEW r, B!Owned(h, p, r), NEW d \in [Ids -> Seq(Int)], ReliedBut(m, p, r, d, {}),
         NEW id \in Ids, p[id] # NULL, NEW n \in Nat, n # 0, Representable(n),
         malloc(m, n).ptr # NULL
  PROVE  Moved(h, m, p, r, d, id, n)
<1> DEFINE M == B!malloc(h, n)
           t == malloc(m, n)
           g == M.heap
           b == M.ptr - 8
           cs == MinOf(n, GET_SIZE(t.mm, p[id] - 8) - 8)
           c == free(memcpy(t.mm, b + 8, p[id], cs), p[id])
           fh == B!free(g, p[id])
           R == B!realloc(h, p[id], n)
           u == realloc(m, p[id], n)
           s == SubSeq(d[id], 1, MinOf(Len(d[id]), n \div 8))
           w == Extend(id, s, n)
           q == Fill(u.mm, id, u.ptr, Len(s), n)
           p1 == [p EXCEPT ![id] = u.ptr]
           r1 == [r EXCEPT ![id] = n]
           d1 == [d EXCEPT ![id] = Extend(id, s, n)]
<1>1. Represents(t.mm, g) /\ t.ptr = M.ptr /\ Kept(m, t.mm, h)
  BY MallocRepresented
<1>2. b \in Nat /\ M.ptr \in Nat /\ B!HandsOut(h, g, b, n + 8)
  BY <1>1, BlockAssumptions, SameArithmetic, B!MallocPreserves
<1>3. M.ptr = b + 8 /\ M.ptr # NULL /\ n > 0
  BY <1>2
<1>4. R.heap = fh /\ R.ptr = M.ptr
  BY <1>3 DEF B!realloc
<1>5. u.mm = c /\ u.ptr = b + 8
  <2>1. MinOf(n, GET_SIZE(t.mm, HDRP(p[id])) - WSIZE) = cs
    BY DEF HDRP
  <2>2. t.ptr = b + 8
    BY <1>1, <1>3
  <2> HIDE DEF cs, t, b, M
  <2> QED
    BY <2>1, <2>2 DEF realloc, t
<1> HIDE DEF M, t
<1>6. /\ Represents(c, fh) /\ B!HeapOK(fh)
      /\ ReliedBut(c, p, r, d, {id})
      /\ \A k \in 1 .. MinOf(Len(d[id]), n \div 8) :
           OnHeap(b + 8 * k) /\ GET(c, b + 8 * k) = d[id][k]
  <2> DEFINE v == t.mm
  <2>1. Represents(v, g) /\ Kept(m, v, h)
    BY <1>1
  <2> HIDE DEF v, g, b
  <2>2. Copied(p, r, d, id, n, g, b, v)
    BY <2>1, <1>2, <1>3, CopyData
  <2> QED
    BY <2>2 DEF Copied, v
<1>7. B!Owned(fh, [p EXCEPT ![id] = b + 8], [r EXCEPT ![id] = n])
  BY <1>2, <1>3, BlockAssumptions, B!OwnedAfterMove
<1> HIDE DEF b, g, cs, c, fh, R, u
<1>8. /\ s \in Seq(Int) /\ Len(s) = MinOf(Len(d[id]), n \div 8)
      /\ \A k \in 1 .. Len(s) : s[k] = d[id][k]
  <2>1. d[id] \in Seq(Int) /\ n \div 8 \in Nat
    OBVIOUS
  <2> QED
    BY ONLY <2>1, KeptWords
<1> HIDE DEF s
<1>9. w \in Seq(Int) /\ Len(w) = n \div 8
  BY <1>8, ExtendShape
<1>10. /\ p1[id] = b + 8 /\ r1[id] = n /\ d1[id] = w /\ d1 \in [Ids -> Seq(Int)]
       /\ \A x \in Ids : x # id => p1[x] = p[x] /\ r1[x] = r[x] /\ d1[x] = d[x]
       /\ B!Owned(fh, p1, r1)
  <2>1. p \in [Ids -> Nat] /\ r \in [Ids -> Nat]
    BY DEF B!Owned
  <2> HIDE DEF w
  <2> QED
    BY <1>5, <1>7, <1>9, <2>1 DEF w
<1> HIDE DEF p1, r1, d1, w
<1>11. Holds(c, b + 8, s)
  <2> SUFFICES ASSUME NEW k \in 1 .. Len(s) PROVE GET(c, b + 8 + 8 * (k - 1)) = s[k]
    BY DEF Holds
  <2>1. GET(c, b + 8 * k) = s[k]
    BY <1>6, <1>8
  <2>2. b + 8 + 8 * (k - 1) = b + 8 * k
    BY <1>2
  <2> QED
    BY <2>1, <2>2
<1>12. PICK f : /\ q = WriteBytes(c, b + 8, n, f)
                /\ \A k \in 1 .. n \div 8 : f[k - 1] = w[k]
  <2>1. \E f : /\ Fill(c, id, b + 8, Len(s), n) = WriteBytes(c, b + 8, n, f)
               /\ \A k \in 1 .. n \div 8 : f[k - 1] = Extend(id, s, n)[k]
    <3>1. b + 8 \in Nat /\ b + 8 # NULL /\ s \in Seq(Int)
      BY <1>2, <1>8
    <3> QED
      BY ONLY <3>1, <1>11, FillWrites
  <2>2. q = Fill(c, id, b + 8, Len(s), n)
    BY <1>5
  <2> HIDE DEF q
  <2> QED
    BY <2>1, <2>2 DEF w
<1> HIDE DEF q
<1>13. ReliedBut(c, p1, r1, d1, {id})
  BY <1>6, <1>10 DEF ReliedBut
<1>14. LET z == WriteBytes(c, p1[id], r1[id], f)
       IN  /\ Represents(z, fh)
           /\ ReliedBut(z, p1, r1, d1, {id}) /\ Relied(z, p1[id], r1[id], w)
  <2>1. p1[id] # NULL /\ Len(w) = r1[id] \div 8
    BY <1>2, <1>9, <1>10
  <2>2. \A k \in 1 .. Len(w) : f[k - 1] = w[k]
    BY <1>9, <1>12
  <2>3. B!HeapOK(fh) /\ Represents(c, fh) /\ B!Owned(fh, p1, r1) /\ w \in Seq(Int)
    BY <1>6, <1>9, <1>10
  <2> QED
    BY ONLY <2>1, <2>2, <2>3, <1>13, WriteRelied
<1>15. Represents(q, fh) /\ ReliedBut(q, p1, r1, d1, {})
  <2>1. q = WriteBytes(c, p1[id], r1[id], f)
    BY <1>10, <1>12
  <2> QED
    BY <1>10, <1>14, <2>1 DEF ReliedBut
<1> QED
  BY <1>3, <1>4, <1>5, <1>6, <1>10, <1>15 DEF Moved, q, p1, r1, d1, R, u, s

(* mm_init leaves the words of an empty heap.                              *)
LEMMA InitRepresented ==
  ASSUME NEW m, m = [mem |-> m.mem, brk |-> m.brk, lists |-> m.lists],
         m.mem \in [Words -> Int]
  PROVE  Represents(mm_init(m), B!mm_init_heap) /\ B!HeapOK(B!mm_init_heap)
<1> DEFINE q == mm_init(m)
           h == B!mm_init_heap
           L == [i \in Lists |-> NULL]
<1>1. q = [mem |-> m.mem, brk |-> 8, lists |-> L]
  <2>1. ASSUME NEW f, NEW k, NEW l, NEW j
        PROVE  [[mem |-> f, brk |-> k, lists |-> l] EXCEPT !.brk = 8, !.lists = j]
               = [mem |-> f, brk |-> 8, lists |-> j]
    <3>1. [[mem |-> f, brk |-> k, lists |-> l] EXCEPT !.brk = 8]
          = [mem |-> f, brk |-> 8, lists |-> l]
      OBVIOUS
    <3>2. [[mem |-> f, brk |-> 8, lists |-> l] EXCEPT !.lists = j]
          = [mem |-> f, brk |-> 8, lists |-> j]
      OBVIOUS
    <3> QED
      BY ONLY <3>1, <3>2
  <2>2. q = [m EXCEPT !.brk = 8, !.lists = L]
    BY DEF mm_init
  <2> HIDE DEF q, L
  <2> QED
    BY <2>1, <2>2
<1>2. L \in [Lists -> Nat] /\ \A i \in Lists : L[i] = NULL
  OBVIOUS
<1> HIDE DEF q, L
<1>3. MemShape(q)
  BY <1>1, <1>2 DEF MemShape
<1>4. h.brk = 8 /\ h.hdr = << >> /\ h.lists = [i \in Lists |-> << >>]
  BY DEF B!mm_init_heap
<1> HIDE DEF h
<1>5. \A i \in Lists : Chained(q, i, h.lists[i])
  BY <1>1, <1>2, <1>4 DEF Chained, At
<1>6. DOMAIN h.hdr = {}
  BY <1>4
<1>7. Represents(q, h)
  BY <1>1, <1>3, <1>4, <1>5, <1>6 DEF Represents
<1> QED
  BY <1>7, BlockAssumptions, B!InitHeapOK DEF q, h

-----------------------------------------------------------------------------
(* What any client of the calls can count on, whatever it writes *)

(* m spells a heap whose allocated blocks are what the client holds under  *)
(* p, with r bytes each in use.                                            *)
Serves(m, h, p, r) == B!HeapOK(h) /\ Represents(m, h) /\ B!Owned(h, p, r)

(* The n bytes at a hold in q the words that they hold in m. *)
SameWords(m, q, a, n) == \A k \in 0 .. n \div 8 - 1 : GET(q, a + 8 * k) = GET(m, a + 8 * k)

(* What is held under id, if anything, is a payload of its own block. *)
LEMMA HeldBlock ==
  ASSUME NEW m, NEW h, NEW p, NEW r, Serves(m, h, p, r), NEW id \in Ids, p[id] # NULL
  PROVE  /\ p[id] \in Nat /\ p[id] - 8 \in Nat /\ r[id] \in Nat
         /\ p[id] - 8 \in B!AllocatedIn(h) /\ p[id] - 8 \in DOMAIN h.hdr
         /\ r[id] + 8 <= h.hdr[p[id] - 8].size
         /\ \A x \in Ids : (x # id /\ p[x] # NULL) => p[x] - 8 # p[id] - 8
<1>1. /\ p[id] \in Nat /\ r[id] \in Nat /\ p[id] - 8 \in B!AllocatedIn(h)
      /\ r[id] + 8 <= h.hdr[p[id] - 8].size
      /\ \A x \in Ids : p[x] = p[id] => x = id
  BY DEF Serves, B!Owned
<1>2. p[id] - 8 \in DOMAIN h.hdr /\ p[id] - 8 \in Nat
  BY <1>1 DEF B!AllocatedIn, Serves, B!HeapOK, B!HeapShape
<1>3. \A x \in Ids : p[x] \in Nat
  BY DEF Serves, B!Owned
<1> QED
  BY <1>1, <1>2, <1>3

(* Words stay where nothing in their block changes. *)
LEMMA SameInBlock ==
  ASSUME NEW m, NEW h, NEW p, NEW r, Serves(m, h, p, r), NEW id \in Ids, p[id] # NULL,
         NEW q, \A c : OnHeap(c) /\ InBlock(h, p[id] - 8, c) => GET(q, c) = GET(m, c)
  PROVE  SameWords(m, q, p[id], r[id])
<1> DEFINE b == p[id] - 8
<1>1. b \in B!AllocatedIn(h) /\ b + 8 = p[id] /\ r[id] \in Nat /\ r[id] + 8 <= h.hdr[b].size
  BY HeldBlock
<1> HIDE DEF b
<1>2. B!HeapOK(h)
  BY DEF Serves
<1> SUFFICES ASSUME NEW k \in 0 .. r[id] \div 8 - 1
             PROVE  GET(q, p[id] + 8 * k) = GET(m, p[id] + 8 * k)
  BY DEF SameWords
<1>3. OnHeap(b + 8 + 8 * k) /\ InBlock(h, b, b + 8 + 8 * k)
  BY <1>1, <1>2, ReliedInBlock
<1> QED
  BY <1>1, <1>3 DEF b

(* malloc fails only for no bytes or for want of room. *)
LEMMA MallocFails ==
  ASSUME NEW m, NEW h, Represents(m, h), B!HeapOK(h), NEW n \in Nat, Representable(n),
         malloc(m, n).ptr = NULL
  PROVE  n = 0 \/ m.brk + asize(n) > MaxHeap
<1> DEFINE fit == SearchLists(m, asize(n))
<1>1. asize(n) \in Nat /\ m.brk \in Nat
  BY BlockAssumptions, SameArithmetic, B!AsizeHolds DEF B!HeapOK, B!HeapShape, Represents
<1>2. fit.block \in Nat
  <2>1. fit.block = NULL \/ \E i \in Lists : \E k \in DOMAIN h.lists[i] : fit.block = h.lists[i][k]
    BY <1>1, SearchFinds
  <2> QED
    BY <2>1, ListShape DEF B!HeapOK
<1> HIDE DEF fit
<1>3. CASE n # 0 /\ fit.block # NULL
  <2>1. malloc(m, n).ptr = fit.block + 8
    BY <1>3 DEF malloc, fit
  <2> QED
    BY <1>2, <2>1
<1>4. CASE n # 0 /\ fit.block = NULL /\ SbrkOK(m, asize(n))
  <2>1. malloc(m, n).ptr = m.brk + 8
    BY <1>4 DEF malloc, fit
  <2> QED
    BY <1>1, <2>1
<1>5. CASE ~ SbrkOK(m, asize(n))
  <2>1. WORD \in Nat /\ MaxHeap \in Nat /\ 2 * MaxHeap < WORD
    BY SizeClassAssumption, MmWordsAssumption
  <2> QED
    BY <1>1, <1>5, <2>1 DEF SbrkOK
<1> QED
  BY <1>3, <1>4, <1>5

(* The n bytes at a are aligned, inside the heap of m, and clear of what   *)
(* is held under every other id.                                           *)
Clear(m, p, r, id, a, n) ==
  /\ a \in Nat /\ a # NULL /\ a % 16 = 0 /\ a + n <= m.brk /\ m.brk <= MaxHeap
  /\ \A x \in Ids : (x # id /\ p[x] # NULL) => a + n <= p[x] \/ p[x] + r[x] <= a

(* malloc under an id that holds nothing. *)
Granting(m, h, p, r, id, n) ==
  LET u == malloc(m, n)
      R == B!malloc(h, n)
  IN  /\ u.ptr = R.ptr
      /\ u.ptr = NULL => n = 0 \/ m.brk + asize(n) > MaxHeap
      /\ u.ptr # NULL =>
           /\ Serves(u.mm, R.heap, [p EXCEPT ![id] = u.ptr], [r EXCEPT ![id] = n])
           /\ Clear(u.mm, p, r, id, u.ptr, n)
           /\ \A x \in Ids : p[x] # NULL => SameWords(m, u.mm, p[x], r[x])

(* It is so for every id that holds nothing and every representable size.  *)
LEMMA GrantWords ==
  ASSUME NEW m, NEW h, NEW p, NEW r, Serves(m, h, p, r), NEW id \in Ids, p[id] = NULL,
         NEW n \in Nat, Representable(n)
  PROVE  Granting(m, h, p, r, id, n)
<1> DEFINE u == malloc(m, n)
           R == B!malloc(h, n)
<1>1. B!HeapOK(h) /\ Represents(m, h) /\ B!Owned(h, p, r)
  BY DEF Serves
<1>2. Represents(u.mm, R.heap) /\ u.ptr = R.ptr /\ Kept(m, u.mm, h)
  BY <1>1, MallocRepresented
<1>3. u.ptr = NULL => n = 0 \/ m.brk + asize(n) > MaxHeap
  BY <1>1, MallocFails
<1>4. ASSUME u.ptr # NULL
      PROVE  /\ Serves(u.mm, R.heap, [p EXCEPT ![id] = u.ptr], [r EXCEPT ![id] = n])
             /\ Clear(u.mm, p, r, id, u.ptr, n)
             /\ \A x \in Ids : p[x] # NULL => SameWords(m, u.mm, p[x], r[x])
  <2> DEFINE b == R.ptr - 8
             g == R.heap
  <2>1. n # 0 /\ b \in Nat /\ u.ptr = b + 8 /\ B!HandsOut(h, g, b, n + 8)
    BY <1>1, <1>2, <1>4, BlockAssumptions, SameArithmetic, B!MallocPreserves
  <2> HIDE DEF u, R, b
  <2>2. n > 0
    BY <2>1
  <2> HIDE DEF g
  <2>3. B!HeapOK(g) /\ B!Owned(g, [p EXCEPT ![id] = b + 8], [r EXCEPT ![id] = n])
    BY <1>1, <2>1, <2>2, BlockAssumptions, B!OwnedAfterGrant DEF B!HandsOut
  <2>4. /\ (b + 8) % 16 = 0 /\ b + 8 + n <= g.brk
        /\ \A x \in Ids : p[x] # NULL => B!Contract!Apart(b + 8, n, p[x], r[x])
    BY <1>1, <2>1, BlockAssumptions, B!HandsOutClear
  <2>5. u.mm.brk = g.brk /\ g.brk <= MaxHeap
    BY <1>2, <2>3, MmWordsAssumption DEF Represents, B!HeapOK, B!HeapShape, g
  <2>6. Clear(u.mm, p, r, id, u.ptr, n)
    BY <2>1, <2>4, <2>5 DEF Clear, B!Contract!Apart
  <2>7. ASSUME NEW x \in Ids, p[x] # NULL PROVE SameWords(m, u.mm, p[x], r[x])
    <3>1. p[x] - 8 \in B!AllocatedIn(h) /\ p[x] - 8 \in Nat
      BY <2>7, HeldBlock
    <3>2. \A c : OnHeap(c) /\ InBlock(h, p[x] - 8, c) => InPayload(h, c)
      BY <3>1 DEF InBlock, InPayload
    <3> QED
      BY <1>2, <2>7, <3>2, SameInBlock DEF Kept
  <2> QED
    BY <1>2, <2>1, <2>3, <2>6, <2>7 DEF Serves, g
<1> QED
  BY <1>2, <1>3, <1>4 DEF Granting

(* free of what an id holds, if anything. *)
LEMMA ReleaseWords ==
  ASSUME NEW m, NEW h, NEW p, NEW r, Serves(m, h, p, r), NEW id \in Ids
  PROVE  LET q == free(m, p[id])
         IN  /\ Serves(q, B!free(h, p[id]), [p EXCEPT ![id] = NULL], [r EXCEPT ![id] = 0])
             /\ \A x \in Ids \ {id} : p[x] # NULL => SameWords(m, q, p[x], r[x])
<1> DEFINE q == free(m, p[id])
           g == B!free(h, p[id])
           p1 == [p EXCEPT ![id] = NULL]
           r1 == [r EXCEPT ![id] = 0]
<1>1. B!HeapOK(h) /\ Represents(m, h) /\ B!Owned(h, p, r)
  BY DEF Serves
<1>2. p \in [Ids -> Nat] /\ r \in [Ids -> Nat]
  BY <1>1 DEF B!Owned
<1>3. CASE p[id] = NULL
  <2>1. q = m /\ g = h
    BY <1>3 DEF free, B!free
  <2>2. p1 = p
    BY <1>2, <1>3
  <2>3. B!Owned(h, p, r1)
    <3>1. r1 \in [Ids -> Nat] /\ \A x \in Ids : p[x] # NULL => r1[x] = r[x]
      BY <1>2, <1>3
    <3> HIDE DEF r1
    <3> QED
      BY <1>1, <3>1 DEF B!Owned
  <2> QED
    BY <1>1, <2>1, <2>2, <2>3 DEF Serves, SameWords
<1>4. CASE p[id] # NULL
  <2>1. p[id] \in Nat /\ p[id] - 8 \in B!AllocatedIn(h)
    BY <1>4, HeldBlock
  <2>2. Represents(q, g) /\ B!HeapOK(g) /\ Kept(m, q, g)
    BY <1>1, <2>1, FreeRepresented
  <2>3. B!Owned(g, p1, r1)
    BY <1>1, <1>4, BlockAssumptions, B!OwnedAfterRelease
  <2>4. /\ B!AllocatedIn(g) = B!AllocatedIn(h) \ {p[id] - 8}
        /\ \A x \in B!AllocatedIn(g) : g.hdr[x] = h.hdr[x]
    BY <1>1, <2>1, BlockAssumptions, B!FreePreserves
  <2> HIDE DEF q, g, p1, r1
  <2>5. ASSUME NEW x \in Ids \ {id}, p[x] # NULL PROVE SameWords(m, q, p[x], r[x])
    <3>1. p[x] - 8 \in B!AllocatedIn(h) /\ p[x] - 8 \in Nat /\ p[x] - 8 # p[id] - 8
      BY <1>4, <2>5, HeldBlock
    <3>2. p[x] - 8 \in B!AllocatedIn(g) /\ g.hdr[p[x] - 8] = h.hdr[p[x] - 8]
      BY <2>4, <3>1
    <3>3. \A c : OnHeap(c) /\ InBlock(h, p[x] - 8, c) => InPayload(g, c)
      BY <3>2 DEF InBlock, InPayload
    <3> QED
      BY <2>2, <2>5, <3>3, SameInBlock DEF Kept
  <2> QED
    BY <2>2, <2>3, <2>5 DEF Serves, q, g, p1, r1
<1> QED
  BY <1>3, <1>4

(* What is there can be relied on. *)
Present(m, p, r) ==
  [x \in Ids |-> IF p[x] = NULL THEN << >>
                 ELSE [k \in 1 .. r[x] \div 8 |-> GET(m, p[x] + 8 * (k - 1))]]

InUseOnly(p, r) == [x \in Ids |-> IF p[x] = NULL THEN 0 ELSE r[x]]

LEMMA PresentWords ==
  ASSUME NEW m, NEW h, NEW p, NEW r, Serves(m, h, p, r)
  PROVE  /\ B!Owned(h, p, InUseOnly(p, r))
         /\ ReliedBut(m, p, InUseOnly(p, r), Present(m, p, r), {})
         /\ \A x \in Ids : p[x] # NULL =>
              /\ InUseOnly(p, r)[x] = r[x]
              /\ Len(Present(m, p, r)[x]) = r[x] \div 8
              /\ \A k \in 1 .. r[x] \div 8 : Present(m, p, r)[x][k] = GET(m, p[x] + 8 * (k - 1))
<1> DEFINE d == Present(m, p, r)
           s == InUseOnly(p, r)
<1>1. B!HeapOK(h) /\ Represents(m, h) /\ B!Owned(h, p, r) /\ MemShape(m)
  BY DEF Serves, Represents
<1>2. p \in [Ids -> Nat] /\ r \in [Ids -> Nat]
  BY <1>1 DEF B!Owned
<1>3. s \in [Ids -> Nat] /\ \A x \in Ids : s[x] = IF p[x] = NULL THEN 0 ELSE r[x]
  BY <1>2 DEF InUseOnly
<1>4. \A x \in Ids : p[x] = NULL => d[x] = << >>
  BY DEF Present
<1>5. ASSUME NEW x \in Ids, p[x] # NULL
      PROVE  /\ d[x] \in Seq(Int) /\ Len(d[x]) = r[x] \div 8
             /\ \A k \in 1 .. r[x] \div 8 : d[x][k] = GET(m, p[x] + 8 * (k - 1))
  <2> DEFINE n == r[x] \div 8
             F == [k \in 1 .. n |-> GET(m, p[x] + 8 * (k - 1))]
  <2>1. d[x] = F
    BY <1>5 DEF Present
  <2>2. n \in Nat
    BY <1>2
  <2>3. \A k \in 1 .. n : GET(m, p[x] + 8 * (k - 1)) \in Int
    <3> TAKE k \in 1 .. n
    <3> DEFINE b == p[x] - 8
    <3>1. b \in B!AllocatedIn(h) /\ r[x] \in Nat /\ r[x] + 8 <= h.hdr[b].size /\ b + 8 = p[x]
      BY <1>5, HeldBlock
    <3>2. k - 1 \in 0 .. r[x] \div 8 - 1
      BY <3>1
    <3> HIDE DEF b
    <3>3. OnHeap(b + 8 + 8 * (k - 1))
      BY <1>1, <3>1, <3>2, ReliedInBlock
    <3> QED
      BY <1>1, <3>1, <3>3, WordsAreInts
  <2> HIDE DEF n
  <2>4. F \in Seq(Int) /\ Len(F) = n /\ \A k \in 1 .. n : F[k] = GET(m, p[x] + 8 * (k - 1))
    BY <2>2, <2>3
  <2> QED
    BY <2>1, <2>4 DEF n
<1> HIDE DEF d, s
<1>6. B!Owned(h, p, s)
  <2>1. \A x \in Ids : p[x] # NULL => s[x] = r[x]
    BY <1>3
  <2> QED
    BY <1>1, <1>3, <2>1 DEF B!Owned
<1>7. ReliedBut(m, p, s, d, {})
  <2> SUFFICES ASSUME NEW x \in Ids PROVE Relied(m, p[x], s[x], d[x])
    BY DEF ReliedBut
  <2>1. CASE p[x] = NULL
    <3>1. d[x] = << >> /\ s[x] = 0
      BY <1>3, <1>4, <2>1
    <3>2. d[x] \in Seq(Int) /\ Len(d[x]) = 0
      BY <3>1
    <3> QED
      BY <2>1, <3>1, <3>2 DEF Relied, Holds
  <2>2. CASE p[x] # NULL
    BY <1>3, <1>5, <2>2 DEF Relied, Holds
  <2> QED
    BY <2>1, <2>2
<1> QED
  BY <1>3, <1>5, <1>6, <1>7 DEF d, s

(* realloc under an id: to no bytes it is free, without a block it is      *)
(* malloc, and otherwise the words move with the block.                    *)
Moving(m, h, p, r, id, n) ==
  LET u == realloc(m, p[id], n)
      R == B!realloc(h, p[id], n)
  IN  /\ u.ptr = R.ptr
      /\ u.ptr = NULL => m.brk + asize(n) > MaxHeap
      /\ u.ptr # NULL =>
           /\ Serves(u.mm, R.heap, [p EXCEPT ![id] = u.ptr], [r EXCEPT ![id] = n])
           /\ Clear(u.mm, p, r, id, u.ptr, n)
           /\ \A x \in Ids \ {id} : p[x] # NULL => SameWords(m, u.mm, p[x], r[x])
           /\ p[id] # NULL =>
                \A k \in 0 .. MinOf(n, r[id]) \div 8 - 1 :
                  GET(u.mm, u.ptr + 8 * k) = GET(m, p[id] + 8 * k)

(* It is so for every id and every representable size but 0. *)
LEMMA MoveWords ==
  ASSUME NEW m, NEW h, NEW p, NEW r, Serves(m, h, p, r), NEW id \in Ids,
         NEW n \in Nat, n # 0, Representable(n)
  PROVE  Moving(m, h, p, r, id, n)
<1> DEFINE u == realloc(m, p[id], n)
           R == B!realloc(h, p[id], n)
           t == malloc(m, n)
           M == B!malloc(h, n)
           g == M.heap
<1>1. B!HeapOK(h) /\ Represents(m, h) /\ B!Owned(h, p, r)
  BY DEF Serves
<1>2. CASE p[id] = NULL
  <2>1. u = t /\ R = M
    BY <1>2 DEF realloc, B!realloc
  <2> HIDE DEF u, R
  <2>2. Granting(m, h, p, r, id, n)
    BY <1>2, GrantWords
  <2> QED
    BY <1>2, <2>1, <2>2 DEF Granting, Moving, u, R
<1>3. CASE p[id] # NULL
  <2>1. Represents(t.mm, g) /\ t.ptr = M.ptr /\ Kept(m, t.mm, h)
    BY <1>1, MallocRepresented
  <2>2. CASE M.ptr = NULL
    <3>1. u = t /\ R = M
      BY <2>1, <2>2 DEF realloc, B!realloc
    <3>2. m.brk + asize(n) > MaxHeap
      BY <1>1, <2>1, <2>2, MallocFails
    <3> HIDE DEF u, R, t, M
    <3> QED
      BY <2>1, <2>2, <3>1, <3>2 DEF Moving, u, R
  <2>3. CASE M.ptr # NULL
    <3> DEFINE b == M.ptr - 8
               cs == MinOf(n, GET_SIZE(t.mm, p[id] - 8) - 8)
               q == free(memcpy(t.mm, b + 8, p[id], cs), p[id])
               fh == B!free(g, p[id])
               s == InUseOnly(p, r)
               d == Present(m, p, r)
    <3>1. b \in Nat /\ M.ptr = b + 8 /\ B!HandsOut(h, g, b, n + 8)
      BY <1>1, <2>1, <2>3, BlockAssumptions, SameArithmetic, B!MallocPreserves
    <3>2. R = [heap |-> fh, ptr |-> b + 8]
      BY <1>3, <2>3, <3>1 DEF B!realloc
    <3>3. u = [mm |-> q, ptr |-> b + 8]
      <4>1. MinOf(n, GET_SIZE(t.mm, HDRP(p[id])) - WSIZE) = cs
        BY DEF HDRP
      <4>2. t.ptr = b + 8 /\ t.ptr # NULL
        BY <2>1, <2>3, <3>1
      <4> HIDE DEF cs, t, b, M
      <4> QED
        BY <1>3, <4>1, <4>2 DEF realloc, t
    <3>4. B!Owned(h, p, s) /\ ReliedBut(m, p, s, d, {})
      BY PresentWords
    <3>5. /\ s[id] = r[id]
          /\ \A x \in Ids : p[x] # NULL =>
               /\ Len(d[x]) = r[x] \div 8
               /\ \A k \in 1 .. r[x] \div 8 : d[x][k] = GET(m, p[x] + 8 * (k - 1))
      BY <1>3, PresentWords
    <3>6. \A x \in Ids : p[x] # NULL => p[x] \in Nat /\ r[x] \in Nat
      BY HeldBlock
    <3> HIDE DEF s, d
    <3>7. /\ Represents(q, fh) /\ B!HeapOK(fh)
          /\ ReliedBut(q, p, s, d, {id})
          /\ \A k \in 1 .. MinOf(Len(d[id]), n \div 8) :
               OnHeap(b + 8 * k) /\ GET(q, b + 8 * k) = d[id][k]
      <4> DEFINE v == t.mm
      <4>1. Represents(v, g) /\ Kept(m, v, h)
        BY <2>1
      <4> HIDE DEF v, g, b
      <4>2. Copied(p, s, d, id, n, g, b, v)
        <5>1. n > 0
          OBVIOUS
        <5> QED
          BY <1>1, <1>3, <3>1, <3>4, <4>1, <5>1, CopyData
      <4> QED
        BY <4>2 DEF Copied, v
    <3>8. fh.brk = g.brk /\ B!Owned(fh, [p EXCEPT ![id] = b + 8], [r EXCEPT ![id] = n])
      <4>1. n > 0
        OBVIOUS
      <4> HIDE DEF b, g
      <4> QED
        BY <1>1, <1>3, <3>1, <4>1, BlockAssumptions, B!OwnedAfterMove
    <3>9. Clear(q, p, r, id, b + 8, n)
      <4>1. /\ (b + 8) % 16 = 0 /\ b + 8 + n <= g.brk
            /\ \A x \in Ids : p[x] # NULL => B!Contract!Apart(b + 8, n, p[x], r[x])
        BY <1>1, <3>1, BlockAssumptions, B!HandsOutClear
      <4>2. q.brk = g.brk /\ g.brk <= MaxHeap
        BY <3>7, <3>8, MmWordsAssumption DEF Represents, B!HeapOK, B!HeapShape
      <4> HIDE DEF q, g, b
      <4> QED
        BY <3>1, <4>1, <4>2 DEF Clear, B!Contract!Apart
    <3> HIDE DEF q, fh, b, g
    <3>10. ASSUME NEW x \in Ids \ {id}, p[x] # NULL PROVE SameWords(m, q, p[x], r[x])
      <4> SUFFICES ASSUME NEW k \in 0 .. r[x] \div 8 - 1
                   PROVE  GET(q, p[x] + 8 * k) = GET(m, p[x] + 8 * k)
        BY DEF SameWords
      <4>1. k + 1 \in 1 .. r[x] \div 8 /\ (k + 1) - 1 = k
        BY <3>6, <3>10
      <4>2. GET(q, p[x] + 8 * ((k + 1) - 1)) = d[x][k + 1]
        BY <3>5, <3>7, <3>10, <4>1 DEF ReliedBut, Relied, Holds
      <4> QED
        BY <3>5, <3>10, <4>1, <4>2
    <3>11. ASSUME NEW k \in 0 .. MinOf(n, r[id]) \div 8 - 1
           PROVE  GET(q, b + 8 + 8 * k) = GET(m, p[id] + 8 * k)
      <4>1. k \in Nat /\ k + 1 \in 1 .. r[id] \div 8 /\ k + 1 <= n \div 8
        BY <1>3, <3>6 DEF MinOf
      <4>2. k + 1 \in 1 .. MinOf(Len(d[id]), n \div 8)
        BY <1>3, <3>5, <4>1 DEF MinOf
      <4>3. GET(q, b + 8 * (k + 1)) = d[id][k + 1]
        BY <3>7, <4>2
      <4>4. d[id][k + 1] = GET(m, p[id] + 8 * ((k + 1) - 1))
        BY <1>3, <3>5, <4>1
      <4>5. b + 8 * (k + 1) = b + 8 + 8 * k /\ (k + 1) - 1 = k
        BY <3>1, <4>1
      <4> QED
        BY <4>3, <4>4, <4>5
    <3> HIDE DEF u, R
    <3> QED
      BY <3>1, <3>2, <3>3, <3>7, <3>8, <3>9, <3>10, <3>11 DEF Moving, Serves, u, R
  <2> QED
    BY <2>2, <2>3
<1> QED
  BY <1>2, <1>3

(* q is m after the words of D, counted from address a on, became e. *)
Patched(m, q, a, D, e) ==
  q = [m EXCEPT !.mem = [w \in Words |-> IF w - a \div 8 \in D THEN e[w - a \div 8] ELSE m.mem[w]]]

(* The client may write any words into what it holds. *)
LEMMA PatchWords ==
  ASSUME NEW m, NEW h, NEW p, NEW r, Serves(m, h, p, r), NEW id \in Ids, p[id] # NULL,
         NEW D \in SUBSET (0 .. r[id] \div 8 - 1), NEW e, \A k \in D : e[k] \in Int,
         r[id] % 8 = 0,
         NEW q, Patched(m, q, p[id], D, e)
  PROVE  /\ Serves(q, h, p, r)
         /\ \A k \in D : GET(q, p[id] + 8 * k) = e[k]
         /\ \A x \in Ids \ {id} : p[x] # NULL => SameWords(m, q, p[x], r[x])
<1> DEFINE b == p[id] - 8
           n == r[id]
           f == [k \in 0 .. n \div 8 - 1 |-> IF k \in D THEN e[k] ELSE GET(m, b + 8 + 8 * k)]
<1>1. B!HeapOK(h) /\ Represents(m, h) /\ B!Owned(h, p, r) /\ MemShape(m)
  BY DEF Serves, Represents
<1>2. /\ p[id] \in Nat /\ b \in Nat /\ p[id] = b + 8 /\ n \in Nat
      /\ b \in B!AllocatedIn(h) /\ n + 8 <= h.hdr[b].size /\ b \in DOMAIN h.hdr
  BY HeldBlock
<1>3. b % 16 = 8 /\ (b + 8) % 8 = 0
  <2>1. b % 16 = 8
    BY <1>1, <1>2 DEF B!HeapOK, B!Tiled
  <2> HIDE DEF b
  <2>2. \A y \in Nat : y % 16 = 8 => (y + 8) % 8 = 0
    OBVIOUS
  <2> QED
    BY <1>2, <2>1, <2>2
<1> HIDE DEF b, n
<1>4. \A k \in 0 .. n \div 8 - 1 : f[k] \in Int /\ OnHeap(b + 8 + 8 * k)
  <2> TAKE k \in 0 .. n \div 8 - 1
  <2>1. OnHeap(b + 8 + 8 * k)
    BY <1>1, <1>2, ReliedInBlock
  <2>2. GET(m, b + 8 + 8 * k) \in Int
    BY <1>1, <2>1, WordsAreInts
  <2> QED
    BY <2>1, <2>2
<1>5. q = WriteBytes(m, b + 8, n, f)
  <2> DEFINE j == (b + 8) \div 8
  <2>1. j \in Nat /\ b + 8 = 8 * j
    BY <1>2, <1>3
  <2>2. ASSUME NEW w \in Words
        PROVE  (IF w - j \in D THEN e[w - j] ELSE m.mem[w])
               = IF w - j \in 0 .. n \div 8 - 1 THEN f[w - j]
                 ELSE IF w - j = n \div 8 /\ n % 8 # 0 THEN PARTIAL ELSE m.mem[w]
    <3>1. n % 8 = 0
      BY DEF n
    <3>2. CASE w - j \in D
      BY <3>2 DEF n
    <3>3. CASE w - j \notin D /\ w - j \in 0 .. n \div 8 - 1
      <4>1. b + 8 + 8 * (w - j) = 8 * w
        BY <1>2, <2>1 DEF Words
      <4>2. w \in Nat /\ (8 * w) \div 8 = w
        BY DEF Words
      <4>3. f[w - j] = m.mem[w]
        BY <3>3, <4>1, <4>2 DEF GET
      <4> QED
        BY <3>3, <4>3
    <3>4. CASE w - j \notin D /\ w - j \notin 0 .. n \div 8 - 1
      BY <3>1, <3>4
    <3> QED
      BY <3>2, <3>3, <3>4
  <2>3. q = [m EXCEPT !.mem = [w \in Words |-> IF w - j \in D THEN e[w - j] ELSE m.mem[w]]]
    BY <1>2 DEF Patched
  <2> HIDE DEF j, f
  <2>4. [w \in Words |-> IF w - j \in D THEN e[w - j] ELSE m.mem[w]]
        = [w \in Words |-> IF w - j \in 0 .. n \div 8 - 1 THEN f[w - j]
                           ELSE IF w - j = n \div 8 /\ n % 8 # 0 THEN PARTIAL ELSE m.mem[w]]
    BY <2>2
  <2> QED
    BY <2>3, <2>4 DEF WriteBytes, j
<1>6. /\ Represents(q, h)
      /\ \A k \in 0 .. n \div 8 - 1 : GET(q, b + 8 + 8 * k) = f[k]
      /\ \A c : OnHeap(c) /\ Elsewhere(h, b, c) => GET(q, c) = GET(m, c)
  <2> HIDE DEF f
  <2> QED
    BY ONLY <1>1, <1>2, <1>4, <1>5, WriteRepresented
<1>7. \A k \in D : GET(q, p[id] + 8 * k) = e[k]
  <2> TAKE k \in D
  <2>1. k \in 0 .. n \div 8 - 1
    BY DEF n
  <2> QED
    BY <1>2, <1>6, <2>1
<1> HIDE DEF f
<1>8. ASSUME NEW x \in Ids \ {id}, p[x] # NULL PROVE SameWords(m, q, p[x], r[x])
  <2>1. p[x] - 8 \in B!AllocatedIn(h) /\ p[x] - 8 \in DOMAIN h.hdr /\ p[x] - 8 # b /\ p[x] - 8 \in Nat
    BY <1>8, HeldBlock DEF b
  <2>2. \A c : OnHeap(c) /\ InBlock(h, p[x] - 8, c) => Elsewhere(h, b, c)
    BY <1>1, <1>2, <2>1 DEF InBlock, Elsewhere, B!HeapOK, B!Tiled, B!HeapShape
  <2> QED
    BY <1>6, <1>8, <2>2, SameInBlock
<1> QED
  BY <1>1, <1>6, <1>7, <1>8 DEF Serves

(* After mm_init nothing is held. *)
LEMMA InitWords ==
  ASSUME NEW m, m = [mem |-> m.mem, brk |-> m.brk, lists |-> m.lists], m.mem \in [Words -> Int]
  PROVE  Serves(mm_init(m), B!mm_init_heap, [id \in Ids |-> NULL], [id \in Ids |-> 0])
BY InitRepresented, BlockAssumptions, B!FreshState DEF Serves

(* The headers with their bit set are those of the blocks held. *)
LEMMA HeadersHeld ==
  ASSUME NEW m, NEW h, NEW p, NEW r, Serves(m, h, p, r)
  PROVE  /\ {b \in BlocksOf(m) : GET_ALLOC(m, b) = 1} = {p[x] - 8 : x \in {y \in Ids : p[y] # NULL}}
         /\ \A x \in Ids : p[x] # NULL => /\ r[x] + 8 <= GET_SIZE(m, p[x] - 8)
                                         /\ GET_SIZE(m, p[x] - 8) \in Nat
<1>1. B!HeapOK(h) /\ Represents(m, h) /\ B!Owned(h, p, r)
  BY DEF Serves
<1>2. BlocksOf(m) = DOMAIN h.hdr
  BY <1>1, BlocksMet
<1>3. \A b \in DOMAIN h.hdr : /\ GET_SIZE(m, b) = h.hdr[b].size
                              /\ GET_ALLOC(m, b) = 1 <=> h.hdr[b].alloc
  BY <1>1, HeaderRead DEF B!HeapOK
<1>4. {b \in BlocksOf(m) : GET_ALLOC(m, b) = 1} = B!AllocatedIn(h)
  BY <1>2, <1>3 DEF B!AllocatedIn
<1>5. \A x \in Ids : p[x] # NULL =>
        /\ p[x] - 8 \in B!AllocatedIn(h) /\ p[x] - 8 \in DOMAIN h.hdr
        /\ r[x] + 8 <= h.hdr[p[x] - 8].size /\ h.hdr[p[x] - 8].size \in Nat
  BY <1>1, HeldBlock DEF B!HeapOK, B!HeapShape
<1>6. ASSUME NEW b \in B!AllocatedIn(h)
      PROVE  \E x \in {y \in Ids : p[y] # NULL} : b = p[x] - 8
  <2>1. b \in Nat
    BY <1>1 DEF B!AllocatedIn, B!HeapOK, B!HeapShape
  <2>2. PICK x \in Ids : p[x] = b + 8
    BY <1>1 DEF B!Owned
  <2> QED
    BY <2>1, <2>2
<1>7. B!AllocatedIn(h) = {p[x] - 8 : x \in {y \in Ids : p[y] # NULL}}
  BY <1>5, <1>6
<1> QED
  BY <1>3, <1>4, <1>5, <1>7

-----------------------------------------------------------------------------
(* The specification of the blocks, as WordHeap states it *)

(* Its calls are those of BlockHeapProofs.                                 *)
LEMMA SameCalls ==
  /\ Blocks!mm_init_heap = B!mm_init_heap
  /\ \A h, n : Blocks!malloc(h, n) = B!malloc(h, n)
  /\ \A h, p : Blocks!free(h, p) = B!free(h, p)
  /\ \A h, p, n : Blocks!realloc(h, p, n) = B!realloc(h, p, n)
  /\ \A h, k, n : Blocks!calloc(h, k, n) = B!calloc(h, k, n)
<1> USE DEF Blocks!NULL, Blocks!ALIGNMENT, Blocks!WSIZE, Blocks!SPLIT_MIN, Blocks!Lists
<1>1. /\ \A n : Blocks!get_list_index(n) = B!get_list_index(n)
      /\ \A n : Blocks!asize(n) = B!asize(n)
      /\ \A k, n : Blocks!calloc_size(k, n) = B!calloc_size(k, n)
  <2>1. \A n : Blocks!get_list_index(n) = B!get_list_index(n)
    BY DEF Blocks!get_list_index, B!get_list_index, Blocks!Cardinality, B!Cardinality,
           Blocks!IsFiniteSet, B!IsFiniteSet
  <2>2. \A n : Blocks!asize(n) = B!asize(n)
    BY DEF Blocks!asize, B!asize, Blocks!align, B!align
  <2>3. \A k, n : Blocks!calloc_size(k, n) = B!calloc_size(k, n)
    BY DEF Blocks!calloc_size, B!calloc_size
  <2> QED
    BY <2>1, <2>2, <2>3
<1>2. \A h, b, n, a : Blocks!PutHeader(h, b, n, a) = B!PutHeader(h, b, n, a)
  BY DEF Blocks!PutHeader, B!PutHeader
<1>3. \A h, b : Blocks!Push(h, b) = B!Push(h, b)
  BY <1>1 DEF Blocks!Push, B!Push, Blocks!Cons, B!Cons
<1>4. \A h, i, k : Blocks!Unlink(h, i, k) = B!Unlink(h, i, k)
  <2>1. \A s, k : Blocks!RemoveAt(s, k) = B!RemoveAt(s, k)
    BY DEF Blocks!RemoveAt, B!RemoveAt
  <2> QED
    BY <1>1, <2>1 DEF Blocks!Unlink, B!Unlink
<1>5. ASSUME NEW h, NEW b, NEW n
      PROVE  Blocks!split(h, b, n) = B!split(h, b, n)
  <2> DEFINE d == h.hdr[b].size - n
             c == b + n
             u1 == Blocks!PutHeader(Blocks!PutHeader(h, b, n, TRUE), c, d, FALSE)
             u2 == B!PutHeader(B!PutHeader(h, b, n, TRUE), c, d, FALSE)
             v1 == Blocks!PutHeader(h, b, h.hdr[b].size, TRUE)
             v2 == B!PutHeader(h, b, h.hdr[b].size, TRUE)
  <2>1. Blocks!split(h, b, n) = IF d >= 32 THEN Blocks!Push(u1, c) ELSE v1
    BY DEF Blocks!split
  <2>2. B!split(h, b, n) = IF d >= 32 THEN B!Push(u2, c) ELSE v2
    BY DEF B!split
  <2> HIDE DEF c, d
  <2>3. u1 = u2 /\ v1 = v2
    BY <1>2
  <2> HIDE DEF u1, u2, v1, v2
  <2>4. Blocks!Push(u1, c) = B!Push(u2, c)
    BY <1>3, <2>3
  <2> QED
    BY <2>1, <2>2, <2>3, <2>4
<1>6. \A h, n, i, k : Blocks!IsFirstFit(h, n, i, k) = B!IsFirstFit(h, n, i, k)
  BY <1>1 DEF Blocks!IsFirstFit, B!IsFirstFit, Blocks!Fits, B!Fits
<1>7. ASSUME NEW h, NEW n
      PROVE  Blocks!malloc(h, n) = B!malloc(h, n)
  <2> DEFINE N1 == Blocks!asize(n)
             i1 == CHOOSE i \in Lists : \E k \in DOMAIN h.lists[i] : Blocks!IsFirstFit(h, N1, i, k)
             k1 == CHOOSE k \in DOMAIN h.lists[i1] : Blocks!IsFirstFit(h, N1, i1, k)
             b1 == h.lists[i1][k1]
             s1 == Blocks!split(Blocks!Unlink(h, i1, k1), b1, N1)
             g1 == Blocks!PutHeader([h EXCEPT !.brk = @ + N1], h.brk, N1, TRUE)
             grows1 == Blocks!SbrkOK(h.brk, N1)
             found1 == \E i \in Lists : \E k \in DOMAIN h.lists[i] : Blocks!IsFirstFit(h, N1, i, k)
             N2 == B!asize(n)
             i2 == CHOOSE i \in Lists : \E k \in DOMAIN h.lists[i] : B!IsFirstFit(h, N2, i, k)
             k2 == CHOOSE k \in DOMAIN h.lists[i2] : B!IsFirstFit(h, N2, i2, k)
             b2 == h.lists[i2][k2]
             s2 == B!split(B!Unlink(h, i2, k2), b2, N2)
             g2 == B!PutHeader([h EXCEPT !.brk = @ + N2], h.brk, N2, TRUE)
             grows2 == B!SbrkOK(h.brk, N2)
             found2 == \E i \in Lists : \E k \in DOMAIN h.lists[i] : B!IsFirstFit(h, N2, i, k)
  <2>1. N1 = N2 /\ \A i, k : Blocks!IsFirstFit(h, N1, i, k) <=> B!IsFirstFit(h, N2, i, k)
    BY <1>1, <1>6
  <2>2. Blocks!malloc(h, n) =
          IF n = 0 THEN [heap |-> h, ptr |-> NULL]
          ELSE IF found1
          THEN [heap |-> s1, ptr |-> b1 + 8]
          ELSE IF grows1
          THEN [heap |-> g1, ptr |-> h.brk + 8]
          ELSE [heap |-> h, ptr |-> NULL]
    BY DEF Blocks!malloc
  <2>3. B!malloc(h, n) =
          IF n = 0 THEN [heap |-> h, ptr |-> NULL]
          ELSE IF found2
          THEN [heap |-> s2, ptr |-> b2 + 8]
          ELSE IF grows2
          THEN [heap |-> g2, ptr |-> h.brk + 8]
          ELSE [heap |-> h, ptr |-> NULL]
    BY DEF B!malloc
  <2> HIDE DEF N1, N2
  <2>4. i1 = i2 /\ (found1 <=> found2)
    BY <2>1, Zenon
  <2> HIDE DEF i1, i2, found1, found2
  <2>5. k1 = k2
    BY <2>1, <2>4, Zenon
  <2> HIDE DEF k1, k2
  <2>6. grows1 <=> grows2
    BY <2>1 DEF Blocks!SbrkOK, B!SbrkOK
  <2>7. g1 = g2
    BY <1>2, <2>1
  <2>8. s1 = s2
    BY <1>4, <1>5, <2>1, <2>4, <2>5
  <2>9. b1 = b2
    BY <2>4, <2>5
  <2> HIDE DEF b1, b2, s1, s2, g1, g2, grows1, grows2
  <2> QED
    BY <2>2, <2>3, <2>4, <2>6, <2>7, <2>8, <2>9
<1>8. \A h, p : Blocks!free(h, p) = B!free(h, p)
  BY <1>2, <1>3 DEF Blocks!free, B!free
<1>9. \A h, p, n : Blocks!realloc(h, p, n) = B!realloc(h, p, n)
  BY <1>7, <1>8 DEF Blocks!realloc, B!realloc
<1>10. \A h, k, n : Blocks!calloc(h, k, n) = B!calloc(h, k, n)
  BY <1>1, <1>7 DEF Blocks!calloc, B!calloc
<1>11. Blocks!mm_init_heap = B!mm_init_heap
  BY DEF Blocks!mm_init_heap, B!mm_init_heap
<1> QED
  BY <1>7, <1>8, <1>9, <1>10, <1>11

(* So are its initial states and its steps.                                *)
LEMMA SameSpecification ==
  /\ B!Init => Blocks!Init
  /\ [B!Next]_(B!vars) => [Blocks!Next]_(Blocks!vars)
<1>1. B!Init => Blocks!Init
  BY SameCalls DEF B!Init, Blocks!Init, Blocks!NULL
<1>2. \A id, p, n : B!Store(id, p, n) => Blocks!Store(id, p, n)
  BY DEF B!Store, Blocks!Store, Blocks!NULL
<1>3. \A id, n : B!Malloc(id, n) => Blocks!Malloc(id, n)
  BY <1>2, SameCalls DEF B!Malloc, Blocks!Malloc, Blocks!NULL
<1>4. \A id, k, n : B!Calloc(id, k, n) => Blocks!Calloc(id, k, n)
  BY <1>2, SameCalls DEF B!Calloc, Blocks!Calloc, Blocks!NULL
<1>5. \A id : B!Free(id) => Blocks!Free(id)
  BY <1>2, SameCalls DEF B!Free, Blocks!Free, Blocks!NULL
<1>6. \A id, n : B!Realloc(id, n) => Blocks!Realloc(id, n)
  BY <1>2, SameCalls DEF B!Realloc, Blocks!Realloc, Blocks!NULL
<1>7. B!Reset => Blocks!Reset
  BY SameCalls DEF B!Reset, Blocks!Reset, Blocks!NULL
<1>8. B!Next => Blocks!Next
  BY <1>3, <1>4, <1>5, <1>6, <1>7 DEF B!Next, Blocks!Next
<1> QED
  BY <1>1, <1>8 DEF B!vars, Blocks!vars

-----------------------------------------------------------------------------
(* The invariant *)

(* The memory spells a heap of which BlockHeap's invariant holds, and the  *)
(* client finds the words it relies on.                                    *)
IInv ==
  /\ B!IInv
  /\ Represents(mm, HeapOf(mm))
  /\ data \in [Ids -> Seq(Int)]
  /\ ReliedBut(mm, ptr, req, data, {})

(* A step keeps it that does to the heap what a step of BlockHeap does.    *)
LEMMA IInvKept ==
  ASSUME IInv, [B!Next]_(B!vars), NEW g, HeapOf(mm') = g, Represents(mm', g),
         data' \in [Ids -> Seq(Int)], ReliedBut(mm', ptr', req', data', {})
  PROVE  IInv'
<1>1. B!IInv'
  BY BlockAssumptions, B!NextIInv DEF IInv
<1> QED
  BY <1>1 DEF IInv

(* mm_init, at the start and before the next pass.                         *)
LEMMA InitIInv == Init => IInv /\ B!Init
<1> SUFFICES ASSUME Init PROVE IInv /\ B!Init
  OBVIOUS
<1> DEFINE m == [mem |-> [w \in Words |-> 0], brk |-> 0, lists |-> << >>]
<1>1. m.mem \in [Words -> Int] /\ m = [mem |-> m.mem, brk |-> m.brk, lists |-> m.lists]
  OBVIOUS
<1> HIDE DEF m
<1>2. Represents(mm_init(m), B!mm_init_heap) /\ B!HeapOK(B!mm_init_heap)
  BY <1>1, InitRepresented
<1>3. mm = mm_init(m)
  BY DEF Init, m
<1>4. HeapOf(mm) = B!mm_init_heap
  BY <1>2, <1>3, HeapOfRepresented
<1>5. B!Init
  BY <1>4 DEF Init, B!Init
<1>6. B!IInv
  BY <1>5, BlockAssumptions, B!InitIInv
<1>7. data \in [Ids -> Seq(Int)] /\ ReliedBut(mm, ptr, req, data, {})
  <2>1. << >> \in Seq(Int) /\ Len(<< >>) = 0
    OBVIOUS
  <2> QED
    BY <2>1 DEF Init, ReliedBut, Relied, Holds
<1> QED
  BY <1>2, <1>3, <1>4, <1>5, <1>6, <1>7 DEF IInv

(* The next pass over the heap starts with the words of the last one.      *)
LEMMA ResetIInv ==
  ASSUME IInv, Reset
  PROVE  IInv' /\ [B!Next]_(B!vars)
<1>1. mm = [mem |-> mm.mem, brk |-> mm.brk, lists |-> mm.lists] /\ mm.mem \in [Words -> Int]
  BY DEF IInv, Represents, MemShape
<1>2. Represents(mm_init(mm), B!mm_init_heap) /\ B!HeapOK(B!mm_init_heap)
  BY <1>1, InitRepresented
<1>3. Represents(mm', B!mm_init_heap) /\ HeapOf(mm') = B!mm_init_heap
  BY <1>2, HeapOfRepresented DEF Reset
<1>4. [B!Next]_(B!vars)
  BY <1>3 DEF Reset, B!Reset, B!Next
<1>5. data' \in [Ids -> Seq(Int)] /\ ReliedBut(mm', ptr', req', data', {})
  <2>1. << >> \in Seq(Int) /\ Len(<< >>) = 0
    OBVIOUS
  <2> QED
    BY <2>1 DEF Reset, ReliedBut, Relied, Holds
<1> QED
  BY <1>3, <1>4, <1>5, IInvKept

(* The client's malloc.                                                    *)
LEMMA MallocIInv ==
  ASSUME IInv, NEW id \in Ids, NEW size \in Sizes, Malloc(id, size)
  PROVE  IInv' /\ [B!Next]_(B!vars)
<1> DEFINE h == HeapOf(mm)
           u == malloc(mm, size)
           w == Extend(id, << >>, size)
           f == [k \in 0 .. size \div 8 - 1 |->
                  IF k < 0 THEN GET(u.mm, u.ptr + 8 * k) ELSE Tag(id, k)]
           q == IF u.ptr = NULL THEN u.mm ELSE WriteBytes(u.mm, u.ptr, size, f)
           R == B!malloc(h, size)
<1>1. /\ B!HeapOK(h) /\ B!Owned(h, ptr, req) /\ Represents(mm, h)
      /\ data \in [Ids -> Seq(Int)] /\ ReliedBut(mm, ptr, req, data, {})
  BY DEF IInv, B!IInv
<1>2. size \in Nat /\ Representable(size) /\ ptr[id] = NULL
  BY WordHeapAssumption DEF Malloc
<1>3. << >> \in Seq(Int) /\ Len(<< >>) = 0
  OBVIOUS
<1>4. w \in Seq(Int) /\ Len(w) = size \div 8 /\ \A k \in 1 .. Len(w) : f[k - 1] = w[k]
  <2>1. w \in Seq(Int) /\ Len(w) = size \div 8
    BY <1>2, <1>3, ExtendShape
  <2>2. ASSUME NEW k \in 1 .. size \div 8
        PROVE  f[k - 1] = w[k]
    <3>1. w[k] = IF k <= Len(<< >>) THEN << >>[k] ELSE Tag(id, k - 1)
      BY <1>2, <1>3, ExtendShape
    <3>2. k - 1 \in 0 .. size \div 8 - 1 /\ ~ k <= 0 /\ ~ k - 1 < 0
      BY <1>2
    <3>3. f[k - 1] = Tag(id, k - 1)
      BY <3>2
    <3> HIDE DEF f, w
    <3> QED
      BY <1>3, <3>1, <3>2, <3>3
  <2> HIDE DEF f, w
  <2> QED
    BY <2>1, <2>2
<1>5. mm' = q
  BY <1>3 DEF Malloc, Fill
<1>6. /\ ptr' = [ptr EXCEPT ![id] = u.ptr]
      /\ req' = [req EXCEPT ![id] = IF u.ptr = NULL THEN 0 ELSE size]
      /\ data' = [data EXCEPT ![id] = IF u.ptr = NULL THEN << >> ELSE w]
  BY DEF Malloc, Store
<1> HIDE DEF h, f, w
<1>7. Granted(h, mm, ptr, req, data, id, size, f, w)
  BY <1>1, <1>2, <1>4, GrantData
<1>8. /\ Represents(mm', R.heap) /\ B!HeapOK(R.heap) /\ u.ptr = R.ptr
      /\ data' \in [Ids -> Seq(Int)] /\ ReliedBut(mm', ptr', req', data', {})
  BY <1>5, <1>6, <1>7 DEF Granted
<1>9. HeapOf(mm') = R.heap
  BY <1>8, HeapOfRepresented
<1>10. B!Malloc(id, size)
  BY <1>2, <1>6, <1>8, <1>9 DEF B!Malloc, B!Store, h
<1>11. [B!Next]_(B!vars)
  BY <1>10 DEF B!Next
<1> QED
  BY <1>8, <1>9, <1>11, IInvKept

(* Its calloc.                                                             *)
LEMMA CallocIInv ==
  ASSUME IInv, NEW id \in Ids, NEW nmemb \in Counts, NEW size \in Sizes, Calloc(id, nmemb, size)
  PROVE  IInv' /\ [B!Next]_(B!vars)
<1> DEFINE h == HeapOf(mm)
           n == nmemb * size
           u == malloc(mm, n)
           w == [k \in 1 .. n \div 8 |-> 0]
           f == [k \in 0 .. n \div 8 - 1 |-> 0]
           q == IF u.ptr = NULL THEN u.mm ELSE WriteBytes(u.mm, u.ptr, n, f)
           R == B!malloc(h, n)
<1>1. /\ B!HeapOK(h) /\ B!Owned(h, ptr, req) /\ Represents(mm, h)
      /\ data \in [Ids -> Seq(Int)] /\ ReliedBut(mm, ptr, req, data, {})
  BY DEF IInv, B!IInv
<1>2. n \in Nat /\ Representable(n) /\ ptr[id] = NULL
  BY WordHeapAssumption DEF Calloc
<1>3. calloc_size(nmemb, size) = n /\ B!calloc(h, nmemb, size) = R
  <2>1. calloc_size(nmemb, size) = n
    <3> HIDE DEF n
    <3>1. n < WORD /\ WORD \in Nat
      BY <1>2, SizeClassAssumption DEF Representable
    <3>2. n % WORD = n
      BY <1>2, <3>1
    <3> QED
      BY <3>2 DEF calloc_size, n
  <2>2. B!calloc_size(nmemb, size) = n
    BY <2>1, SameArithmetic
  <2> HIDE DEF n, h
  <2> QED
    BY <2>1, <2>2 DEF B!calloc
<1>4. u = [mm |-> u.mm, ptr |-> u.ptr]
  BY DEF malloc
<1>5. calloc(mm, nmemb, size).mm = q /\ calloc(mm, nmemb, size).ptr = u.ptr
  <2>1. calloc(mm, nmemb, size) = IF u.ptr = NULL THEN u ELSE [u EXCEPT !.mm = memset0(u.mm, u.ptr, n)]
    BY <1>3 DEF calloc
  <2>2. memset0(u.mm, u.ptr, n) = WriteBytes(u.mm, u.ptr, n, f)
    BY DEF memset0
  <2> DEFINE z == WriteBytes(u.mm, u.ptr, n, f)
  <2> HIDE DEF u, n, f, z
  <2>3. [u EXCEPT !.mm = z] = [mm |-> z, ptr |-> u.ptr]
    BY <1>4
  <2> QED
    BY <2>1, <2>2, <2>3 DEF z
<1> HIDE DEF n, h, u
<1>6. w \in Seq(Int) /\ Len(w) = n \div 8 /\ \A k \in 1 .. Len(w) : f[k - 1] = w[k]
  <2> DEFINE e == n \div 8
  <2>1. e \in Nat
    BY <1>2
  <2>2. w \in [1 .. e -> Int]
    OBVIOUS
  <2>3. w \in Seq(Int) /\ Len(w) = e
    BY <2>1, <2>2, SeqDef, LenProperties
  <2>4. ASSUME NEW k \in 1 .. e
        PROVE  f[k - 1] = w[k]
    <3> HIDE DEF e
    <3>1. k - 1 \in 0 .. e - 1
      BY <2>1
    <3> QED
      BY <3>1 DEF e
  <2> HIDE DEF w, f
  <2> QED
    BY <2>3, <2>4
<1>7. /\ mm' = q
      /\ ptr' = [ptr EXCEPT ![id] = u.ptr]
      /\ req' = [req EXCEPT ![id] = IF u.ptr = NULL THEN 0 ELSE n]
      /\ data' = [data EXCEPT ![id] = IF u.ptr = NULL THEN << >> ELSE w]
  BY <1>5 DEF Calloc, Store, n
<1> HIDE DEF f, w
<1>8. Granted(h, mm, ptr, req, data, id, n, f, w)
  BY <1>1, <1>2, <1>6, GrantData
<1>9. /\ Represents(mm', R.heap) /\ B!HeapOK(R.heap) /\ u.ptr = R.ptr
      /\ data' \in [Ids -> Seq(Int)] /\ ReliedBut(mm', ptr', req', data', {})
  BY <1>7, <1>8 DEF Granted, u
<1>10. HeapOf(mm') = R.heap
  BY <1>9, HeapOfRepresented
<1>11. B!Calloc(id, nmemb, size)
  BY <1>2, <1>3, <1>7, <1>9, <1>10 DEF B!Calloc, B!Store, h, n
<1>12. [B!Next]_(B!vars)
  BY <1>11 DEF B!Next
<1> QED
  BY <1>9, <1>10, <1>12, IInvKept

(* Its free, of a pointer or of NULL.                                      *)
LEMMA FreeIInv ==
  ASSUME IInv, NEW id \in Ids, Free(id)
  PROVE  IInv' /\ [B!Next]_(B!vars)
<1> DEFINE h == HeapOf(mm)
           g == B!free(h, ptr[id])
<1>1. /\ B!HeapOK(h) /\ B!Owned(h, ptr, req) /\ Represents(mm, h)
      /\ data \in [Ids -> Seq(Int)] /\ ReliedBut(mm, ptr, req, data, {})
  BY DEF IInv, B!IInv
<1>2. /\ mm' = free(mm, ptr[id])
      /\ ptr' = [ptr EXCEPT ![id] = NULL]
      /\ req' = [req EXCEPT ![id] = 0]
      /\ data' = [data EXCEPT ![id] = << >>]
  BY DEF Free, Store
<1> HIDE DEF h
<1>3. Released(h, mm, ptr, req, data, id)
  BY <1>1, ReleaseData
<1>4. /\ Represents(mm', g) /\ B!HeapOK(g)
      /\ data' \in [Ids -> Seq(Int)] /\ ReliedBut(mm', ptr', req', data', {})
  BY <1>2, <1>3 DEF Released
<1>5. HeapOf(mm') = g
  BY <1>4, HeapOfRepresented
<1>6. B!Free(id)
  BY <1>2, <1>5 DEF B!Free, B!Store, h
<1>7. [B!Next]_(B!vars)
  BY <1>6 DEF B!Next
<1> QED
  BY <1>4, <1>5, <1>7, IInvKept

(* Its realloc: a free, an attempt that fails, a malloc, or a move.        *)
LEMMA ReallocIInv ==
  ASSUME IInv, NEW id \in Ids, NEW size \in Sizes, Realloc(id, size)
  PROVE  IInv' /\ [B!Next]_(B!vars)
<1> DEFINE h == HeapOf(mm)
           o == ptr[id]
           t == malloc(mm, size)
           T == B!malloc(h, size)
           u == realloc(mm, o, size)
           R == B!realloc(h, o, size)
           s == SubSeq(data[id], 1, MinOf(Len(data[id]), size \div 8))
           w == Extend(id, s, size)
<1>1. /\ B!HeapOK(h) /\ B!Owned(h, ptr, req) /\ Represents(mm, h)
      /\ data \in [Ids -> Seq(Int)] /\ ReliedBut(mm, ptr, req, data, {})
  BY DEF IInv, B!IInv
<1>2. size \in Nat /\ Representable(size) /\ size \div 8 \in Nat
  BY WordHeapAssumption
<1>3. /\ mm' = Fill(u.mm, id, u.ptr, Len(s), size)
      /\ u.ptr = NULL /\ size # 0 => UNCHANGED <<ptr, req, data>>
      /\ ~ (u.ptr = NULL /\ size # 0) => Store(id, u.ptr, size, w)
  BY DEF Realloc
<1>4. /\ R.ptr = NULL /\ size # 0 /\ HeapOf(mm') = R.heap /\ UNCHANGED <<ptr, req>>
         => B!Realloc(id, size)
      /\ ~ (R.ptr = NULL /\ size # 0) /\ HeapOf(mm') = R.heap /\ B!Store(id, R.ptr, size)
         => B!Realloc(id, size)
  BY DEF B!Realloc
<1>5. B!Realloc(id, size) => [B!Next]_(B!vars)
  BY DEF B!Next
<1>6. /\ s \in Seq(Int) /\ Len(s) = MinOf(Len(data[id]), size \div 8)
      /\ \A k \in 1 .. Len(s) : s[k] = data[id][k]
  BY <1>1, <1>2, KeptWords
<1>7. Represents(t.mm, T.heap) /\ t.ptr = T.ptr /\ Kept(mm, t.mm, h)
  BY <1>1, <1>2, MallocRepresented
<1>8. CASE size = 0
  <2>1. u.mm = free(mm, o) /\ u.ptr = NULL
    BY <1>8 DEF realloc
  <2>2. R.heap = B!free(h, o) /\ R.ptr = NULL
    BY <1>8 DEF B!realloc
  <2> HIDE DEF h, u, R, s, w
  <2>3. mm' = free(mm, o) /\ Store(id, NULL, 0, w)
    BY <1>3, <1>8, <2>1 DEF Fill
  <2>4. /\ ptr' = [ptr EXCEPT ![id] = NULL]
        /\ req' = [req EXCEPT ![id] = 0]
        /\ data' = [data EXCEPT ![id] = << >>]
    BY <2>3 DEF Store
  <2>5. Released(h, mm, ptr, req, data, id)
    BY <1>1, ReleaseData
  <2>6. /\ Represents(mm', R.heap) /\ B!HeapOK(R.heap)
        /\ data' \in [Ids -> Seq(Int)] /\ ReliedBut(mm', ptr', req', data', {})
    BY <2>2, <2>3, <2>4, <2>5 DEF Released
  <2>7. HeapOf(mm') = R.heap
    BY <2>6, HeapOfRepresented
  <2>8. B!Store(id, R.ptr, size)
    BY <1>8, <2>2, <2>4 DEF B!Store
  <2> QED
    BY <1>4, <1>5, <1>8, <2>6, <2>7, <2>8, IInvKept
<1>9. CASE size # 0 /\ t.ptr = NULL
  <2>1. u = t
    BY <1>9 DEF realloc
  <2>2. R = T
    BY <1>7, <1>9 DEF B!realloc
  <2>3. T.heap = h
    <3> HIDE DEF h
    <3>1. (T.ptr = NULL /\ T.heap = h) \/ T.ptr - 8 \in Nat
      BY <1>1, <1>2, BlockAssumptions, SameArithmetic, B!MallocPreserves
    <3> HIDE DEF T
    <3> QED
      BY <1>7, <1>9, <3>1
  <2> HIDE DEF h, u, R, s, w, t, T
  <2>4. mm' = t.mm /\ UNCHANGED <<ptr, req, data>>
    BY <1>3, <1>9, <2>1 DEF Fill
  <2>5. ReliedBut(t.mm, ptr, req, data, {})
    BY <1>1, <1>7, MallocRelied
  <2>6. /\ Represents(mm', R.heap) /\ B!HeapOK(R.heap)
        /\ data' \in [Ids -> Seq(Int)] /\ ReliedBut(mm', ptr', req', data', {})
    BY <1>1, <1>7, <2>2, <2>3, <2>4, <2>5
  <2>7. HeapOf(mm') = R.heap
    BY <2>6, HeapOfRepresented
  <2> QED
    BY <1>4, <1>5, <1>7, <1>9, <2>2, <2>4, <2>6, <2>7, IInvKept
<1>10. CASE size # 0 /\ t.ptr # NULL /\ o = NULL
  <2> DEFINE f == [k \in 0 .. size \div 8 - 1 |->
                    IF k < Len(s) THEN GET(t.mm, t.ptr + 8 * k) ELSE Tag(id, k)]
             q == IF t.ptr = NULL THEN t.mm ELSE WriteBytes(t.mm, t.ptr, size, f)
  <2>1. u = t
    BY <1>10 DEF realloc
  <2>2. R = T
    BY <1>10 DEF B!realloc
  <2>3. Len(s) = 0
    <3>1. Relied(mm, ptr[id], req[id], data[id])
      BY <1>1 DEF ReliedBut
    <3>2. data[id] = << >>
      BY <1>10, <3>1 DEF Relied
    <3>3. Len(data[id]) = 0
      BY <3>2
    <3> HIDE DEF s
    <3> QED
      BY <1>2, <1>6, <3>3 DEF MinOf
  <2>4. mm' = q
    BY <1>3, <2>1 DEF Fill
  <2> HIDE DEF h, u, R, s
  <2>5. w \in Seq(Int) /\ Len(w) = size \div 8 /\ \A k \in 1 .. Len(w) : f[k - 1] = w[k]
    <3>1. w \in Seq(Int) /\ Len(w) = size \div 8
      BY <1>2, <1>6, ExtendShape
    <3>2. ASSUME NEW k \in 1 .. size \div 8
          PROVE  f[k - 1] = w[k]
      <4>1. w[k] = IF k <= Len(s) THEN s[k] ELSE Tag(id, k - 1)
        BY <1>2, <1>6, ExtendShape
      <4>2. k - 1 \in 0 .. size \div 8 - 1 /\ ~ k <= 0 /\ ~ k - 1 < 0
        BY <1>2
      <4>3. f[k - 1] = Tag(id, k - 1)
        BY <2>3, <4>2
      <4> HIDE DEF f, w
      <4> QED
        BY <2>3, <4>1, <4>2, <4>3
    <3> HIDE DEF f, w
    <3> QED
      BY <3>1, <3>2
  <2>6. /\ ptr' = [ptr EXCEPT ![id] = t.ptr]
        /\ req' = [req EXCEPT ![id] = IF t.ptr = NULL THEN 0 ELSE size]
        /\ data' = [data EXCEPT ![id] = IF t.ptr = NULL THEN << >> ELSE w]
    BY <1>3, <1>10, <2>1 DEF Store
  <2> HIDE DEF f, w
  <2>7. Granted(h, mm, ptr, req, data, id, size, f, w)
    BY <1>1, <1>2, <1>10, <2>5, GrantData
  <2>8. /\ Represents(mm', R.heap) /\ B!HeapOK(R.heap) /\ t.ptr = R.ptr
        /\ data' \in [Ids -> Seq(Int)] /\ ReliedBut(mm', ptr', req', data', {})
    BY <2>2, <2>4, <2>6, <2>7 DEF Granted
  <2>9. HeapOf(mm') = R.heap
    BY <2>8, HeapOfRepresented
  <2>10. B!Store(id, R.ptr, size)
    BY <2>6, <2>8 DEF B!Store
  <2> HIDE DEF t
  <2> QED
    BY <1>4, <1>5, <1>10, <2>8, <2>9, <2>10, IInvKept
<1>11. CASE size # 0 /\ t.ptr # NULL /\ o # NULL
  <2>1. Moved(h, mm, ptr, req, data, id, size)
    BY <1>1, <1>2, <1>11, MoveData
  <2>2. u.ptr # NULL /\ u.ptr = R.ptr
    BY <2>1 DEF Moved
  <2>3. /\ ptr' = [ptr EXCEPT ![id] = u.ptr]
        /\ req' = [req EXCEPT ![id] = size]
        /\ data' = [data EXCEPT ![id] = w]
    BY <1>3, <2>2 DEF Store
  <2>4. /\ Represents(mm', R.heap) /\ B!HeapOK(R.heap)
        /\ data' \in [Ids -> Seq(Int)] /\ ReliedBut(mm', ptr', req', data', {})
    BY <1>3, <2>1, <2>3 DEF Moved
  <2> HIDE DEF h, u, R, s, w, t, T
  <2>5. HeapOf(mm') = R.heap
    BY <2>4, HeapOfRepresented
  <2>6. B!Store(id, R.ptr, size)
    BY <2>2, <2>3 DEF B!Store
  <2> QED
    BY <1>4, <1>5, <2>2, <2>4, <2>5, <2>6, IInvKept
<1> QED
  BY <1>8, <1>9, <1>10, <1>11

(* Every step keeps the invariant, and is a step of BlockHeap.             *)
LEMMA NextIInv ==
  ASSUME IInv, [Next]_vars
  PROVE  IInv' /\ [B!Next]_(B!vars)
<1>1. CASE Next
  BY <1>1, MallocIInv, CallocIInv, ReallocIInv, FreeIInv, ResetIInv DEF Next
<1>2. CASE UNCHANGED vars
  <2>1. [B!Next]_(B!vars)
    BY <1>2 DEF vars, B!vars
  <2>2. HeapOf(mm') = HeapOf(mm) /\ mm' = mm /\ ptr' = ptr /\ req' = req /\ data' = data
    BY <1>2 DEF vars
  <2> QED
    BY <2>1, <2>2, IInvKept DEF IInv
<1> QED
  BY <1>1, <1>2

(* The memory always spells a well-formed heap whose allocated blocks are  *)
(* those the client holds, and holds the words the client relies on.       *)
THEOREM Invariant == Spec => []IInv
<1>1. IInv /\ [Next]_vars => IInv'
  BY NextIInv
<1> QED
  BY InitIInv, <1>1, PTL DEF Spec

(* The invariant covers what the run checks.                               *)
LEMMA IInvImplies == IInv => DataIntact
<1> SUFFICES ASSUME IInv PROVE DataIntact
  OBVIOUS
<1> DEFINE h == HeapOf(mm)
<1>1. /\ B!HeapOK(h) /\ B!Owned(h, ptr, req) /\ Represents(mm, h)
      /\ data \in [Ids -> Seq(Int)] /\ ReliedBut(mm, ptr, req, data, {})
  BY DEF IInv, B!IInv
<1> HIDE DEF h
<1>2. mm.mem \in [Words -> Int] /\ mm.lists \in [Lists -> Nat] /\ mm.brk \in 8 .. MaxHeap
  BY <1>1 DEF Represents, MemShape, B!HeapOK, B!HeapShape
<1>3. h.brk \in Nat /\ h.brk <= MaxHeap /\ MaxHeap \in Nat
  BY <1>1, MmWordsAssumption DEF B!HeapOK, B!HeapShape
<1>4. ASSUME NEW b \in DOMAIN h.hdr
      PROVE  b \in Nat /\ h.hdr[b].size \in Nat /\ h.hdr[b].size >= 16 /\ b + h.hdr[b].size <= MaxHeap
  <2>1. b \in Nat /\ h.hdr[b].size \in Nat /\ h.hdr[b].size >= 16 /\ b + h.hdr[b].size <= h.brk
    BY <1>1 DEF B!HeapOK, B!HeapShape, B!Tiled
  <2> QED
    BY <1>3, <2>1
<1>5. \A i \in Lists : mm.lists[i] \in 0 .. MaxHeap
  <2> SUFFICES ASSUME NEW i \in Lists PROVE mm.lists[i] \in 0 .. MaxHeap
    OBVIOUS
  <2>1. mm.lists[i] = At(h.lists[i], 1)
    BY <1>1 DEF Represents, Chained
  <2>2. CASE 1 \in DOMAIN h.lists[i]
    <3>1. h.lists[i][1] \in DOMAIN h.hdr
      BY <1>1, <2>2 DEF B!HeapOK, B!ListsBut, B!InItsList
    <3> QED
      BY <1>3, <1>4, <2>1, <2>2, <3>1 DEF At
  <2>3. CASE 1 \notin DOMAIN h.lists[i]
    BY <1>3, <2>1, <2>3 DEF At
  <2> QED
    BY <2>2, <2>3
<1>6. ASSUME NEW id \in Ids
      PROVE  ptr[id] \in 0 .. MaxHeap /\ req[id] \in 0 .. MaxHeap
  <2>1. ptr[id] \in Nat /\ req[id] \in Nat
    BY <1>1 DEF B!Owned
  <2>2. CASE ptr[id] = NULL
    <3>1. Relied(mm, ptr[id], req[id], data[id])
      BY <1>1 DEF ReliedBut
    <3> QED
      BY <1>3, <2>2, <3>1 DEF Relied
  <2>3. CASE ptr[id] # NULL
    <3> DEFINE b == ptr[id] - 8
    <3>1. b \in DOMAIN h.hdr /\ req[id] + 8 <= h.hdr[b].size
      BY <1>1, <2>3 DEF B!Owned, B!AllocatedIn
    <3>2. b \in Nat /\ h.hdr[b].size \in Nat /\ h.hdr[b].size >= 16 /\ b + h.hdr[b].size <= MaxHeap
      BY <1>4, <3>1
    <3>3. ptr[id] = b + 8
      BY <2>1
    <3> HIDE DEF b
    <3> QED
      BY <1>3, <2>1, <3>1, <3>2, <3>3
  <2> QED
    BY <2>2, <2>3
<1>7. TypeOK
  <2>1. mm.lists \in [Lists -> 0 .. MaxHeap]
    BY <1>2, <1>5
  <2>2. ptr \in [Ids -> 0 .. MaxHeap] /\ req \in [Ids -> 0 .. MaxHeap]
    <3>1. ptr \in [Ids -> Nat] /\ req \in [Ids -> Nat]
      BY <1>1 DEF B!Owned
    <3> QED
      BY <1>6, <3>1
  <2> QED
    BY <1>1, <1>2, <2>1, <2>2 DEF TypeOK
<1>8. ASSUME NEW id \in Ids, NEW k \in 1 .. Len(data[id])
      PROVE  GET(mm, ptr[id] + 8 * (k - 1)) = data[id][k]
  BY <1>1 DEF ReliedBut, Relied, Holds
<1> QED
  BY <1>7, <1>8 DEF DataIntact

(* What the client wrote, or was promised, is what it reads, whatever it   *)
(* calls and in whatever order: no header, no link of a free list and no   *)
(* copy into another payload ever touches a payload in use, realloc        *)
(* carries the data over and calloc hands out zeros.                       *)
THEOREM ClientDataIsIntact == Spec => []DataIntact
BY Invariant, IInvImplies, PTL

(* The functions of mm.c on words do to the heap the words spell what      *)
(* those of BlockHeap do to the blocks: every behaviour of the words is    *)
(* one of the blocks.                                                      *)
THEOREM WordsImplementBlocks == Spec => ImplementsBlocks
<1>1. Init => Blocks!Init
  <2>1. Init => B!Init
    BY InitIInv
  <2> QED
    BY <2>1, SameSpecification
<1>2. IInv /\ [Next]_vars => [Blocks!Next]_(Blocks!vars)
  BY NextIInv, SameSpecification
<1> QED
  BY Invariant, <1>1, <1>2, PTL DEF Spec, ImplementsBlocks, Blocks!Spec

(* So the words keep the allocator's contract with the client as well.     *)
THEOREM WordsKeepContract == Spec => B!KeepsContract
<1>1. Spec => B!Spec
  <2>1. Init => B!Init
    BY InitIInv
  <2>2. IInv /\ [Next]_vars => [B!Next]_(B!vars)
    BY NextIInv
  <2> QED
    BY Invariant, <2>1, <2>2, PTL DEF Spec, B!Spec
<1>2. B!Spec => B!KeepsContract
  BY BlockAssumptions, B!ImplementsContract
<1> QED
  BY <1>1, <1>2
=============================================================================
