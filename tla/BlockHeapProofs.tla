--------------------------- MODULE BlockHeapProofs ---------------------------
(***************************************************************************)
(* Machine-checked proofs about BlockHeap, for every number of lists,      *)
(* every ascending table of limits, every heap size and every client.      *)
(*                                                                         *)
(* The argument: a heap is well formed (HeapOK) when its blocks tile it    *)
(* and its lists hold exactly its free blocks, each in the list of its     *)
(* size.  malloc and free take well-formed heaps to well-formed heaps and  *)
(* change the set of allocated blocks by exactly the block they hand out   *)
(* or take back; realloc and calloc are made of those two.                 *)
(***************************************************************************)
EXTENDS BlockHeap, SequenceTheorems, FiniteSetTheorems, TLAPS

USE DEF NULL, ALIGNMENT, WSIZE, SPLIT_MIN

-----------------------------------------------------------------------------
(* Arithmetic *)

(* The list index of any size is the index of a list (get_list_index).     *)
LEMMA ListIndexType ==
  ASSUME NEW size \in Nat
  PROVE  get_list_index(size) \in Lists
<1> DEFINE S == {i \in 0 .. NumLists - 2 : size > ClassLimit[i]}
<1>1. IsFiniteSet(0 .. NumLists - 2) /\ Cardinality(0 .. NumLists - 2) = NumLists - 1
  BY SizeClassAssumption, FS_Interval, 0 \in Int, NumLists - 2 \in Int
<1>2. IsFiniteSet(S) /\ Cardinality(S) <= NumLists - 1
  BY <1>1, FS_Subset
<1>3. Cardinality(S) \in Nat
  BY <1>2, FS_CardinalityType
<1> QED
  BY <1>2, <1>3, SizeClassAssumption DEF get_list_index, Lists

(* A larger block is never in a lower list.                                *)
LEMMA ListIndexMonotone ==
  ASSUME NEW m \in Nat, NEW n \in Nat, m <= n
  PROVE  get_list_index(m) <= get_list_index(n)
<1> DEFINE S(x) == {i \in 0 .. NumLists - 2 : x > ClassLimit[i]}
<1>1. S(m) \in SUBSET S(n)
  BY SizeClassAssumption
<1>2. IsFiniteSet(S(n))
  BY SizeClassAssumption, FS_Interval, FS_Subset, 0 \in Int, NumLists - 2 \in Int
<1>3. Cardinality(S(m)) <= Cardinality(S(n))
  BY <1>1, <1>2, FS_Subset
<1> QED
  BY <1>3 DEF get_list_index

(* Rounding a representable request up gives a multiple of 16 bytes that   *)
(* holds the request and its header (align, malloc).                       *)
LEMMA AsizeHolds ==
  ASSUME NEW size \in Nat, Representable(size)
  PROVE  /\ asize(size) \in Nat
         /\ asize(size) % 16 = 0
         /\ asize(size) >= size + 8
         /\ asize(size) >= 16
<1>1. (size + 8) % WORD = size + 8 /\ (size + 8 + 15) % WORD = size + 8 + 15
  BY SizeClassAssumption DEF Representable
<1>2. asize(size) = 16 * ((size + 23) \div 16)
  BY <1>1 DEF asize, align
<1> QED
  BY <1>2

(***************************************************************************)
(* Where a request is served in full (malloc, align): rounded up in size_t *)
(* arithmetic it holds the request and its header exactly if nothing wraps *)
(* around.  For each of the last 23 sizes of a size_t malloc looks for a   *)
(* block of at most 16 bytes.                                              *)
(***************************************************************************)
THEOREM ServedInFullOrWrapped ==
  ASSUME WORD > 22, NEW size \in 0 .. WORD - 1
  PROVE  /\ Representable(size) => asize(size) >= size + WSIZE
         /\ ~ Representable(size) => asize(size) <= 16 /\ asize(size) < size + WSIZE
<1>1. CASE Representable(size)
  BY <1>1, AsizeHolds, SizeClassAssumption
<1>2. CASE size + 23 >= WORD /\ size + 8 < WORD
  <2>1. (size + 8) % WORD = size + 8 /\ (size + 8 + 15) % WORD = size + 23 - WORD
    BY <1>2, SizeClassAssumption
  <2>2. asize(size) = 16 * ((size + 23 - WORD) \div 16)
    BY <2>1 DEF asize, align
  <2>3. (size + 23 - WORD) \in 0 .. 14
    BY <1>2, SizeClassAssumption
  <2> QED
    BY <1>2, <2>2, <2>3, SizeClassAssumption DEF Representable
<1>3. CASE size + 8 >= WORD
  <2>1. (size + 8) % WORD = size + 8 - WORD /\ (size + 8 - WORD + 15) % WORD = size + 23 - WORD
    BY <1>3, SizeClassAssumption
  <2>2. asize(size) = 16 * ((size + 23 - WORD) \div 16)
    BY <2>1 DEF asize, align
  <2>3. (size + 23 - WORD) \in 15 .. 22
    BY <1>3, SizeClassAssumption
  <2> QED
    BY <1>3, <2>2, <2>3, SizeClassAssumption DEF Representable
<1> QED
  BY <1>1, <1>2, <1>3, SizeClassAssumption DEF Representable

(* Multiples of 16 and addresses of blocks. *)
LEMMA AddressArithmetic ==
  ASSUME NEW b \in Nat, NEW m \in Nat, NEW n \in Nat,
         b % 16 = 8, m % 16 = 0, n % 16 = 0
  PROVE  (b + n) % 16 = 8 /\ (b + 8) % 16 = 0 /\ (m >= n => (m - n) % 16 = 0)
OBVIOUS

-----------------------------------------------------------------------------
(* Sequences: a free list after its two operations *)

(* What Push puts in front of a list. *)
LEMMA ConsElements ==
  ASSUME NEW s \in Seq(Nat), NEW e \in Nat
  PROVE  /\ Cons(e, s) \in Seq(Nat)
         /\ DOMAIN Cons(e, s) = 1 .. Len(s) + 1
         /\ Cons(e, s)[1] = e
         /\ \A k \in DOMAIN s : k + 1 \in DOMAIN Cons(e, s) /\ Cons(e, s)[k + 1] = s[k]
         /\ \A k \in DOMAIN Cons(e, s) :
              k # 1 => k - 1 \in DOMAIN s /\ Cons(e, s)[k] = s[k - 1]
BY DEF Cons

(* What is left of a list when Unlink takes a position out of it. *)
LEMMA RemoveAtElements ==
  ASSUME NEW s \in Seq(Nat), NEW p \in DOMAIN s
  PROVE  /\ RemoveAt(s, p) \in Seq(Nat)
         /\ DOMAIN RemoveAt(s, p) = 1 .. Len(s) - 1
         /\ \A k \in DOMAIN RemoveAt(s, p) :
              RemoveAt(s, p)[k] = IF k < p THEN s[k] ELSE s[k + 1]
<1> DEFINE u == SubSeq(s, 1, p - 1)
           v == SubSeq(s, p + 1, Len(s))
           w == u \o v
<1>1. p \in 1 .. Len(s) /\ Len(s) \in Nat
  OBVIOUS
<1>2. u \in Seq(Nat) /\ Len(u) = p - 1 /\ \A k \in 1 .. p - 1 : u[k] = s[k]
  <2>1. \A i \in 1 .. p - 1 : s[i] \in Nat
    BY <1>1, ElementOfSeq
  <2> QED
    BY <1>1, <2>1, SubSeqProperties
<1>3. /\ v \in Seq(Nat) /\ Len(v) = Len(s) - p
      /\ \A k \in 1 .. Len(s) - p : v[k] = s[p + k]
  <2>1. \A i \in p + 1 .. Len(s) : s[i] \in Nat
    BY <1>1, ElementOfSeq
  <2>2. p + 1 \in Int /\ Len(s) \in Int
    BY <1>1
  <2>3. /\ v \in Seq(Nat)
        /\ Len(v) = IF p + 1 <= Len(s) THEN Len(s) - (p + 1) + 1 ELSE 0
        /\ \A i \in 1 .. Len(s) - (p + 1) + 1 : v[i] = s[(p + 1) + i - 1]
    BY ONLY SMTT(30), <2>1, <2>2, SubSeqProperties
  <2> HIDE DEF v
  <2>4. Len(v) = Len(s) - p
    BY SMTT(30), <1>1, <2>3
  <2>5. ASSUME NEW k \in 1 .. Len(s) - p PROVE v[k] = s[p + k]
    <3>1. k \in 1 .. Len(s) - (p + 1) + 1 /\ (p + 1) + k - 1 = p + k
      BY <1>1
    <3> QED
      BY <2>3, <3>1
  <2> QED
    BY <2>3, <2>4, <2>5
<1>4. w = RemoveAt(s, p)
  BY DEF RemoveAt
<1> HIDE DEF u, v
<1>8. w \in Seq(Nat) /\ Len(w) = Len(s) - 1
  BY <1>1, <1>2, <1>3
<1>5. \A i \in 1 .. Len(u) + Len(v) : w[i] = IF i <= Len(u) THEN u[i] ELSE v[i - Len(u)]
  BY ONLY <1>2, <1>3, ConcatProperties
<1> HIDE DEF w
<1>6. ASSUME NEW k \in 1 .. Len(s) - 1
      PROVE  w[k] = IF k < p THEN s[k] ELSE s[k + 1]
  <2>1. k \in 1 .. Len(u) + Len(v) /\ (k < p <=> k <= Len(u)) /\ k \in Nat
    BY SMTT(30), <1>1, <1>2, <1>3
  <2>2. w[k] = IF k <= Len(u) THEN u[k] ELSE v[k - Len(u)]
    BY <1>5, <2>1
  <2>3. CASE k < p
    <3>1. k \in 1 .. p - 1
      BY <1>1, <2>1, <2>3
    <3>2. u[k] = s[k]
      BY <1>2, <3>1
    <3> QED
      BY <2>1, <2>2, <2>3, <3>2
  <2>4. CASE ~ k < p
    <3>1. p \in Nat /\ Len(s) \in Nat /\ Len(u) = p - 1 /\ k \in 1 .. Len(s) - 1 /\ k >= p
      BY <1>1, <1>2, <2>4
    <3>2. k - Len(u) \in 1 .. Len(s) - p /\ p + (k - Len(u)) = k + 1
      BY ONLY SMTT(30), <3>1
    <3>3. v[k - Len(u)] = s[k + 1]
      BY <1>3, <3>2
    <3> QED
      BY <2>1, <2>2, <2>4, <3>3
  <2> QED
    BY <2>3, <2>4
<1>7. DOMAIN w = 1 .. Len(s) - 1
  BY <1>1, <1>8, LenProperties
<1> QED
  BY <1>4, <1>6, <1>7, <1>8

-----------------------------------------------------------------------------
(* Well-formed heaps *)

AllocatedIn(h) == {b \in DOMAIN h.hdr : h.hdr[b].alloc}

HeapShape(h) ==
  /\ h = [brk |-> h.brk, hdr |-> h.hdr, lists |-> h.lists]
  /\ h.brk \in WSIZE .. MaxHeap
  /\ DOMAIN h.hdr \subseteq Nat
  /\ h.hdr \in [DOMAIN h.hdr -> [size : Nat, alloc : BOOLEAN]]
  /\ h.lists \in [Lists -> Seq(Nat)]

(* The blocks of hdr tile the heap up to brk (HeapTiled, of any heap). *)
Tiled(brk, hdr) ==
  /\ brk % ALIGNMENT = WSIZE
  /\ brk # WSIZE => WSIZE \in DOMAIN hdr
  /\ \A b \in DOMAIN hdr :
       /\ hdr[b].size >= ALIGNMENT
       /\ hdr[b].size % ALIGNMENT = 0 /\ b % ALIGNMENT = WSIZE
       /\ b + hdr[b].size \in DOMAIN hdr \cup {brk}
       /\ b + hdr[b].size <= brk
  /\ \A b, c \in DOMAIN hdr : b < c => b + hdr[b].size <= c

(* The lists hold exactly the free blocks outside X (ListsSound and        *)
(* ListsComplete when X is empty); in the middle of a call one block is    *)
(* free and in no list.                                                    *)
InItsList(h, i, k) ==
  LET b == h.lists[i][k]
  IN  /\ b \in DOMAIN h.hdr /\ ~ h.hdr[b].alloc
      /\ get_list_index(h.hdr[b].size) = i
      /\ \A l \in DOMAIN h.lists[i] : h.lists[i][l] = b => l = k

ListedIn(h, b) ==
  \E k \in DOMAIN h.lists[get_list_index(h.hdr[b].size)] :
    h.lists[get_list_index(h.hdr[b].size)][k] = b

ListsBut(h, X) ==
  /\ \A i \in Lists : \A k \in DOMAIN h.lists[i] :
       InItsList(h, i, k) /\ h.lists[i][k] \notin X
  /\ \A b \in DOMAIN h.hdr \ X : ~ h.hdr[b].alloc => ListedIn(h, b)

HeapOK(h) == HeapShape(h) /\ Tiled(h.brk, h.hdr) /\ ListsBut(h, {})

-----------------------------------------------------------------------------
(* The helpers of mm.c: what each leaves behind *)

(* g is h with the header of b, perhaps a new block, saying n and a. *)
HeaderPut(h, g, b, n, a) ==
  /\ HeapShape(g)
  /\ g.brk = h.brk /\ g.lists = h.lists
  /\ DOMAIN g.hdr = DOMAIN h.hdr \cup {b}
  /\ g.hdr[b] = [size |-> n, alloc |-> a]
  /\ \A x \in DOMAIN h.hdr : x # b => g.hdr[x] = h.hdr[x]

(* PUT(b, PACK(n, a)) changes the header of b and nothing else.            *)
LEMMA PutHeaderEffect ==
  ASSUME NEW h, HeapShape(h), NEW b \in Nat, NEW n \in Nat, NEW a \in BOOLEAN
  PROVE  HeaderPut(h, PutHeader(h, b, n, a), b, n, a)
<1> DEFINE H == [x \in DOMAIN h.hdr \cup {b} |->
                   IF x = b THEN [size |-> n, alloc |-> a] ELSE h.hdr[x]]
<1>1. PutHeader(h, b, n, a) = [brk |-> h.brk, hdr |-> H, lists |-> h.lists]
  BY SMTT(30) DEF PutHeader, HeapShape
<1>2. /\ DOMAIN H = DOMAIN h.hdr \cup {b}
      /\ H[b] = [size |-> n, alloc |-> a]
      /\ \A x \in DOMAIN h.hdr : x # b => H[x] = h.hdr[x]
  OBVIOUS
<1>3. DOMAIN H \subseteq Nat /\ H \in [DOMAIN H -> [size : Nat, alloc : BOOLEAN]]
  BY DEF HeapShape
<1> HIDE DEF H
<1> QED
  BY <1>1, <1>2, <1>3 DEF HeapShape, HeaderPut

(* Pushing a block changes the list of its size and nothing else.          *)
LEMMA PushEffect ==
  ASSUME NEW h, HeapShape(h), NEW b \in DOMAIN h.hdr
  PROVE  LET g == Push(h, b)
             j == get_list_index(h.hdr[b].size)
         IN  /\ HeapShape(g)
             /\ g.brk = h.brk /\ g.hdr = h.hdr
             /\ j \in Lists
             /\ g.lists[j] = Cons(b, h.lists[j])
             /\ \A i \in Lists : i # j => g.lists[i] = h.lists[i]
<1> DEFINE j == get_list_index(h.hdr[b].size)
<1>1. j \in Lists
  BY ListIndexType DEF HeapShape
<1> HIDE DEF j
<1>2. Push(h, b) = [h EXCEPT !.lists[j] = Cons(b, @)]
  BY DEF Push, j
<1>3. Push(h, b) = [brk |-> h.brk, hdr |-> h.hdr,
                    lists |-> [h.lists EXCEPT ![j] = Cons(b, h.lists[j])]]
  BY <1>2 DEF HeapShape
<1>4. Cons(b, h.lists[j]) \in Seq(Nat)
  BY <1>1, ConsElements DEF HeapShape
<1> QED
  BY <1>1, <1>3, <1>4 DEF HeapShape, j

(* Unlinking the block at position p of list i takes it out of that list   *)
(* and changes nothing else: the list the code recomputes is the list it   *)
(* found the block in.                                                     *)
LEMMA UnlinkEffect ==
  ASSUME NEW h, HeapShape(h), ListsBut(h, {}),
         NEW i \in Lists, NEW p \in DOMAIN h.lists[i]
  PROVE  LET g == Unlink(h, i, p)
         IN  /\ HeapShape(g)
             /\ g.brk = h.brk /\ g.hdr = h.hdr
             /\ g.lists[i] = RemoveAt(h.lists[i], p)
             /\ \A m \in Lists : m # i => g.lists[m] = h.lists[m]
<1>1. get_list_index(h.hdr[h.lists[i][p]].size) = i
  BY DEF ListsBut, InItsList
<1>2. Unlink(h, i, p) = [h EXCEPT !.lists[i] = RemoveAt(h.lists[i], p)]
  BY <1>1 DEF Unlink
<1>3. Unlink(h, i, p) = [brk |-> h.brk, hdr |-> h.hdr,
                         lists |-> [h.lists EXCEPT ![i] = RemoveAt(h.lists[i], p)]]
  BY <1>2 DEF HeapShape
<1>4. RemoveAt(h.lists[i], p) \in Seq(Nat)
  BY RemoveAtElements DEF HeapShape
<1> QED
  BY <1>3, <1>4 DEF HeapShape

-----------------------------------------------------------------------------
(* The lists through a call *)

(* Writing the header of a block that is in no list keeps the lists        *)
(* right; if the block is now free, it is the one block not listed.        *)
LEMMA PutHeaderKeepsLists ==
  ASSUME NEW h, HeapShape(h), NEW b \in Nat, NEW n \in Nat, NEW a \in BOOLEAN,
         NEW X \in SUBSET {b}, ListsBut(h, X),
         b \in DOMAIN h.hdr => h.hdr[b].alloc \/ b \in X
  PROVE  ListsBut(PutHeader(h, b, n, a), IF a THEN {} ELSE {b})
<1> DEFINE g == PutHeader(h, b, n, a)
           Y == IF a THEN {} ELSE {b}
<1>1. /\ HeapShape(g) /\ g.brk = h.brk /\ g.lists = h.lists
      /\ DOMAIN g.hdr = DOMAIN h.hdr \cup {b}
      /\ g.hdr[b] = [size |-> n, alloc |-> a]
      /\ \A x \in DOMAIN h.hdr : x # b => g.hdr[x] = h.hdr[x]
  BY PutHeaderEffect DEF HeaderPut
<1> HIDE DEF g
<1>2. ASSUME NEW i \in Lists, NEW k \in DOMAIN h.lists[i]
      PROVE  InItsList(g, i, k) /\ g.lists[i][k] \notin Y
  <2>1. InItsList(h, i, k) /\ h.lists[i][k] # b
    BY DEF ListsBut, InItsList
  <2> QED
    BY <1>1, <2>1 DEF InItsList
<1>3. ASSUME NEW x \in DOMAIN g.hdr \ Y, ~ g.hdr[x].alloc
      PROVE  ListedIn(g, x)
  <2>1. x # b
    BY <1>1, <1>3
  <2>2. x \in DOMAIN h.hdr \ X /\ g.hdr[x] = h.hdr[x]
    BY <1>1, <2>1
  <2>3. ListedIn(h, x)
    BY <1>3, <2>2 DEF ListsBut
  <2> QED
    BY <1>1, <2>2, <2>3 DEF ListedIn
<1> QED
  BY <1>1, <1>2, <1>3 DEF ListsBut, g

(* Pushing the one free block that is in no list completes the lists       *)
(* (the end of free and of split).                                         *)
LEMMA PushCompletesLists ==
  ASSUME NEW h, HeapShape(h), NEW b \in DOMAIN h.hdr, ~ h.hdr[b].alloc,
         ListsBut(h, {b})
  PROVE  ListsBut(Push(h, b), {})
<1> DEFINE g == Push(h, b)
           j == get_list_index(h.hdr[b].size)
           old == h.lists[j]
<1>1. /\ g.hdr = h.hdr /\ j \in Lists
      /\ g.lists[j] = Cons(b, old)
      /\ \A i \in Lists : i # j => g.lists[i] = h.lists[i]
  BY PushEffect
<1>2. b \in Nat /\ old \in Seq(Nat)
  BY <1>1 DEF HeapShape
<1>3. /\ DOMAIN g.lists[j] = 1 .. Len(old) + 1
      /\ g.lists[j][1] = b
      /\ \A k \in DOMAIN old : k + 1 \in DOMAIN g.lists[j] /\ g.lists[j][k + 1] = old[k]
      /\ \A k \in DOMAIN g.lists[j] :
           k # 1 => k - 1 \in DOMAIN old /\ g.lists[j][k] = old[k - 1]
  <2> DEFINE c == Cons(b, old)
  <2> HIDE DEF old
  <2>1. /\ DOMAIN c = 1 .. Len(old) + 1
        /\ c[1] = b
        /\ \A k \in DOMAIN old : k + 1 \in DOMAIN c /\ c[k + 1] = old[k]
        /\ \A k \in DOMAIN c : k # 1 => k - 1 \in DOMAIN old /\ c[k] = old[k - 1]
    BY ONLY <1>2, ConsElements
  <2>2. g.lists[j] = c
    BY <1>1
  <2> HIDE DEF c, g, j
  <2> QED
    BY ONLY <2>1, <2>2
<1>4. 1 \in DOMAIN g.lists[j] /\ DOMAIN g.lists[j] \subseteq Nat
  <2>1. Len(old) \in Nat
    BY <1>2, LenProperties
  <2>2. DOMAIN g.lists[j] = 1 .. Len(old) + 1
    BY <1>3
  <2> HIDE DEF g, j, old
  <2> QED
    BY ONLY <2>1, <2>2
<1>5. \A k \in DOMAIN old : InItsList(h, j, k) /\ old[k] # b
  BY <1>1 DEF ListsBut
<1> HIDE DEF g, j
<1>6. ASSUME NEW i \in Lists, NEW k \in DOMAIN g.lists[i]
      PROVE  InItsList(g, i, k)
  <2>1. CASE i # j
    BY <1>1, <2>1 DEF ListsBut, InItsList
  <2>2. CASE i = j /\ k = 1
    <3>1. \A l \in DOMAIN g.lists[j] : g.lists[j][l] = b => l = 1
      BY <1>3, <1>5
    <3> QED
      BY <1>1, <1>3, <2>2, <3>1 DEF InItsList, j
  <2>3. CASE i = j /\ k # 1
    <3>1. k - 1 \in DOMAIN old /\ g.lists[j][k] = old[k - 1] /\ k \in Nat
      BY <1>3, <1>4, <2>3
    <3>2. InItsList(h, j, k - 1) /\ old[k - 1] # b
      BY <1>5, <3>1
    <3>3. ASSUME NEW l \in DOMAIN g.lists[j], g.lists[j][l] = old[k - 1]
          PROVE  l = k
      <4>1. l # 1 /\ l \in Nat
        BY <1>3, <1>4, <3>2, <3>3
      <4>2. l - 1 \in DOMAIN old /\ old[l - 1] = old[k - 1]
        BY <1>3, <3>3, <4>1
      <4>3. l - 1 = k - 1
        BY <3>2, <4>2 DEF InItsList
      <4> QED
        BY <3>1, <4>1, <4>3
    <3> QED
      BY <1>1, <2>3, <3>1, <3>2, <3>3 DEF InItsList
  <2> QED
    BY <2>1, <2>2, <2>3
<1>7. ASSUME NEW x \in DOMAIN g.hdr, ~ g.hdr[x].alloc
      PROVE  ListedIn(g, x)
  <2>1. CASE x = b
    BY <1>1, <1>3, <1>4, <2>1 DEF ListedIn, j
  <2>2. CASE x # b
    <3> DEFINE i == get_list_index(h.hdr[x].size)
    <3>1. i \in Lists
      BY <1>1, ListIndexType DEF HeapShape
    <3>2. PICK k \in DOMAIN h.lists[i] : h.lists[i][k] = x
      BY <1>1, <1>7, <2>2 DEF ListsBut, ListedIn
    <3> HIDE DEF i
    <3>3. CASE i # j
      BY <1>1, <3>1, <3>2, <3>3 DEF ListedIn, i
    <3>4. CASE i = j
      <4>1. k + 1 \in DOMAIN g.lists[i] /\ g.lists[i][k + 1] = x
        BY <1>3, <3>2, <3>4
      <4> QED
        BY <1>1, <4>1 DEF ListedIn, i
    <3> QED
      BY <3>3, <3>4
  <2> QED
    BY <2>1, <2>2
<1> QED
  BY <1>6, <1>7 DEF ListsBut, g

(* Unlinking leaves exactly that block free and in no list.                *)
LEMMA UnlinkKeepsLists ==
  ASSUME NEW h, HeapShape(h), ListsBut(h, {}),
         NEW i \in Lists, NEW p \in DOMAIN h.lists[i]
  PROVE  ListsBut(Unlink(h, i, p), {h.lists[i][p]})
<1> DEFINE g == Unlink(h, i, p)
           b == h.lists[i][p]
           old == h.lists[i]
<1>1. /\ HeapShape(g) /\ g.hdr = h.hdr
      /\ g.lists[i] = RemoveAt(old, p)
      /\ \A m \in Lists : m # i => g.lists[m] = h.lists[m]
  BY UnlinkEffect
<1>2. old \in Seq(Nat) /\ Len(old) \in Nat /\ DOMAIN old = 1 .. Len(old)
  BY LenProperties DEF HeapShape
<1>3. /\ DOMAIN g.lists[i] = 1 .. Len(old) - 1
      /\ \A k \in DOMAIN g.lists[i] :
           g.lists[i][k] = IF k < p THEN old[k] ELSE old[k + 1]
  <2>1. p \in DOMAIN old
    OBVIOUS
  <2> HIDE DEF old
  <2> QED
    BY ONLY ZenonT(30), <1>1, <1>2, <2>1, RemoveAtElements
<1>4. \A k \in DOMAIN old : InItsList(h, i, k)
  BY DEF ListsBut
<1>5. \A m \in Lists : \A k \in DOMAIN h.lists[m] :
        h.lists[m][k] = b => m = i /\ k = p
  BY DEF ListsBut, InItsList
<1> HIDE DEF g, b, old
<1>6. ASSUME NEW k \in DOMAIN g.lists[i]
      PROVE  \E o \in DOMAIN old : /\ g.lists[i][k] = old[o] /\ o # p
                                   /\ o = IF k < p THEN k ELSE k + 1
  <2>1. p \in Nat /\ k \in Nat /\ k \in DOMAIN old /\ k + 1 \in DOMAIN old
    BY <1>2, <1>3 DEF old
  <2> QED
    BY <1>3, <2>1
<1>7. ASSUME NEW m \in Lists, NEW k \in DOMAIN g.lists[m]
      PROVE  InItsList(g, m, k) /\ g.lists[m][k] \notin {b}
  <2>1. CASE m # i
    BY <1>1, <1>5, <2>1 DEF ListsBut, InItsList
  <2>2. CASE m = i
    <3>1. PICK o \in DOMAIN old : /\ g.lists[i][k] = old[o] /\ o # p
                                  /\ o = IF k < p THEN k ELSE k + 1
      BY <1>6, <2>2
    <3>2. InItsList(h, i, o) /\ old[o] # b
      BY <1>4, <1>5, <3>1 DEF old
    <3>3. ASSUME NEW l \in DOMAIN g.lists[i], g.lists[i][l] = old[o]
          PROVE  l = k
      <4>1. PICK q \in DOMAIN old : /\ g.lists[i][l] = old[q] /\ q # p
                                    /\ q = IF l < p THEN l ELSE l + 1
        BY <1>6
      <4>2. q = o
        BY <3>2, <3>3, <4>1 DEF InItsList, old
      <4>3. k \in Nat /\ l \in Nat
        BY <1>2, <1>3, <2>2
      <4>4. p \in Nat
        BY <1>2 DEF old
      <4> QED
        BY <3>1, <4>1, <4>2, <4>3, <4>4
    <3> QED
      BY <1>1, <2>2, <3>1, <3>2, <3>3 DEF InItsList, old
  <2> QED
    BY <2>1, <2>2
<1>8. ASSUME NEW x \in DOMAIN g.hdr \ {b}, ~ g.hdr[x].alloc
      PROVE  ListedIn(g, x)
  <2> DEFINE m == get_list_index(h.hdr[x].size)
  <2>1. m \in Lists
    BY <1>1, ListIndexType DEF HeapShape
  <2>2. PICK k \in DOMAIN h.lists[m] : h.lists[m][k] = x
    BY <1>1, <1>8 DEF ListsBut, ListedIn
  <2> HIDE DEF m
  <2>3. CASE m # i
    BY <1>1, <2>1, <2>2, <2>3 DEF ListedIn, m
  <2>4. CASE m = i
    <3> DEFINE l == IF k < p THEN k ELSE k - 1
    <3>1. k # p /\ k \in 1 .. Len(old) /\ old[k] = x
      BY <1>8, <2>2, <2>4, <1>2 DEF b, old
    <3>2. p \in 1 .. Len(old)
      BY <1>2 DEF old
    <3>3. /\ l \in 1 .. Len(old) - 1
          /\ k = IF l < p THEN l ELSE l + 1
      BY <1>2, <3>1, <3>2
    <3> HIDE DEF l
    <3>4. l \in DOMAIN g.lists[i] /\ g.lists[i][l] = x
      BY <1>3, <3>1, <3>3
    <3> QED
      BY <1>1, <2>4, <3>4 DEF ListedIn, m
  <2> QED
    BY <2>3, <2>4
<1> QED
  BY <1>7, <1>8 DEF ListsBut, g, b

-----------------------------------------------------------------------------
(* The tiling through a call *)

Headers(D) == [D -> [size : Nat, alloc : BOOLEAN]]

(* Marking a block allocated or free keeps the tiling.                     *)
LEMMA TiledBySize ==
  ASSUME NEW brk, NEW D \in SUBSET Nat, NEW H \in Headers(D), Tiled(brk, H),
         NEW G \in Headers(D), \A x \in D : G[x].size = H[x].size
  PROVE  Tiled(brk, G)
BY DEF Tiled, Headers

(* G has the headers of H, but block b cut in two after n bytes. *)
CutInTwo(D, H, G, b, n) ==
  /\ n % 16 = 0 /\ n >= 16 /\ n + SPLIT_MIN <= H[b].size
  /\ G \in Headers(D \cup {b + n})
  /\ G[b].size = n /\ G[b + n].size = H[b].size - n
  /\ \A x \in D : x # b => G[x].size = H[x].size

(* Cutting a block in two keeps the tiling (split).                        *)
LEMMA TiledAfterSplit ==
  ASSUME NEW brk \in Nat, NEW D \in SUBSET Nat, NEW H \in Headers(D), Tiled(brk, H),
         NEW b \in D, NEW n \in Nat, NEW G, CutInTwo(D, H, G, b, n)
  PROVE  Tiled(brk, G)
<1> USE DEF CutInTwo
<1> DEFINE c == b + n
           m == H[b].size - n
<1>1. /\ b \in Nat /\ c \in Nat /\ m \in Nat /\ m >= 32
      /\ \A x \in D : x \in Nat /\ H[x].size \in Nat
  BY DEF Headers
<1>2. b % 16 = 8 /\ H[b].size % 16 = 0 /\ n % 16 = 0 /\ H[b].size \in Nat /\ H[b].size >= n
  BY <1>1 DEF Tiled, Headers
<1>3. c % 16 = 8 /\ m % 16 = 0
  <2> HIDE DEF CutInTwo
  <2> QED
    BY <1>1, <1>2, AddressArithmetic
<1>4. DOMAIN G = D \cup {c} /\ DOMAIN H = D
  BY DEF Headers
<1>5. c + m = b + H[b].size /\ b < c
  BY <1>1, <1>2
<1>6. G[b].size = n /\ G[c].size = m /\ b # c
  BY <1>1
<1>7. \A x \in D : /\ x < b => x + H[x].size <= b
                   /\ b < x => c + m <= x
  BY <1>1, <1>4, <1>5 DEF Tiled
<1>8. \A x \in D : /\ H[x].size >= 16 /\ H[x].size % 16 = 0 /\ x % 16 = 8
                   /\ x + H[x].size \in D \cup {brk} /\ x + H[x].size <= brk
  BY <1>4 DEF Tiled
<1> HIDE DEF c, m
<1>9. c \notin D
  BY <1>1, <1>5, <1>7, <1>8
<1>10. brk % 16 = 8 /\ (brk # 8 => 8 \in D)
  BY <1>4 DEF Tiled
<1>11. ASSUME NEW x \in D \cup {c}
       PROVE  /\ G[x].size >= 16 /\ G[x].size % 16 = 0 /\ x % 16 = 8
              /\ x + G[x].size \in D \cup {c} \cup {brk} /\ x + G[x].size <= brk
  <2>1. CASE x = b
    <3>1. b + n = c
      BY DEF c
    <3>2. c <= brk
      BY <1>1, <1>5, <1>8
    <3> QED
      BY <1>6, <1>8, <2>1, <3>1, <3>2
  <2>2. CASE x = c
    BY <1>1, <1>3, <1>5, <1>6, <1>8, <2>2
  <2>3. CASE x # b /\ x # c
    BY <1>8, <2>3
  <2> QED
    BY <2>1, <2>2, <2>3
<1>12. ASSUME NEW x \in D \cup {c}, NEW y \in D \cup {c}, x < y
       PROVE  x + G[x].size <= y
  <2>1. CASE x = b /\ y # c
    BY <1>1, <1>5, <1>6, <1>7, <1>12, <2>1
  <2>2. CASE x = b /\ y = c
    BY <1>6, <2>2 DEF c
  <2>3. CASE x = c
    <3>1. y \in D /\ b < y
      BY <1>1, <1>5, <1>12, <2>3
    <3> QED
      BY <1>6, <1>7, <2>3, <3>1
  <2>4. CASE x # b /\ x # c /\ y = c
    <3>1. x \in D /\ (x < b \/ b < x)
      BY <1>1, <2>4
    <3>2. ~ (b < x)
      BY <1>1, <1>7, <1>12, <2>4, <3>1
    <3>3. x + H[x].size <= b
      BY <1>7, <3>1, <3>2
    <3> QED
      BY <1>1, <1>5, <2>4, <3>1, <3>3
  <2>5. CASE x # b /\ x # c /\ y # c
    BY <1>4, <1>12, <2>5 DEF Tiled
  <2> QED
    BY <2>1, <2>2, <2>3, <2>4, <2>5
<1> QED
  BY <1>4, <1>10, <1>11, <1>12 DEF Tiled

(* A new block at the break keeps the tiling (malloc after mm_sbrk).       *)
LEMMA TiledAfterGrowth ==
  ASSUME NEW brk \in Nat, NEW D \in SUBSET Nat, NEW H \in Headers(D), Tiled(brk, H),
         brk >= 8, NEW n \in Nat, n % 16 = 0, n >= 16,
         NEW G \in Headers(D \cup {brk}), G[brk].size = n,
         \A x \in D : x # brk => G[x].size = H[x].size
  PROVE  Tiled(brk + n, G) /\ brk \notin D
<1>1. DOMAIN G = D \cup {brk} /\ DOMAIN H = D /\ \A x \in D : H[x].size \in Nat
  BY DEF Headers
<1>2. brk % 16 = 8 /\ (brk # 8 => 8 \in D)
  BY <1>1 DEF Tiled
<1>3. (brk + n) % 16 = 8
  BY <1>2, AddressArithmetic
<1>4. \A x \in D : /\ H[x].size >= 16 /\ H[x].size % 16 = 0 /\ x % 16 = 8
                   /\ x + H[x].size \in D \cup {brk} /\ x + H[x].size <= brk
  BY <1>1 DEF Tiled
<1>5. \A x \in D : x < brk
  BY <1>1, <1>4
<1>6. ASSUME NEW x \in D \cup {brk}
      PROVE  /\ G[x].size >= 16 /\ G[x].size % 16 = 0 /\ x % 16 = 8
             /\ x + G[x].size \in D \cup {brk} \cup {brk + n}
             /\ x + G[x].size <= brk + n
  <2>1. CASE x = brk
    BY <1>2, <2>1
  <2>2. CASE x # brk
    <3>1. x \in D /\ x \in Nat /\ H[x].size \in Nat
      BY <1>1, <2>2
    <3> QED
      BY <1>4, <2>2, <3>1
  <2> QED
    BY <2>1, <2>2
<1>7. ASSUME NEW x \in D \cup {brk}, NEW y \in D \cup {brk}, x < y
      PROVE  x + G[x].size <= y
  <2>1. x \in D /\ x # brk
    BY <1>5, <1>7
  <2>2. CASE y = brk
    BY <1>4, <2>1, <2>2
  <2>3. CASE y # brk
    BY <1>1, <1>7, <2>1, <2>3 DEF Tiled
  <2> QED
    BY <2>2, <2>3
<1>8. 8 \in D \cup {brk}
  BY <1>2
<1>9. brk \notin D
  BY <1>5
<1>10. Tiled(brk + n, G)
  <2> DEFINE e == brk + n
  <2>1. e % 16 = 8
    BY <1>3
  <2>2. \A x \in DOMAIN G : /\ G[x].size >= 16 /\ G[x].size % 16 = 0 /\ x % 16 = 8
                            /\ x + G[x].size \in DOMAIN G \cup {e}
                            /\ x + G[x].size <= e
    BY <1>1, <1>6
  <2>3. \A x, y \in DOMAIN G : x < y => x + G[x].size <= y
    BY <1>1, <1>7
  <2>4. 8 \in DOMAIN G
    BY <1>1, <1>8
  <2> HIDE DEF e
  <2>5. Tiled(e, G)
    BY <2>1, <2>2, <2>3, <2>4 DEF Tiled
  <2> QED
    BY <2>5 DEF e
<1> QED
  BY <1>9, <1>10

-----------------------------------------------------------------------------
(* What the allocator's calls do to a well-formed heap *)

(* g is h after block b, of at least n bytes, was handed out. *)
HandsOut(h, g, b, n) ==
  /\ HeapOK(g) /\ h.brk <= g.brk
  /\ b \notin AllocatedIn(h) /\ AllocatedIn(g) = AllocatedIn(h) \cup {b}
  /\ g.hdr[b].size >= n
  /\ \A x \in AllocatedIn(h) : g.hdr[x] = h.hdr[x]

(* split, given a free block that is in no list, hands it out and lists    *)
(* the rest of it.                                                         *)
LEMMA SplitHandsOut ==
  ASSUME NEW h, HeapShape(h), Tiled(h.brk, h.hdr),
         NEW b \in DOMAIN h.hdr, ~ h.hdr[b].alloc, ListsBut(h, {b}),
         NEW n \in Nat, n % 16 = 0, n >= 16, n <= h.hdr[b].size
  PROVE  HandsOut(h, split(h, b, n), b, n) /\ split(h, b, n).brk = h.brk
<1> DEFINE D == DOMAIN h.hdr
           g == split(h, b, n)
           m == h.hdr[b].size - n
<1>1. /\ h.hdr \in Headers(D) /\ D \in SUBSET Nat /\ b \in Nat
      /\ h.hdr[b].size \in Nat /\ m \in Nat /\ h.brk \in Nat
  BY DEF HeapShape, Headers
<1>2. CASE m < 32
  <2>1. g = PutHeader(h, b, h.hdr[b].size, TRUE)
    BY <1>1, <1>2 DEF split, PutHeader
  <2> HIDE DEF g, m
  <2>2. /\ HeapShape(g) /\ g.brk = h.brk
        /\ DOMAIN g.hdr = D
        /\ g.hdr[b] = [size |-> h.hdr[b].size, alloc |-> TRUE]
        /\ \A x \in D : x # b => g.hdr[x] = h.hdr[x]
    <3>1. HeaderPut(h, g, b, h.hdr[b].size, TRUE)
      BY <1>1, <2>1, PutHeaderEffect
    <3> QED
      BY <1>1, <3>1 DEF HeaderPut
  <2>3. ListsBut(g, {})
    BY <1>1, <2>1, PutHeaderKeepsLists
  <2>4. g.hdr \in Headers(D) /\ \A x \in D : g.hdr[x].size = h.hdr[x].size
    BY <2>2 DEF HeapShape, Headers
  <2> HIDE DEF D
  <2>5. Tiled(g.brk, g.hdr)
    BY <1>1, <2>2, <2>4, TiledBySize
  <2> QED
    BY <1>1, <2>2, <2>3, <2>5 DEF HandsOut, HeapOK, AllocatedIn, g, D
<1>3. CASE m >= 32
  <2> DEFINE u == PutHeader(h, b, n, TRUE)
             c == b + n
             v == PutHeader(u, c, m, FALSE)
  <2>1. g = Push(v, c)
    BY <1>1, <1>3 DEF split
  <2>2. c \in Nat /\ c \notin D /\ b # c
    <3>1. \A x \in D : (x < b => x + h.hdr[x].size <= b) /\ (b < x => b + h.hdr[b].size <= x)
      BY DEF Tiled
    <3>2. c \in Nat /\ b < c /\ c < b + h.hdr[b].size
      BY <1>1, <1>3
    <3> QED
      BY <1>1, <3>1, <3>2
  <2> HIDE DEF c, m, D
  <2>3. /\ HeapShape(u) /\ u.brk = h.brk
        /\ DOMAIN u.hdr = D
        /\ u.hdr[b] = [size |-> n, alloc |-> TRUE]
        /\ \A x \in D : x # b => u.hdr[x] = h.hdr[x]
    <3>1. HeaderPut(h, u, b, n, TRUE)
      BY <1>1, PutHeaderEffect
    <3> HIDE DEF u
    <3> QED
      BY <1>1, <3>1 DEF HeaderPut, D
  <2>4. ListsBut(u, {})
    BY <1>1, PutHeaderKeepsLists
  <2> HIDE DEF u
  <2>5. /\ HeapShape(v) /\ v.brk = h.brk
        /\ DOMAIN v.hdr = D \cup {c}
        /\ v.hdr[c] = [size |-> m, alloc |-> FALSE]
        /\ v.hdr[b] = [size |-> n, alloc |-> TRUE]
        /\ \A x \in D : x # b => v.hdr[x] = h.hdr[x]
    <3>1. HeaderPut(u, v, c, m, FALSE)
      BY <1>1, <2>2, <2>3, PutHeaderEffect
    <3> HIDE DEF v
    <3> QED
      BY <1>1, <2>2, <2>3, <3>1 DEF HeaderPut, D
  <2>6. ListsBut(v, {c})
    BY <1>1, <2>2, <2>3, <2>4, PutHeaderKeepsLists
  <2> HIDE DEF v
  <2>7. HeapShape(g) /\ g.brk = h.brk /\ g.hdr = v.hdr
    BY <2>1, <2>5, PushEffect
  <2>8. ListsBut(g, {})
    BY <2>1, <2>5, <2>6, PushCompletesLists
  <2> HIDE DEF g
  <2>9. v.hdr \in Headers(D \cup {c})
    BY <2>5 DEF HeapShape, Headers
  <2>10. Tiled(g.brk, g.hdr)
    <3>1. Tiled(h.brk, v.hdr)
      <4> DEFINE H == h.hdr
                 G == v.hdr
                 brk == h.brk
      <4>1. CutInTwo(D, H, G, b, n)
        <5>1. n % 16 = 0 /\ n >= 16
          OBVIOUS
        <5>2. n + SPLIT_MIN <= H[b].size
          BY <1>1, <1>3 DEF m, SPLIT_MIN
        <5>3. G \in Headers(D \cup {b + n})
          BY <2>9 DEF c
        <5>4. G[b].size = n /\ \A x \in D : x # b => G[x].size = H[x].size
          BY <2>5
        <5>5. G[b + n].size = H[b].size - n
          BY <2>5 DEF c, m
        <5> HIDE DEF H, G
        <5> QED
          BY ONLY <5>1, <5>2, <5>3, <5>4, <5>5 DEF CutInTwo
      <4>2. D \in SUBSET Nat /\ H \in Headers(D) /\ b \in D /\ Tiled(brk, H) /\ brk \in Nat
        BY <1>1 DEF D
      <4> HIDE DEF H, G, brk
      <4>3. Tiled(brk, G)
        BY <4>1, <4>2, TiledAfterSplit
      <4> QED
        BY <4>3 DEF G, brk
    <3> QED
      BY <2>7, <3>1
  <2>11. AllocatedIn(g) = AllocatedIn(h) \cup {b}
    BY <2>2, <2>5, <2>7 DEF AllocatedIn, D
  <2>12. b \notin AllocatedIn(h) /\ \A x \in AllocatedIn(h) : g.hdr[x] = h.hdr[x]
    BY <2>5, <2>7 DEF AllocatedIn, D
  <2>13. g.hdr[b].size >= n
    BY <2>5, <2>7
  <2> QED
    BY <1>1, <2>7, <2>8, <2>10, <2>11, <2>12, <2>13 DEF HandsOut, HeapOK, g
<1> QED
  BY <1>1, <1>2, <1>3

(* malloc either hands out a block that holds the request or changes       *)
(* nothing and returns NULL.                                               *)
LEMMA MallocPreserves ==
  ASSUME NEW h, HeapOK(h), NEW size \in Nat, Representable(size)
  PROVE  LET r == malloc(h, size)
         IN  \/ r.ptr = NULL /\ r.heap = h
             \/ /\ size # 0 /\ r.ptr - WSIZE \in Nat /\ r.ptr \in Nat
                /\ HandsOut(h, r.heap, r.ptr - WSIZE, size + WSIZE)
                /\ \/ r.heap.brk = h.brk
                   \/ /\ r.heap.brk = h.brk + asize(size)
                      /\ ~ \E i \in Lists : \E k \in DOMAIN h.lists[i] :
                             IsFirstFit(h, asize(size), i, k)
<1> DEFINE n == asize(size)
           found == \E i \in Lists : \E k \in DOMAIN h.lists[i] : IsFirstFit(h, n, i, k)
           r == malloc(h, size)
<1>1. n \in Nat /\ n % 16 = 0 /\ n >= size + 8 /\ n >= 16
  BY AsizeHolds
<1> HIDE DEF n
<1>2. CASE size = 0
  BY <1>2 DEF malloc
<1>3. CASE size # 0 /\ found
  <2> DEFINE i == CHOOSE i \in Lists :
                    \E k \in DOMAIN h.lists[i] : IsFirstFit(h, n, i, k)
             k == CHOOSE k \in DOMAIN h.lists[i] : IsFirstFit(h, n, i, k)
             b == h.lists[i][k]
             u == Unlink(h, i, k)
  <2>1. i \in Lists /\ \E l \in DOMAIN h.lists[i] : IsFirstFit(h, n, i, l)
    BY <1>3
  <2> HIDE DEF i
  <2>2. k \in DOMAIN h.lists[i] /\ IsFirstFit(h, n, i, k)
    BY <2>1
  <2>3. r = [heap |-> split(u, b, n), ptr |-> b + WSIZE]
    BY <1>3 DEF malloc, n, i
  <2> HIDE DEF k
  <2>4. b \in DOMAIN h.hdr /\ ~ h.hdr[b].alloc
    BY <2>1, <2>2 DEF HeapOK, ListsBut, InItsList
  <2>5. h.hdr[b].size >= n
    BY <2>2 DEF IsFirstFit, Fits
  <2>6. HeapShape(u) /\ u.brk = h.brk /\ u.hdr = h.hdr
    BY <2>1, <2>2, UnlinkEffect DEF HeapOK
  <2>7. ListsBut(u, {b})
    BY <2>1, <2>2, UnlinkKeepsLists DEF HeapOK
  <2>8. b \in Nat /\ h.hdr[b].size \in Nat
    BY <2>4 DEF HeapOK, HeapShape
  <2> HIDE DEF u, b
  <2>9. HandsOut(u, split(u, b, n), b, n) /\ split(u, b, n).brk = h.brk
    BY <1>1, <2>4, <2>5, <2>6, <2>7, <2>8, SplitHandsOut DEF HeapOK
  <2> DEFINE g == split(u, b, n)
  <2> HIDE DEF g
  <2>10. g.hdr[b].size \in Nat
    BY <2>9 DEF HandsOut, HeapOK, HeapShape, AllocatedIn, g
  <2>11. HandsOut(h, g, b, size + 8)
    BY <1>1, <2>6, <2>9, <2>10 DEF HandsOut, AllocatedIn, g
  <2> QED
    BY <1>3, <2>3, <2>8, <2>9, <2>11 DEF g
<1>4. CASE size # 0 /\ ~ found /\ SbrkOK(h.brk, n)
  <2> DEFINE b == h.brk
             w == [h EXCEPT !.brk = b + n]
             g == PutHeader(w, b, n, TRUE)
  <2>1. r = [heap |-> g, ptr |-> b + WSIZE]
    BY <1>4 DEF malloc, n
  <2>2. b \in Nat /\ b >= 8 /\ b + n <= MaxHeap
    BY <1>4, BlockHeapAssumption DEF HeapOK, HeapShape, SbrkOK
  <2>3. HeapShape(w) /\ w.brk = b + n /\ w.hdr = h.hdr /\ w.lists = h.lists
    BY SMTT(30), <1>1, <2>2, BlockHeapAssumption DEF HeapOK, HeapShape
  <2> DEFINE D == DOMAIN h.hdr
  <2>4. h.hdr \in Headers(D) /\ D \in SUBSET Nat /\ \A x \in D : h.hdr[x].size \in Nat
    BY DEF HeapOK, HeapShape, Headers
  <2>5. b \notin D
    BY <2>2, <2>4 DEF HeapOK, Tiled
  <2>6. ListsBut(w, {})
    <3>1. ListsBut(h, {})
      BY DEF HeapOK
    <3>2. w.hdr = h.hdr /\ w.lists = h.lists
      BY <2>3
    <3> HIDE DEF w
    <3> QED
      BY ONLY <3>1, <3>2 DEF ListsBut, InItsList, ListedIn
  <2> HIDE DEF w, b
  <2>7. /\ HeapShape(g) /\ g.brk = b + n
        /\ DOMAIN g.hdr = D \cup {b}
        /\ g.hdr[b] = [size |-> n, alloc |-> TRUE]
        /\ \A x \in D : x # b => g.hdr[x] = h.hdr[x]
    <3>1. HeaderPut(w, g, b, n, TRUE)
      BY <1>1, <2>2, <2>3, PutHeaderEffect
    <3> HIDE DEF g
    <3> QED
      BY <2>3, <3>1 DEF HeaderPut
  <2>8. ListsBut(g, {})
    BY <1>1, <2>2, <2>3, <2>5, <2>6, PutHeaderKeepsLists
  <2> HIDE DEF g
  <2>9. g.hdr \in Headers(D \cup {b})
    BY <2>7 DEF HeapShape, Headers
  <2>10. Tiled(g.brk, g.hdr)
    <3>1. Tiled(b, h.hdr)
      BY DEF HeapOK, b
    <3> HIDE DEF D
    <3> QED
      BY <1>1, <2>2, <2>4, <2>5, <2>7, <2>9, <3>1, TiledAfterGrowth
  <2>11. /\ b \notin AllocatedIn(h) /\ AllocatedIn(g) = AllocatedIn(h) \cup {b}
         /\ \A x \in AllocatedIn(h) : g.hdr[x] = h.hdr[x]
    BY <2>5, <2>7 DEF AllocatedIn
  <2>12. h.brk <= g.brk /\ g.hdr[b].size >= size + 8
    BY <1>1, <2>2, <2>7 DEF b
  <2>13. HandsOut(h, g, b, size + 8)
    BY <2>7, <2>8, <2>10, <2>11, <2>12 DEF HandsOut, HeapOK
  <2> QED
    BY <1>4, <2>1, <2>2, <2>7, <2>13 DEF b, n
<1>5. CASE size # 0 /\ ~ found /\ ~ SbrkOK(h.brk, n)
  BY <1>5 DEF malloc, n
<1> QED
  BY <1>2, <1>3, <1>4, <1>5

(* free takes back exactly the block it is given; the break and the size   *)
(* of every block stay what they were.                                     *)
LEMMA FreePreserves ==
  ASSUME NEW h, HeapOK(h), NEW p \in Nat, p - WSIZE \in AllocatedIn(h)
  PROVE  LET g == free(h, p)
         IN  /\ HeapOK(g) /\ g.brk = h.brk
             /\ AllocatedIn(g) = AllocatedIn(h) \ {p - WSIZE}
             /\ \A x \in AllocatedIn(g) : g.hdr[x] = h.hdr[x]
<1> DEFINE b == p - WSIZE
           n == h.hdr[b].size
           u == PutHeader(h, b, n, FALSE)
           g == free(h, p)
           D == DOMAIN h.hdr
<1>1. /\ h.hdr \in Headers(D) /\ D \in SUBSET Nat
      /\ b \in D /\ b \in Nat /\ n \in Nat /\ h.hdr[b].alloc /\ HeapShape(h)
  BY DEF HeapOK, HeapShape, Headers, AllocatedIn
<1>2. g = Push(u, b)
  <2>1. p # NULL
    BY <1>1
  <2> QED
    BY <2>1, Zenon DEF free
<1> HIDE DEF b
<1>3. /\ HeapShape(u) /\ u.brk = h.brk /\ DOMAIN u.hdr = D
      /\ u.hdr[b] = [size |-> n, alloc |-> FALSE]
      /\ \A x \in D : x # b => u.hdr[x] = h.hdr[x]
  <2> HIDE DEF n
  <2>1. HeaderPut(h, u, b, n, FALSE)
    BY <1>1, PutHeaderEffect
  <2> HIDE DEF u
  <2> QED
    BY <1>1, <2>1 DEF HeaderPut
<1>4. ListsBut(u, {b})
  <2> HIDE DEF n
  <2> QED
    BY <1>1, PutHeaderKeepsLists DEF HeapOK
<1> HIDE DEF u
<1>5. HeapShape(g) /\ g.brk = h.brk /\ g.hdr = u.hdr
  BY <1>1, <1>2, <1>3, PushEffect
<1>6. ListsBut(g, {})
  BY <1>1, <1>2, <1>3, <1>4, PushCompletesLists
<1> HIDE DEF g
<1>7. Tiled(g.brk, g.hdr)
  <2>1. Tiled(h.brk, h.hdr)
    BY DEF HeapOK
  <2>2. g.hdr \in Headers(D)
    BY <1>3, <1>5 DEF HeapShape, Headers
  <2>3. \A x \in D : g.hdr[x].size = h.hdr[x].size
    BY <1>1, <1>3, <1>5
  <2> HIDE DEF D
  <2> QED
    BY <1>1, <1>5, <2>1, <2>2, <2>3, TiledBySize
<1>8. /\ AllocatedIn(g) = AllocatedIn(h) \ {b}
      /\ \A x \in AllocatedIn(g) : g.hdr[x] = h.hdr[x]
  BY <1>1, <1>3, <1>5 DEF AllocatedIn
<1> QED
  BY <1>5, <1>6, <1>7, <1>8 DEF HeapOK, b, g


(* A nonempty set of numbers has a least element.                          *)
LEMMA LeastElement ==
  ASSUME NEW S \in SUBSET Nat, S # {}
  PROVE  \E m \in S : \A k \in S : m <= k
<1> DEFINE R == OpToRel(<, Nat)
<1>1. \A x, y \in Nat : <<x, y>> \in R <=> x < y
  BY DEF OpToRel
<1>2. IsWellFoundedOn(R, Nat)
  BY NatLessThanWellFounded
<1> HIDE DEF R
<1>3. PICK m \in S : \A k \in S : ~ (<<k, m>> \in R)
  BY <1>2, WFMin
<1>4. ASSUME NEW k \in S
      PROVE  m <= k
  <2>1. ~ (<<k, m>> \in R)
    BY <1>3
  <2>2. k \in Nat /\ m \in Nat
    OBVIOUS
  <2>3. ~ (k < m)
    BY <1>1, <2>1, <2>2
  <2> QED
    BY <2>2, <2>3
<1> QED
  BY <1>4

(* malloc's two loops stop at a block whenever the lists they visit hold   *)
(* one that fits.                                                          *)
LEMMA SearchFindsFit ==
  ASSUME NEW h, HeapShape(h), NEW n \in Nat,
         NEW i \in Lists, get_list_index(n) <= i, i < SearchedLists,
         NEW k \in DOMAIN h.lists[i], Fits(h, n, i, k)
  PROVE  \E j \in Lists : \E l \in DOMAIN h.lists[j] : IsFirstFit(h, n, j, l)
<1> DEFINE from == get_list_index(n)
           Is == {j \in Lists : /\ from <= j /\ j < SearchedLists
                                /\ \E l \in DOMAIN h.lists[j] : Fits(h, n, j, l)}
<1>1. from \in Lists /\ Lists \subseteq Nat /\ SearchedLists \in Nat
      /\ \A j \in Lists : \A m \in from .. j : m \in Lists
  BY ListIndexType, SizeClassAssumption DEF Lists
<1>2. PICK j \in Is : \A m \in Is : j <= m
  BY <1>1, LeastElement
<1> DEFINE Ks == {l \in DOMAIN h.lists[j] : Fits(h, n, j, l)}
<1>3. h.lists[j] \in Seq(Nat) /\ DOMAIN h.lists[j] \subseteq Nat
      /\ \A l \in DOMAIN h.lists[j] : \A m \in 1 .. l - 1 : m \in DOMAIN h.lists[j]
  BY SMTT(30) DEF HeapShape
<1>4. PICK l \in Ks : \A m \in Ks : l <= m
  <2>1. Ks # {} /\ Ks \in SUBSET Nat
    BY <1>3
  <2> HIDE DEF Ks
  <2> QED
    BY <2>1, LeastElement
<1>5. \A m \in 1 .. l - 1 : ~ Fits(h, n, j, m)
  BY <1>3, <1>4
<1>6. \A m \in from .. j - 1 : \A o \in DOMAIN h.lists[m] : ~ Fits(h, n, m, o)
  BY <1>1, <1>2
<1>7. j \in from .. SearchedLists - 1
  BY <1>1
<1> HIDE DEF from
<1>8. IsFirstFit(h, n, j, l)
  BY <1>4, <1>5, <1>6, <1>7 DEF IsFirstFit, from
<1> QED
  BY <1>8

(* A size above a limit that is not above the limit of list i has an index *)
(* of at most i.                                                           *)
LEMMA ListIndexBound ==
  ASSUME NEW n \in Nat, NEW i \in 0 .. NumLists - 2, n <= ClassLimit[i]
  PROVE  get_list_index(n) <= i
<1> DEFINE S == {j \in 0 .. NumLists - 2 : n > ClassLimit[j]}
<1>1. S \in SUBSET (0 .. i - 1)
  <2> SUFFICES ASSUME NEW j \in S PROVE j < i
    BY SizeClassAssumption
  <2>1. ClassLimit[j] < ClassLimit[i]
    BY SizeClassAssumption
  <2>2. ~ (i < j) /\ i # j
    BY <2>1, SizeClassAssumption
  <2> QED
    BY <2>2, SizeClassAssumption
<1>2. IsFiniteSet(0 .. i - 1) /\ Cardinality(0 .. i - 1) = i
  <2>1. i \in Nat
    BY SizeClassAssumption
  <2> QED
    <3> DEFINE e == i - 1
    <3>1. e \in Int /\ 0 \in Int
      BY <2>1
    <3> HIDE DEF e
    <3>2. /\ IsFiniteSet(0 .. e)
          /\ Cardinality(0 .. e) = IF 0 > e THEN 0 ELSE e - 0 + 1
      BY <3>1, FS_Interval
    <3> QED
      BY <2>1, <3>2 DEF e
<1>3. Cardinality(S) <= i
  BY <1>1, <1>2, FS_Subset
<1> QED
  BY <1>3 DEF get_list_index

(* When malloc moves the break by n, every free block of at least n bytes  *)
(* is larger than the blocks of the lists it searches.                     *)
LEMMA GrowthUnavoidable ==
  ASSUME NEW h, HeapOK(h), NEW n \in Nat,
         ~ \E i \in Lists : \E k \in DOMAIN h.lists[i] : IsFirstFit(h, n, i, k),
         NEW b \in DOMAIN h.hdr, ~ h.hdr[b].alloc, h.hdr[b].size >= n
  PROVE  h.hdr[b].size > ClassLimit[SearchedLists - 1]
<1> DEFINE i == get_list_index(h.hdr[b].size)
<1>1. h.hdr[b].size \in Nat
  BY DEF HeapOK, HeapShape
<1>2. i \in Lists /\ get_list_index(n) <= i
  BY <1>1, ListIndexType, ListIndexMonotone
<1>3. PICK k \in DOMAIN h.lists[i] : h.lists[i][k] = b
  BY DEF HeapOK, ListsBut, ListedIn
<1>4. Fits(h, n, i, k)
  BY <1>3 DEF Fits
<1> HIDE DEF i
<1>5. ~ (i < SearchedLists)
  BY <1>2, <1>3, <1>4, SearchFindsFit DEF HeapOK
<1>6. SearchedLists - 1 \in 0 .. NumLists - 2
      /\ ClassLimit[SearchedLists - 1] \in Nat
  BY SizeClassAssumption
<1>7. CASE h.hdr[b].size <= ClassLimit[SearchedLists - 1]
  <2>1. i <= SearchedLists - 1
    BY <1>1, <1>6, <1>7, ListIndexBound DEF i
  <2> QED
    BY <1>2, <1>5, <1>6, <2>1, SizeClassAssumption DEF Lists
<1> QED
  BY <1>1, <1>6, <1>7


-----------------------------------------------------------------------------
(* The client's ranges *)

(* The client holds the allocated blocks of h under p, with r bytes each   *)
(* (ClientOwnsAllocated, of any heap).                                     *)
Owned(h, p, r) ==
  /\ p \in [Ids -> Nat] /\ r \in [Ids -> Nat]
  /\ \A id \in Ids : p[id] # NULL =>
       /\ p[id] - WSIZE \in AllocatedIn(h)
       /\ 0 < r[id] /\ r[id] + WSIZE <= h.hdr[p[id] - WSIZE].size
       /\ \A other \in Ids : p[other] = p[id] => other = id
  /\ \A b \in AllocatedIn(h) : \E id \in Ids : p[id] = b + WSIZE

(* A range of n bytes in block b is clear of every other block, and hence  *)
(* of every range in one; it is aligned and inside the heap.               *)
LEMMA RangeInBlock ==
  ASSUME NEW h, HeapOK(h), NEW b \in DOMAIN h.hdr, NEW n \in Nat,
         n + WSIZE <= h.hdr[b].size
  PROVE  /\ (b + WSIZE) % ALIGNMENT = 0
         /\ b + WSIZE + n <= h.brk
         /\ \A c \in DOMAIN h.hdr : c + WSIZE <= b + WSIZE \/ b + WSIZE + n <= c
         /\ \A c \in DOMAIN h.hdr : \A m \in Nat :
              (c # b /\ m + WSIZE <= h.hdr[c].size)
              => b + WSIZE + n <= c + WSIZE \/ c + WSIZE + m <= b + WSIZE
<1>1. /\ b \in Nat /\ h.hdr[b].size \in Nat /\ h.brk \in Nat
      /\ \A c \in DOMAIN h.hdr : c \in Nat /\ h.hdr[c].size \in Nat
  BY DEF HeapOK, HeapShape
<1>2. /\ b % 16 = 8 /\ b + h.hdr[b].size <= h.brk
      /\ \A c \in DOMAIN h.hdr : /\ b < c => b + h.hdr[b].size <= c
                                 /\ c < b => c + h.hdr[c].size <= b
  BY DEF HeapOK, Tiled
<1>3. (b + 8) % 16 = 0
  BY <1>1, <1>2, AddressArithmetic, 0 \in Nat, 0 % 16 = 0
<1> QED
  BY <1>1, <1>2, <1>3

(* After a block was handed out under an id that held nothing, the client  *)
(* still holds exactly the allocated blocks (malloc, calloc).              *)
LEMMA OwnedAfterGrant ==
  ASSUME NEW h, NEW p, NEW r, Owned(h, p, r), NEW id \in Ids, p[id] = NULL,
         NEW g, NEW b \in Nat, NEW n \in Nat, n > 0, HandsOut(h, g, b, n + WSIZE)
  PROVE  Owned(g, [p EXCEPT ![id] = b + WSIZE], [r EXCEPT ![id] = n])
<1> DEFINE q == [p EXCEPT ![id] = b + WSIZE]
           s == [r EXCEPT ![id] = n]
<1>1. /\ q \in [Ids -> Nat] /\ s \in [Ids -> Nat] /\ p \in [Ids -> Nat]
      /\ q[id] = b + 8 /\ s[id] = n
      /\ \A x \in Ids : x # id => q[x] = p[x] /\ s[x] = r[x]
  BY DEF Owned
<1>2. \A x \in Ids : p[x] # b + 8
  <2> SUFFICES ASSUME NEW x \in Ids, p[x] = b + 8 PROVE FALSE
    OBVIOUS
  <2>1. p[x] - 8 = b /\ p[x] # 0
    OBVIOUS
  <2> QED
    BY <2>1 DEF Owned, HandsOut
<1>3. /\ AllocatedIn(g) = AllocatedIn(h) \cup {b}
      /\ g.hdr[b].size >= n + 8
      /\ \A x \in AllocatedIn(h) : g.hdr[x] = h.hdr[x]
  BY DEF HandsOut
<1> HIDE DEF q, s
<1>4. ASSUME NEW x \in Ids, q[x] # 0
      PROVE  /\ q[x] - 8 \in AllocatedIn(g)
             /\ 0 < s[x] /\ s[x] + 8 <= g.hdr[q[x] - 8].size
             /\ \A y \in Ids : q[y] = q[x] => y = x
  <2>1. CASE x = id
    <3>1. q[x] - 8 = b
      BY <1>1, <2>1
    <3>2. g.hdr[b].size \in Nat
      BY <1>3 DEF HandsOut, HeapOK, HeapShape, AllocatedIn
    <3>3. 0 < s[x] /\ s[x] + 8 <= g.hdr[b].size
      BY <1>1, <1>3, <2>1, <3>2
    <3> QED
      BY <1>1, <1>2, <1>3, <2>1, <3>1, <3>3
  <2>2. CASE x # id
    <3>1. q[x] = p[x] /\ s[x] = r[x] /\ p[x] # 0
      BY <1>1, <1>4, <2>2
    <3>2. p[x] - 8 \in AllocatedIn(h) /\ 0 < r[x] /\ r[x] + 8 <= h.hdr[p[x] - 8].size
      BY <3>1 DEF Owned
    <3>3. \A y \in Ids : q[y] = q[x] => y = x
      BY <1>1, <1>2, <3>1 DEF Owned
    <3> QED
      BY <1>3, <3>1, <3>2, <3>3
  <2> QED
    BY <2>1, <2>2
<1>5. ASSUME NEW c \in AllocatedIn(g)
      PROVE  \E x \in Ids : q[x] = c + 8
  <2>1. CASE c = b
    BY <1>1, <2>1
  <2>2. CASE c # b
    <3>1. PICK x \in Ids : p[x] = c + 8
      BY <1>3, <2>2 DEF Owned
    <3>2. c \in Nat
      BY <1>3, <2>2 DEF HandsOut, HeapOK, HeapShape, AllocatedIn
    <3>3. x # id
      BY <3>1, <3>2
    <3> QED
      BY <1>1, <3>1, <3>3
  <2> QED
    BY <2>1, <2>2
<1> QED
  BY <1>1, <1>4, <1>5 DEF Owned, q, s

(* After the block held under an id was freed and the id let go of it, the *)
(* client still holds exactly the allocated blocks (free).                 *)
LEMMA OwnedAfterRelease ==
  ASSUME NEW h, HeapOK(h), NEW p, NEW r, Owned(h, p, r),
         NEW id \in Ids, p[id] # NULL
  PROVE  Owned(free(h, p[id]), [p EXCEPT ![id] = NULL], [r EXCEPT ![id] = 0])
<1> DEFINE q == [p EXCEPT ![id] = NULL]
           s == [r EXCEPT ![id] = 0]
           g == free(h, p[id])
<1>1. /\ q \in [Ids -> Nat] /\ s \in [Ids -> Nat] /\ p \in [Ids -> Nat]
      /\ q[id] = 0
      /\ \A x \in Ids : x # id => q[x] = p[x] /\ s[x] = r[x]
  BY DEF Owned
<1>2. /\ AllocatedIn(g) = AllocatedIn(h) \ {p[id] - 8}
      /\ \A x \in AllocatedIn(g) : g.hdr[x] = h.hdr[x]
  <2>1. p[id] \in Nat /\ p[id] - WSIZE \in AllocatedIn(h)
    BY <1>1 DEF Owned
  <2> QED
    BY <2>1, FreePreserves
<1> HIDE DEF q, s, g
<1>3. ASSUME NEW x \in Ids, q[x] # 0
      PROVE  /\ q[x] - 8 \in AllocatedIn(g)
             /\ 0 < s[x] /\ s[x] + 8 <= g.hdr[q[x] - 8].size
             /\ \A y \in Ids : q[y] = q[x] => y = x
  <2>1. x # id /\ q[x] = p[x] /\ s[x] = r[x] /\ p[x] # 0
    BY <1>1, <1>3
  <2>2. /\ p[x] - 8 \in AllocatedIn(h) /\ 0 < r[x] /\ r[x] + 8 <= h.hdr[p[x] - 8].size
        /\ \A y \in Ids : p[y] = p[x] => y = x
    BY <2>1 DEF Owned
  <2>3. p[x] - 8 # p[id] - 8
    BY <1>1, <2>1, <2>2
  <2>4. \A y \in Ids : q[y] = q[x] => y = x
    BY <1>1, <2>1, <2>2
  <2> QED
    BY <1>2, <2>1, <2>2, <2>3, <2>4
<1>4. ASSUME NEW c \in AllocatedIn(g)
      PROVE  \E x \in Ids : q[x] = c + 8
  <2>1. PICK x \in Ids : p[x] = c + 8
    BY <1>2 DEF Owned
  <2>2. c \in Nat
    BY <1>2 DEF HeapOK, HeapShape, AllocatedIn
  <2>3. x # id
    BY <1>2, <2>1, <2>2
  <2> QED
    BY <1>1, <2>1, <2>3
<1> QED
  BY <1>1, <1>3, <1>4 DEF Owned, q, s, g

(* A realloc that moves a range hands out the new block and then frees the *)
(* old one.                                                                *)
LEMMA OwnedAfterMove ==
  ASSUME NEW h, NEW p, NEW r, Owned(h, p, r), NEW id \in Ids, p[id] # NULL,
         NEW g, NEW b \in Nat, NEW n \in Nat, n > 0, HandsOut(h, g, b, n + WSIZE)
  PROVE  /\ HeapOK(free(g, p[id])) /\ free(g, p[id]).brk = g.brk
         /\ Owned(free(g, p[id]), [p EXCEPT ![id] = b + WSIZE], [r EXCEPT ![id] = n])
<1> DEFINE q == [p EXCEPT ![id] = b + WSIZE]
           s == [r EXCEPT ![id] = n]
           f == free(g, p[id])
<1>1. /\ q \in [Ids -> Nat] /\ s \in [Ids -> Nat] /\ p \in [Ids -> Nat]
      /\ q[id] = b + 8 /\ s[id] = n
      /\ \A x \in Ids : x # id => q[x] = p[x] /\ s[x] = r[x]
  BY DEF Owned
<1>2. /\ AllocatedIn(g) = AllocatedIn(h) \cup {b} /\ b \notin AllocatedIn(h)
      /\ g.hdr[b].size >= n + 8 /\ g.hdr[b].size \in Nat
      /\ \A x \in AllocatedIn(h) : g.hdr[x] = h.hdr[x]
  BY DEF HandsOut, HeapOK, HeapShape, AllocatedIn
<1>3. p[id] \in Nat /\ p[id] - WSIZE \in AllocatedIn(h)
  BY <1>1 DEF Owned
<1>4. /\ HeapOK(f) /\ f.brk = g.brk
      /\ AllocatedIn(f) = AllocatedIn(g) \ {p[id] - 8}
      /\ \A x \in AllocatedIn(f) : f.hdr[x] = g.hdr[x]
  <2>1. HeapOK(g) /\ p[id] - WSIZE \in AllocatedIn(g)
    BY <1>2, <1>3 DEF HandsOut
  <2> QED
    BY <1>3, <2>1, FreePreserves
<1>5. \A x \in Ids : p[x] # b + 8
  <2> SUFFICES ASSUME NEW x \in Ids, p[x] = b + 8 PROVE FALSE
    OBVIOUS
  <2>1. p[x] - 8 = b /\ p[x] # 0
    OBVIOUS
  <2> QED
    BY <1>2, <2>1 DEF Owned
<1> HIDE DEF q, s, f
<1>6. b # p[id] - 8
  BY <1>2, <1>3
<1>7. ASSUME NEW x \in Ids, q[x] # 0
      PROVE  /\ q[x] - 8 \in AllocatedIn(f)
             /\ 0 < s[x] /\ s[x] + 8 <= f.hdr[q[x] - 8].size
             /\ \A y \in Ids : q[y] = q[x] => y = x
  <2>1. CASE x = id
    <3>1. q[x] - 8 = b /\ b \in AllocatedIn(f)
      BY <1>1, <1>2, <1>4, <1>6, <2>1
    <3>2. 0 < s[x] /\ s[x] + 8 <= f.hdr[b].size
      BY <1>1, <1>2, <1>4, <2>1, <3>1
    <3> QED
      BY <1>1, <1>5, <2>1, <3>1, <3>2
  <2>2. CASE x # id
    <3>1. q[x] = p[x] /\ s[x] = r[x] /\ p[x] # 0
      BY <1>1, <1>7, <2>2
    <3>2. /\ p[x] - 8 \in AllocatedIn(h) /\ 0 < r[x] /\ r[x] + 8 <= h.hdr[p[x] - 8].size
          /\ \A y \in Ids : p[y] = p[x] => y = x
      BY <3>1 DEF Owned
    <3>3. p[x] - 8 # p[id] - 8
      BY <1>1, <2>2, <3>2
    <3>4. \A y \in Ids : q[y] = q[x] => y = x
      BY <1>1, <1>5, <3>1, <3>2
    <3> QED
      BY <1>2, <1>4, <3>1, <3>2, <3>3, <3>4
  <2> QED
    BY <2>1, <2>2
<1>8. ASSUME NEW c \in AllocatedIn(f)
      PROVE  \E x \in Ids : q[x] = c + 8
  <2>1. CASE c = b
    BY <1>1, <2>1
  <2>2. CASE c # b
    <3>1. c \in AllocatedIn(h) /\ c # p[id] - 8 /\ c \in Nat
      BY <1>2, <1>4, <2>2 DEF HandsOut, HeapOK, HeapShape, AllocatedIn
    <3>2. PICK x \in Ids : p[x] = c + 8
      BY <3>1 DEF Owned
    <3>3. x # id
      BY <3>1, <3>2
    <3> QED
      BY <1>1, <3>2, <3>3
  <2> QED
    BY <2>1, <2>2
<1> QED
  BY <1>1, <1>4, <1>7, <1>8 DEF Owned, q, s, f


(* The range handed out is aligned, inside the heap and clear of every     *)
(* range the client was using: MallocContract's HandedOut.                 *)
LEMMA HandsOutClear ==
  ASSUME NEW h, NEW p, NEW r, Owned(h, p, r),
         NEW g, NEW b \in Nat, NEW n \in Nat, HandsOut(h, g, b, n + WSIZE)
  PROVE  /\ (b + WSIZE) % ALIGNMENT = 0 /\ b + WSIZE + n <= g.brk
         /\ \A other \in Ids : p[other] # NULL =>
              Contract!Apart(b + WSIZE, n, p[other], r[other])
<1>1. HeapOK(g) /\ b \in DOMAIN g.hdr /\ n + WSIZE <= g.hdr[b].size
  BY DEF HandsOut, HeapOK, HeapShape, AllocatedIn
<1>2. ASSUME NEW o \in Ids, p[o] # NULL
      PROVE  Contract!Apart(b + WSIZE, n, p[o], r[o])
  <2> DEFINE c == p[o] - 8
  <2>1. c \in AllocatedIn(h) /\ r[o] + 8 <= h.hdr[c].size /\ r[o] \in Nat /\ p[o] \in Nat
    BY <1>2 DEF Owned
  <2>2. c + 8 = p[o]
    BY <2>1
  <2> HIDE DEF c
  <2>3. c # b /\ c \in DOMAIN g.hdr /\ g.hdr[c] = h.hdr[c]
    BY <2>1 DEF HandsOut, AllocatedIn
  <2>4. b + WSIZE + n <= c + WSIZE \/ c + WSIZE + r[o] <= b + WSIZE
    BY <1>1, <2>1, <2>3, RangeInBlock
  <2> QED
    BY <2>2, <2>4 DEF Contract!Apart
<1> QED
  BY <1>1, <1>2, RangeInBlock

-----------------------------------------------------------------------------
(* The inductive invariant, and the steps *)

IInv == HeapOK(heap) /\ Owned(heap, ptr, req)

(* mm_init leaves a well-formed, empty heap.                               *)
LEMMA InitHeapOK == HeapOK(mm_init_heap) /\ AllocatedIn(mm_init_heap) = {}
<1> DEFINE h == mm_init_heap
<1>1. h.brk = 8 /\ h.hdr = << >> /\ h.lists = [i \in Lists |-> << >>]
      /\ h = [brk |-> h.brk, hdr |-> h.hdr, lists |-> h.lists]
  BY DEF mm_init_heap
<1>2. DOMAIN h.hdr = {} /\ \A i \in Lists : DOMAIN h.lists[i] = {}
  BY <1>1
<1>3. h.lists \in [Lists -> Seq(Nat)]
  BY <1>1
<1>4. h.hdr \in [DOMAIN h.hdr -> [size : Nat, alloc : BOOLEAN]]
  BY <1>1, <1>2
<1>5. h.brk \in 8 .. MaxHeap
  BY <1>1, BlockHeapAssumption
<1> HIDE DEF h
<1>6. HeapShape(h)
  BY <1>1, <1>2, <1>3, <1>4, <1>5 DEF HeapShape
<1>7. Tiled(h.brk, h.hdr)
  BY <1>1, <1>2 DEF Tiled
<1>8. ListsBut(h, {})
  BY <1>2 DEF ListsBut
<1> QED
  BY <1>2, <1>6, <1>7, <1>8 DEF HeapOK, AllocatedIn, h

(* The empty heap and a client without pointers: after mm_init and after   *)
(* a reset.                                                                *)
LEMMA FreshState ==
  Owned(mm_init_heap, [id \in Ids |-> NULL], [id \in Ids |-> 0])
BY InitHeapOK DEF Owned

(* A call to malloc of a representable size, with what it returns stored   *)
(* under an id that held nothing: malloc and calloc.                       *)
LEMMA MallocStep ==
  ASSUME IInv, NEW id \in Ids, ptr[id] = NULL,
         NEW n \in Nat, Representable(n),
         heap' = malloc(heap, n).heap, Store(id, malloc(heap, n).ptr, n)
  PROVE  IInv' /\ (Contract!Grant(id, n) \/ Contract!Release(id))
<1> DEFINE m == malloc(heap, n)
           b == m.ptr - WSIZE
<1>1. ptr \in [Ids -> Nat] /\ req \in [Ids -> Nat]
  BY DEF IInv, Owned
<1>2. CASE m.ptr = NULL /\ m.heap = heap
  <2>1. /\ heap' = heap /\ ptr' = [ptr EXCEPT ![id] = NULL]
        /\ req' = [req EXCEPT ![id] = 0]
    BY <1>2 DEF Store
  <2>2. ptr' = ptr /\ req' \in [Ids -> Nat]
        /\ \A x \in Ids : x # id => req'[x] = req[x]
    BY <1>1, <2>1
  <2>3. Owned(heap, ptr, req')
    BY <1>1, <2>2 DEF IInv, Owned
  <2> QED
    BY <2>1, <2>2, <2>3 DEF IInv, Contract!Release, Contract!NULL
<1>3. CASE /\ n # 0 /\ b \in Nat /\ m.ptr \in Nat
           /\ HandsOut(heap, m.heap, b, n + WSIZE)
  <2>1. m.ptr = b + WSIZE /\ m.ptr # NULL
    BY <1>3
  <2>2. /\ heap' = m.heap /\ ptr' = [ptr EXCEPT ![id] = b + WSIZE]
        /\ req' = [req EXCEPT ![id] = n]
    BY <2>1 DEF Store
  <2> HIDE DEF m, b
  <2>3. HandsOut(heap, heap', b, n + WSIZE)
    BY <1>3, <2>2
  <2>4. IInv'
    <3>1. Owned(heap, ptr, req) /\ n > 0 /\ b \in Nat
      BY <1>3 DEF IInv
    <3>2. Owned(heap', [ptr EXCEPT ![id] = b + WSIZE], [req EXCEPT ![id] = n])
      BY <2>3, <3>1, OwnedAfterGrant
    <3> QED
      BY <2>2, <2>3, <3>2 DEF IInv, HandsOut
  <2>5. /\ (b + WSIZE) % ALIGNMENT = 0 /\ b + WSIZE + n <= heap'.brk
        /\ \A other \in Ids : ptr[other] # NULL =>
             Contract!Apart(b + WSIZE, n, ptr[other], req[other])
    BY <1>3, <2>3, HandsOutClear DEF IInv
  <2>6. ptr'[id] = b + WSIZE /\ req'[id] = n /\ ptr'[id] # 0
        /\ \A x \in Ids \ {id} : ptr'[x] = ptr[x] /\ req'[x] = req[x]
    BY <1>1, <1>3, <2>2
  <2>7. ptr' \in [Ids -> Nat] /\ req' \in [Ids -> Nat]
    BY <1>1, <1>3, <2>2
  <2>8. heap'.brk \in heap.brk .. MaxHeap
    BY <2>3 DEF IInv, HandsOut, HeapOK, HeapShape
  <2>9. Contract!HandedOut(id, n)
    BY <2>5, <2>6, <2>7 DEF Contract!HandedOut, Contract!NULL
  <2> QED
    BY <1>3, <2>4, <2>8, <2>9 DEF Contract!Grant, Contract!NULL
<1>4. \/ m.ptr = NULL /\ m.heap = heap
      \/ n # 0 /\ b \in Nat /\ m.ptr \in Nat /\ HandsOut(heap, m.heap, b, n + WSIZE)
  BY MallocPreserves DEF IInv
<1> QED
  BY <1>2, <1>3, <1>4

(* A call to free with what an id holds, and the id cleared.               *)
LEMMA FreeStep ==
  ASSUME IInv, NEW id \in Ids, heap' = free(heap, ptr[id]), Store(id, NULL, 0)
  PROVE  IInv' /\ heap'.brk = heap.brk /\ Contract!Release(id)
<1>1. ptr \in [Ids -> Nat] /\ req \in [Ids -> Nat]
  BY DEF IInv, Owned
<1>2. ptr' = [ptr EXCEPT ![id] = NULL] /\ req' = [req EXCEPT ![id] = 0]
  BY DEF Store
<1>3. CASE ptr[id] = NULL
  <2>1. heap' = heap
    BY <1>3 DEF free
  <2>2. ptr' = ptr /\ req' \in [Ids -> Nat]
        /\ \A x \in Ids : x # id => req'[x] = req[x]
    BY <1>1, <1>2, <1>3
  <2>3. Owned(heap, ptr, req')
    BY <1>1, <1>3, <2>2 DEF IInv, Owned
  <2> QED
    BY <1>2, <2>1, <2>2, <2>3 DEF IInv, Contract!Release, Contract!NULL
<1>4. CASE ptr[id] # NULL
  <2>1. ptr[id] \in Nat /\ ptr[id] - WSIZE \in AllocatedIn(heap)
    BY <1>1, <1>4 DEF IInv, Owned
  <2>2. HeapOK(heap') /\ heap'.brk = heap.brk
    BY <2>1, FreePreserves DEF IInv
  <2>3. Owned(heap', ptr', req')
    BY <1>2, <1>4, OwnedAfterRelease DEF IInv
  <2> QED
    BY <1>2, <2>2, <2>3 DEF IInv, Contract!Release, Contract!NULL
<1> QED
  BY <1>3, <1>4

(* Everything a realloc can do.                                            *)
LEMMA ReallocStep ==
  ASSUME IInv, NEW id \in Ids, NEW n \in Nat, Representable(n), Realloc(id, n)
  PROVE  IInv' /\ \/ Contract!Grant(id, n) \/ Contract!Move(id, n)
                  \/ Contract!Release(id)
                  \/ UNCHANGED vars
<1> DEFINE m == malloc(heap, n)
           b == m.ptr - WSIZE
           old == ptr[id]
<1>1. ptr \in [Ids -> Nat] /\ req \in [Ids -> Nat]
  BY DEF IInv, Owned
<1>2. CASE n = 0
  <2>1. heap' = free(heap, ptr[id]) /\ Store(id, NULL, 0)
    BY <1>2 DEF Realloc, realloc
  <2> QED
    BY <2>1, FreeStep
<1>3. CASE n # 0 /\ m.ptr = NULL
  <2>1. m.heap = heap
    BY <1>3, MallocPreserves DEF IInv
  <2>2. realloc(heap, old, n) = m
    BY <1>3, Zenon DEF realloc
  <2>3. heap' = heap /\ UNCHANGED <<ptr, req>>
    BY <1>3, <2>1, <2>2 DEF Realloc
  <2> QED
    BY <2>3 DEF IInv, vars
<1>4. CASE n # 0 /\ m.ptr # NULL /\ old = NULL
  <2>1. realloc(heap, old, n) = m
    BY <1>4, Zenon DEF realloc
  <2>2. heap' = malloc(heap, n).heap /\ Store(id, malloc(heap, n).ptr, n)
    BY <1>4, <2>1 DEF Realloc
  <2> QED
    BY <1>4, <2>2, MallocStep
<1>5. CASE n # 0 /\ m.ptr # NULL /\ old # NULL
  <2>1. b \in Nat /\ m.ptr = b + WSIZE /\ HandsOut(heap, m.heap, b, n + WSIZE)
    BY <1>5, MallocPreserves DEF IInv
  <2>2. realloc(heap, old, n) = [heap |-> free(m.heap, old), ptr |-> m.ptr]
    BY <1>5, Zenon DEF realloc
  <2>3. /\ heap' = free(m.heap, old)
        /\ ptr' = [ptr EXCEPT ![id] = b + WSIZE] /\ req' = [req EXCEPT ![id] = n]
    BY <1>5, <2>1, <2>2 DEF Realloc, Store
  <2> HIDE DEF m, b
  <2>4. HeapOK(heap') /\ heap'.brk = m.heap.brk /\ Owned(heap', ptr', req')
    <3> DEFINE g == m.heap
    <3>1. Owned(heap, ptr, req) /\ n > 0 /\ HandsOut(heap, g, b, n + WSIZE)
      BY <1>5, <2>1 DEF IInv
    <3> HIDE DEF g
    <3>2. /\ HeapOK(free(g, ptr[id])) /\ free(g, ptr[id]).brk = g.brk
          /\ Owned(free(g, ptr[id]), [ptr EXCEPT ![id] = b + WSIZE], [req EXCEPT ![id] = n])
      BY <1>5, <2>1, <3>1, OwnedAfterMove
    <3> QED
      BY <2>3, <3>2 DEF g
  <2>5. /\ (b + WSIZE) % ALIGNMENT = 0 /\ b + WSIZE + n <= heap'.brk
        /\ \A other \in Ids : ptr[other] # NULL =>
             Contract!Apart(b + WSIZE, n, ptr[other], req[other])
    BY <2>1, <2>4, HandsOutClear DEF IInv
  <2>6. ptr'[id] = b + WSIZE /\ req'[id] = n /\ ptr'[id] # 0
        /\ \A x \in Ids \ {id} : ptr'[x] = ptr[x] /\ req'[x] = req[x]
    BY <1>1, <2>1, <2>3
  <2>7. ptr' \in [Ids -> Nat] /\ req' \in [Ids -> Nat]
    BY <1>1, <2>1, <2>3
  <2>8. heap'.brk \in heap.brk .. MaxHeap
    BY <2>1, <2>4 DEF IInv, HandsOut, HeapOK, HeapShape
  <2>9. Contract!HandedOut(id, n)
    BY <2>5, <2>6, <2>7 DEF Contract!HandedOut, Contract!NULL
  <2> QED
    BY <1>5, <2>4, <2>8, <2>9 DEF IInv, Contract!Move, Contract!NULL
<1> QED
  BY <1>2, <1>3, <1>4, <1>5


(* The heap and the client's pointers are well formed from the start.      *)
LEMMA InitIInv == Init => IInv
BY InitHeapOK, FreshState DEF Init, IInv

(* Every step keeps them so, and is a step of MallocContract or no step.   *)
LEMMA NextIInv ==
  ASSUME IInv, [Next]_vars
  PROVE  IInv' /\ [Contract!Next]_(Contract!vars)
<1>1. ASSUME NEW id \in Ids, NEW size \in Sizes, Malloc(id, size)
      PROVE  IInv' /\ Contract!Next
  <2>1. IInv' /\ (Contract!Grant(id, size) \/ Contract!Release(id))
    BY <1>1, MallocStep, BlockHeapAssumption DEF Malloc
  <2> QED
    BY <2>1 DEF Contract!Next, Requests
<1>2. ASSUME NEW id \in Ids, NEW n \in Counts, NEW size \in Sizes, Calloc(id, n, size)
      PROVE  IInv' /\ Contract!Next
  <2> DEFINE total == n * size
  <2>1. total \in Nat /\ Representable(total)
    BY BlockHeapAssumption
  <2>2. total \in Requests
    BY DEF Requests
  <2>3. calloc(heap, n, size) = malloc(heap, total)
    <3> HIDE DEF total
    <3>1. total % WORD = total
      BY <2>1, SizeClassAssumption DEF Representable
    <3> QED
      BY <3>1 DEF calloc, calloc_size, total
  <2>4. ptr[id] = NULL /\ heap' = malloc(heap, total).heap /\ Store(id, malloc(heap, total).ptr, total)
    BY <1>2, <2>3 DEF Calloc
  <2> HIDE DEF total
  <2>5. IInv' /\ (Contract!Grant(id, total) \/ Contract!Release(id))
    BY <2>1, <2>4, MallocStep
  <2> QED
    BY <2>2, <2>5 DEF Contract!Next
<1>3. ASSUME NEW id \in Ids, Free(id)
      PROVE  IInv' /\ Contract!Next
  BY <1>3, FreeStep DEF Free, Contract!Next
<1>4. ASSUME NEW id \in Ids, NEW size \in Sizes, Realloc(id, size)
      PROVE  IInv' /\ (Contract!Next \/ UNCHANGED vars)
  <2>1. IInv' /\ \/ Contract!Grant(id, size) \/ Contract!Move(id, size)
                 \/ Contract!Release(id)
                 \/ UNCHANGED vars
    BY <1>4, ReallocStep, BlockHeapAssumption
  <2> QED
    BY <2>1 DEF Contract!Next, Requests
<1>5. CASE Reset
  <2>1. IInv'
    BY <1>5, InitHeapOK, FreshState DEF Reset, IInv
  <2>2. heap'.brk \in 0 .. MaxHeap
    BY <1>5, BlockHeapAssumption DEF Reset, mm_init_heap
  <2> QED
    BY <1>5, <2>1, <2>2 DEF Reset, Contract!Next, Contract!Restart, Contract!NULL
<1>6. CASE UNCHANGED vars
  BY <1>6 DEF IInv, vars, Contract!vars
<1>7. UNCHANGED vars => UNCHANGED Contract!vars
  BY DEF vars, Contract!vars
<1> QED
  BY <1>1, <1>2, <1>3, <1>4, <1>5, <1>6, <1>7 DEF Next

-----------------------------------------------------------------------------
(* The theorems *)

(* The invariant holds in every state the program reaches.                 *)
THEOREM Invariant == Spec => []IInv
BY InitIInv, NextIInv, PTL DEF Spec

(* The invariant says what the invariants of BlockHeap say.                *)
LEMMA IInvImplies ==
  ASSUME IInv
  PROVE  TypeOK /\ HeapTiled /\ ListsSound /\ ListsComplete
         /\ ClientOwnsAllocated /\ PayloadsSafe
<1>1. HeapShape(heap) /\ Tiled(heap.brk, heap.hdr) /\ ListsBut(heap, {})
      /\ Owned(heap, ptr, req)
  BY DEF IInv, HeapOK
<1>2. TypeOK
  BY <1>1 DEF TypeOK, Blocks, HeapShape, Owned
<1>3. HeapTiled
  BY <1>1 DEF HeapTiled, Tiled, Blocks, BlockSize
<1>4. ListsSound
  BY <1>1 DEF ListsSound, ListsBut, InItsList, Blocks, BlockSize, IsFree
<1>5. ListsComplete
  BY <1>1 DEF ListsComplete, ListsBut, ListedIn, Blocks, BlockSize, IsFree
<1>6. ClientOwnsAllocated
  <2>1. ASSUME NEW id \in Holders
        PROVE  /\ ptr[id] - WSIZE \in Blocks
               /\ ~ IsFree(ptr[id] - WSIZE)
               /\ 0 < req[id] /\ req[id] + WSIZE <= BlockSize(ptr[id] - WSIZE)
               /\ \A other \in Holders : ptr[other] = ptr[id] => other = id
    BY <1>1 DEF Owned, Holders, Blocks, IsFree, BlockSize, AllocatedIn
  <2>2. ASSUME NEW b \in Blocks, ~ IsFree(b)
        PROVE  \E id \in Holders : ptr[id] = b + WSIZE
    <3>1. b \in AllocatedIn(heap) /\ b \in Nat
      BY <1>1, <2>2 DEF Blocks, IsFree, AllocatedIn, HeapShape
    <3>2. PICK id \in Ids : ptr[id] = b + WSIZE
      BY <1>1, <3>1 DEF Owned
    <3> QED
      BY <3>1, <3>2 DEF Holders
  <2> QED
    BY <2>1, <2>2 DEF ClientOwnsAllocated
<1>7. PayloadsSafe
  <2> SUFFICES ASSUME NEW id \in Holders
               PROVE  /\ ptr[id] % ALIGNMENT = 0
                      /\ ptr[id] + req[id] <= heap.brk
                      /\ \A b \in Blocks : b + WSIZE <= ptr[id] \/ ptr[id] + req[id] <= b
                      /\ \A other \in Holders \ {id} :
                           \/ ptr[id] + req[id] <= ptr[other]
                           \/ ptr[other] + req[other] <= ptr[id]
    BY DEF PayloadsSafe
  <2> DEFINE b == ptr[id] - 8
  <2>1. /\ ptr[id] \in Nat /\ req[id] \in Nat
        /\ b \in DOMAIN heap.hdr /\ req[id] + WSIZE <= heap.hdr[b].size
    BY <1>1 DEF Owned, Holders, AllocatedIn
  <2>2. ptr[id] = b + WSIZE
    BY <2>1
  <2> HIDE DEF b
  <2>3. /\ (b + WSIZE) % ALIGNMENT = 0
        /\ b + WSIZE + req[id] <= heap.brk
        /\ \A c \in DOMAIN heap.hdr : c + WSIZE <= b + WSIZE \/ b + WSIZE + req[id] <= c
        /\ \A c \in DOMAIN heap.hdr : \A m \in Nat :
             (c # b /\ m + WSIZE <= heap.hdr[c].size)
             => b + WSIZE + req[id] <= c + WSIZE \/ c + WSIZE + m <= b + WSIZE
    BY <2>1, RangeInBlock DEF IInv
  <2>4. ASSUME NEW other \in Holders \ {id}
        PROVE  \/ ptr[id] + req[id] <= ptr[other]
               \/ ptr[other] + req[other] <= ptr[id]
    <3> DEFINE c == ptr[other] - 8
    <3>1. /\ ptr[other] \in Nat /\ req[other] \in Nat /\ ptr[other] # ptr[id]
          /\ c \in DOMAIN heap.hdr /\ req[other] + WSIZE <= heap.hdr[c].size
      BY <1>1 DEF Owned, Holders, AllocatedIn
    <3>2. ptr[other] = c + WSIZE /\ c # b
      BY <2>1, <3>1 DEF b
    <3> HIDE DEF c
    <3> QED
      BY <2>2, <2>3, <3>1, <3>2
  <2> QED
    BY <2>2, <2>3, <2>4 DEF Blocks
<1> QED
  BY <1>2, <1>3, <1>4, <1>5, <1>6, <1>7

(* TypeOK: headers hold sizes and flags, lists hold addresses, for the     *)
(* heap mm_init makes and every call after it.                             *)
THEOREM TypeCorrect == Spec => []TypeOK
BY Invariant, IInvImplies, PTL

(* HeapTiled: however often malloc splits, extends and reuses, the blocks  *)
(* cover the heap without gap or overlap.                                  *)
THEOREM BlocksTileTheHeap == Spec => []HeapTiled
BY Invariant, IInvImplies, PTL

(* ListsSound: the segregated lists hold free blocks only, each once and   *)
(* in the list of its size.                                                *)
THEOREM ListsHoldFreeBlocks == Spec => []ListsSound
BY Invariant, IInvImplies, PTL

(* ListsComplete: no free block is lost; each can be found again.          *)
THEOREM NoFreeBlockIsLost == Spec => []ListsComplete
BY Invariant, IInvImplies, PTL

(* ClientOwnsAllocated: no block is leaked or handed out twice.            *)
THEOREM NoLeakNoDoubleUse == Spec => []ClientOwnsAllocated
BY Invariant, IInvImplies, PTL

(* PayloadsSafe: what the client uses is aligned, in the heap, clear of    *)
(* the headers and of what it uses elsewhere.                              *)
THEOREM PayloadsNeverCollide == Spec => []PayloadsSafe
BY Invariant, IInvImplies, PTL

(* KeepsContract: seen through the client's pointers, the allocator is     *)
(* MallocContract.                                                         *)
THEOREM ImplementsContract == Spec => KeepsContract
<1>1. Init => Contract!Init
  <2>1. mm_init_heap.brk \in 0 .. MaxHeap
    BY BlockHeapAssumption DEF mm_init_heap
  <2> QED
    BY <2>1 DEF Init, Contract!Init, Contract!NULL
<1>2. IInv /\ [Next]_vars => [Contract!Next]_(Contract!vars)
  BY NextIInv
<1> QED
  BY <1>1, <1>2, Invariant, PTL DEF Spec, KeepsContract, Contract!Spec


(* What NoAvoidableGrowth says of a step. *)
GrowthNeeded ==
  \A b \in Blocks :
    (heap'.brk > heap.brk /\ IsFree(b) /\ BlockSize(b) >= heap'.brk - heap.brk)
    => BlockSize(b) > ClassLimit[SearchedLists - 1]

(* A step that moves the break as a call to malloc does is needed.         *)
LEMMA GrowthByMalloc ==
  ASSUME IInv, NEW n \in Nat, Representable(n), heap'.brk = malloc(heap, n).heap.brk
  PROVE  GrowthNeeded
<1> SUFFICES ASSUME NEW b \in Blocks, heap'.brk > heap.brk, IsFree(b),
                    BlockSize(b) >= heap'.brk - heap.brk
             PROVE  BlockSize(b) > ClassLimit[SearchedLists - 1]
  BY DEF GrowthNeeded
<1>1. heap.brk \in Nat /\ asize(n) \in Nat
  BY AsizeHolds DEF IInv, HeapOK, HeapShape
<1>2. /\ heap'.brk = heap.brk + asize(n)
      /\ ~ \E i \in Lists : \E k \in DOMAIN heap.lists[i] : IsFirstFit(heap, asize(n), i, k)
  BY <1>1, MallocPreserves DEF IInv
<1>3. heap.hdr[b].size >= asize(n)
  BY <1>1, <1>2 DEF BlockSize
<1> QED
  BY <1>1, <1>2, <1>3, GrowthUnavoidable DEF IInv, Blocks, IsFree, BlockSize

(* A realloc moves the break as its call to malloc does, if at all.        *)
LEMMA ReallocBreak ==
  ASSUME IInv, NEW id \in Ids, NEW n \in Nat, Representable(n), Realloc(id, n)
  PROVE  heap'.brk = heap.brk \/ heap'.brk = malloc(heap, n).heap.brk
<1> DEFINE m == malloc(heap, n)
           old == ptr[id]
<1>1. old \in Nat /\ (old # NULL => old - WSIZE \in AllocatedIn(heap))
  BY DEF IInv, Owned
<1>2. CASE n = 0
  <2>1. heap' = free(heap, old)
    BY <1>2 DEF Realloc, realloc
  <2>2. old = NULL => heap' = heap
    BY <2>1 DEF free
  <2> QED
    BY <1>1, <2>1, <2>2, FreePreserves DEF IInv
<1>3. CASE n # 0 /\ (old = NULL \/ m.ptr = NULL)
  <2>1. realloc(heap, old, n) = m
    BY <1>3, Zenon DEF realloc
  <2> QED
    BY <2>1 DEF Realloc
<1>4. CASE n # 0 /\ old # NULL /\ m.ptr # NULL
  <2>1. realloc(heap, old, n) = [heap |-> free(m.heap, old), ptr |-> m.ptr]
    BY <1>4, Zenon DEF realloc
  <2>2. heap' = free(m.heap, old)
    BY <2>1 DEF Realloc
  <2>3. HeapOK(m.heap) /\ old - WSIZE \in AllocatedIn(m.heap)
    <3>1. HandsOut(heap, m.heap, m.ptr - WSIZE, n + WSIZE)
      BY <1>4, MallocPreserves DEF IInv
    <3> QED
      BY <1>1, <1>4, <3>1 DEF HandsOut
  <2> QED
    BY <1>1, <2>2, <2>3, FreePreserves
<1> QED
  BY <1>2, <1>3, <1>4

(* NoAvoidableGrowth: malloc, calloc and realloc move the break only when  *)
(* every free block that could serve is too large for the lists searched.  *)
THEOREM GrowsOnlyWhenNeeded == Spec => NoAvoidableGrowth
<1>1. ASSUME IInv, [Next]_vars
      PROVE  GrowthNeeded
  <2>1. ASSUME NEW id \in Ids, NEW size \in Sizes, Malloc(id, size)
        PROVE  GrowthNeeded
    BY <1>1, <2>1, GrowthByMalloc, BlockHeapAssumption DEF Malloc
  <2>2. ASSUME NEW id \in Ids, NEW n \in Counts, NEW size \in Sizes, Calloc(id, n, size)
        PROVE  GrowthNeeded
    <3> DEFINE total == n * size
    <3>1. total \in Nat /\ Representable(total)
      BY BlockHeapAssumption
    <3>2. calloc(heap, n, size) = malloc(heap, total)
      <4> HIDE DEF total
      <4>1. total % WORD = total
        BY <3>1, SizeClassAssumption DEF Representable
      <4> QED
        BY <4>1 DEF calloc, calloc_size, total
    <3>3. heap' = malloc(heap, total).heap
      BY <2>2, <3>2 DEF Calloc
    <3> HIDE DEF total
    <3> QED
      BY <1>1, <3>1, <3>3, GrowthByMalloc
  <2>3. ASSUME NEW id \in Ids, Free(id)
        PROVE  GrowthNeeded
    <3>1. heap'.brk = heap.brk /\ heap.brk \in Nat
      BY <1>1, <2>3, FreeStep DEF Free, IInv, HeapOK, HeapShape
    <3> QED
      BY <3>1 DEF GrowthNeeded
  <2>4. ASSUME NEW id \in Ids, NEW size \in Sizes, Realloc(id, size)
        PROVE  GrowthNeeded
    <3>1. size \in Nat /\ Representable(size) /\ heap.brk \in Nat
      BY <1>1, BlockHeapAssumption DEF IInv, HeapOK, HeapShape
    <3>2. heap'.brk = heap.brk \/ heap'.brk = malloc(heap, size).heap.brk
      BY <1>1, <2>4, <3>1, ReallocBreak
    <3>3. CASE heap'.brk = heap.brk
      BY <3>1, <3>3 DEF GrowthNeeded
    <3>4. CASE heap'.brk = malloc(heap, size).heap.brk
      BY <1>1, <3>1, <3>4, GrowthByMalloc
    <3> QED
      BY <3>2, <3>3, <3>4
  <2>5. CASE Reset \/ UNCHANGED vars
    <3>1. heap.brk \in Nat /\ heap.brk >= 8
      BY <1>1, BlockHeapAssumption DEF IInv, HeapOK, HeapShape
    <3>2. ~ (heap'.brk > heap.brk)
      BY <2>5, <3>1 DEF Reset, mm_init_heap, vars
    <3> QED
      BY <3>2 DEF GrowthNeeded
  <2> QED
    BY <1>1, <2>1, <2>2, <2>3, <2>4, <2>5 DEF Next
<1>2. [GrowthNeeded]_vars => [\A b \in Blocks :
        (heap'.brk > heap.brk /\ IsFree(b) /\ BlockSize(b) >= heap'.brk - heap.brk)
        => BlockSize(b) > ClassLimit[SearchedLists - 1]]_vars
  BY DEF GrowthNeeded
<1> QED
  BY <1>1, <1>2, Invariant, PTL DEF Spec, NoAvoidableGrowth
=============================================================================
