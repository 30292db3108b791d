------------------------------ MODULE MmWords -------------------------------
(***************************************************************************)
(* mm.c over the memory of memlib.c, word by word: each call as a function *)
(* of the memory.  A header, a next pointer and the client's data are all  *)
(* just 8-byte words, so a write to the wrong place destroys whatever was  *)
(* there.  A free list is what following the next pointers from its head   *)
(* meets.                                                                  *)
(*                                                                         *)
(* A memory m is a record [mem, brk, lists]: the words of the heap, the    *)
(* break, and the list heads.  An address is a byte offset into the heap.  *)
(* A header is size + alloc, as PACK makes it of a size that is a multiple *)
(* of 16.  The client's own words are negative numbers, which no header or *)
(* pointer is.                                                             *)
(***************************************************************************)
EXTENDS SizeClass, SequencesExt

CONSTANT MaxHeap   (* mem_max_addr - heap *)

NULL == 0
PARTIAL == -1   (* a word of which only some bytes were written *)

ASSUME MmWordsAssumption ==
  /\ MaxHeap \in Nat /\ MaxHeap % WSIZE = 0 /\ WSIZE <= MaxHeap
  /\ 2 * MaxHeap < WORD

-----------------------------------------------------------------------------
(* Memory *)

Words == 0 .. MaxHeap \div WSIZE - 1

GET(m, a)    == m.mem[a \div WSIZE]
PUT(m, a, w) == [m EXCEPT !.mem[a \div WSIZE] = w]

PACK(size, alloc) == size + alloc
GET_SIZE(m, b)    == 8 * (GET(m, b) \div 8)
GET_ALLOC(m, b)   == GET(m, b) % 2
HDRP(p)           == p - WSIZE
NextFree(m, b)    == GET(m, b + WSIZE)

(* n bytes from a on become the words f[0], f[1], ...; of a last word only *)
(* the first n % WSIZE bytes change.                                       *)
WriteBytes(m, a, n, f) ==
  LET first == a \div WSIZE
      whole == n \div WSIZE
  IN  [m EXCEPT !.mem = [w \in Words |->
         IF w - first \in 0 .. whole - 1 THEN f[w - first]
         ELSE IF w - first = whole /\ n % WSIZE # 0 THEN PARTIAL
         ELSE m.mem[w]]]

WordsFrom(m, a, n) == [k \in 0 .. n \div WSIZE - 1 |-> GET(m, a + WSIZE * k)]

memcpy(m, dst, src, n) == WriteBytes(m, dst, n, WordsFrom(m, src, n))

memset0(m, dst, n) == WriteBytes(m, dst, n, [k \in 0 .. n \div WSIZE - 1 |-> 0])

-----------------------------------------------------------------------------
(* Free lists *)

PushFree(m, b, i) ==
  [PUT(m, b + WSIZE, m.lists[i]) EXCEPT !.lists[i] = b]

(* The blocks met from the head of list i on, and the NULL that ends them. *)
(* No list has more blocks than the heap has room for, which bounds the    *)
(* walk.                                                                   *)
MaxBlocks == MaxHeap \div ALIGNMENT

Walk(m, i) ==
  LET follow == [s \in Seq(Int) |->
                  IF Last(s) = NULL THEN s ELSE Append(s, NextFree(m, Last(s)))]
      path[k \in 0 .. MaxBlocks] ==
        IF k = 0 THEN <<m.lists[i]>> ELSE follow[path[k - 1]]
  IN  path[MaxBlocks]

(* The loop over one list ends at the first block that is large enough, or *)
(* at the end of the list.                                                 *)
FitOn(m, n, met) ==
  LET Stops(k) == k = Len(met) \/ GET_SIZE(m, met[k]) >= n
      k == CHOOSE k \in DOMAIN met : Stops(k) /\ \A l \in 1 .. k - 1 : ~ Stops(l)
  IN  [prev |-> IF k = 1 THEN NULL ELSE met[k - 1], block |-> met[k]]

FirstFit(m, n, i) == FitOn(m, n, Walk(m, i))

(* The loop over the lists, from that of size n on, ends at the first that *)
(* has such a block.                                                       *)
SearchLists(m, n) ==
  LET Visited == get_list_index(n) .. SearchedLists - 1
      Found == {i \in Visited : FirstFit(m, n, i).block # NULL}
  IN  IF Found = {} THEN [prev |-> NULL, block |-> NULL]
      ELSE FirstFit(m, n, CHOOSE i \in Found : \A j \in Found : i <= j)

(* Unlink_Head is a mutant that always moves the list's head. *)
Unlink_Head(m, prev, b) ==
  [m EXCEPT !.lists[get_list_index(GET_SIZE(m, b))] = NextFree(m, b)]

Unlink(m, prev, b) ==
  IF prev # NULL THEN PUT(m, prev + WSIZE, NextFree(m, b))
  ELSE [m EXCEPT !.lists[get_list_index(GET_SIZE(m, b))] = NextFree(m, b)]

split(m, size, b) ==
  LET free_size == GET_SIZE(m, b)
      diff == free_size - size
      cut == PUT(PUT(m, b, PACK(size, 1)), b + size, PACK(diff, 0))
  IN  IF diff >= SPLIT_MIN
      THEN PushFree(cut, b + size, get_list_index(diff))
      ELSE PUT(m, b, PACK(free_size, 1))

-----------------------------------------------------------------------------
(* Calls, as functions from the memory to the memory and the pointer *)

(* The break moves up by incr, unless incr is negative as an intptr_t or   *)
(* the heap ends before.                                                   *)
SbrkOK(m, incr) == 2 * incr < WORD /\ m.brk + incr <= MaxHeap

(* mem_reset_brk and mm_init: the heap's words stay as they were. *)
mm_init(m) == [m EXCEPT !.brk = WSIZE, !.lists = [i \in Lists |-> NULL]]

malloc(m, size) ==
  LET n == asize(size)
      fit == SearchLists(m, n)
  IN  IF size = 0 THEN [mm |-> m, ptr |-> NULL]
      ELSE IF fit.block # NULL
      THEN [mm  |-> split(Unlink(m, fit.prev, fit.block), n, fit.block),
            ptr |-> fit.block + WSIZE]
      ELSE IF SbrkOK(m, n)
      THEN [mm  |-> PUT([m EXCEPT !.brk = @ + n], m.brk, PACK(n, 1)),
            ptr |-> m.brk + WSIZE]
      ELSE [mm |-> m, ptr |-> NULL]

free(m, p) ==
  LET b == HDRP(p)
  IN  IF p = NULL THEN m
      ELSE PushFree(PUT(m, b, PACK(GET_SIZE(m, b), 0)), b, get_list_index(GET_SIZE(m, b)))

MinOf(a, b) == IF a < b THEN a ELSE b

(* realloc_FreeFirst is a mutant that gives the old block back before it   *)
(* is copied.                                                              *)
realloc_FreeFirst(m, old, size) ==
  LET r == malloc(m, size)
      copy_size == MinOf(size, GET_SIZE(r.mm, HDRP(old)) - WSIZE)
  IN  IF size = 0 THEN [mm |-> free(m, old), ptr |-> NULL]
      ELSE IF old = NULL \/ r.ptr = NULL THEN r
      ELSE [mm  |-> memcpy(free(r.mm, old), r.ptr, old, copy_size), ptr |-> r.ptr]

(* realloc_Leaks is a mutant that does not give the old block back. *)
realloc_Leaks(m, old, size) ==
  LET r == malloc(m, size)
      copy_size == MinOf(size, GET_SIZE(r.mm, HDRP(old)) - WSIZE)
  IN  IF size = 0 THEN [mm |-> free(m, old), ptr |-> NULL]
      ELSE IF old = NULL \/ r.ptr = NULL THEN r
      ELSE [mm |-> memcpy(r.mm, r.ptr, old, copy_size), ptr |-> r.ptr]

realloc(m, old, size) ==
  LET r == malloc(m, size)
      copy_size == MinOf(size, GET_SIZE(r.mm, HDRP(old)) - WSIZE)
  IN  IF size = 0 THEN [mm |-> free(m, old), ptr |-> NULL]
      ELSE IF old = NULL \/ r.ptr = NULL THEN r
      ELSE [mm  |-> free(memcpy(r.mm, r.ptr, old, copy_size), old), ptr |-> r.ptr]

calloc(m, nmemb, size) ==
  LET total_size == calloc_size(nmemb, size)
      r == malloc(m, total_size)
  IN  IF r.ptr = NULL THEN r ELSE [r EXCEPT !.mm = memset0(r.mm, r.ptr, total_size)]

-----------------------------------------------------------------------------
(* What the memory spells: the headers met from the first block on, each   *)
(* size leading to the next, and the free lists.  A header lies one word   *)
(* before an aligned address.                                              *)
Spots == {ALIGNMENT * k + WSIZE : k \in 0 .. MaxBlocks - 1}

BlocksOf(m) ==
  LET met[a \in Spots] ==
        /\ a < m.brk
        /\ a = WSIZE \/ \E b \in Spots : b < a /\ b + GET_SIZE(m, b) = a /\ met[b]
  IN  {a \in Spots : met[a]}

ListOf(m, i) == Front(Walk(m, i))
=============================================================================
