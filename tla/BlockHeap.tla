------------------------------ MODULE BlockHeap ------------------------------
(***************************************************************************)
(* The live allocator of mm.c over the break of memlib.c, at the level of  *)
(* blocks: a header is a record, a segregated free list is the sequence of *)
(* the blocks its next pointers chain together.  (WordHeap models the same *)
(* functions over memory words and implements this module.)                *)
(*                                                                         *)
(* Addresses are byte offsets from the start of the heap.  The first 8     *)
(* bytes are the padding mm_init asks for, so no block or payload has      *)
(* offset 0 and 0 can stand for the null pointer.                          *)
(*                                                                         *)
(* The client is a program that follows the discipline of the trace files: *)
(* it keeps each pointer under an id, allocates only into an id that holds *)
(* no pointer, and passes to free and realloc what the id holds.           *)
(***************************************************************************)
EXTENDS SizeClass, SequencesExt

CONSTANTS
  MaxHeap,   (* mem_max_addr - heap: how far mm_sbrk may move the break *)
  Ids,       (* the client's request ids                                *)
  Sizes,     (* the sizes the client asks for                           *)
  Counts     (* the nmemb arguments of its calloc calls                 *)

NULL == 0

ASSUME BlockHeapAssumption ==
  /\ MaxHeap \in Nat
  /\ WSIZE <= MaxHeap
  /\ 2 * MaxHeap < WORD
  /\ Sizes \subseteq Nat
  /\ Counts \subseteq Nat
  /\ \A s \in Sizes : Representable(s)
  /\ \A n \in Counts, s \in Sizes : Representable(n * s)

VARIABLES
  heap,   (* [brk, hdr, lists]: the break, the header of every block, and  *)
          (* the free lists                                                *)
  ptr,    (* ptr[id]: the payload pointer the client holds, or NULL        *)
  req     (* req[id]: the number of bytes it asked for, 0 without pointer  *)

vars == <<heap, ptr, req>>

-----------------------------------------------------------------------------
(* memlib.c *)

(* mm_sbrk refuses an increment that is negative as an intptr_t and one    *)
(* that would carry the break past the end of the heap.                    *)
SbrkOK_OldBreak(brk, incr) == 2 * incr < WORD /\ brk <= MaxHeap

SbrkOK(brk, incr) == 2 * incr < WORD /\ brk + incr <= MaxHeap

-----------------------------------------------------------------------------
(* mm.c: headers and lists *)

(* PUT(b, PACK(size, alloc)) *)
PutHeader(h, b, size, alloc) ==
  [h EXCEPT !.hdr = [x \in DOMAIN h.hdr \cup {b} |->
                       IF x = b THEN [size |-> size, alloc |-> alloc]
                                ELSE h.hdr[x]]]

(* The block becomes the first of the list of its size. *)
Push(h, b) ==
  [h EXCEPT !.lists[get_list_index(h.hdr[b].size)] = Cons(b, @)]

(***************************************************************************)
(* Position k of list i is taken out.  Behind the first element the        *)
(* predecessor's next pointer is redirected; for the first element the     *)
(* code computes the list again from the block's size.                     *)
(***************************************************************************)
Unlink_KeepsBlock(h, i, k) == h

Unlink(h, i, k) ==
  LET j == IF k = 1 THEN get_list_index(h.hdr[h.lists[i][k]].size) ELSE i
  IN  [h EXCEPT !.lists[j] = RemoveAt(h.lists[i], k)]

(* The block is used whole, or its tail of at least 32 bytes becomes a     *)
(* free block.                                                             *)
split_LosesRest(h, b, size) == PutHeader(h, b, size, TRUE)

split(h, b, size) ==
  LET diff == h.hdr[b].size - size
  IN  IF diff >= SPLIT_MIN
      THEN Push(PutHeader(PutHeader(h, b, size, TRUE), b + size, diff, FALSE),
                b + size)
      ELSE PutHeader(h, b, h.hdr[b].size, TRUE)

-----------------------------------------------------------------------------
(* mm.c: the allocator's calls, as functions from the heap to the heap and *)
(* the returned pointer                                                    *)

mm_init_heap ==
  [brk |-> WSIZE, hdr |-> << >>, lists |-> [i \in Lists |-> << >>]]

(* Position k of list i holds a block of at least n bytes. *)
Fits(h, n, i, k) == h.hdr[h.lists[i][k]].size >= n

(* The position malloc's two nested loops stop at. *)
IsFirstFit_OneList(h, n, i, k) ==
  /\ i = get_list_index(n) /\ i < SearchedLists
  /\ k \in DOMAIN h.lists[i]
  /\ Fits(h, n, i, k)
  /\ \A l \in 1 .. k - 1 : ~ Fits(h, n, i, l)

IsFirstFit(h, n, i, k) ==
  /\ i \in get_list_index(n) .. SearchedLists - 1
  /\ k \in DOMAIN h.lists[i]
  /\ Fits(h, n, i, k)
  /\ \A l \in 1 .. k - 1 : ~ Fits(h, n, i, l)
  /\ \A j \in get_list_index(n) .. i - 1 :
       \A l \in DOMAIN h.lists[j] : ~ Fits(h, n, j, l)

malloc(h, size) ==
  LET n == asize(size)
  IN  IF size = 0
      THEN [heap |-> h, ptr |-> NULL]
      ELSE IF \E i \in Lists : \E k \in DOMAIN h.lists[i] : IsFirstFit(h, n, i, k)
      THEN LET i == CHOOSE i \in Lists :
                      \E k \in DOMAIN h.lists[i] : IsFirstFit(h, n, i, k)
               k == CHOOSE k \in DOMAIN h.lists[i] : IsFirstFit(h, n, i, k)
               b == h.lists[i][k]
           IN  [heap |-> split(Unlink(h, i, k), b, n), ptr |-> b + WSIZE]
      ELSE IF SbrkOK(h.brk, n)
      THEN [heap |-> PutHeader([h EXCEPT !.brk = @ + n], h.brk, n, TRUE),
            ptr  |-> h.brk + WSIZE]
      ELSE [heap |-> h, ptr |-> NULL]

free_NoPush(h, p) ==
  IF p = NULL THEN h
  ELSE PutHeader(h, p - WSIZE, h.hdr[p - WSIZE].size, FALSE)

free(h, p) ==
  IF p = NULL THEN h
  ELSE Push(PutHeader(h, p - WSIZE, h.hdr[p - WSIZE].size, FALSE), p - WSIZE)

realloc_FreesFirst(h, old, size) == malloc(free(h, old), size)

realloc(h, old, size) ==
  LET m == malloc(h, size)
  IN  IF size = 0 THEN [heap |-> free(h, old), ptr |-> NULL]
      ELSE IF old = NULL \/ m.ptr = NULL THEN m
      ELSE [heap |-> free(m.heap, old), ptr |-> m.ptr]

calloc(h, nmemb, size) == malloc(h, calloc_size(nmemb, size))

-----------------------------------------------------------------------------
(* The client's calls *)

Init ==
  /\ heap = mm_init_heap
  /\ ptr = [id \in Ids |-> NULL]
  /\ req = [id \in Ids |-> 0]

(* The client stores what an allocating call returned for n bytes. *)
Store(id, p, n) ==
  /\ ptr' = [ptr EXCEPT ![id] = p]
  /\ req' = [req EXCEPT ![id] = IF p = NULL THEN 0 ELSE n]

Malloc(id, size) ==
  /\ ptr[id] = NULL
  /\ Store(id, malloc(heap, size).ptr, size)
  /\ heap' = malloc(heap, size).heap

Calloc(id, nmemb, size) ==
  /\ ptr[id] = NULL
  /\ Store(id, calloc(heap, nmemb, size).ptr, nmemb * size)
  /\ heap' = calloc(heap, nmemb, size).heap

Free(id) ==
  /\ Store(id, NULL, 0)
  /\ heap' = free(heap, ptr[id])

(* A realloc that fails leaves the client with its old pointer. *)
Realloc(id, size) ==
  LET r == realloc(heap, ptr[id], size)
  IN  /\ heap' = r.heap
      /\ IF r.ptr = NULL /\ size # 0
         THEN UNCHANGED <<ptr, req>>
         ELSE Store(id, r.ptr, size)

(* mem_reset_brk() and mm_init() before the next pass over a trace; the    *)
(* client forgets its pointers.                                            *)
Reset ==
  /\ heap' = mm_init_heap
  /\ ptr' = [id \in Ids |-> NULL]
  /\ req' = [id \in Ids |-> 0]

Next ==
  \/ \E id \in Ids, size \in Sizes : Malloc(id, size)
  \/ \E id \in Ids, nmemb \in Counts, size \in Sizes : Calloc(id, nmemb, size)
  \/ \E id \in Ids : Free(id)
  \/ \E id \in Ids, size \in Sizes : Realloc(id, size)
  \/ Reset

Spec == Init /\ [][Next]_vars

-----------------------------------------------------------------------------
(* Properties *)

Blocks == DOMAIN heap.hdr
BlockSize(b) == heap.hdr[b].size
IsFree(b) == ~ heap.hdr[b].alloc
Holders == {id \in Ids : ptr[id] # NULL}

(* Headers are sizes and flags, lists are sequences of addresses. *)
TypeOK ==
  /\ heap.brk \in WSIZE .. MaxHeap
  /\ Blocks \subseteq Nat
  /\ heap.hdr \in [Blocks -> [size : Nat, alloc : BOOLEAN]]
  /\ heap.lists \in [Lists -> Seq(Nat)]
  /\ ptr \in [Ids -> Nat]
  /\ req \in [Ids -> Nat]

(***************************************************************************)
(* The blocks tile the heap: they start right after mm_init's padding,     *)
(* each one ends where the next one or the break is, and none overlaps     *)
(* another, however often blocks were split, freed and reused.             *)
(***************************************************************************)
HeapTiled ==
  /\ heap.brk % ALIGNMENT = WSIZE
  /\ heap.brk # WSIZE => WSIZE \in Blocks
  /\ \A b \in Blocks :
       /\ BlockSize(b) >= ALIGNMENT
       /\ BlockSize(b) % ALIGNMENT = 0 /\ b % ALIGNMENT = WSIZE
       /\ b + BlockSize(b) \in Blocks \cup {heap.brk}
       /\ b + BlockSize(b) <= heap.brk
  /\ \A b, c \in Blocks : b < c => b + BlockSize(b) <= c

(***************************************************************************)
(* Every free block is in exactly one list, once, and that list is the one *)
(* of its size; no list holds an allocated block or an address that is no  *)
(* block.  This is what makes the list index malloc recomputes when it     *)
(* unlinks the first element the index of the list it found it in.         *)
(***************************************************************************)
ListsSound ==
  \A i \in Lists : \A k \in DOMAIN heap.lists[i] :
    LET b == heap.lists[i][k]
    IN  /\ b \in Blocks /\ IsFree(b)
        /\ get_list_index(BlockSize(b)) = i
        /\ \A l \in DOMAIN heap.lists[i] : heap.lists[i][l] = b => l = k

ListsComplete ==
  \A b \in Blocks : IsFree(b) =>
    \E k \in DOMAIN heap.lists[get_list_index(BlockSize(b))] :
      heap.lists[get_list_index(BlockSize(b))][k] = b

(***************************************************************************)
(* The allocated blocks are exactly those the client holds a pointer to,   *)
(* one pointer each, and each is large enough for its request: a block is  *)
(* neither leaked nor handed out twice, and a realloc that fails leaves    *)
(* the block it was given allocated.                                       *)
(***************************************************************************)
ClientOwnsAllocated ==
  /\ \A id \in Holders :
       /\ ptr[id] - WSIZE \in Blocks
       /\ ~ IsFree(ptr[id] - WSIZE)
       /\ 0 < req[id] /\ req[id] + WSIZE <= BlockSize(ptr[id] - WSIZE)
       /\ \A other \in Holders : ptr[other] = ptr[id] => other = id
  /\ \A b \in Blocks : ~ IsFree(b) => \E id \in Holders : ptr[id] = b + WSIZE

(***************************************************************************)
(* What the client sees: its payloads are aligned, lie within the heap,    *)
(* contain no block header, and do not overlap each other.                 *)
(***************************************************************************)
PayloadsSafe ==
  \A id \in Holders :
    /\ ptr[id] % ALIGNMENT = 0
    /\ ptr[id] + req[id] <= heap.brk
    /\ \A b \in Blocks : b + WSIZE <= ptr[id] \/ ptr[id] + req[id] <= b
    /\ \A other \in Holders \ {id} :
         ptr[id] + req[id] <= ptr[other] \/ ptr[other] + req[other] <= ptr[id]

(***************************************************************************)
(* The break moves only when no free block of a size malloc still searches *)
(* could have served the request: every free block that is large enough is *)
(* larger than the largest block of the last list searched.                *)
(***************************************************************************)
NoAvoidableGrowth ==
  [][\A b \in Blocks :
       (heap'.brk > heap.brk /\ IsFree(b) /\ BlockSize(b) >= heap'.brk - heap.brk)
       => BlockSize(b) > ClassLimit[SearchedLists - 1]]_vars

(***************************************************************************)
(* As mm.c's header says it: the lists are searched for a block that fits, *)
(* and the heap is extended if no block is found.  The code never looks    *)
(* into the lists from SearchedLists on, so large blocks are not reused.   *)
(***************************************************************************)
GrowsOnlyWhenNothingFits ==
  [][\A b \in Blocks :
       ~ (heap'.brk > heap.brk /\ IsFree(b) /\ BlockSize(b) >= heap'.brk - heap.brk)]_vars

(***************************************************************************)
(* As mm.c's header says it: free merges a block with adjacent free        *)
(* blocks, so no two free blocks are neighbours.                           *)
(***************************************************************************)
FreeCoalesces ==
  \A b, c \in Blocks : (IsFree(b) /\ IsFree(c)) => b + BlockSize(b) # c

(***************************************************************************)
(* The allocator keeps its contract with the client.                       *)
(***************************************************************************)
Requests == Sizes \cup {n * s : n \in Counts, s \in Sizes}

Contract == INSTANCE MallocContract WITH
  brk <- heap.brk, Requests <- Requests, Alignment <- ALIGNMENT

KeepsContract == Contract!Spec
=============================================================================
