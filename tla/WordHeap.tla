------------------------------ MODULE WordHeap ------------------------------
(***************************************************************************)
(* Clients of the word-level allocator of MmWords: they make its calls in  *)
(* any order and write into the payloads they get.                         *)
(***************************************************************************)
EXTENDS MmWords

CONSTANTS
  Ids,       (* the client's request ids, numbers       *)
  Sizes,     (* the sizes the client asks for           *)
  Counts     (* the nmemb arguments of its calloc calls *)

ASSUME WordHeapAssumption ==
  /\ Ids \subseteq Nat /\ Sizes \subseteq Nat /\ Counts \subseteq Nat
  /\ \A s \in Sizes : Representable(s)
  /\ \A n \in Counts, s \in Sizes : Representable(n * s)

VARIABLES
  mm,     (* the memory                                                     *)
  ptr,    (* ptr[id]: the payload pointer the client holds, or NULL         *)
  req,    (* req[id]: the number of bytes it asked for                      *)
  data    (* data[id]: the words it relies on finding there, from the first *)

vars == <<mm, ptr, req, data>>

-----------------------------------------------------------------------------
(* The client's calls.  It writes every byte of a payload it gets from     *)
(* malloc, relies on the zeros it gets from calloc and on realloc keeping  *)
(* what it had, and writes every byte that realloc adds.                   *)

Tag(id, k) == -(10 * (id + 1) + k)

(* The words the client relies on once it has written what lies behind the *)
(* first ones it keeps.                                                    *)
Extend(id, kept, size) ==
  [k \in 1 .. size \div WSIZE |-> IF k <= Len(kept) THEN kept[k] ELSE Tag(id, k - 1)]

Fill(m, id, p, kept, size) ==
  IF p = NULL THEN m
  ELSE WriteBytes(m, p, size, [k \in 0 .. size \div WSIZE - 1 |->
                                 IF k < kept THEN GET(m, p + WSIZE * k) ELSE Tag(id, k)])

Store(id, p, size, words) ==
  /\ ptr' = [ptr EXCEPT ![id] = p]
  /\ req' = [req EXCEPT ![id] = IF p = NULL THEN 0 ELSE size]
  /\ data' = [data EXCEPT ![id] = IF p = NULL THEN << >> ELSE words]

(* mem_init's mapping reads as zeros. *)
Init ==
  /\ mm = mm_init([mem |-> [w \in Words |-> 0], brk |-> 0, lists |-> << >>])
  /\ ptr = [id \in Ids |-> NULL]
  /\ req = [id \in Ids |-> 0]
  /\ data = [id \in Ids |-> << >>]

Malloc(id, size) ==
  LET r == malloc(mm, size)
  IN  /\ ptr[id] = NULL
      /\ mm' = Fill(r.mm, id, r.ptr, 0, size)
      /\ Store(id, r.ptr, size, Extend(id, << >>, size))

Calloc(id, nmemb, size) ==
  LET r == calloc(mm, nmemb, size)
  IN  /\ ptr[id] = NULL
      /\ mm' = r.mm
      /\ Store(id, r.ptr, nmemb * size, [k \in 1 .. (nmemb * size) \div WSIZE |-> 0])

Free(id) ==
  /\ mm' = free(mm, ptr[id])
  /\ Store(id, NULL, 0, << >>)

Realloc(id, size) ==
  LET r == realloc(mm, ptr[id], size)
      kept == SubSeq(data[id], 1, MinOf(Len(data[id]), size \div WSIZE))
  IN  /\ mm' = Fill(r.mm, id, r.ptr, Len(kept), size)
      /\ IF r.ptr = NULL /\ size # 0
         THEN UNCHANGED <<ptr, req, data>>
         ELSE Store(id, r.ptr, size, Extend(id, kept, size))

Reset ==
  /\ mm' = mm_init(mm)
  /\ ptr' = [id \in Ids |-> NULL]
  /\ req' = [id \in Ids |-> 0]
  /\ data' = [id \in Ids |-> << >>]

Next ==
  \/ \E id \in Ids, size \in Sizes : Malloc(id, size) \/ Realloc(id, size)
  \/ \E id \in Ids, nmemb \in Counts, size \in Sizes : Calloc(id, nmemb, size)
  \/ \E id \in Ids : Free(id)
  \/ Reset

Spec == Init /\ [][Next]_vars

-----------------------------------------------------------------------------
(* Properties *)

(* Memory is words, and the break and the list heads lie in the heap. *)
TypeOK ==
  /\ mm.mem \in [Words -> Int]
  /\ mm.brk \in WSIZE .. MaxHeap
  /\ mm.lists \in [Lists -> 0 .. MaxHeap]
  /\ ptr \in [Ids -> 0 .. MaxHeap]
  /\ req \in [Ids -> 0 .. MaxHeap]
  /\ data \in [Ids -> Seq(Int)]

(***************************************************************************)
(* What the client wrote, or was promised, is what it reads: no header, no *)
(* next pointer of a free list and no copy into another payload touches a  *)
(* payload in use, realloc carries the data over, calloc hands out zeros   *)
(* even where an earlier pass over the heap left its words.                *)
(***************************************************************************)
DataIntact ==
  /\ TypeOK
  /\ \A id \in Ids : \A k \in 1 .. Len(data[id]) :
       GET(mm, ptr[id] + WSIZE * (k - 1)) = data[id][k]

(***************************************************************************)
(* The words spell the heap of BlockHeap: walking the headers gives its    *)
(* blocks, following the next pointers its lists, and each call does to    *)
(* them what it does there.                                                *)
(***************************************************************************)
HeapOf(m) ==
  [brk   |-> m.brk,
   hdr   |-> [b \in BlocksOf(m) |-> [size |-> GET_SIZE(m, b), alloc |-> GET_ALLOC(m, b) = 1]],
   lists |-> [i \in Lists |-> ListOf(m, i)]]

Blocks == INSTANCE BlockHeap WITH heap <- HeapOf(mm)

ImplementsBlocks == Blocks!Spec
=============================================================================
