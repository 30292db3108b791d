----------------------------- MODULE RangeList ------------------------------
(***************************************************************************)
(* The range set of mdriver.c as a value, and what each function makes of  *)
(* it.  A range set r is a record [list, node]: the list head, and for     *)
(* each lo address in the tree its range [hi, next, prev].  A range is a C *)
(* struct; since the splay tree has at most one record per key, the struct *)
(* is named by its lo address.  The tree itself is taken here for what     *)
(* SplayTree shows it to be, a map from lo addresses to records.           *)
(*                                                                         *)
(* In the driver's mode DBG_NONE add_range only looks at alignment and     *)
(* extent (JudgeExtent) and keeps no records.                              *)
(***************************************************************************)
EXTENDS Integers, FiniteSets

CONSTANTS
  ALIGNMENT,   (* what payload addresses must be multiples of *)
  HeapLo       (* mem_heap_lo()                               *)

ASSUME RangeListAssumption == ALIGNMENT \in Nat \ {0} /\ HeapLo \in Nat

NULL == 0

(* The largest key of the tree that is not above lo, NULL if there is none. *)
(* tree_find_nearest_Below is a mutant that overlooks the key lo itself.    *)
tree_find_nearest_Below(keys, lo) ==
  IF \E k \in keys : k < lo
  THEN CHOOSE k \in keys : k < lo /\ \A l \in keys : l < lo => l <= k
  ELSE NULL

tree_find_nearest(keys, lo) ==
  IF \E k \in keys : k <= lo
  THEN CHOOSE k \in keys : k <= lo /\ \A l \in keys : l <= lo => l <= k
  ELSE NULL

(* prev ? prev->next : NULL *)
NextOf(r, prev) == IF prev = NULL THEN NULL ELSE r.node[prev].next

new_range_set == [list |-> NULL, node |-> << >>]

(* A range of its own with its neighbours' links: the record goes between   *)
(* prev and next; without a prev it becomes the head of the list.  Insert_  *)
(* KeepsNext is a mutant that does not tell next about its new neighbour.   *)
Insert_KeepsNext(r, lo, hi, prev, next) ==
  [list |-> IF prev = NULL THEN lo ELSE r.list,
   node |-> [k \in DOMAIN r.node \cup {lo} |->
               IF k = lo THEN [hi |-> hi, next |-> next, prev |-> prev]
               ELSE IF k = prev THEN [r.node[k] EXCEPT !.next = lo]
               ELSE r.node[k]]]

Insert(r, lo, hi, prev, next) ==
  [list |-> IF prev = NULL THEN lo ELSE r.list,
   node |-> [k \in DOMAIN r.node \cup {lo} |->
               IF k = lo THEN [hi |-> hi, next |-> next, prev |-> prev]
               ELSE IF k = prev THEN [r.node[k] EXCEPT !.next = lo]
               ELSE IF k = next THEN [r.node[k] EXCEPT !.prev = lo]
               ELSE r.node[k]]]

(* The new payload begins inside prev; it reaches into next.  HitsPrev_Not- *)
(* Last is a mutant that takes hi for the first byte behind prev, HitsNext_ *)
(* Touches one that takes hi for the first byte behind the new payload.     *)
HitsPrev_NotLast(r, prev, lo) == prev # NULL /\ lo < r.node[prev].hi

HitsPrev(r, prev, lo) == prev # NULL /\ lo <= r.node[prev].hi

HitsNext_Touches(next, hi) == next # NULL /\ hi + 1 >= next

HitsNext(next, hi) == next # NULL /\ hi >= next

InHeap(a, heap_hi) == HeapLo <= a /\ a <= heap_hi

(* The error add_range reports for a payload [lo, hi] while the last byte  *)
(* of the heap is heap_hi, or "ok".                                        *)
JudgeExtent(lo, hi, heap_hi) ==
  IF lo % ALIGNMENT # 0 THEN "misaligned"
  ELSE IF ~ (InHeap(lo, heap_hi) /\ InHeap(hi, heap_hi)) THEN "outside"
  ELSE "ok"

Judge(r, lo, hi, heap_hi) ==
  LET prev == tree_find_nearest(DOMAIN r.node, lo)
  IN  IF JudgeExtent(lo, hi, heap_hi) # "ok" THEN JudgeExtent(lo, hi, heap_hi)
      ELSE IF HitsPrev(r, prev, lo) \/ HitsNext(NextOf(r, prev), hi) THEN "overlap"
      ELSE "ok"

add_range(r, lo, hi, heap_hi) ==
  LET prev == tree_find_nearest(DOMAIN r.node, lo)
  IN  IF Judge(r, lo, hi, heap_hi) = "ok" THEN Insert(r, lo, hi, prev, NextOf(r, prev)) ELSE r

remove_range(r, lo) ==
  IF lo \notin DOMAIN r.node THEN r
  ELSE LET p == r.node[lo]
       IN  [list |-> IF p.prev = NULL THEN p.next ELSE r.list,
            node |-> [k \in DOMAIN r.node \ {lo} |->
                        IF k = p.prev THEN [r.node[k] EXCEPT !.next = p.next]
                        ELSE IF k = p.next THEN [r.node[k] EXCEPT !.prev = p.prev]
                        ELSE r.node[k]]]
=============================================================================
