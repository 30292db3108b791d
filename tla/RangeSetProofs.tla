--------------------------- MODULE RangeSetProofs ---------------------------
(***************************************************************************)
(* Machine-checked proofs about RangeSet, for every heap, every set of     *)
(* addresses the allocator may return and every set of sizes.              *)
(*                                                                         *)
(* The argument: a range set is well formed (RangesOK) when the links of   *)
(* its records lead from each record to the next higher address in the     *)
(* tree, or nowhere, and no record is empty.  That no record is empty is   *)
(* what makes a payload at an address already on record an overlap, so     *)
(* that an insertion never replaces a record.                              *)
(***************************************************************************)
EXTENDS RangeSet, WellFoundedInduction, TLAPS

USE DEF NULL

-----------------------------------------------------------------------------
(* The tree's answers *)

(* tree_find_nearest gives the largest key that is not above lo, and NULL  *)
(* if every key is above it.                                               *)
LEMMA NearestIsLargest ==
  ASSUME NEW keys \in SUBSET (Nat \ {NULL}), NEW lo \in Nat,
         NEW p, p = tree_find_nearest(keys, lo)
  PROVE  /\ p = NULL => \A k \in keys : lo < k
         /\ p # NULL => p \in keys /\ p <= lo /\ \A k \in keys : k <= lo => k <= p
<1>1. CASE ~ \E k \in keys : k <= lo
  BY <1>1 DEF tree_find_nearest
<1>2. CASE \E k \in keys : k <= lo
  <2> DEFINE T == {d \in Nat : lo - d \in keys}
             Largest(k) == k <= lo /\ \A l \in keys : l <= lo => l <= k
  <2>1. T \subseteq Nat /\ T # {}
    <3>1. PICK k \in keys : k <= lo
      BY <1>2
    <3> QED
      BY <3>1, lo - k \in Nat, lo - (lo - k) = k
  <2>2. PICK d \in T : \A e \in T : ~ (<<e, d>> \in OpToRel(<, Nat))
    BY <2>1, WFMin, NatLessThanWellFounded
  <2>3. ASSUME NEW e \in T, e < d
        PROVE  FALSE
    <3>1. <<e, d>> \in Nat \X Nat /\ <<e, d>>[1] < <<e, d>>[2]
      BY <2>3
    <3>2. <<e, d>> \in OpToRel(<, Nat)
      BY <3>1, Zenon DEF OpToRel
    <3> QED
      BY <2>2, <3>2
  <2>4. lo - d \in keys /\ Largest(lo - d)
    <3>1. ASSUME NEW l \in keys, l <= lo
          PROVE  l <= lo - d
      <4>1. lo - l \in T
        BY <3>1, lo - (lo - l) = l
      <4>2. ~ (lo - l < d)
        BY <2>3, <4>1
      <4> QED
        BY <3>1, <4>2
    <3> QED
      BY <3>1
  <2>5. p = CHOOSE k \in keys : Largest(k)
    BY <1>2 DEF tree_find_nearest
  <2>6. p \in keys /\ Largest(p)
    <3> HIDE DEF Largest
    <3> QED
      BY <2>4, <2>5
  <2> QED
    BY <2>6
<1> QED
  BY <1>1, <1>2

-----------------------------------------------------------------------------
(* Well-formed range sets, and what the operations make of them *)

Range == [hi : Nat, next : Nat, prev : Nat]

RangesOK(r) ==
  LET keys == DOMAIN r.node
  IN  /\ r = [list |-> r.list, node |-> r.node]
      /\ keys \in SUBSET Addrs
      /\ r.node \in [keys -> Range]
      /\ r.list \in keys \cup {NULL}
      /\ r.list # NULL => r.node[r.list].prev = NULL
      /\ \A k \in keys :
           /\ k <= r.node[k].hi
           /\ r.node[k].next # NULL =>
                /\ r.node[k].next \in keys /\ k < r.node[k].next
                /\ r.node[r.node[k].next].prev = k
                /\ \A l \in keys : ~ (k < l /\ l < r.node[k].next)
           /\ r.node[k].prev # NULL =>
                r.node[k].prev \in keys /\ r.node[r.node[k].prev].next = k

(* The payloads a range set has on record. *)
Recorded(r) == {[lo |-> k, hi |-> r.node[k].hi] : k \in DOMAIN r.node}

(* The empty range set (new_range_set, reset_range_set). *)
LEMMA NewRangeSetOK == RangesOK(new_range_set) /\ Recorded(new_range_set) = {}
BY DEF RangesOK, Recorded, new_range_set

(* What add_range finds around an address at which no payload on record    *)
(* reaches: the address is new, and between prev and the record that prev  *)
(* leads to there is no other.                                             *)
LEMMA PlaceFound ==
  ASSUME NEW r, RangesOK(r), NEW lo \in Addrs, NEW hi \in Nat, lo <= hi,
         NEW prev, prev = tree_find_nearest(DOMAIN r.node, lo),
         NEW next, next = NextOf(r, prev),
         ~ HitsPrev(r, prev, lo)
  PROVE  /\ lo \notin DOMAIN r.node
         /\ prev = NULL => next = NULL /\ \A k \in DOMAIN r.node : lo < k
         /\ prev # NULL => /\ prev \in DOMAIN r.node /\ prev < lo
                           /\ next = r.node[prev].next
                           /\ \A k \in DOMAIN r.node : k <= lo => k <= prev
         /\ next # NULL => next \in DOMAIN r.node /\ lo < next
<1> DEFINE keys == DOMAIN r.node
<1>1. keys \in SUBSET (Nat \ {NULL}) /\ lo \in Nat
  BY RangeSetAssumption DEF RangesOK
<1>2. /\ prev = NULL => \A k \in keys : lo < k
      /\ prev # NULL => prev \in keys /\ prev <= lo /\ \A k \in keys : k <= lo => k <= prev
  BY <1>1, NearestIsLargest
<1>3. prev # NULL => prev < lo
  BY <1>1, <1>2 DEF RangesOK, HitsPrev, Range
<1>4. next = IF prev = NULL THEN NULL ELSE r.node[prev].next
  BY DEF NextOf
<1>5. lo \notin keys
  BY <1>1, <1>2, <1>3
<1>6. next # NULL => next \in keys /\ lo < next
  BY <1>1, <1>2, <1>3, <1>4, <1>5 DEF RangesOK
<1> QED
  BY <1>2, <1>3, <1>4, <1>5, <1>6

(* Linking a payload into that place keeps the range set well formed and   *)
(* puts it on record, with its extent and nothing else (add_range).        *)
LEMMA InsertOK ==
  ASSUME NEW r, RangesOK(r), NEW lo \in Addrs, NEW hi \in Nat, lo <= hi,
         NEW prev, NEW next,
         lo \notin DOMAIN r.node,
         prev = NULL => next = NULL /\ \A k \in DOMAIN r.node : lo < k,
         prev # NULL => /\ prev \in DOMAIN r.node /\ prev < lo
                        /\ next = r.node[prev].next
                        /\ \A k \in DOMAIN r.node : k <= lo => k <= prev,
         next # NULL => next \in DOMAIN r.node /\ lo < next
  PROVE  /\ RangesOK(Insert(r, lo, hi, prev, next))
         /\ Recorded(Insert(r, lo, hi, prev, next)) = Recorded(r) \cup {[lo |-> lo, hi |-> hi]}
<1> DEFINE keys == DOMAIN r.node
           s == Insert(r, lo, hi, prev, next)
<1>1. /\ s = [list |-> s.list, node |-> s.node]
      /\ s.list = IF prev = NULL THEN lo ELSE r.list
      /\ DOMAIN s.node = keys \cup {lo}
      /\ s.node[lo] = [hi |-> hi, next |-> next, prev |-> prev]
  BY DEF Insert
<1>2. keys \in SUBSET (Nat \ {NULL}) /\ lo \in Nat /\ lo # NULL /\ prev # lo /\ next # lo
  BY RangeSetAssumption DEF RangesOK
<1>3. ASSUME NEW k \in keys
      PROVE  /\ s.node[k].hi = r.node[k].hi
             /\ s.node[k].next = IF k = prev THEN lo ELSE r.node[k].next
             /\ s.node[k].prev = IF k = next THEN lo ELSE r.node[k].prev
             /\ s.node[k] \in Range
  <2>1. k # lo /\ r.node[k] \in Range
    BY <1>3 DEF RangesOK
  <2>2. s.node[k] = IF k = prev THEN [r.node[k] EXCEPT !.next = lo]
                    ELSE IF k = next THEN [r.node[k] EXCEPT !.prev = lo]
                    ELSE r.node[k]
    BY <2>1 DEF Insert
  <2>3. prev # NULL => prev < lo
    OBVIOUS
  <2>4. ~ (k = prev /\ k = next)
    BY <1>2
  <2> QED
    BY <1>2, <2>1, <2>2, <2>4 DEF Range
<1>4. s.node \in [keys \cup {lo} -> Range]
  <2>1. s.node = [k \in keys \cup {lo} |-> s.node[k]]
    BY DEF Insert
  <2>2. s.node[lo] \in Range
    BY <1>1, <1>2 DEF Range, RangesOK
  <2> QED
    BY <1>3, <2>1, <2>2
<1> HIDE DEF s
<1>5. s.list \in (keys \cup {lo}) \cup {NULL} /\ (s.list # NULL => s.node[s.list].prev = NULL)
  BY <1>1, <1>2, <1>3 DEF RangesOK
<1>6. ASSUME NEW k \in keys \cup {lo}
      PROVE  /\ k <= s.node[k].hi
             /\ s.node[k].next # NULL =>
                  /\ s.node[k].next \in keys \cup {lo} /\ k < s.node[k].next
                  /\ s.node[s.node[k].next].prev = k
                  /\ \A l \in keys \cup {lo} : ~ (k < l /\ l < s.node[k].next)
             /\ s.node[k].prev # NULL =>
                  s.node[k].prev \in keys \cup {lo} /\ s.node[s.node[k].prev].next = k
  <2>1. CASE k = lo
    BY <2>1, <1>1, <1>2, <1>3 DEF RangesOK
  <2>2. CASE k \in keys
    <3>1. k <= s.node[k].hi
      BY <2>2, <1>3 DEF RangesOK
    <3>2. CASE k = prev
      BY <2>2, <3>1, <3>2, <1>1, <1>2, <1>3 DEF RangesOK
    <3>3. CASE k # prev
      <4> DEFINE n == r.node[k].next
      <4>1. s.node[k].next = n
        BY <2>2, <3>3, <1>3
      <4>2. n # NULL => /\ n \in keys /\ k < n /\ r.node[n].prev = k
                        /\ \A l \in keys : ~ (k < l /\ l < n)
        BY <2>2 DEF RangesOK
      <4>3. n # NULL => n # next
        BY <2>2, <3>3, <4>2, <1>2 DEF RangesOK
      <4>4. n # NULL => s.node[n].prev = k
        BY <4>2, <4>3, <1>3
      <4>5. n # NULL => ~ (k < lo /\ lo < n)
        BY <2>2, <3>3, <4>2, <1>2
      <4>6. s.node[k].prev # NULL =>
              s.node[k].prev \in keys \cup {lo} /\ s.node[s.node[k].prev].next = k
        BY <2>2, <1>1, <1>2, <1>3 DEF RangesOK
      <4> QED
        BY <3>1, <4>1, <4>2, <4>4, <4>5, <4>6
    <3> QED
      BY <3>2, <3>3
  <2> QED
    BY <2>1, <2>2
<1>7. RangesOK(s)
  BY <1>1, <1>4, <1>5, <1>6, keys \cup {lo} \in SUBSET Addrs DEF RangesOK
<1>8. Recorded(s) = Recorded(r) \cup {[lo |-> lo, hi |-> hi]}
  BY <1>1, <1>3 DEF Recorded
<1> QED
  BY <1>7, <1>8 DEF s

(* add_range: after it the range set is well formed, and the payload is on *)
(* record exactly if no error was reported.                                *)
LEMMA AddRangeOK ==
  ASSUME NEW r, RangesOK(r), NEW lo \in Addrs, NEW hi \in Nat, lo <= hi, NEW heap_hi
  PROVE  /\ RangesOK(add_range(r, lo, hi, heap_hi))
         /\ Recorded(add_range(r, lo, hi, heap_hi)) =
              IF Judge(r, lo, hi, heap_hi) = "ok"
              THEN Recorded(r) \cup {[lo |-> lo, hi |-> hi]} ELSE Recorded(r)
<1> DEFINE prev == tree_find_nearest(DOMAIN r.node, lo)
           next == NextOf(r, prev)
<1>1. CASE Judge(r, lo, hi, heap_hi) = "ok"
  <2>1. ~ HitsPrev(r, prev, lo)
    BY <1>1 DEF Judge
  <2>2. add_range(r, lo, hi, heap_hi) = Insert(r, lo, hi, prev, next)
    BY <1>1 DEF add_range
  <2> HIDE DEF prev, next
  <2>3. prev = tree_find_nearest(DOMAIN r.node, lo) /\ next = NextOf(r, prev)
    BY DEF prev, next
  <2>4. /\ lo \notin DOMAIN r.node
        /\ prev = NULL => next = NULL /\ \A k \in DOMAIN r.node : lo < k
        /\ prev # NULL => /\ prev \in DOMAIN r.node /\ prev < lo
                          /\ next = r.node[prev].next
                          /\ \A k \in DOMAIN r.node : k <= lo => k <= prev
        /\ next # NULL => next \in DOMAIN r.node /\ lo < next
    BY <2>1, <2>3, PlaceFound
  <2> QED
    BY <1>1, <2>2, <2>4, InsertOK
<1>2. CASE Judge(r, lo, hi, heap_hi) # "ok"
  BY <1>2 DEF add_range
<1> QED
  BY <1>1, <1>2

(* remove_range: the record is gone, its neighbours are each other's, and  *)
(* all else is as before.                                                  *)
LEMMA RemoveRangeOK ==
  ASSUME NEW r, RangesOK(r), NEW lo \in DOMAIN r.node
  PROVE  /\ RangesOK(remove_range(r, lo))
         /\ Recorded(remove_range(r, lo)) = Recorded(r) \ {[lo |-> lo, hi |-> r.node[lo].hi]}
<1> DEFINE keys == DOMAIN r.node
           p == r.node[lo]
           s == remove_range(r, lo)
<1>1. /\ s = [list |-> s.list, node |-> s.node]
      /\ s.list = IF p.prev = NULL THEN p.next ELSE r.list
      /\ DOMAIN s.node = keys \ {lo}
  BY DEF remove_range
<1>2. /\ keys \in SUBSET (Nat \ {NULL}) /\ lo \in Nat /\ lo # NULL
      /\ p \in Range
      /\ p.next # NULL => p.next \in keys /\ lo < p.next /\ r.node[p.next].prev = lo
      /\ p.prev # NULL => p.prev \in keys /\ p.prev < lo /\ r.node[p.prev].next = lo
  BY RangeSetAssumption DEF RangesOK
<1>3. ASSUME NEW k \in keys \ {lo}
      PROVE  /\ s.node[k].hi = r.node[k].hi
             /\ s.node[k].next = IF k = p.prev THEN p.next ELSE r.node[k].next
             /\ s.node[k].prev = IF k = p.next THEN p.prev ELSE r.node[k].prev
             /\ s.node[k] \in Range
  <2>1. r.node[k] \in Range
    BY DEF RangesOK
  <2>2. s.node[k] = IF k = p.prev THEN [r.node[k] EXCEPT !.next = p.next]
                    ELSE IF k = p.next THEN [r.node[k] EXCEPT !.prev = p.prev]
                    ELSE r.node[k]
    BY DEF remove_range
  <2>3. ~ (k = p.prev /\ k = p.next)
    BY <1>2
  <2> QED
    BY <1>2, <2>1, <2>2, <2>3 DEF Range
<1>4. s.node \in [keys \ {lo} -> Range]
  <2>1. s.node = [k \in keys \ {lo} |-> s.node[k]]
    BY DEF remove_range
  <2> QED
    BY <1>3, <2>1
<1> HIDE DEF s
<1>5. s.list \in (keys \ {lo}) \cup {NULL} /\ (s.list # NULL => s.node[s.list].prev = NULL)
  <2>1. CASE p.prev = NULL
    BY <2>1, <1>1, <1>2, <1>3
  <2>2. CASE p.prev # NULL
    <3>1. r.list # lo /\ r.list \in keys \cup {NULL} /\ (r.list # NULL => r.node[r.list].prev = NULL)
      BY <2>2, <1>2 DEF RangesOK
    <3> QED
      BY <2>2, <3>1, <1>1, <1>2, <1>3
  <2> QED
    BY <2>1, <2>2
<1>6. ASSUME NEW k \in keys \ {lo}
      PROVE  /\ k <= s.node[k].hi
             /\ s.node[k].next # NULL =>
                  /\ s.node[k].next \in keys \ {lo} /\ k < s.node[k].next
                  /\ s.node[s.node[k].next].prev = k
                  /\ \A l \in keys \ {lo} : ~ (k < l /\ l < s.node[k].next)
             /\ s.node[k].prev # NULL =>
                  s.node[k].prev \in keys \ {lo} /\ s.node[s.node[k].prev].next = k
  <2>1. k <= s.node[k].hi
    BY <1>3 DEF RangesOK
  <2>2. CASE k = p.prev
    BY <2>1, <2>2, <1>1, <1>2, <1>3 DEF RangesOK
  <2>3. CASE k # p.prev
    <3> DEFINE n == r.node[k].next
    <3>1. s.node[k].next = n
      BY <2>3, <1>3
    <3>2. n # NULL => /\ n \in keys /\ k < n /\ r.node[n].prev = k
                      /\ \A l \in keys : ~ (k < l /\ l < n)
      BY DEF RangesOK
    <3>3. n # lo
      BY <2>3, <3>2, <1>2
    <3>4. n # NULL => n # p.next
      BY <3>2, <1>2
    <3>5. n # NULL => s.node[n].prev = k
      BY <3>2, <3>3, <3>4, <1>3
    <3>6. s.node[k].prev # NULL =>
            s.node[k].prev \in keys \ {lo} /\ s.node[s.node[k].prev].next = k
      <4>1. CASE k = p.next
        BY <4>1, <1>2, <1>3
      <4>2. CASE k # p.next
        BY <4>2, <1>2, <1>3 DEF RangesOK
      <4> QED
        BY <4>1, <4>2
    <3> QED
      BY <2>1, <3>1, <3>2, <3>3, <3>5, <3>6
  <2> QED
    BY <2>2, <2>3
<1>7. RangesOK(s)
  BY <1>1, <1>4, <1>5, <1>6, keys \ {lo} \in SUBSET Addrs DEF RangesOK
<1>8. Recorded(s) = Recorded(r) \ {[lo |-> lo, hi |-> r.node[lo].hi]}
  BY <1>1, <1>3 DEF Recorded
<1> QED
  BY <1>7, <1>8 DEF s

-----------------------------------------------------------------------------
(* The inductive invariant, and the steps *)

IInv ==
  /\ RangesOK(ranges)
  /\ live = Recorded(ranges)
  /\ verdict \in {"ok", "misaligned", "outside", "overlap"}

LEMMA InitIInv == Init => IInv
BY NewRangeSetOK DEF Init, IInv

(* A new payload: add_range keeps the range set well formed, and the       *)
(* driver takes the payload for one in use exactly if it is on record.     *)
LEMMA AddRangeStep ==
  ASSUME IInv, NEW lo \in Addrs, NEW size \in Sizes, AddRange(lo, size)
  PROVE  IInv'
<1> DEFINE hi == lo + size - 1
<1>1. lo \in Nat /\ hi \in Nat /\ lo <= hi
  BY RangeSetAssumption
<1>2. /\ verdict' = Judge(ranges, lo, hi, HeapHi)
      /\ ranges' = add_range(ranges, lo, hi, HeapHi)
      /\ live' = IF verdict' = "ok" THEN live \cup {[lo |-> lo, hi |-> hi]} ELSE live
  BY DEF AddRange
<1> HIDE DEF hi
<1>3. RangesOK(ranges') /\ live' = Recorded(ranges')
  BY <1>1, <1>2, AddRangeOK DEF IInv
<1>4. verdict' \in {"ok", "misaligned", "outside", "overlap"}
  BY <1>2 DEF Judge, JudgeExtent
<1> QED
  BY <1>3, <1>4 DEF IInv, RangesOK, Recorded

LEMMA NextIInv == IInv /\ [Next]_vars => IInv'
<1> SUFFICES ASSUME IInv, [Next]_vars PROVE IInv'
  OBVIOUS
<1>1. ASSUME NEW lo \in Addrs, NEW size \in Sizes, AddRange(lo, size)
      PROVE  IInv'
  BY <1>1, AddRangeStep
<1>2. ASSUME NEW p \in live, RemoveRange(p)
      PROVE  IInv'
  <2>1. p.lo \in DOMAIN ranges.node /\ p = [lo |-> p.lo, hi |-> ranges.node[p.lo].hi]
    BY DEF IInv, Recorded
  <2>2. RangesOK(ranges') /\ live' = Recorded(ranges')
    BY <1>2, <2>1, RemoveRangeOK DEF IInv, RemoveRange
  <2> QED
    BY <1>2, <2>2 DEF IInv, RemoveRange, RangesOK, Recorded
<1>3. CASE RemoveNull
  <2>1. NULL \notin DOMAIN ranges.node
    BY RangeSetAssumption DEF IInv, RangesOK
  <2>2. UNCHANGED vars
    BY <1>3, <2>1 DEF RemoveNull, remove_range, vars
  <2> QED
    BY <2>2 DEF IInv, vars, RangesOK, Recorded
<1>4. CASE ResetRangeSet
  <2>1. RangesOK(ranges') /\ live' = Recorded(ranges')
    BY <1>4, NewRangeSetOK DEF ResetRangeSet
  <2> QED
    BY <1>4, <2>1 DEF IInv, ResetRangeSet, RangesOK, Recorded
<1>5. CASE UNCHANGED vars
  BY <1>5 DEF IInv, vars, RangesOK, Recorded
<1> QED
  BY <1>1, <1>2, <1>3, <1>4, <1>5 DEF Next

(* The range set stays well formed and holds the payloads in use.          *)
THEOREM Invariant == Spec => []IInv
BY InitIInv, NextIInv, PTL DEF Spec

-----------------------------------------------------------------------------
(* The properties *)

(* PiecesSound: in whatever order payloads come and go, every link of the  *)
(* list leads to a record in the tree, the one with the next higher        *)
(* address, and back (add_range, remove_range).                            *)
THEOREM LinksNeverDangle == Spec => []PiecesSound
<1>1. IInv => PiecesSound
  <2> SUFFICES ASSUME IInv PROVE PiecesSound
    OBVIOUS
  <2>1. TypeOK
    <3>1. ASSUME NEW k \in Tree
          PROVE  ranges.node[k] \in [hi : Nat, next : Tree \cup {NULL}, prev : Tree \cup {NULL}]
      BY DEF IInv, RangesOK, Range, Tree
    <3> QED
      BY <3>1 DEF IInv, RangesOK, TypeOK, Tree
  <2> QED
    BY <2>1 DEF IInv, RangesOK, PiecesSound, Tree
<1> QED
  BY <1>1, Invariant, PTL

(* TreeHoldsLive: the tree has exactly the payloads in use on record.      *)
THEOREM TreeIsExact == Spec => []TreeHoldsLive
<1>1. IInv => TreeHoldsLive
  BY DEF IInv, Recorded, TreeHoldsLive, Tree
<1> QED
  BY <1>1, Invariant, PTL

(* NoFalseAlarm: the overlap that add_range reports is one, whether it was *)
(* found at the predecessor or at the record after it.                     *)
THEOREM AlarmsAreTrue == Spec => NoFalseAlarm
<1> DEFINE TrueAlarm ==
      \A lo \in Addrs, size \in Sizes :
        (AddRange(lo, size) /\ verdict' = "overlap")
        => \E p \in live : Meet(p, [lo |-> lo, hi |-> lo + size - 1])
<1>1. IInv => TrueAlarm
  <2> SUFFICES ASSUME IInv, NEW lo \in Addrs, NEW size \in Sizes,
                      AddRange(lo, size), verdict' = "overlap"
               PROVE  \E p \in live : Meet(p, [lo |-> lo, hi |-> lo + size - 1])
    OBVIOUS
  <2> DEFINE hi == lo + size - 1
             prev == tree_find_nearest(Tree, lo)
             next == NextOf(ranges, prev)
  <2>1. lo \in Nat /\ hi \in Nat /\ lo <= hi /\ Tree \in SUBSET (Nat \ {NULL})
    BY RangeSetAssumption DEF IInv, RangesOK, Tree
  <2>2. HitsPrev(ranges, prev, lo) \/ HitsNext(next, hi)
    BY DEF AddRange, Judge, JudgeExtent, Tree
  <2> HIDE DEF hi, prev, next
  <2>3. prev # NULL => prev \in Tree /\ prev <= lo /\ \A k \in Tree : k <= lo => k <= prev
    BY <2>1, NearestIsLargest DEF prev
  <2>4. CASE HitsPrev(ranges, prev, lo)
    <3> DEFINE p == [lo |-> prev, hi |-> ranges.node[prev].hi]
    <3>1. p \in live /\ p.lo <= hi /\ lo <= p.hi
      BY <2>1, <2>3, <2>4 DEF HitsPrev, IInv, Recorded, Tree
    <3> QED
      BY <3>1 DEF Meet, hi
  <2>5. CASE ~ HitsPrev(ranges, prev, lo)
    <3> DEFINE p == [lo |-> next, hi |-> ranges.node[next].hi]
    <3>1. next # NULL /\ hi >= next
      BY <2>2, <2>5 DEF HitsNext
    <3>2. next \in Tree /\ lo < next
      BY <2>1, <2>5, <3>1, PlaceFound DEF prev, next, IInv, Tree
    <3>3. p \in live /\ next <= p.hi /\ p.hi \in Nat
      BY <3>2 DEF IInv, RangesOK, Recorded, Range, Tree
    <3>4. p.lo <= hi /\ lo <= p.hi
      <4>1. next \in Nat /\ p.lo = next
        BY <2>1, <3>2
      <4> HIDE DEF p
      <4> QED
        BY <2>1, <3>1, <3>2, <3>3, <4>1
    <3> QED
      BY <3>3, <3>4 DEF Meet, hi
  <2> QED
    BY <2>4, <2>5
<1>2. [IInv /\ TrueAlarm]_vars => [TrueAlarm]_vars
  OBVIOUS
<1> QED
  BY <1>1, Invariant, PTL DEF Spec, NoFalseAlarm

(* NoStartInsideLive: while the payloads in use are apart, the predecessor *)
(* in the tree is the only one that a new payload can begin in.            *)
THEOREM NothingStartsInside == Spec => NoStartInsideLive
<1> DEFINE StartsOutside ==
      \A p \in live, q \in live' :
        (LiveApart /\ q \notin live) => ~ (q.lo \in p.lo .. p.hi)
<1>1. IInv /\ [Next]_vars => StartsOutside
  <2> SUFFICES ASSUME IInv, [Next]_vars, NEW p \in live, NEW q \in live',
                      LiveApart, q \notin live, q.lo \in p.lo .. p.hi
               PROVE  FALSE
    OBVIOUS
  <2>1. PICK lo \in Addrs, size \in Sizes : AddRange(lo, size)
    BY DEF Next, RemoveRange, RemoveNull, ResetRangeSet, vars
  <2> DEFINE hi == lo + size - 1
             prev == tree_find_nearest(Tree, lo)
  <2>2. q = [lo |-> lo, hi |-> hi] /\ ~ HitsPrev(ranges, prev, lo)
    BY <2>1 DEF AddRange, Judge, Tree
  <2> HIDE DEF hi, prev
  <2>3. lo \in Nat /\ Tree \in SUBSET (Nat \ {NULL})
    BY RangeSetAssumption DEF IInv, RangesOK, Tree
  <2>4. p.lo \in Tree /\ p.hi = ranges.node[p.lo].hi /\ p.hi \in Nat /\ p.lo <= lo /\ lo <= p.hi
    BY <2>2, <2>3 DEF IInv, Recorded, RangesOK, Range, Tree
  <2>5. prev \in Tree /\ prev <= lo /\ p.lo <= prev
    <3>1. prev = tree_find_nearest(Tree, lo)
      BY DEF prev
    <3>2. /\ prev = NULL => \A k \in Tree : lo < k
          /\ prev # NULL => prev \in Tree /\ prev <= lo /\ \A k \in Tree : k <= lo => k <= prev
      BY <2>3, <3>1, NearestIsLargest
    <3>3. p.lo \in Nat
      BY <2>3, <2>4
    <3> QED
      BY <2>3, <2>4, <3>2, <3>3
  <2>6. ranges.node[prev].hi < lo /\ prev <= ranges.node[prev].hi
    BY <2>2, <2>3, <2>5 DEF HitsPrev, IInv, RangesOK, Range, Tree
  <2>7. PICK r \in live : r = [lo |-> prev, hi |-> ranges.node[prev].hi]
    BY <2>5 DEF IInv, Recorded, Tree
  <2>8. Meet(p, r)
    <3>1. p.lo <= r.hi /\ r.lo <= p.hi
      BY <2>3, <2>4, <2>5, <2>6, <2>7 DEF IInv, RangesOK, Range, Tree
    <3> QED
      BY <3>1 DEF Meet
  <2>9. p = r
    BY <2>7, <2>8 DEF LiveApart
  <2> QED
    BY <2>3, <2>4, <2>6, <2>7, <2>9 DEF IInv, RangesOK, Range, Tree
<1> QED
  BY <1>1, Invariant, PTL DEF Spec, NoStartInsideLive
=============================================================================
