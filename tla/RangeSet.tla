------------------------------ MODULE RangeSet ------------------------------
(***************************************************************************)
(* The driver's record of every payload the allocator under test has       *)
(* handed out, against which it tests each new one.  The allocator is the  *)
(* program under test: it may return any address.                          *)
(***************************************************************************)
EXTENDS RangeList

CONSTANTS
  HeapHi,      (* mem_heap_hi()                         *)
  Addrs,       (* the addresses the allocator may return *)
  Sizes        (* the sizes of the trace's requests      *)

ASSUME RangeSetAssumption ==
  /\ HeapHi \in Nat
  /\ Addrs \subseteq Nat \ {NULL}
  /\ Sizes \subseteq Nat \ {0}

VARIABLES
  ranges,   (* [list, node]: the list head, and for each lo in the tree the *)
            (* range [hi, next, prev]                                       *)
  live,     (* the payloads [lo, hi] the driver accepted and has not given  *)
            (* back: what the range set ought to hold                       *)
  verdict   (* "ok", or the error that made eval_mm_valid give up           *)

vars == <<ranges, live, verdict>>

Tree == DOMAIN ranges.node

-----------------------------------------------------------------------------
Init ==
  /\ ranges = new_range_set
  /\ live = {}
  /\ verdict = "ok"

(* The allocator returned lo for a request of size bytes; an error ends    *)
(* the replay.                                                             *)
AddRange(lo, size) ==
  LET hi == lo + size - 1
  IN  /\ verdict = "ok"
      /\ verdict' = Judge(ranges, lo, hi, HeapHi)
      /\ ranges' = add_range(ranges, lo, hi, HeapHi)
      /\ live' = IF verdict' = "ok" THEN live \cup {[lo |-> lo, hi |-> hi]} ELSE live

(* The driver gives the payload p back; a block of size zero is the null   *)
(* pointer, which no record stands for.                                    *)
RemoveRange(p) ==
  /\ verdict = "ok"
  /\ ranges' = remove_range(ranges, p.lo)
  /\ live' = live \ {p}
  /\ UNCHANGED verdict

RemoveNull ==
  /\ verdict = "ok"
  /\ ranges' = remove_range(ranges, NULL)
  /\ UNCHANGED <<live, verdict>>

(* Before the next replay. *)
ResetRangeSet ==
  /\ ranges' = new_range_set
  /\ live' = {}
  /\ verdict' = "ok"

Next ==
  \/ \E lo \in Addrs, size \in Sizes : AddRange(lo, size)
  \/ \E p \in live : RemoveRange(p)
  \/ RemoveNull
  \/ ResetRangeSet

Spec == Init /\ [][Next]_vars

-----------------------------------------------------------------------------
(* Properties *)

Meet(p, q) == p.lo <= q.hi /\ q.lo <= p.hi

LiveApart == \A p, q \in live : Meet(p, q) => p = q

(* The list's links lead from records to records. *)
TypeOK ==
  /\ Tree \subseteq Addrs
  /\ ranges.node \in [Tree -> [hi : Nat, next : Tree \cup {NULL},
                               prev : Tree \cup {NULL}]]
  /\ ranges.list \in Tree \cup {NULL}
  /\ verdict \in {"ok", "misaligned", "outside", "overlap"}

(***************************************************************************)
(* The list is cut into pieces when a payload is placed below all others,  *)
(* but within a piece it is sound: next and prev are inverse to each       *)
(* other, next is the record with the next higher address of all in the    *)
(* tree, and a record before which the list starts has no predecessor.  So *)
(* add_range and remove_range never follow a link to a freed record.       *)
(***************************************************************************)
PiecesSound ==
  /\ TypeOK
  /\ \A k \in Tree :
       LET n == ranges.node[k].next
           p == ranges.node[k].prev
       IN  /\ n # NULL => /\ k < n /\ ranges.node[n].prev = k
                          /\ \A l \in Tree : ~ (k < l /\ l < n)
           /\ p # NULL => ranges.node[p].next = k
  /\ ranges.list # NULL => ranges.node[ranges.list].prev = NULL

(***************************************************************************)
(* The records are those of the payloads in use, with their extents: the   *)
(* tree forgets none and keeps none too long, whatever became of the list. *)
(***************************************************************************)
TreeHoldsLive ==
  live = {[lo |-> k, hi |-> ranges.node[k].hi] : k \in Tree}

(***************************************************************************)
(* No false alarm: an overlap is reported only of a payload that has a     *)
(* byte in common with a payload in use.                                   *)
(***************************************************************************)
NoFalseAlarm ==
  [][\A lo \in Addrs, size \in Sizes :
       (AddRange(lo, size) /\ verdict' = "overlap")
       => \E p \in live : Meet(p, [lo |-> lo, hi |-> lo + size - 1])]_vars

(***************************************************************************)
(* What is sure to be found: as long as the payloads in use are apart, a   *)
(* payload that begins inside one of them is never accepted.               *)
(***************************************************************************)
NoStartInsideLive ==
  [][\A p \in live, q \in live' :
       (LiveApart /\ q \notin live)
       => ~ (q.lo \in p.lo .. p.hi)]_vars

(***************************************************************************)
(* As eval_mm_valid's comment says it: the block must not overlap any      *)
(* currently allocated block.  The code takes the successor from the       *)
(* predecessor's record, so a payload below all others is not compared     *)
(* with the one above it.                                                  *)
(***************************************************************************)
AcceptedApart == LiveApart
=============================================================================
