---------------------------- MODULE MallocContract ----------------------------
(***************************************************************************)
(* What malloc, calloc, realloc and free promise their caller, whatever    *)
(* the allocator keeps behind them: a call that hands out a range hands    *)
(* out one that is aligned, inside the heap and clear of every range in    *)
(* use; it touches no other range; the heap never shrinks.  A call that is *)
(* refused changes nothing the caller can see (a stuttering step).         *)
(***************************************************************************)
EXTENDS Integers

CONSTANTS
  Ids,        (* the caller's names for its ranges        *)
  Requests,   (* the numbers of bytes it asks for         *)
  MaxHeap,    (* how far the heap can grow                *)
  Alignment   (* what every range's address is divided by *)

NULL == 0

VARIABLES
  brk,   (* the end of the heap                          *)
  ptr,   (* the pointer held under each id, or NULL      *)
  req    (* the number of bytes in use there             *)

vars == <<brk, ptr, req>>

(* [p, p + n) and [q, q + m) have no byte in common. *)
Apart(p, n, q, m) == p + n <= q \/ q + m <= p

(* The caller now uses n bytes under id, apart from every range it used;   *)
(* its other ranges stay what they are.                                    *)
HandedOut(id, n) ==
  /\ ptr' \in [Ids -> Nat] /\ req' \in [Ids -> Nat]
  /\ ptr'[id] # NULL /\ ptr'[id] % Alignment = 0
  /\ req'[id] = n
  /\ ptr'[id] + n <= brk'
  /\ \A other \in Ids :
       ptr[other] # NULL => Apart(ptr'[id], n, ptr[other], req[other])
  /\ \A other \in Ids \ {id} : ptr'[other] = ptr[other] /\ req'[other] = req[other]

Init ==
  /\ brk \in 0 .. MaxHeap
  /\ ptr = [id \in Ids |-> NULL]
  /\ req = [id \in Ids |-> 0]

Grant(id, n) ==
  /\ ptr[id] = NULL /\ n > 0
  /\ brk' \in brk .. MaxHeap
  /\ HandedOut(id, n)

(* A realloc that succeeds moves the range; the old one is still in use    *)
(* while the new one is chosen, so these two do not overlap either.        *)
Move(id, n) ==
  /\ ptr[id] # NULL /\ n > 0
  /\ brk' \in brk .. MaxHeap
  /\ HandedOut(id, n)

Release(id) ==
  /\ UNCHANGED brk
  /\ ptr' = [ptr EXCEPT ![id] = NULL]
  /\ req' = [req EXCEPT ![id] = 0]

Restart ==
  /\ brk' \in 0 .. MaxHeap
  /\ ptr' = [id \in Ids |-> NULL]
  /\ req' = [id \in Ids |-> 0]

Next ==
  \/ \E id \in Ids, n \in Requests : Grant(id, n) \/ Move(id, n)
  \/ \E id \in Ids : Release(id)
  \/ Restart

Spec == Init /\ [][Next]_vars
=============================================================================
