----------------------------- MODULE OrderedMap -----------------------------
(***************************************************************************)
(* What stree.h promises of a splay tree: a map from keys to records with  *)
(* insertion that refuses a key it has, lookup, lookup of the largest key  *)
(* that is not above a given one, and removal.  ret is the last call with  *)
(* what it returned to its caller.                                         *)
(***************************************************************************)
EXTENDS Integers

CONSTANTS
  Keys,      (* the keys, integers                            *)
  Records,   (* what the map stores                           *)
  NoRecord   (* the null record a lookup that fails returns   *)

VARIABLES map, ret

vars == <<map, ret>>

(* call, made with key, returned result. *)
Returned(call, key, result) == ret' = <<call, key, result>>

Init == map = << >> /\ ret = << >>

Lookup(key) == IF key \in DOMAIN map THEN map[key] ELSE NoRecord

(* "Insertion function returns false if already have key in tree" *)
Insert(key, record) ==
  /\ map' = IF key \in DOMAIN map THEN map
            ELSE [k \in DOMAIN map \cup {key} |-> IF k = key THEN record ELSE map[k]]
  /\ Returned("insert", key, key \notin DOMAIN map)

Find(key) ==
  /\ Returned("find", key, Lookup(key))
  /\ UNCHANGED map

(* "Find element with largest key <= given key" *)
FindNearest(key) ==
  /\ \/ \E k \in DOMAIN map :
          /\ k <= key
          /\ \A l \in DOMAIN map : l <= key => l <= k
          /\ Returned("find_nearest", key, map[k])
     \/ (\A k \in DOMAIN map : k > key) /\ Returned("find_nearest", key, NoRecord)
  /\ UNCHANGED map

Remove(key) ==
  /\ Returned("remove", key, Lookup(key))
  /\ map' = [k \in DOMAIN map \ {key} |-> map[k]]

(* tree_free and a new tree *)
Clear == map' = << >> /\ ret' = << >>

Next ==
  \/ Clear
  \/ \E key \in Keys :
       \/ \E record \in Records : Insert(key, record)
       \/ Find(key) \/ FindNearest(key) \/ Remove(key)

Spec == Init /\ [][Next]_vars
=============================================================================
