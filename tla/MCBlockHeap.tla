----------------------------- MODULE MCBlockHeap -----------------------------
(* Instances of BlockHeap for TLC: the limits are the code's. *)
EXTENDS BlockHeap

MCClassLimit == [i \in 0 .. NumLists - 2 |-> CodeLimit(i)]

Symmetry == Permutations(Ids)
=============================================================================
