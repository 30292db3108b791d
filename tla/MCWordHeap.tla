----------------------------- MODULE MCWordHeap -----------------------------
(* An instance of WordHeap for TLC, with limits that put blocks of 16 and  *)
(* 32, of 48, and of more than 48 bytes into different lists.              *)
EXTENDS WordHeap

MCClassLimit == 0 :> 32 @@ 1 :> 48
=============================================================================
