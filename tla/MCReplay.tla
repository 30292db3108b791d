------------------------------ MODULE MCReplay ------------------------------
(* Instances of LibcReplay for TLC: every trace of MaxOps operations on    *)
(* two ids that uses its ids as a program does, and files that are not     *)
(* what their headers say.                                                 *)
EXTENDS LibcReplay

CONSTANTS MaxOps, Sizes

MCClassLimit == 0 :> 32 @@ 1 :> 48

(* The lowest place; other addresses would only be other names. *)
MCPlaces(inuse) ==
  LET unused == Words \ (inuse \cup {NULL})
  IN  {b \in unused : \A c \in unused : b <= c}

Line(type, index, size) == [type |-> type, index |-> index, size |-> size]

(* The last operation on id says whether it is allocated. *)
Allocated(t, id) ==
  \E j \in DOMAIN t : t[j].index = id /\ t[j].type # "f"
                      /\ \A k \in j + 1 .. Len(t) : t[k].index # id

(* Id 1 is used after id 0; a block is allocated once, and given back      *)
(* before it is allocated again.                                           *)
Extensions(t) ==
  LET ids == {0} \cup {id \in {1} : \E k \in DOMAIN t : t[k].index = 0}
      held == {id \in ids : Allocated(t, id)}
  IN  {Line("a", id, size) : id \in ids \ held, size \in Sizes}
      \cup {Line("r", id, size) : id \in held, size \in Sizes}
      \cup {Line("f", id, 0) : id \in held \cup {-1}}

TracesOf[n \in 0 .. MaxOps] ==
  IF n = 0 THEN {<< >>}
  ELSE UNION {{Append(t, l) : l \in Extensions(t)} : t \in TracesOf[n - 1]}

FileOf(t) ==
  [weight |-> 1, num_ids |-> 1 + Max({0} \cup {t[k].index : k \in DOMAIN t}),
   num_ops |-> Len(t), lines |-> t]

Broken ==
  LET good == FileOf(<<Line("a", 0, 8), Line("f", 0, 0)>>)
  IN  {[good EXCEPT !.weight = 4], [good EXCEPT !.num_ids = 2], [good EXCEPT !.num_ops = 3],
       [good EXCEPT !.num_ops = 1],
       [good EXCEPT !.lines[2].type = "x"],
       [good EXCEPT !.lines = <<Line("a", 1, 8), Line("f", 1, 0)>>]}

MCFiles == Broken \cup {FileOf(t) : t \in TracesOf[MaxOps]}
=============================================================================
