----------------------------- MODULE SplayTree ------------------------------
(***************************************************************************)
(* The splay tree of stree.c, pointer by pointer.  A node is named by its  *)
(* key, which no two nodes of a tree share; [left, right, parent, record]  *)
(* are its fields while it is allocated, and NULL is the null node.        *)
(*                                                                         *)
(* A call is computed as its history: the sequence of trees in memory, one *)
(* more after every store, in the order of the source.  The tree has one   *)
(* caller, so a call is one step to the last tree of its history, unless   *)
(* the driver's alarm rings in the middle: the jump leaves the tree as any *)
(* tree of the history, and all that is done with it then is tree_free.    *)
(*                                                                         *)
(* Left out: comparison_count (a statistic) and tree_show.                 *)
(***************************************************************************)
EXTENDS Integers, FiniteSets, Sequences

CONSTANTS
  Keys, Records,
  NoRecord, (* the null record *)
  NoNode    (* what is in the place of a node that is not allocated *)

NULL == 0

ASSUME SplayTreeAssumption ==
  /\ Keys \subseteq Nat \ {NULL}
  /\ NoRecord \notin Records
  /\ NoNode \notin [left : Nat, right : Nat, parent : Nat, record : Records]

VARIABLES
  tree,   (* [root, node_count, node] *)
  ret,    (* the last call and what it returned *)
  halfway (* the tree that an interrupted call left, to be freed; else empty *)

vars == <<tree, ret, halfway>>

tree_new == [root |-> NULL, node_count |-> 0, node |-> [key \in Keys |-> NoNode]]

Allocated(t) == {key \in Keys : t.node[key] # NoNode}

Nodes == Allocated(tree)

(* The state that a loop of the code ends in.  Turn is its body and leaves *)
(* alone a state in which the loop's condition fails; n bounds the turns.  *)
Loop(Turn(_), s, n) ==
  LET state[k \in 0 .. n] == IF k = 0 THEN s ELSE Turn(state[k - 1])
  IN  state[n]

-----------------------------------------------------------------------------
(* Pointers, read in the last tree of a history and stored in one more *)

Now(h) == h[Len(h)]

Size(h) == Cardinality(Allocated(Now(h)))

Left(h, x)   == Now(h).node[x].left
Right(h, x)  == Now(h).node[x].right
Parent(h, x) == Now(h).node[x].parent

SetLeft(h, x, y)   == Append(h, [Now(h) EXCEPT !.node[x].left = y])
SetRight(h, x, y)  == Append(h, [Now(h) EXCEPT !.node[x].right = y])
SetParent(h, x, y) == Append(h, [Now(h) EXCEPT !.node[x].parent = y])
SetRoot(h, x)      == Append(h, [Now(h) EXCEPT !.root = x])

(* if (x) x->parent = y *)
SetParentIf(h, x, y) == IF x = NULL THEN h ELSE SetParent(h, x, y)

(* What hangs below u's parent, on u's side, becomes v: the root if u has  *)
(* no parent.                                                              *)
Rehang(h, u, v) ==
  LET p == Parent(h, u)
  IN  IF p = NULL THEN SetRoot(h, v)
      ELSE IF u = Left(h, p) THEN SetLeft(h, p, v)
      ELSE SetRight(h, p, v)

(* left_rotate_Orphan is a mutant that does not tell y's left child about  *)
(* its new parent.                                                         *)
left_rotate_Orphan(h, x) ==
  LET y == Right(h, x)
      a == IF y = NULL THEN h
           ELSE SetParent(SetRight(h, x, Left(h, y)), y, Parent(h, x))
      b == Rehang(a, x, y)
  IN  SetParent(IF y = NULL THEN b ELSE SetLeft(b, y, x), x, y)

(* left_rotate_LinkFirst is a mutant that hangs x below y before x lets y  *)
(* go; it comes to the same tree.                                          *)
left_rotate_LinkFirst(h, x) ==
  LET y == Right(h, x)
      a == IF y = NULL THEN Rehang(h, x, y)
           ELSE Rehang(SetParent(SetLeft(h, y, x), y, Parent(h, x)), x, y)
      b == IF y = NULL THEN a ELSE SetParentIf(SetRight(a, x, Left(h, y)), Left(h, y), x)
  IN  SetParent(b, x, y)

left_rotate(h, x) ==
  LET y == Right(h, x)
      a == IF y = NULL THEN h
           ELSE SetParent(SetParentIf(SetRight(h, x, Left(h, y)), Left(h, y), x),
                          y, Parent(h, x))
      b == Rehang(a, x, y)
  IN  SetParent(IF y = NULL THEN b ELSE SetLeft(b, y, x), x, y)

right_rotate(h, x) ==
  LET y == Left(h, x)
      a == IF y = NULL THEN h
           ELSE SetParent(SetParentIf(SetLeft(h, x, Right(h, y)), Right(h, y), x),
                          y, Parent(h, x))
      b == Rehang(a, x, y)
  IN  SetParent(IF y = NULL THEN b ELSE SetRight(b, y, x), x, y)

(* One turn of splay's loop: x has a parent p and perhaps a grandparent g. *)
SplayTurn(h, x) ==
  LET p == Parent(h, x)
      g == Parent(h, p)
      leftOf(y, z)  == Left(h, z) = y
      rotatedRight  == right_rotate(h, p)
      rotatedLeft   == left_rotate(h, p)
  IN  IF g = NULL
      THEN IF leftOf(x, p) THEN rotatedRight ELSE rotatedLeft
      ELSE IF leftOf(x, p) /\ leftOf(p, g)
      THEN right_rotate(right_rotate(h, g), p)
      ELSE IF ~ leftOf(x, p) /\ ~ leftOf(p, g)
      THEN left_rotate(left_rotate(h, g), p)
      ELSE IF leftOf(x, p)
      THEN left_rotate(rotatedRight, Parent(rotatedRight, x))
      ELSE right_rotate(rotatedLeft, Parent(rotatedLeft, x))

SplayUnlessRoot(h, x) == IF Parent(h, x) = NULL THEN h ELSE SplayTurn(h, x)

(* splay_OneTurn is a mutant that turns only once. *)
splay_OneTurn(h, x) == SplayUnlessRoot(h, x)

(* Every turn takes x one node or two nearer to the root. *)
splay(h, x) == Loop(LAMBDA t : SplayUnlessRoot(t, x), h, Size(h))

(* replace_OneWay is a mutant that leaves v's parent pointer alone. *)
replace_OneWay(h, u, v) == Rehang(h, u, v)

replace(h, u, v) == SetParentIf(Rehang(h, u, v), v, Parent(h, u))

subtree_minimum(h, u) ==
  Loop(LAMBDA z : IF Left(h, z) = NULL THEN z ELSE Left(h, z), u, Size(h))

-----------------------------------------------------------------------------
(* Calls, as functions from the tree to the tree or the result *)

(* The child a descent for key goes to. *)
Toward(h, z, key) == IF key > z THEN Right(h, z) ELSE Left(h, z)

(* A descent for key is at a node, whose parent it met before, and knows   *)
(* the nearest of the nodes below key that it met.                         *)
Descend(h, d, key) ==
  IF d.at \in {NULL, key} THEN d
  ELSE [at      |-> Toward(h, d.at, key),
        parent  |-> d.at,
        nearest |-> IF key > d.at /\ (d.nearest = NULL \/ d.nearest < d.at)
                    THEN d.at ELSE d.nearest]

(* It ends at the node with the key, or at NULL below the last node met.   *)
Descent(h, key) ==
  Loop(LAMBDA d : Descend(h, d, key),
       [at |-> Now(h).root, parent |-> NULL, nearest |-> NULL], Size(h))

RecordOf(h, z) == IF z = NULL THEN NoRecord ELSE Now(h).node[z].record

(* The new node key becomes a child of p. AddChild_Left is a mutant that    *)
(* always makes it the left one.                                           *)
AddChild_Left(h, p, key) ==
  IF p = NULL THEN SetRoot(h, key) ELSE SetLeft(h, p, key)

AddChild(h, p, key) ==
  IF p = NULL THEN SetRoot(h, key)
  ELSE IF p < key THEN SetRight(h, p, key)
  ELSE SetLeft(h, p, key)

(* The new node is complete before it is linked. *)
tree_insert(h, key, record) ==
  LET p == Descent(h, key).parent
      z == [left |-> NULL, right |-> NULL, parent |-> p, record |-> record]
      a == Append(h, [Now(h) EXCEPT !.node[key] = z])
      b == splay(AddChild(a, p, key), key)
  IN  IF Descent(h, key).at # NULL THEN h
      ELSE Append(b, [Now(b) EXCEPT !.node_count = @ + 1])

tree_find(h, key) == RecordOf(h, Descent(h, key).at)

(* tree_find_nearest_Exact is a mutant that forgets the nearest node.      *)
tree_find_nearest_Exact(h, key) == tree_find(h, key)

tree_find_nearest(h, key) ==
  LET d == Descent(h, key)
  IN  RecordOf(h, IF d.at = key THEN d.at ELSE d.nearest)

(* The root z leaves a tree in which it has two children: its successor y  *)
(* takes its place.                                                        *)
TakePlace(h, z) ==
  LET y == subtree_minimum(h, Right(h, z))
      r == replace(h, y, Right(h, y))
      a == IF Parent(h, y) = z THEN h
           ELSE SetParent(SetRight(r, y, Right(r, z)), Right(r, z), y)
      b == replace(a, z, y)
  IN  SetParent(SetLeft(b, y, Left(b, z)), Left(b, z), y)

tree_remove(h, key) ==
  LET s == splay(h, key)
      a == IF Left(s, key) = NULL THEN replace(s, key, Right(s, key))
           ELSE IF Right(s, key) = NULL THEN replace(s, key, Left(s, key))
           ELSE TakePlace(s, key)
      b == Append(a, [Now(a) EXCEPT !.node_count = @ - 1])
  IN  IF Descent(h, key).at = NULL THEN h
      ELSE Append(b, [Now(b) EXCEPT !.node[key] = NoNode])

-----------------------------------------------------------------------------
Returned(call, key, result) == ret' = <<call, key, result>>

Init == tree = tree_new /\ ret = << >> /\ halfway = tree_new

Whole == halfway = tree_new /\ UNCHANGED halfway

Insert(key, record) ==
  /\ Whole
  /\ tree' = Now(tree_insert(<<tree>>, key, record))
  /\ Returned("insert", key, Descent(<<tree>>, key).at = NULL)

Find(key) ==
  /\ Whole
  /\ Returned("find", key, tree_find(<<tree>>, key))
  /\ UNCHANGED tree

FindNearest(key) ==
  /\ Whole
  /\ Returned("find_nearest", key, tree_find_nearest(<<tree>>, key))
  /\ UNCHANGED tree

Remove(key) ==
  /\ Whole
  /\ Returned("remove", key, tree_find(<<tree>>, key))
  /\ tree' = Now(tree_remove(<<tree>>, key))

Clear == Whole /\ tree' = tree_new /\ ret' = << >>

(* The alarm rings in a call: the tree is given up where it stands, and a  *)
(* new one made once tree_free has gone over it.                           *)
Interrupted(history) ==
  /\ halfway = tree_new
  /\ halfway' \in {history[k] : k \in DOMAIN history}
  /\ tree' = tree_new /\ ret' = << >>

InterruptInsert(key, record) == Interrupted(tree_insert(<<tree>>, key, record))

InterruptRemove(key) == Interrupted(tree_remove(<<tree>>, key))

FreeHalfway ==
  /\ halfway # tree_new
  /\ halfway' = tree_new
  /\ UNCHANGED <<tree, ret>>

Next ==
  \/ \E key \in Keys :
       \/ \E record \in Records : Insert(key, record) \/ InterruptInsert(key, record)
       \/ Find(key) \/ FindNearest(key) \/ Remove(key) \/ InterruptRemove(key)
  \/ Clear \/ FreeHalfway

Spec == Init /\ [][Next]_vars

-----------------------------------------------------------------------------
(* Properties *)

Current == <<tree>>

(* Links lead to nodes of the tree, never to one that was freed. *)
TypeOK ==
  /\ DOMAIN tree.node = Keys
  /\ tree.root \in Nodes \cup {NULL}
  /\ \A x \in Nodes : /\ Left(Current, x) \in Nodes \cup {NULL}
                      /\ Right(Current, x) \in Nodes \cup {NULL}
                      /\ Parent(Current, x) \in Nodes \cup {NULL}
                      /\ tree.node[x].record \in Records
  /\ tree.node_count \in Nat

(***************************************************************************)
(* The nodes form one tree: a child's parent pointer leads back to the     *)
(* node, only the root has none, and each other node is a child of its     *)
(* parent.  The rotations follow these pointers in both directions.        *)
(***************************************************************************)
ParentsMatch ==
  /\ (tree.root = NULL) <=> (Nodes = {})
  /\ \A x \in Nodes :
       /\ Left(Current, x) # NULL => Parent(Current, Left(Current, x)) = x
       /\ Right(Current, x) # NULL => Parent(Current, Right(Current, x)) = x
       /\ (Parent(Current, x) = NULL) <=> (x = tree.root)
       /\ Parent(Current, x) # NULL =>
            x \in {Left(Current, Parent(Current, x)), Right(Current, Parent(Current, x))}

(* The nodes free_subtree comes to from a set of nodes, x or none.         *)
Reached(h, xs) ==
  Loop(LAMBDA ys : ys \cup UNION {{Left(h, y), Right(h, y)} \ {NULL} : y \in ys},
       xs, Size(h))

Below(h, x) == Reached(h, {x} \ {NULL})

(***************************************************************************)
(* Rotations and removals keep the order a descent relies on, every node   *)
(* is reached from the root, and the count is the number of nodes.         *)
(***************************************************************************)
Ordered ==
  /\ \A x \in Nodes : /\ \A y \in Below(Current, Left(Current, x)) : y < x
                      /\ \A y \in Below(Current, Right(Current, x)) : x < y
  /\ Below(Current, tree.root) = Nodes
  /\ tree.node_count = Cardinality(Nodes)

(***************************************************************************)
(* Wherever the alarm stops an insertion or a removal, tree_free can go    *)
(* over what it left: it meets no node that was freed, and each node by    *)
(* one link only, so no node and no record is freed twice and the descent  *)
(* ends.  Nodes that no link leads to are lost, not freed.                 *)
(***************************************************************************)
HalfwayFreesOnce ==
  LET h     == <<halfway>>
      nodes == Below(h, halfway.root)
      Links(y) == {x \in nodes : Left(h, x) = y} \X {"left"}
                  \cup {x \in nodes : Right(h, x) = y} \X {"right"}
  IN  /\ nodes \subseteq Allocated(halfway)
      /\ \A y \in nodes : Cardinality(Links(y)) = IF y = halfway.root THEN 0 ELSE 1

(***************************************************************************)
(* A node just inserted is the root: the driver looks for a range near the *)
(* last one added first.                                                   *)
(***************************************************************************)
InsertedIsRoot ==
  [][\A key \in Keys : (key \in Nodes' \ Nodes) => tree'.root = key]_vars

(***************************************************************************)
(* Whatever its shape, the tree answers every call as the map of its       *)
(* nodes' keys to their records would.                                     *)
(***************************************************************************)
Map == INSTANCE OrderedMap WITH map <- [k \in Nodes |-> tree.node[k].record]

IsOrderedMap == Map!Spec
=============================================================================
