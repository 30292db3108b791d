-------------------------- MODULE SplayTreeProofs ---------------------------
(***************************************************************************)
(* Proofs about module SplayTree, for any set of keys and any number of    *)
(* nodes.                                                                  *)
(*                                                                         *)
(* What the fields in memory say of the nodes D is a tree (Shape) in order *)
(* (InOrder): that is stated with the set sub[z] of the nodes below each   *)
(* node z, and no path is followed.  A rotation, a new leaf, a node taken  *)
(* out and a node put in another's place are functions from such pointers  *)
(* to such pointers, and are shown to keep Shape and InOrder first.  Then  *)
(* the stores of stree.c are shown to end in these pointers (Ends), and    *)
(* each loop to end where it should: splaying because every turn takes a   *)
(* node from above x, a descent because the subtree below it shrinks.      *)
(*                                                                         *)
(* A store in the middle of a call takes a link past some nodes: those     *)
(* that are left are still reached by one link each (Once), so every tree  *)
(* of a history can be freed (AllFree).                                    *)
(*                                                                         *)
(* Holds says that a history ends in a search tree with the given nodes    *)
(* and records; the inductive invariant IsTree is that of the tree between *)
(* two calls, and StepCarries that every call does to the records what the *)
(* call of OrderedMap does.                                                *)
(***************************************************************************)
EXTENDS SplayTree, FiniteSetTheorems, SequenceTheorems, WellFoundedInduction, TLAPS

-----------------------------------------------------------------------------
(* What makes pointers a tree *)

Sub(sub, z) == IF z = NULL THEN {} ELSE sub[z]

(* D are the nodes, l, r and p their left, right and parent pointers and   *)
(* sub[z] is the set of nodes of the subtree at z.                         *)
Typed(D, root, l, r, p, sub) ==
  /\ NULL \notin D
  /\ root \in D \cup {NULL}
  /\ l \in [D -> D \cup {NULL}] /\ r \in [D -> D \cup {NULL}] /\ p \in [D -> D \cup {NULL}]
  /\ sub \in [D -> SUBSET D]

Rooted(D, root, p, sub) ==
  /\ (root = NULL) <=> (D = {})
  /\ \A z \in D : (p[z] = NULL <=> z = root) /\ (z = root => sub[z] = D)

Split(D, l, r, sub) ==
  \A z \in D : /\ sub[z] = {z} \cup Sub(sub, l[z]) \cup Sub(sub, r[z])
               /\ z \notin Sub(sub, l[z]) /\ z \notin Sub(sub, r[z])
               /\ Sub(sub, l[z]) \cap Sub(sub, r[z]) = {}

Nested(D, p, sub) ==
  \A a \in D : \A c \in sub[a] : /\ sub[c] \subseteq sub[a]
                                 /\ c # a => p[c] # NULL /\ p[c] \in sub[a]

Agreed(D, l, r, p) ==
  \A z \in D : /\ l[z] # NULL => p[l[z]] = z
               /\ r[z] # NULL => p[r[z]] = z
               /\ p[z] # NULL => z = l[p[z]] \/ z = r[p[z]]

Shape(D, root, l, r, p, sub) ==
  /\ Typed(D, root, l, r, p, sub)
  /\ Rooted(D, root, p, sub)
  /\ Split(D, l, r, sub)
  /\ Nested(D, p, sub)
  /\ Agreed(D, l, r, p)

InOrder(D, l, r, sub) ==
  \A z \in D : /\ \A k \in Sub(sub, l[z]) : k < z
               /\ \A k \in Sub(sub, r[z]) : z < k

LEMMA Mirror ==
  ASSUME NEW D, NEW root, NEW l, NEW r, NEW p, NEW sub, Shape(D, root, l, r, p, sub)
  PROVE  Shape(D, root, r, l, p, sub)
<1>1. Typed(D, root, r, l, p, sub)
  BY DEF Shape, Typed
<1>2. Split(D, r, l, sub)
  BY DEF Shape, Split
<1>3. Agreed(D, r, l, p)
  BY DEF Shape, Agreed
<1> QED
  BY <1>1, <1>2, <1>3 DEF Shape

-----------------------------------------------------------------------------
(* A rotation at x lifts x's child y, which was on the side r. *)

Lifting(D, l, x, y)   == [z \in D |-> IF z = y THEN x ELSE IF l[z] = x THEN y ELSE l[z]]
Yielding(D, l, r, x, y) == [z \in D |-> IF z = x THEN l[y] ELSE IF r[z] = x THEN y ELSE r[z]]
Parents(D, l, p, x, y) ==
  [z \in D |-> IF z = x THEN y ELSE IF z = y THEN p[x] ELSE IF z = l[y] THEN x ELSE p[z]]
NewRoot(root, x, y) == IF root = x THEN y ELSE root
Subtrees(D, l, sub, x, y) ==
  [z \in D |-> IF z = y THEN sub[x] ELSE IF z = x THEN {x} \cup Sub(sub, l[x]) \cup Sub(sub, l[y])
                                    ELSE sub[z]]

LEMMA LinkFacts ==
  ASSUME NEW D, NEW root, NEW l, NEW r, NEW p, NEW sub, Shape(D, root, l, r, p, sub),
         NEW z \in D
  PROVE  /\ z \in sub[z] /\ sub[z] \subseteq D
         /\ l[z] # NULL => l[z] \in D /\ l[z] # z /\ l[z] \in sub[z] /\ l[z] # r[z] /\ p[l[z]] = z
         /\ r[z] # NULL => r[z] \in D /\ r[z] # z /\ r[z] \in sub[z] /\ l[z] # r[z] /\ p[r[z]] = z
<1>1. z \in sub[z] /\ sub[z] \subseteq D
  BY DEF Shape, Split, Typed
<1>2. \A a \in D : a \in sub[a]
  BY DEF Shape, Split
<1>3. l[z] # NULL => l[z] \in D /\ l[z] \in Sub(sub, l[z])
  BY <1>2 DEF Shape, Typed, Sub
<1>4. r[z] # NULL => r[z] \in D /\ r[z] \in Sub(sub, r[z])
  BY <1>2 DEF Shape, Typed, Sub
<1>5. (l[z] # NULL => p[l[z]] = z) /\ (r[z] # NULL => p[r[z]] = z)
  BY DEF Shape, Agreed
<1> QED
  BY <1>1, <1>3, <1>4, <1>5 DEF Shape, Split

LEMMA SameSub ==
  ASSUME NEW s, NEW t, NEW z, z # NULL => s[z] = t[z]
  PROVE  Sub(s, z) = Sub(t, z)
BY DEF Sub

(* The subtrees that hang from the nodes after a rotation *)
LEMMA RotateSubs ==
  ASSUME NEW D, NEW root, NEW l, NEW r, NEW p, NEW sub, Shape(D, root, l, r, p, sub),
         NEW x \in D, NEW y \in D, y = r[x],
         NEW l2, l2 = Lifting(D, l, x, y), NEW r2, r2 = Yielding(D, l, r, x, y),
         NEW s2, s2 = Subtrees(D, l, sub, x, y)
  PROVE  /\ \A z \in D \ {x, y} : Sub(s2, l2[z]) = Sub(sub, l[z])
                                 /\ Sub(s2, r2[z]) = Sub(sub, r[z])
         /\ Sub(s2, l2[y]) = {x} \cup Sub(sub, l[x]) \cup Sub(sub, l[y])
         /\ Sub(s2, r2[y]) = Sub(sub, r[y])
         /\ Sub(s2, l2[x]) = Sub(sub, l[x])
         /\ Sub(s2, r2[x]) = Sub(sub, l[y])
<1> DEFINE b == l[y]
           A == Sub(sub, l[x])
           B == Sub(sub, b)
           C == Sub(sub, r[y])
<1> y # NULL /\ x # NULL
  BY DEF Shape, Typed
<1>t. /\ root \in D \cup {NULL} /\ NULL \notin D
      /\ \A z \in D : l[z] \in D \cup {NULL} /\ r[z] \in D \cup {NULL} /\ sub[z] \in SUBSET D
  BY DEF Shape, Typed
<1>1. \A z \in D : /\ l2[z] = IF z = y THEN x ELSE IF l[z] = x THEN y ELSE l[z]
                   /\ r2[z] = IF z = x THEN b ELSE IF r[z] = x THEN y ELSE r[z]
                   /\ s2[z] = IF z = y THEN sub[x] ELSE IF z = x THEN {x} \cup A \cup B ELSE sub[z]
  BY DEF Lifting, Yielding, Subtrees
<1> y # x /\ l[x] # y /\ p[y] = x
  BY LinkFacts
<1>3. /\ sub[y] = {y} \cup B \cup C /\ y \notin B /\ y \notin C /\ B \cap C = {}
      /\ sub[x] = {x} \cup A \cup sub[y] /\ x \notin A /\ x \notin sub[y] /\ A \cap sub[y] = {}
  BY DEF Shape, Split, Sub
<1>2. b # NULL => b \in D /\ b # y /\ b # x /\ p[b] = y
  <2>1. b # NULL => b \in D /\ b # y /\ p[b] = y /\ b \in sub[y]
    BY LinkFacts
  <2> QED
    BY <1>3, <2>1
<1>4. A \subseteq D /\ B \subseteq D /\ C \subseteq D
  BY <1>t DEF Sub
<1> HIDE DEF A, B, C, b
<1>7. \A z \in D : Sub(s2, z) = s2[z] /\ Sub(sub, z) = sub[z]
  BY <1>t DEF Sub
<1>8. Sub(s2, NULL) = {} /\ Sub(sub, NULL) = {}
  BY DEF Sub
<1>s1. ASSUME NEW z \in D, z # x, z # y
      PROVE  Sub(s2, l2[z]) = Sub(sub, l[z]) /\ Sub(s2, r2[z]) = Sub(sub, r[z])
  <2>1. l[z] # y /\ r[z] # y
    <3>1. (l[z] = y => p[y] = z) /\ (r[z] = y => p[y] = z)
      BY DEF Shape, Agreed
    <3> QED
      BY <1>s1, <3>1
  <2>2. Sub(s2, l2[z]) = Sub(sub, l[z])
    <3>1. CASE l[z] = x
      <4>1. l2[z] = y /\ s2[y] = sub[x]
        BY <1>1, <1>s1, <3>1
      <4> QED
        BY <3>1, <4>1 DEF Sub
    <3>2. CASE l[z] # x
      <4>1. l2[z] = l[z] /\ (l[z] # NULL => s2[l[z]] = sub[l[z]])
        BY <1>t, <1>1, <1>s1, <2>1, <3>2
      <4> QED
        BY <4>1, SameSub
    <3> QED
      BY <3>1, <3>2
  <2>3. Sub(s2, r2[z]) = Sub(sub, r[z])
    <3>1. CASE r[z] = x
      <4>1. r2[z] = y /\ s2[y] = sub[x]
        BY <1>1, <1>s1, <3>1
      <4> QED
        BY <3>1, <4>1 DEF Sub
    <3>2. CASE r[z] # x
      <4>1. r2[z] = r[z] /\ (r[z] # NULL => s2[r[z]] = sub[r[z]])
        BY <1>t, <1>1, <1>s1, <2>1, <3>2
      <4> QED
        BY <4>1, SameSub
    <3> QED
      BY <3>1, <3>2
  <2> QED
    BY <2>2, <2>3
<1>s2. Sub(s2, l2[y]) = {x} \cup A \cup B /\ s2[y] = sub[x]
  BY <1>1, <1>7
<1>s3. Sub(s2, r2[y]) = C
  <2>1. r[y] # x /\ r[y] # y
    <3>1. r[y] # NULL => r[y] \in sub[y] /\ r[y] # y
      BY LinkFacts
    <3> QED
      BY <1>3, <3>1
  <2>2. r2[y] = r[y] /\ (r[y] # NULL => s2[r[y]] = sub[r[y]])
    BY <1>t, <1>1, <2>1
  <2> QED
    BY <2>2, SameSub DEF C
<1>s4. Sub(s2, l2[x]) = A
  <2>1. l[x] # x /\ l[x] # y
    BY LinkFacts
  <2>2. l2[x] = l[x] /\ (l[x] # NULL => s2[l[x]] = sub[l[x]])
    BY <1>t, <1>1, <2>1
  <2> QED
    BY <2>2, SameSub DEF A
<1>s5. Sub(s2, r2[x]) = B /\ s2[x] = {x} \cup A \cup B
  <2>1. r2[x] = b /\ (b # NULL => s2[b] = sub[b]) /\ s2[x] = {x} \cup A \cup B
    BY <1>1, <1>2
  <2> QED
    BY <2>1, SameSub DEF B
<1> QED
  BY <1>s1, <1>s2, <1>s3, <1>s4, <1>s5 DEF A, B, C, b

LEMMA RotateShape ==
  ASSUME NEW D, NEW root, NEW l, NEW r, NEW p, NEW sub, Shape(D, root, l, r, p, sub),
         NEW x \in D, NEW y \in D, y = r[x]
  PROVE  Shape(D, NewRoot(root, x, y), Lifting(D, l, x, y), Yielding(D, l, r, x, y),
               Parents(D, l, p, x, y), Subtrees(D, l, sub, x, y))
<1> DEFINE b == l[y]
           l2 == Lifting(D, l, x, y)
           r2 == Yielding(D, l, r, x, y)
           p2 == Parents(D, l, p, x, y)
           s2 == Subtrees(D, l, sub, x, y)
           A == Sub(sub, l[x])
           B == Sub(sub, b)
           C == Sub(sub, r[y])
<1> y # NULL /\ x # NULL
  BY DEF Shape, Typed
<1>t. /\ root \in D \cup {NULL} /\ NULL \notin D
      /\ \A z \in D : l[z] \in D \cup {NULL} /\ r[z] \in D \cup {NULL} /\ p[z] \in D \cup {NULL}
                      /\ sub[z] \in SUBSET D
  BY DEF Shape, Typed
<1>1. \A z \in D : /\ l2[z] = IF z = y THEN x ELSE IF l[z] = x THEN y ELSE l[z]
                   /\ r2[z] = IF z = x THEN b ELSE IF r[z] = x THEN y ELSE r[z]
                   /\ p2[z] = IF z = x THEN y ELSE IF z = y THEN p[x] ELSE IF z = b THEN x ELSE p[z]
                   /\ s2[z] = IF z = y THEN sub[x] ELSE IF z = x THEN {x} \cup A \cup B ELSE sub[z]
  BY DEF Lifting, Yielding, Parents, Subtrees
<1> y # x /\ l[x] # y /\ p[y] = x
  BY LinkFacts
<1>3. /\ sub[y] = {y} \cup B \cup C /\ y \notin B /\ y \notin C /\ B \cap C = {}
      /\ sub[x] = {x} \cup A \cup sub[y] /\ x \notin A /\ x \notin sub[y] /\ A \cap sub[y] = {}
  BY DEF Shape, Split, Sub
<1>2. b # NULL => b \in D /\ b # y /\ b # x /\ p[b] = y
  <2>1. b # NULL => b \in D /\ b # y /\ p[b] = y /\ b \in sub[y]
    BY LinkFacts
  <2> QED
    BY <1>3, <2>1
<1>4. A \subseteq D /\ B \subseteq D /\ C \subseteq D
  BY <1>t DEF Sub
<1>5. Typed(D, NewRoot(root, x, y), l2, r2, p2, s2)
  <2>1. NewRoot(root, x, y) \in D \cup {NULL}
    BY <1>t DEF NewRoot
  <2>2. l2 \in [D -> D \cup {NULL}] /\ r2 \in [D -> D \cup {NULL}] /\ p2 \in [D -> D \cup {NULL}]
    BY <1>t DEF Lifting, Yielding, Parents
  <2>3. s2 \in [D -> SUBSET D]
    BY <1>t, <1>4 DEF Subtrees
  <2> QED
    BY <1>t, <2>1, <2>2, <2>3 DEF Typed
<1> HIDE DEF l2, r2, p2, s2, A, B, C, b
<1>6. Rooted(D, NewRoot(root, x, y), p2, s2)
  BY <1>t, <1>1, <1>2 DEF Shape, Rooted, NewRoot
<1>q. \A z \in D : (l[z] = x => z = p[x]) /\ (r[z] = x => z = p[x])
  BY DEF Shape, Agreed
<1>7. \A z \in D : Sub(s2, z) = s2[z] /\ Sub(sub, z) = sub[z]
  BY <1>t DEF Sub
<1>8. Sub(s2, NULL) = {} /\ Sub(sub, NULL) = {}
  BY DEF Sub
<1>9. Split(D, l2, r2, s2)
  <2>1. \A z \in D \ {x, y} : Sub(s2, l2[z]) = Sub(sub, l[z]) /\ Sub(s2, r2[z]) = Sub(sub, r[z])
    BY RotateSubs DEF l2, r2, s2
  <2>2. Sub(s2, l2[y]) = {x} \cup A \cup B /\ s2[y] = sub[x]
    BY <1>1, RotateSubs DEF l2, s2, A, B, b
  <2>3. Sub(s2, r2[y]) = C
    BY RotateSubs DEF r2, s2, C
  <2>4. Sub(s2, l2[x]) = A
    BY RotateSubs DEF l2, s2, A
  <2>5. Sub(s2, r2[x]) = B /\ s2[x] = {x} \cup A \cup B
    BY <1>1, RotateSubs DEF r2, s2, B, b
  <2>6. ASSUME NEW z \in D
        PROVE  /\ s2[z] = {z} \cup Sub(s2, l2[z]) \cup Sub(s2, r2[z])
               /\ z \notin Sub(s2, l2[z]) /\ z \notin Sub(s2, r2[z])
               /\ Sub(s2, l2[z]) \cap Sub(s2, r2[z]) = {}
    <3>1. CASE z = x
      BY <1>3, <2>4, <2>5, <3>1
    <3>2. CASE z = y
      BY <1>3, <2>2, <2>3, <3>2
    <3>3. CASE z # x /\ z # y
      <4>1. s2[z] = sub[z]
        BY <1>1, <3>3
      <4> QED
        BY <2>1, <3>3, <4>1 DEF Shape, Split
    <3> QED
      BY <3>1, <3>2, <3>3
  <2> QED
    BY <2>6 DEF Split
<1>n. \A a \in D : \A c \in sub[a] : sub[c] \subseteq sub[a] /\ (c # a => p[c] # NULL /\ p[c] \in sub[a])
  BY DEF Shape, Nested
<1>10. Nested(D, p2, s2)
  <2> SUFFICES ASSUME NEW a \in D, NEW c \in s2[a]
               PROVE  /\ s2[c] \subseteq s2[a]
                      /\ c # a => p2[c] # NULL /\ p2[c] \in s2[a]
    BY DEF Nested
  <2>1. c \in D
    BY <1>t, <1>1, <1>4
  <2>2. a # x /\ a # y => s2[a] = sub[a] /\ (x \in sub[a] <=> y \in sub[a])
    BY <1>1, <1>3, <1>n
  <2>3. x \in sub[a] => sub[x] \subseteq sub[a] /\ (x # a => p[x] # NULL /\ p[x] \in sub[a])
    BY <1>n
  <2>4. a = x => c \in {x} \cup A \cup B
    BY <1>1
  <2>5. a = y => c \in sub[x]
    BY <1>1
  <2>6. c \in sub[x] => sub[c] \subseteq sub[x] /\ (c # x => p[c] # NULL /\ p[c] \in sub[x])
    BY <1>n
  <2>7. c \in A => sub[c] \subseteq A /\ p[c] # NULL /\ p[c] \in {x} \cup A
    <3>1. SUFFICES ASSUME c \in A PROVE sub[c] \subseteq A /\ p[c] # NULL /\ p[c] \in {x} \cup A
      OBVIOUS
    <3>2. l[x] # NULL /\ A = sub[l[x]] /\ l[x] \in D /\ p[l[x]] = x
      BY <1>t, <3>1, LinkFacts DEF A, Sub
    <3> QED
      BY <1>n, <3>1, <3>2
  <2>8. c \in B => sub[c] \subseteq B /\ (c # b => p[c] # NULL /\ p[c] \in B)
    <3>1. SUFFICES ASSUME c \in B PROVE sub[c] \subseteq B /\ (c # b => p[c] # NULL /\ p[c] \in B)
      OBVIOUS
    <3>2. b # NULL /\ B = sub[b] /\ b \in D
      BY <1>2, <3>1 DEF B, Sub
    <3> QED
      BY <1>n, <3>1, <3>2
  <2>9. a \notin {x, y} => c \in sub[a] /\ sub[c] \subseteq sub[a]
                          /\ (c # a => p[c] # NULL /\ p[c] \in sub[a])
    BY <1>n, <2>2
  <2>10. s2[c] \subseteq s2[a]
    <3>1. CASE c = x
      BY <1>1, <1>3, <2>2, <2>3, <3>1
    <3>2. CASE c = y
      BY <1>1, <1>3, <2>2, <2>3, <2>4, <3>2
    <3>3. CASE c \notin {x, y}
      <4>1. s2[c] = sub[c]
        BY <1>1, <2>1, <3>3
      <4> QED
        BY <1>1, <2>2, <2>4, <2>5, <2>6, <2>7, <2>8, <2>9, <3>3, <4>1
    <3> QED
      BY <3>1, <3>2, <3>3
  <2>11. c # a => p2[c] # NULL /\ p2[c] \in s2[a]
    <3> SUFFICES ASSUME c # a PROVE p2[c] # NULL /\ p2[c] \in s2[a]
      OBVIOUS
    <3>1. CASE c = x
      BY <1>1, <1>3, <2>2, <2>9, <3>1
    <3>2. CASE c = y
      BY <1>1, <1>3, <2>2, <2>3, <2>4, <2>9, <3>2
    <3>3. CASE c \notin {x, y} /\ c = b
      <4>1. p2[c] = x
        BY <1>1, <2>1, <3>3
      <4>2. a \notin {x, y} => x \in sub[a]
        BY <1>t, <1>2, <2>1, <2>2, <2>9, <3>3
      <4> QED
        BY <1>1, <1>3, <2>2, <4>1, <4>2
    <3>4. CASE c \notin {x, y} /\ c # b
      <4>1. p2[c] = p[c]
        BY <1>1, <2>1, <3>4
      <4> QED
        BY <1>1, <2>2, <2>4, <2>5, <2>6, <2>7, <2>8, <2>9, <3>4, <4>1
    <3> QED
      BY <3>1, <3>2, <3>3, <3>4
  <2> QED
    BY <2>10, <2>11
<1>11. Agreed(D, l2, r2, p2)
  <2> SUFFICES ASSUME NEW z \in D
               PROVE  /\ l2[z] # NULL => p2[l2[z]] = z
                      /\ r2[z] # NULL => p2[r2[z]] = z
                      /\ p2[z] # NULL => z = l2[p2[z]] \/ z = r2[p2[z]]
    BY DEF Agreed
  <2>a. /\ l[z] # NULL => p[l[z]] = z
        /\ r[z] # NULL => p[r[z]] = z
        /\ p[z] # NULL => z = l[p[z]] \/ z = r[p[z]]
    BY DEF Shape, Agreed
  <2>1. l2[z] # NULL => p2[l2[z]] = z
    BY <1>t, <1>1, <1>2, <1>q, <2>a
  <2>2. r2[z] # NULL => p2[r2[z]] = z
    <3>1. CASE z = x
      BY <1>1, <1>2, <3>1
    <3>2. CASE z # x /\ r[z] = x
      BY <1>1, <1>q, <3>2
    <3>3. CASE z # x /\ r[z] # x
      <4>1. r2[z] = r[z]
        BY <1>1, <3>3
      <4>2. r[z] # NULL => r[z] \in D /\ r[z] # y /\ r[z] # b
        <5>1. r[z] # NULL => r[z] \in D /\ p[r[z]] = z /\ r[z] # l[z]
          BY LinkFacts
        <5> QED
          BY <1>2, <3>3, <5>1 DEF b
      <4> QED
        BY <1>1, <2>a, <3>3, <4>1, <4>2
    <3> QED
      BY <3>1, <3>2, <3>3
  <2>3. p2[z] # NULL => z = l2[p2[z]] \/ z = r2[p2[z]]
    <3>1. CASE z = x
      BY <1>1, <3>1
    <3>2. CASE z = y
      <4>1. p2[z] = p[x]
        BY <1>1, <3>2
      <4>2. p[x] # NULL => p[x] \in D /\ (x = l[p[x]] \/ x = r[p[x]])
        BY <1>t DEF Shape, Agreed
      <4>3. p[x] # NULL => p[x] # x /\ p[x] # y
        <5>1. p[x] # NULL => x \in sub[p[x]] /\ x # p[x]
          BY <4>2, LinkFacts
        <5> QED
          BY <1>3, <5>1
      <4> QED
        BY <1>1, <3>2, <4>1, <4>2, <4>3
    <3>3. CASE z \notin {x, y} /\ z = b
      BY <1>1, <3>3
    <3>4. CASE z \notin {x, y} /\ z # b
      <4>1. p2[z] = p[z]
        BY <1>1, <3>4
      <4>2. p[z] # NULL => p[z] \in D /\ (z = l[p[z]] => p[z] # y) /\ (z = r[p[z]] => p[z] # x)
        BY <1>t, <3>4 DEF b
      <4> QED
        BY <1>1, <2>a, <3>4, <4>1, <4>2
    <3> QED
      BY <3>1, <3>2, <3>3, <3>4
  <2> QED
    BY <2>1, <2>2, <2>3
<1> QED
  BY <1>5, <1>6, <1>9, <1>10, <1>11 DEF Shape, l2, r2, p2, s2

(* The nodes from the root to x *)
Above(D, sub, x) == {a \in D : x \in sub[a]}

(* A rotation that lifts y over x takes x from above y, and from above     *)
(* what is below y on the other side.                                      *)
LEMMA RotateAbove ==
  ASSUME NEW D, NEW root, NEW l, NEW r, NEW p, NEW sub, Shape(D, root, l, r, p, sub),
         NEW x \in D, NEW y \in D, y = r[x],
         NEW w, w = y \/ w \in Sub(sub, r[y])
  PROVE  /\ Above(D, Subtrees(D, l, sub, x, y), w) \subseteq Above(D, sub, w) \ {x}
         /\ x \in Above(D, sub, w)
<1>1. /\ sub[y] = {y} \cup Sub(sub, l[y]) \cup Sub(sub, r[y])
      /\ y \notin Sub(sub, l[y]) /\ y \notin Sub(sub, r[y])
      /\ Sub(sub, l[y]) \cap Sub(sub, r[y]) = {}
  BY DEF Shape, Split
<1>2. /\ sub[x] = {x} \cup Sub(sub, l[x]) \cup Sub(sub, r[x])
      /\ x \notin Sub(sub, l[x]) /\ x \notin Sub(sub, r[x])
      /\ Sub(sub, l[x]) \cap Sub(sub, r[x]) = {}
  BY DEF Shape, Split
<1>3. y # NULL
  BY DEF Shape, Typed
<1>4. w \in sub[x] /\ w \in sub[y] /\ w # x /\ w \notin Sub(sub, l[x]) /\ w \notin Sub(sub, l[y])
  BY <1>1, <1>2, <1>3 DEF Sub
<1>5. \A z \in D : Subtrees(D, l, sub, x, y)[z] =
        IF z = y THEN sub[x] ELSE IF z = x THEN {x} \cup Sub(sub, l[x]) \cup Sub(sub, l[y])
                                          ELSE sub[z]
  BY DEF Subtrees
<1>6. x # y
  BY <1>2, <1>3, <1>1 DEF Sub
<1> QED
  BY <1>4, <1>5, <1>6 DEF Above

LEMMA RotateInOrder ==
  ASSUME NEW D \in SUBSET Int, NEW root, NEW l, NEW r, NEW p, NEW sub, Shape(D, root, l, r, p, sub),
         NEW x \in D, NEW y \in D, y = r[x],
         NEW l2, l2 = Lifting(D, l, x, y), NEW r2, r2 = Yielding(D, l, r, x, y),
         NEW s2, s2 = Subtrees(D, l, sub, x, y)
  PROVE  /\ InOrder(D, l, r, sub) => InOrder(D, l2, r2, s2)
         /\ InOrder(D, r, l, sub) => InOrder(D, r2, l2, s2)
<1> DEFINE A == Sub(sub, l[x])
           B == Sub(sub, l[y])
           C == Sub(sub, r[y])
<1>1. /\ \A z \in D \ {x, y} : Sub(s2, l2[z]) = Sub(sub, l[z]) /\ Sub(s2, r2[z]) = Sub(sub, r[z])
      /\ Sub(s2, l2[y]) = {x} \cup A \cup B /\ Sub(s2, r2[y]) = C
      /\ Sub(s2, l2[x]) = A /\ Sub(s2, r2[x]) = B
  BY RotateSubs
<1>2. y # NULL
  BY DEF Shape, Typed
<1>3. Sub(sub, r[x]) = {y} \cup B \cup C
  BY <1>2 DEF Shape, Split, Sub
<1>4. A \subseteq Int /\ B \subseteq Int /\ C \subseteq Int
  BY DEF Shape, Typed, Sub
<1> HIDE DEF A, B, C
<1>5. ASSUME InOrder(D, l, r, sub)
      PROVE  InOrder(D, l2, r2, s2)
  <2>1. /\ \A k \in A : k < x
        /\ \A k \in {y} \cup B \cup C : x < k
        /\ \A k \in B : k < y
        /\ \A k \in C : y < k
    BY <1>3, <1>5 DEF InOrder, A, B, C
  <2>2. ASSUME NEW z \in D
        PROVE  (\A k \in Sub(s2, l2[z]) : k < z) /\ (\A k \in Sub(s2, r2[z]) : z < k)
    <3>1. CASE z = y
      <4>1. \A k \in A : k < y
        BY <1>4, <2>1
      <4> QED
        BY <1>1, <2>1, <3>1, <4>1
    <3>2. CASE z = x
      BY <1>1, <2>1, <3>2
    <3>3. CASE z \notin {x, y}
      BY <1>1, <1>5, <3>3 DEF InOrder
    <3> QED
      BY <3>1, <3>2, <3>3
  <2> QED
    BY <2>2 DEF InOrder
<1>6. ASSUME InOrder(D, r, l, sub)
      PROVE  InOrder(D, r2, l2, s2)
  <2>1. /\ \A k \in A : x < k
        /\ \A k \in {y} \cup B \cup C : k < x
        /\ \A k \in B : y < k
        /\ \A k \in C : k < y
    BY <1>3, <1>6 DEF InOrder, A, B, C
  <2>2. ASSUME NEW z \in D
        PROVE  (\A k \in Sub(s2, r2[z]) : k < z) /\ (\A k \in Sub(s2, l2[z]) : z < k)
    <3>1. CASE z = y
      <4>1. \A k \in A : y < k
        BY <1>4, <2>1
      <4> QED
        BY <1>1, <2>1, <3>1, <4>1
    <3>2. CASE z = x
      BY <1>1, <2>1, <3>2
    <3>3. CASE z \notin {x, y}
      BY <1>1, <1>6, <3>3 DEF InOrder
    <3> QED
      BY <3>1, <3>2, <3>3
  <2> QED
    BY <2>2 DEF InOrder
<1> QED
  BY <1>5, <1>6

-----------------------------------------------------------------------------
(* A new node, key, becomes the child of q on the side l. *)

Grafted(D, l, q, key)    == [z \in D \cup {key} |-> IF z = key THEN NULL ELSE IF z = q THEN key ELSE l[z]]
Extended(D, r, key, v)   == [z \in D \cup {key} |-> IF z = key THEN v ELSE r[z]]
GraftedSubs(D, sub, q, key) ==
  [z \in D \cup {key} |-> IF z = key THEN {key} ELSE IF q \in sub[z] THEN sub[z] \cup {key} ELSE sub[z]]

(* With q, key is in a set of nodes. *)
Joined(s, q, key) == IF q \in s THEN s \cup {key} ELSE s

GraftedParts(D, l, r, sub, q, key, l2, r2, s2) ==
  /\ Sub(s2, l2[key]) = {} /\ Sub(s2, r2[key]) = {} /\ s2[key] = {key}
  /\ Sub(s2, l2[q]) = {key} /\ Sub(s2, r2[q]) = Sub(sub, r[q])
  /\ \A z \in D : s2[z] = Joined(sub[z], q, key)
  /\ \A z \in D \ {q} : Sub(s2, l2[z]) = Joined(Sub(sub, l[z]), q, key)
                        /\ Sub(s2, r2[z]) = Joined(Sub(sub, r[z]), q, key)

LEMMA GraftSubs ==
  ASSUME NEW D, NEW root, NEW l, NEW r, NEW p, NEW sub, Shape(D, root, l, r, p, sub),
         NEW q \in D, l[q] = NULL, NEW key, key \notin D, key # NULL,
         NEW l2, l2 = Grafted(D, l, q, key), NEW r2, r2 = Extended(D, r, key, NULL),
         NEW s2, s2 = GraftedSubs(D, sub, q, key)
  PROVE  GraftedParts(D, l, r, sub, q, key, l2, r2, s2)
<1>t. /\ NULL \notin D
      /\ \A z \in D : l[z] \in D \cup {NULL} /\ r[z] \in D \cup {NULL} /\ sub[z] \in SUBSET D
  BY DEF Shape, Typed
<1>1. /\ l2[key] = NULL /\ r2[key] = NULL /\ s2[key] = {key}
      /\ \A z \in D : /\ l2[z] = IF z = q THEN key ELSE l[z]
                      /\ r2[z] = r[z]
                      /\ s2[z] = IF q \in sub[z] THEN sub[z] \cup {key} ELSE sub[z]
  BY DEF Grafted, Extended, GraftedSubs
<1>2. Sub(s2, NULL) = {} /\ Sub(s2, key) = {key}
  BY <1>1 DEF Sub
<1>3. ASSUME NEW z \in D \cup {NULL}
      PROVE  Sub(s2, z) = Joined(Sub(sub, z), q, key)
  BY <1>t, <1>1 DEF Sub, Joined
<1>4. q \notin Sub(sub, r[q])
  BY DEF Shape, Split
<1>5. Sub(s2, l2[q]) = {key} /\ Sub(s2, r2[q]) = Sub(sub, r[q])
  <2>1. l2[q] = key /\ r2[q] = r[q] /\ r[q] \in D \cup {NULL}
    BY <1>t, <1>1
  <2> QED
    BY <1>2, <1>3, <1>4, <2>1 DEF Joined
<1>6. ASSUME NEW z \in D \ {q}
      PROVE  /\ Sub(s2, l2[z]) = Joined(Sub(sub, l[z]), q, key)
             /\ Sub(s2, r2[z]) = Joined(Sub(sub, r[z]), q, key)
  <2>1. l2[z] = l[z] /\ r2[z] = r[z] /\ l[z] \in D \cup {NULL} /\ r[z] \in D \cup {NULL}
    BY <1>t, <1>1
  <2> QED
    BY <1>3, <2>1
<1>7. \A z \in D : s2[z] = Joined(sub[z], q, key)
  BY <1>1 DEF Joined
<1> QED
  BY <1>1, <1>2, <1>5, <1>6, <1>7 DEF GraftedParts

LEMMA GraftShape ==
  ASSUME NEW D, NEW root, NEW l, NEW r, NEW p, NEW sub, Shape(D, root, l, r, p, sub),
         NEW q \in D, l[q] = NULL, NEW key, key \notin D, key # NULL
  PROVE  Shape(D \cup {key}, root, Grafted(D, l, q, key), Extended(D, r, key, NULL),
               Extended(D, p, key, q), GraftedSubs(D, sub, q, key))
<1> DEFINE l2 == Grafted(D, l, q, key)
           r2 == Extended(D, r, key, NULL)
           p2 == Extended(D, p, key, q)
           s2 == GraftedSubs(D, sub, q, key)
           E == D \cup {key}
<1>t. /\ NULL \notin D /\ root \in D \cup {NULL}
      /\ \A z \in D : l[z] \in D \cup {NULL} /\ r[z] \in D \cup {NULL} /\ p[z] \in D \cup {NULL}
                      /\ sub[z] \in SUBSET D
  BY DEF Shape, Typed
<1>1. /\ l2[key] = NULL /\ r2[key] = NULL /\ s2[key] = {key} /\ p2[key] = q
      /\ \A z \in D : /\ l2[z] = IF z = q THEN key ELSE l[z]
                      /\ r2[z] = r[z] /\ p2[z] = p[z]
  BY DEF Grafted, Extended, GraftedSubs
<1>2. Typed(E, root, l2, r2, p2, s2)
  <2>1. l2 \in [E -> E \cup {NULL}] /\ r2 \in [E -> E \cup {NULL}] /\ p2 \in [E -> E \cup {NULL}]
    BY <1>t DEF Grafted, Extended
  <2>2. s2 \in [E -> SUBSET E]
    BY <1>t DEF GraftedSubs
  <2> QED
    BY <1>t, <2>1, <2>2 DEF Typed
<1>J. GraftedParts(D, l, r, sub, q, key, l2, r2, s2)
  BY GraftSubs
<1>3. /\ Sub(s2, l2[key]) = {} /\ Sub(s2, r2[key]) = {}
      /\ Sub(s2, l2[q]) = {key} /\ Sub(s2, r2[q]) = Sub(sub, r[q])
      /\ \A z \in D : s2[z] = sub[z] \cup (IF q \in sub[z] THEN {key} ELSE {})
      /\ \A z \in D \ {q} :
              /\ Sub(s2, l2[z]) = Sub(sub, l[z]) \cup (IF q \in Sub(sub, l[z]) THEN {key} ELSE {})
              /\ Sub(s2, r2[z]) = Sub(sub, r[z]) \cup (IF q \in Sub(sub, r[z]) THEN {key} ELSE {})
  BY <1>J DEF Joined, GraftedParts
<1> HIDE DEF l2, r2, p2, s2
<1>4. Rooted(E, root, p2, s2)
  <2>1. q \in sub[q] /\ root # NULL /\ root \in D /\ sub[root] = D
    BY <1>t DEF Shape, Split, Rooted
  <2>2. s2[root] = E
    BY <1>3, <2>1
  <2>3. ASSUME NEW z \in E
        PROVE  p2[z] = NULL <=> z = root
    BY <1>t, <1>1, <2>1 DEF Shape, Rooted
  <2> QED
    BY <2>1, <2>2, <2>3 DEF Rooted
<1>s. \A z \in D : /\ sub[z] = {z} \cup Sub(sub, l[z]) \cup Sub(sub, r[z])
                   /\ z \notin Sub(sub, l[z]) /\ z \notin Sub(sub, r[z])
                   /\ Sub(sub, l[z]) \cap Sub(sub, r[z]) = {}
  BY DEF Shape, Split
<1>5. Split(E, l2, r2, s2)
  <2> SUFFICES ASSUME NEW z \in E
               PROVE  /\ s2[z] = {z} \cup Sub(s2, l2[z]) \cup Sub(s2, r2[z])
                      /\ z \notin Sub(s2, l2[z]) /\ z \notin Sub(s2, r2[z])
                      /\ Sub(s2, l2[z]) \cap Sub(s2, r2[z]) = {}
    BY DEF Split
  <2>1. CASE z = key
    BY <1>1, <1>3, <2>1
  <2>2. CASE z = q
    <3>1. Sub(sub, l[q]) = {}
      BY DEF Sub
    <3>2. sub[q] = {q} \cup Sub(sub, r[q]) /\ q \notin Sub(sub, r[q]) /\ sub[q] \subseteq D
      BY <1>t, <1>s, <3>1
    <3> QED
      BY <1>3, <2>2, <3>2
  <2>3. CASE z \in D \ {q}
    <3>1. Sub(sub, l[z]) \subseteq D /\ Sub(sub, r[z]) \subseteq D
      BY <1>t, <1>s, <2>3
    <3>2. /\ sub[z] = {z} \cup Sub(sub, l[z]) \cup Sub(sub, r[z])
          /\ z \notin Sub(sub, l[z]) /\ z \notin Sub(sub, r[z])
          /\ Sub(sub, l[z]) \cap Sub(sub, r[z]) = {}
      BY <1>s, <2>3
    <3> QED
      BY <1>3, <2>3, <3>1, <3>2
  <2> QED
    BY <2>1, <2>2, <2>3
<1>n. \A a \in D : \A c \in sub[a] : sub[c] \subseteq sub[a] /\ (c # a => p[c] # NULL /\ p[c] \in sub[a])
  BY DEF Shape, Nested
<1>6. Nested(E, p2, s2)
  <2> SUFFICES ASSUME NEW a \in E, NEW c \in s2[a]
               PROVE  s2[c] \subseteq s2[a] /\ (c # a => p2[c] # NULL /\ p2[c] \in s2[a])
    BY DEF Nested
  <2>1. CASE a = key
    BY <1>1, <2>1
  <2>2. CASE a \in D /\ c = key
    BY <1>t, <1>1, <1>3, <2>2
  <2>3. CASE a \in D /\ c # key
    <3>1. c \in sub[a] /\ c \in D
      BY <1>t, <1>3, <2>3
    <3> QED
      BY <1>1, <1>3, <1>n, <2>3, <3>1
  <2> QED
    BY <2>1, <2>2, <2>3
<1>7. Agreed(E, l2, r2, p2)
  <2> SUFFICES ASSUME NEW z \in E
               PROVE  /\ l2[z] # NULL => p2[l2[z]] = z
                      /\ r2[z] # NULL => p2[r2[z]] = z
                      /\ p2[z] # NULL => z = l2[p2[z]] \/ z = r2[p2[z]]
    BY DEF Agreed
  <2>1. CASE z = key
    BY <1>t, <1>1, <2>1
  <2>2. CASE z \in D
    <3>1. /\ l[z] # NULL => p[l[z]] = z
          /\ r[z] # NULL => p[r[z]] = z
          /\ p[z] # NULL => z = l[p[z]] \/ z = r[p[z]]
      BY <2>2 DEF Shape, Agreed
    <3> QED
      BY <1>t, <1>1, <2>2, <3>1
  <2> QED
    BY <2>1, <2>2
<1> QED
  BY <1>2, <1>4, <1>5, <1>6, <1>7 DEF Shape, l2, r2, p2, s2

LEMMA GraftInOrder ==
  ASSUME NEW D \in SUBSET Int, NEW root, NEW l, NEW r, NEW p, NEW sub, Shape(D, root, l, r, p, sub),
         NEW q \in D, l[q] = NULL, NEW key \in Int, key \notin D, key # NULL,
         \A a \in D \ {q} : q \in sub[a] => (key < a <=> q < a),
         NEW l2, l2 = Grafted(D, l, q, key), NEW r2, r2 = Extended(D, r, key, NULL),
         NEW s2, s2 = GraftedSubs(D, sub, q, key)
  PROVE  /\ key < q /\ InOrder(D, l, r, sub) => InOrder(D \cup {key}, l2, r2, s2)
         /\ q < key /\ InOrder(D, r, l, sub) => InOrder(D \cup {key}, r2, l2, s2)
<1>J. GraftedParts(D, l, r, sub, q, key, l2, r2, s2)
  BY GraftSubs
<1>1. /\ Sub(s2, l2[key]) = {} /\ Sub(s2, r2[key]) = {}
      /\ Sub(s2, l2[q]) = {key} /\ Sub(s2, r2[q]) = Sub(sub, r[q])
      /\ \A z \in D \ {q} :
              /\ Sub(s2, l2[z]) = Sub(sub, l[z]) \cup (IF q \in Sub(sub, l[z]) THEN {key} ELSE {})
              /\ Sub(s2, r2[z]) = Sub(sub, r[z]) \cup (IF q \in Sub(sub, r[z]) THEN {key} ELSE {})
  BY <1>J DEF Joined, GraftedParts
<1>2. \A z \in D : (q \in Sub(sub, l[z]) => q \in sub[z]) /\ (q \in Sub(sub, r[z]) => q \in sub[z])
  BY DEF Shape, Split
<1>3. ASSUME key < q, InOrder(D, l, r, sub)
      PROVE  InOrder(D \cup {key}, l2, r2, s2)
  <2> SUFFICES ASSUME NEW z \in D \cup {key}
               PROVE  (\A k \in Sub(s2, l2[z]) : k < z) /\ (\A k \in Sub(s2, r2[z]) : z < k)
    BY DEF InOrder
  <2>1. CASE z = key
    BY <1>1, <2>1
  <2>2. CASE z = q
    BY <1>1, <1>3, <2>2 DEF InOrder
  <2>3. CASE z \in D \ {q}
    <3>1. (\A k \in Sub(sub, l[z]) : k < z) /\ (\A k \in Sub(sub, r[z]) : z < k)
      BY <1>3, <2>3 DEF InOrder
    <3>2. (q \in Sub(sub, l[z]) => key < z) /\ (q \in Sub(sub, r[z]) => z < key)
      BY <1>2, <2>3, <3>1
    <3> QED
      BY <1>1, <2>3, <3>1, <3>2
  <2> QED
    BY <2>1, <2>2, <2>3
<1>4. ASSUME q < key, InOrder(D, r, l, sub)
      PROVE  InOrder(D \cup {key}, r2, l2, s2)
  <2> SUFFICES ASSUME NEW z \in D \cup {key}
               PROVE  (\A k \in Sub(s2, r2[z]) : k < z) /\ (\A k \in Sub(s2, l2[z]) : z < k)
    BY DEF InOrder
  <2>1. CASE z = key
    BY <1>1, <2>1
  <2>2. CASE z = q
    BY <1>1, <1>4, <2>2 DEF InOrder
  <2>3. CASE z \in D \ {q}
    <3>1. (\A k \in Sub(sub, r[z]) : k < z) /\ (\A k \in Sub(sub, l[z]) : z < k)
      BY <1>4, <2>3 DEF InOrder
    <3>2. (q \in Sub(sub, r[z]) => key < z) /\ (q \in Sub(sub, l[z]) => z < key)
      BY <1>2, <2>3, <3>1
    <3> QED
      BY <1>1, <2>3, <3>1, <3>2
  <2> QED
    BY <2>1, <2>2, <2>3
<1> QED
  BY <1>3, <1>4

-----------------------------------------------------------------------------
(* The root z, which has no child on the side l, goes; its other child     *)
(* becomes the root.                                                       *)

Fewer(f, E) == [w \in E |-> f[w]]
Promoted(p, E, v) == [w \in E |-> IF w = v THEN NULL ELSE p[w]]

LEMMA DropShape ==
  ASSUME NEW D, NEW l, NEW r, NEW p, NEW sub, NEW z \in D, Shape(D, z, l, r, p, sub), l[z] = NULL,
         NEW E, E = D \ {z}
  PROVE  Shape(E, r[z], Fewer(l, E), Fewer(r, E), Promoted(p, E, r[z]), Fewer(sub, E))
<1> DEFINE l2 == Fewer(l, E)
           r2 == Fewer(r, E)
           p2 == Promoted(p, E, r[z])
           s2 == Fewer(sub, E)
<1>t. /\ NULL \notin D
      /\ \A w \in D : l[w] \in D \cup {NULL} /\ r[w] \in D \cup {NULL} /\ p[w] \in D \cup {NULL}
                      /\ sub[w] \in SUBSET D
  BY DEF Shape, Typed
<1>1. \A w \in E : /\ l2[w] = l[w] /\ r2[w] = r[w] /\ s2[w] = sub[w]
                   /\ p2[w] = IF w = r[z] THEN NULL ELSE p[w]
  BY DEF Fewer, Promoted
<1>2. p[z] = NULL /\ sub[z] = D
  BY DEF Shape, Rooted
<1>3. Sub(sub, r[z]) = E
  BY <1>2 DEF Shape, Split, Sub
<1>4. ASSUME NEW w \in E
      PROVE  z \notin sub[w] /\ sub[w] \subseteq E /\ l[w] \in E \cup {NULL} /\ r[w] \in E \cup {NULL}
  <2>1. r[z] # NULL /\ r[z] \in D /\ w \in sub[r[z]] /\ sub[r[z]] = E
    BY <1>t, <1>3 DEF Sub
  <2>2. sub[w] \subseteq E
    BY <2>1 DEF Shape, Nested
  <2>3. l[w] # z /\ r[w] # z
    BY <1>t, <1>2 DEF Shape, Agreed
  <2> QED
    BY <1>t, <2>2, <2>3
<1>5. r[z] \in E \cup {NULL} /\ (r[z] = NULL <=> E = {}) /\ (r[z] # NULL => sub[r[z]] = E /\ p[r[z]] = z)
  <2>1. r[z] # NULL => r[z] # z /\ p[r[z]] = z
    BY LinkFacts
  <2>2. r[z] # NULL => r[z] \in sub[r[z]] /\ sub[r[z]] = E
    BY <1>t, <1>3, LinkFacts DEF Sub
  <2> QED
    BY <1>t, <1>3, <2>1, <2>2 DEF Sub
<1>6. Typed(E, r[z], l2, r2, p2, s2)
  <2>1. l2 \in [E -> E \cup {NULL}] /\ r2 \in [E -> E \cup {NULL}] /\ s2 \in [E -> SUBSET E]
    BY <1>4 DEF Fewer
  <2>2. ASSUME NEW w \in E, w # r[z]
        PROVE  p[w] # z
    <3>1. w \in D /\ z # NULL /\ w # NULL
      BY <1>t
    <3>2. p[w] # NULL => w = l[p[w]] \/ w = r[p[w]]
      BY <3>1 DEF Shape, Agreed
    <3> QED
      BY <2>2, <3>1, <3>2
  <2>3. p2 \in [E -> E \cup {NULL}]
    BY <1>t, <2>2 DEF Promoted
  <2> QED
    BY <1>t, <1>5, <2>1, <2>3 DEF Typed
<1> HIDE DEF l2, r2, p2, s2
<1>7. Rooted(E, r[z], p2, s2)
  BY <1>t, <1>1, <1>5 DEF Rooted, Shape
<1>8. \A w \in E : Sub(s2, l2[w]) = Sub(sub, l[w]) /\ Sub(s2, r2[w]) = Sub(sub, r[w])
  BY <1>1, <1>4 DEF Sub
<1>9. Split(E, l2, r2, s2)
  BY <1>1, <1>8 DEF Shape, Split
<1>10. Nested(E, p2, s2)
  <2> SUFFICES ASSUME NEW a \in E, NEW c \in s2[a]
               PROVE  s2[c] \subseteq s2[a] /\ (c # a => p2[c] # NULL /\ p2[c] \in s2[a])
    BY DEF Nested
  <2>1. c \in E /\ s2[a] = sub[a] /\ s2[c] = sub[c]
    BY <1>1, <1>4
  <2>2. sub[c] \subseteq sub[a] /\ (c # a => p[c] # NULL /\ p[c] \in sub[a])
    BY <2>1 DEF Shape, Nested
  <2>3. c # a => c # r[z]
    BY <1>4, <1>5, <2>1, <2>2
  <2> QED
    BY <1>1, <2>1, <2>2, <2>3
<1>11. Agreed(E, l2, r2, p2)
  <2> SUFFICES ASSUME NEW w \in E
               PROVE  /\ l2[w] # NULL => p2[l2[w]] = w
                      /\ r2[w] # NULL => p2[r2[w]] = w
                      /\ p2[w] # NULL => w = l2[p2[w]] \/ w = r2[p2[w]]
    BY DEF Agreed
  <2>1. /\ l[w] # NULL => p[l[w]] = w
        /\ r[w] # NULL => p[r[w]] = w
        /\ p[w] # NULL => w = l[p[w]] \/ w = r[p[w]]
    BY DEF Shape, Agreed
  <2>2. p2[w] # NULL => p2[w] = p[w] /\ p[w] \in E
    BY <1>1, <1>6 DEF Typed
  <2> QED
    BY <1>1, <1>4, <1>5, <2>1, <2>2
<1> QED
  BY <1>6, <1>7, <1>9, <1>10, <1>11 DEF Shape, l2, r2, p2, s2

LEMMA FewerInOrder ==
  ASSUME NEW D, NEW l, NEW r, NEW p, NEW sub, NEW z \in D, Shape(D, z, l, r, p, sub),
         InOrder(D, l, r, sub), NEW E, E = D \ {z}
  PROVE  InOrder(E, Fewer(l, E), Fewer(r, E), Fewer(sub, E))
<1> DEFINE l2 == Fewer(l, E)
           r2 == Fewer(r, E)
           s2 == Fewer(sub, E)
<1>t. /\ NULL \notin D
      /\ \A w \in D : l[w] \in D \cup {NULL} /\ r[w] \in D \cup {NULL} /\ p[z] = NULL
  BY DEF Shape, Typed, Rooted
<1>1. \A w \in E : l2[w] = l[w] /\ r2[w] = r[w] /\ s2[w] = sub[w]
  BY DEF Fewer
<1>2. ASSUME NEW w \in E
      PROVE  l[w] \in E \cup {NULL} /\ r[w] \in E \cup {NULL}
  BY <1>t DEF Shape, Agreed
<1> HIDE DEF l2, r2, s2
<1>3. \A w \in E : Sub(s2, l2[w]) = Sub(sub, l[w]) /\ Sub(s2, r2[w]) = Sub(sub, r[w])
  BY <1>1, <1>2 DEF Sub
<1>4. InOrder(E, l2, r2, s2)
  BY <1>3 DEF InOrder
<1> QED
  BY <1>4 DEF l2, r2, s2

-----------------------------------------------------------------------------
(* The root z, which has two children, goes, and y, the first node on the  *)
(* side r, takes its place.                                                *)

(* What hangs where y hung, is z's or goes up with y *)
Instead(l, E, y, up, v) == [w \in E |-> IF w = y THEN up ELSE IF l[w] = y THEN v ELSE l[w]]

PlaceL(l, r, E, z, y) == Instead(l, E, y, l[z], r[y])
PlaceR(r, E, z, y) == Instead(r, E, y, IF r[z] = y THEN r[y] ELSE r[z], r[y])
PlaceP(l, r, p, E, z, y) ==
  [w \in E |-> IF w = y THEN NULL
               ELSE IF w = l[z] THEN y
               ELSE IF w = r[y] THEN (IF p[y] = z THEN y ELSE p[y])
               ELSE IF w = r[z] THEN y ELSE p[w]]
PlaceSubs(sub, E, y) == [w \in E |-> IF w = y THEN E ELSE sub[w] \ {y}]

(* The subtrees that hang from the nodes then *)
PlacedParts(E, l, r, sub, z, y, l2, r2, s2) ==
  /\ \A w \in E \ {y} : Sub(s2, l2[w]) = Sub(sub, l[w]) \ {y}
                        /\ Sub(s2, r2[w]) = Sub(sub, r[w]) \ {y}
  /\ Sub(s2, l2[y]) = Sub(sub, l[z])
  /\ Sub(s2, r2[y]) = Sub(sub, r[z]) \ {y}

LEMMA PlaceShape ==
  ASSUME NEW D, NEW l, NEW r, NEW p, NEW sub, NEW z \in D, Shape(D, z, l, r, p, sub),
         l[z] # NULL, r[z] # NULL, NEW y \in Sub(sub, r[z]), l[y] = NULL,
         NEW E, E = D \ {z}
  PROVE  /\ Shape(E, y, PlaceL(l, r, E, z, y), PlaceR(r, E, z, y), PlaceP(l, r, p, E, z, y),
                  PlaceSubs(sub, E, y))
         /\ PlacedParts(E, l, r, sub, z, y, PlaceL(l, r, E, z, y), PlaceR(r, E, z, y),
                        PlaceSubs(sub, E, y))
<1> DEFINE l2 == PlaceL(l, r, E, z, y)
           r2 == PlaceR(r, E, z, y)
           p2 == PlaceP(l, r, p, E, z, y)
           s2 == PlaceSubs(sub, E, y)
<1>t. /\ NULL \notin D
      /\ \A w \in D : l[w] \in D \cup {NULL} /\ r[w] \in D \cup {NULL} /\ p[w] \in D \cup {NULL}
                      /\ sub[w] \in SUBSET D
  BY DEF Shape, Typed
<1>2. p[z] = NULL /\ sub[z] = D /\ l[z] \in D /\ r[z] \in D /\ y \in D /\ y \in sub[r[z]]
  BY <1>t DEF Shape, Rooted, Sub
<1>s. \A w \in D : /\ sub[w] = {w} \cup Sub(sub, l[w]) \cup Sub(sub, r[w])
                   /\ w \notin Sub(sub, l[w]) /\ w \notin Sub(sub, r[w])
                   /\ Sub(sub, l[w]) \cap Sub(sub, r[w]) = {}
  BY DEF Shape, Split
<1>n. \A a \in D : \A c \in sub[a] : sub[c] \subseteq sub[a] /\ (c # a => p[c] # NULL /\ p[c] \in sub[a])
  BY DEF Shape, Nested
<1>a. \A w \in D : /\ l[w] # NULL => p[l[w]] = w
                   /\ r[w] # NULL => p[r[w]] = w
                   /\ p[w] # NULL => w = l[p[w]] \/ w = r[p[w]]
  BY DEF Shape, Agreed
<1>3. /\ D = {z} \cup sub[l[z]] \cup sub[r[z]] /\ z \notin sub[l[z]] /\ z \notin sub[r[z]]
      /\ sub[l[z]] \cap sub[r[z]] = {} /\ y # z /\ y \in E /\ y \notin sub[l[z]]
  BY <1>2, <1>s DEF Sub
<1>4. ASSUME NEW w \in E
      PROVE  z \notin sub[w] /\ sub[w] \subseteq E /\ l[w] \in E \cup {NULL} /\ r[w] \in E \cup {NULL}
             /\ w \in sub[w]
  <2>1. w \in sub[l[z]] \/ w \in sub[r[z]]
    BY <1>3
  <2>2. sub[w] \subseteq E
    BY <1>2, <1>3, <1>n, <1>t, <2>1
  <2>3. l[w] # z /\ r[w] # z
    BY <1>2, <1>a, <1>t
  <2> QED
    BY <1>t, <1>s, <2>2, <2>3
<1>1. \A w \in E : /\ l2[w] = IF w = y THEN l[z] ELSE IF l[w] = y THEN r[y] ELSE l[w]
                   /\ r2[w] = IF w = y THEN (IF r[z] = y THEN r[y] ELSE r[z])
                              ELSE IF r[w] = y THEN r[y] ELSE r[w]
                   /\ p2[w] = IF w = y THEN NULL
                              ELSE IF w = l[z] THEN y
                              ELSE IF w = r[y] THEN (IF p[y] = z THEN y ELSE p[y])
                              ELSE IF w = r[z] THEN y ELSE p[w]
                   /\ s2[w] = IF w = y THEN E ELSE sub[w] \ {y}
  BY DEF PlaceL, PlaceR, PlaceP, PlaceSubs, Instead
<1>l. \A w \in E : w # y => l2[w] = IF l[w] = y THEN r[y] ELSE l[w]
  BY <1>1
<1>r. \A w \in E : w # y => r2[w] = IF r[w] = y THEN r[y] ELSE r[w]
  BY <1>1
<1>p. \A w \in E : /\ w = l[z] /\ w # y => p2[w] = y
                   /\ w = r[z] /\ w \notin {y, l[z], r[y]} => p2[w] = y
                   /\ w \notin {y, l[z], r[z], r[y]} => p2[w] = p[w]
                   /\ w = r[y] /\ w \notin {y, l[z]} => p2[w] = IF p[y] = z THEN y ELSE p[y]
  BY <1>1
<1>5. l[z] \in E /\ r[z] \in E /\ l[z] # y /\ p[l[z]] = z /\ p[r[z]] = z
      /\ r[y] \in E \cup {NULL} /\ r[y] # y /\ (r[y] # NULL => p[r[y]] = y /\ r[y] # l[z] /\ r[y] # r[z])
  <2>1. l[z] # z /\ r[z] # z
    BY LinkFacts
  <2>2. y \notin sub[l[z]] /\ l[z] \in sub[l[z]]
    BY <1>2, <1>3, <1>s
  <2>3. r[y] # NULL => r[y] # y /\ p[r[y]] = y
    BY <1>2, LinkFacts
  <2>4. l[z] \in E /\ r[z] \in E /\ l[z] # y
    BY <1>2, <2>1, <2>2
  <2>5. p[l[z]] = z /\ p[r[z]] = z
    BY <1>a
  <2>6. r[y] \in E \cup {NULL}
    BY <1>3, <1>4
  <2>7. r[y] # NULL => r[y] # l[z] /\ r[y] # r[z]
    BY <1>3, <2>3, <2>5
  <2> QED
    BY <1>2, <1>t, <2>3, <2>4, <2>5, <2>6, <2>7
<1>6. p[y] # NULL /\ p[y] \in D /\ p[y] # y /\ (p[y] = z <=> y = r[z])
  <2>1. p[y] # NULL /\ p[y] \in D
    BY <1>2, <1>3, <1>n, <1>t
  <2>2. p[y] # y
    BY <1>2, <1>a, <2>1, LinkFacts
  <2> QED
    BY <1>2, <1>5, <1>a, <2>1, <2>2
<1>7. Typed(E, y, l2, r2, p2, s2)
  <2>1. l2 \in [E -> E \cup {NULL}] /\ r2 \in [E -> E \cup {NULL}]
    BY <1>4, <1>5 DEF PlaceL, PlaceR, Instead
  <2>2. s2 \in [E -> SUBSET E]
    BY <1>4 DEF PlaceSubs
  <2>3. ASSUME NEW w \in E, w # l[z], w # r[z]
        PROVE  p[w] # z
    <3>1. w \in D /\ z # NULL
      BY <1>t
    <3>2. p[w] # NULL => w = l[p[w]] \/ w = r[p[w]]
      BY <1>a, <3>1
    <3> QED
      BY <2>3, <3>1, <3>2
  <2>4. p2 \in [E -> E \cup {NULL}]
    BY <1>t, <1>3, <1>6, <2>3 DEF PlaceP
  <2> QED
    BY <1>t, <1>3, <2>1, <2>2, <2>4 DEF Typed
<1> HIDE DEF l2, r2, p2, s2
<1>8. Rooted(E, y, p2, s2)
  <2>1. ASSUME NEW w \in E
        PROVE  p2[w] = NULL <=> w = y
    <3>1. p[w] # NULL /\ y # NULL
      BY <1>t, <1>3 DEF Shape, Rooted
    <3> QED
      BY <1>1, <1>6, <3>1
  <2> QED
    BY <1>t, <1>1, <1>3, <2>1 DEF Rooted
<1>9. ASSUME NEW w \in E \cup {NULL}, w # y
      PROVE  Sub(s2, w) = Sub(sub, w) \ {y}
  BY <1>1, <1>t, <1>9 DEF Sub
<1>y. y \notin Sub(sub, r[y]) /\ sub[y] = {y} \cup Sub(sub, r[y])
  BY <1>2, <1>s DEF Sub
<1>10. ASSUME NEW w \in E, w # y
       PROVE  Sub(s2, l2[w]) = Sub(sub, l[w]) \ {y} /\ Sub(s2, r2[w]) = Sub(sub, r[w]) \ {y}
  <2>1. Sub(s2, r[y]) = Sub(sub, r[y]) \ {y}
    BY <1>5, <1>9
  <2>2. Sub(sub, y) \ {y} = Sub(sub, r[y])
    BY <1>2, <1>t, <1>y DEF Sub
  <2>3. Sub(s2, l2[w]) = Sub(sub, l[w]) \ {y}
    BY <1>1, <1>4, <1>9, <1>10, <1>y, <2>1, <2>2
  <2>4. Sub(s2, r2[w]) = Sub(sub, r[w]) \ {y}
    BY <1>1, <1>4, <1>9, <1>10, <1>y, <2>1, <2>2
  <2> QED
    BY <2>3, <2>4
<1>11. Sub(s2, l2[y]) = sub[l[z]] /\ Sub(s2, r2[y]) = sub[r[z]] \ {y}
  <2>1. Sub(s2, l2[y]) = sub[l[z]]
    <3>1. l2[y] = l[z]
      BY <1>1, <1>3
    <3>2. Sub(s2, l[z]) = Sub(sub, l[z]) \ {y}
      BY <1>5, <1>9
    <3>3. Sub(sub, l[z]) = sub[l[z]]
      BY DEF Sub
    <3> QED
      BY <1>3, <3>1, <3>2, <3>3
  <2>2. Sub(s2, r2[y]) = sub[r[z]] \ {y}
    <3>1. CASE r[z] = y
      <4>1. r2[y] = r[y]
        BY <1>1, <1>3, <3>1
      <4>2. Sub(s2, r[y]) = Sub(sub, r[y]) \ {y}
        BY <1>5, <1>9
      <4>3. sub[r[z]] \ {y} = Sub(sub, r[y]) \ {y}
        BY ONLY <1>y, <3>1
      <4> QED
        BY ONLY <4>1, <4>2, <4>3
    <3>2. CASE r[z] # y
      <4>1. r2[y] = r[z]
        BY <1>1, <1>3, <3>2
      <4>2. Sub(s2, r[z]) = Sub(sub, r[z]) \ {y}
        BY <1>5, <1>9, <3>2
      <4>3. Sub(sub, r[z]) = sub[r[z]]
        BY DEF Sub
      <4> QED
        BY ONLY <4>1, <4>2, <4>3
    <3> QED
      BY <3>1, <3>2
  <2> QED
    BY <2>1, <2>2
<1>12. Split(E, l2, r2, s2)
  <2> SUFFICES ASSUME NEW w \in E
               PROVE  /\ s2[w] = {w} \cup Sub(s2, l2[w]) \cup Sub(s2, r2[w])
                      /\ w \notin Sub(s2, l2[w]) /\ w \notin Sub(s2, r2[w])
                      /\ Sub(s2, l2[w]) \cap Sub(s2, r2[w]) = {}
    BY DEF Split
  <2>1. CASE w = y
    <3>1. s2[y] = E /\ E = {y} \cup sub[l[z]] \cup (sub[r[z]] \ {y})
      <4>1. s2[y] = E
        BY <1>1, <1>3
      <4>2. E = {y} \cup sub[l[z]] \cup (sub[r[z]] \ {y})
        BY <1>2, <1>3
      <4> QED
        BY <4>1, <4>2
    <3> QED
      BY <1>3, <1>11, <2>1, <3>1
  <2>2. CASE w # y
    <3>1. s2[w] = sub[w] \ {y}
      BY <1>1, <2>2
    <3> QED
      BY <1>10, <1>s, <2>2, <3>1
  <2> QED
    BY <2>1, <2>2
<1>13. Nested(E, p2, s2)
  <2> SUFFICES ASSUME NEW a \in E, NEW c \in s2[a]
               PROVE  s2[c] \subseteq s2[a] /\ (c # a => p2[c] # NULL /\ p2[c] \in s2[a])
    BY DEF Nested
  <2>1. CASE a = y
    <3>1. s2[a] = E /\ c \in E /\ s2[c] \subseteq E
      <4>1. s2[a] = E
        BY <1>1, <2>1
      <4>2. c \in E
        BY <4>1
      <4>3. sub[c] \subseteq E /\ (s2[c] = E \/ s2[c] = sub[c] \ {y})
        BY <1>1, <1>4, <4>2
      <4> QED
        BY <4>1, <4>2, <4>3
    <3> QED
      BY <1>7, <1>8, <2>1, <3>1 DEF Typed, Rooted
  <2>2. CASE a # y
    <3>1. s2[a] = sub[a] \ {y} /\ c \in E /\ c # y /\ c \in sub[a] /\ s2[c] = sub[c] \ {y}
      <4>1. s2[a] = sub[a] \ {y} /\ sub[a] \subseteq E
        BY <1>1, <1>4, <2>2
      <4>2. c \in E /\ c # y /\ c \in sub[a]
        BY <4>1
      <4>3. s2[c] = sub[c] \ {y}
        BY <1>1, <4>2
      <4> QED
        BY <4>1, <4>2, <4>3
    <3>2. sub[c] \subseteq sub[a] /\ (c # a => p[c] # NULL /\ p[c] \in sub[a])
      BY <1>n, <3>1
    <3>3. c # a => c # l[z] /\ c # r[z]
      BY <1>4, <1>5, <3>2
    <3>4. c # a /\ c = r[y] => p[y] # z /\ p[y] \in sub[a]
      BY <1>4, <1>5, <1>n, <1>t, <2>2, <3>1, <3>2
    <3>5. c # r[y] => p[c] # y
      <4>1. p[c] = y => c = l[y] \/ c = r[y]
        BY <1>3, <1>a, <1>t, <3>1
      <4>2. c # NULL
        BY <1>t, <3>1
      <4> QED
        BY <4>1, <4>2
    <3>6. c # a => p2[c] # NULL /\ p2[c] \in sub[a] \ {y}
      BY <1>1, <1>6, <3>1, <3>2, <3>3, <3>4, <3>5
    <3> QED
      BY <3>1, <3>2, <3>6
  <2> QED
    BY <2>1, <2>2
<1>14. Agreed(E, l2, r2, p2)
  <2> SUFFICES ASSUME NEW w \in E
               PROVE  /\ l2[w] # NULL => p2[l2[w]] = w
                      /\ r2[w] # NULL => p2[r2[w]] = w
                      /\ p2[w] # NULL => w = l2[p2[w]] \/ w = r2[p2[w]]
    BY DEF Agreed
  <2>1. /\ l[w] # NULL => p[l[w]] = w
        /\ r[w] # NULL => p[r[w]] = w
        /\ p[w] # NULL => w = l[p[w]] \/ w = r[p[w]]
    BY <1>a
  <2>2. l2[w] # NULL => p2[l2[w]] = w
    <3>1. CASE w = y
      BY <1>1, <1>5, <3>1
    <3>2. CASE w # y /\ l[w] = y
      <4>1. l2[w] = r[y] /\ p[y] = w /\ w # z
        BY <1>1, <1>3, <1>t, <2>1, <3>2
      <4> QED
        BY <1>1, <1>5, <4>1
    <3>3. CASE w # y /\ l[w] # y
      <4>1. l2[w] = l[w]
        BY <1>1, <3>3
      <4>2. l[w] # NULL => l[w] \in E /\ p[l[w]] = w /\ w # z /\ l[w] # l[z] /\ l[w] # r[z] /\ l[w] # r[y]
        BY <1>4, <1>5, <2>1, <3>3
      <4> QED
        BY <1>p, <3>3, <4>1, <4>2
    <3> QED
      BY <3>1, <3>2, <3>3
  <2>3. r2[w] # NULL => p2[r2[w]] = w
    <3>1. CASE w = y
      <4>1. CASE r[z] = y
        BY <1>1, <1>5, <1>6, <3>1, <4>1
      <4>2. CASE r[z] # y
        <5>1. r2[w] = r[z]
          BY <1>1, <3>1, <4>2
        <5>2. l[z] # r[z] /\ r[z] # r[y]
          BY <1>5, LinkFacts
        <5> QED
          BY <1>p, <1>5, <3>1, <4>2, <5>1, <5>2
      <4> QED
        BY <4>1, <4>2
    <3>2. CASE w # y /\ r[w] = y
      <4>1. r2[w] = r[y] /\ p[y] = w /\ w # z
        BY <1>1, <1>3, <1>t, <2>1, <3>2
      <4> QED
        BY <1>1, <1>5, <4>1
    <3>3. CASE w # y /\ r[w] # y
      <4>1. r2[w] = r[w]
        BY <1>1, <3>3
      <4>2. r[w] # NULL => r[w] \in E /\ p[r[w]] = w /\ w # z /\ r[w] # l[z] /\ r[w] # r[z] /\ r[w] # r[y]
        BY <1>4, <1>5, <2>1, <3>3
      <4> QED
        BY <1>p, <3>3, <4>1, <4>2
    <3> QED
      BY <3>1, <3>2, <3>3
  <2>4. p2[w] # NULL => w = l2[p2[w]] \/ w = r2[p2[w]]
    <3>1. CASE w = y
      BY <1>1, <3>1
    <3>2. CASE w # y /\ w = l[z]
      BY <1>1, <1>3, <3>2
    <3>3. CASE w # y /\ w # l[z] /\ w = r[y]
      <4>1. CASE p[y] = z
        <5>1. p2[w] = y
          BY ONLY <1>p, <3>3, <4>1, w \in E
        <5>2. r2[y] = r[y]
          BY ONLY <1>1, <1>3, <1>6, <4>1
        <5> QED
          BY ONLY <3>3, <5>1, <5>2
      <4>2. CASE p[y] # z
        <5>1. p2[w] = p[y] /\ p[y] \in E /\ p[y] # y /\ (y = l[p[y]] \/ y = r[p[y]])
          BY <1>1, <1>2, <1>6, <1>a, <3>3, <4>2
        <5> QED
          BY <1>l, <1>r, <3>3, <5>1
      <4> QED
        BY <4>1, <4>2
    <3>4. CASE w # y /\ w # l[z] /\ w # r[y] /\ w = r[z]
      <4>1. p2[w] = y /\ r2[y] = r[z]
        BY <1>1, <1>3, <3>4
      <4> QED
        BY <3>4, <4>1
    <3>5. CASE w # y /\ w # l[z] /\ w # r[y] /\ w # r[z]
      <4>1. p2[w] = p[w]
        BY <1>1, <3>5
      <4>2. p[w] # NULL => p[w] \in E /\ p[w] # y
        <5>1. w # NULL /\ w \in D /\ z # NULL
          BY <1>t
        <5>2. p[w] # NULL => p[w] # z /\ p[w] # y /\ p[w] \in D
          BY <1>t, <2>1, <3>5, <5>1
        <5> QED
          BY <5>2
      <4> QED
        BY <1>l, <1>r, <2>1, <3>5, <4>1, <4>2
    <3> QED
      BY <3>1, <3>2, <3>3, <3>4, <3>5
  <2> QED
    BY <2>2, <2>3, <2>4
<1>15. PlacedParts(E, l, r, sub, z, y, l2, r2, s2)
  <2>1. Sub(sub, l[z]) = sub[l[z]] /\ Sub(sub, r[z]) = sub[r[z]]
    BY DEF Sub
  <2> QED
    BY <1>10, <1>11, <2>1 DEF PlacedParts
<1> QED
  BY <1>7, <1>8, <1>12, <1>13, <1>14, <1>15 DEF Shape, l2, r2, p2, s2

LEMMA PlaceInOrder ==
  ASSUME NEW D \in SUBSET Int, NEW l, NEW r, NEW p, NEW sub, NEW z \in D, Shape(D, z, l, r, p, sub),
         l[z] # NULL, r[z] # NULL, NEW y \in Sub(sub, r[z]), l[y] = NULL,
         InOrder(D, l, r, sub), \A k \in Sub(sub, r[z]) : y <= k,
         NEW E, E = D \ {z},
         NEW l2, l2 = PlaceL(l, r, E, z, y), NEW r2, r2 = PlaceR(r, E, z, y),
         NEW s2, s2 = PlaceSubs(sub, E, y)
  PROVE  InOrder(E, l2, r2, s2)
<1>1. PlacedParts(E, l, r, sub, z, y, l2, r2, s2)
  BY PlaceShape
<1>2. y \in D /\ y # z /\ Sub(sub, r[z]) \subseteq D /\ Sub(sub, l[z]) \subseteq D
  <2>1. Sub(sub, r[z]) \subseteq D /\ Sub(sub, l[z]) \subseteq D /\ z \notin Sub(sub, r[z])
    BY DEF Shape, Typed, Split, Sub
  <2> QED
    BY <2>1
<1> SUFFICES ASSUME NEW w \in E
             PROVE  (\A k \in Sub(s2, l2[w]) : k < w) /\ (\A k \in Sub(s2, r2[w]) : w < k)
  BY DEF InOrder
<1>3. CASE w = y
  <2>1. (\A k \in Sub(sub, l[z]) : k < z) /\ z < y
    BY DEF InOrder
  <2>2. \A k \in Sub(sub, l[z]) : k < y
    BY <1>2, <2>1
  <2>3. ASSUME NEW k \in Sub(sub, r[z]) \ {y} PROVE y < k
    <3>1. k \in Int /\ y \in Int /\ y <= k /\ y # k
      BY <1>2
    <3> QED
      BY <3>1
  <2> QED
    BY <1>1, <1>3, <2>2, <2>3 DEF PlacedParts
<1>4. CASE w # y
  <2>1. (\A k \in Sub(sub, l[w]) : k < w) /\ (\A k \in Sub(sub, r[w]) : w < k)
    BY DEF InOrder
  <2>2. Sub(s2, l2[w]) = Sub(sub, l[w]) \ {y} /\ Sub(s2, r2[w]) = Sub(sub, r[w]) \ {y}
    BY <1>1, <1>4 DEF PlacedParts
  <2> QED
    BY ONLY <2>1, <2>2
<1> QED
  BY <1>3, <1>4

-----------------------------------------------------------------------------
(* What a history ends in *)

NodeType == [left : Nat, right : Nat, parent : Nat, record : Records]

Trees == [root : Nat, node_count : Int, node : [Keys -> NodeType \cup {NoNode}]]

Node(a, b, c, record) == [left |-> a, right |-> b, parent |-> c, record |-> record]

NodesOf(D, l, r, p, rec) ==
  [z \in Keys |-> IF z \in D THEN Node(l[z], r[z], p[z], rec[z]) ELSE NoNode]

TreeWith(root, n, nodes) == [root |-> root, node_count |-> n, node |-> nodes]

TreeOf(D, root, l, r, p, rec, n) == TreeWith(root, n, NodesOf(D, l, r, p, rec))

Ends(h, D, root, l, r, p, rec, n) ==
  /\ D \in SUBSET Keys /\ root \in Nat /\ n \in Int
  /\ l \in [D -> Nat] /\ r \in [D -> Nat] /\ p \in [D -> Nat] /\ rec \in [D -> Records]
  /\ h \in Seq(Trees) /\ h # << >>
  /\ Now(h) = TreeOf(D, root, l, r, p, rec, n)

LEMMA TreeOfType ==
  ASSUME NEW D \in SUBSET Keys, NEW root \in Nat, NEW n \in Int, NEW l \in [D -> Nat],
         NEW r \in [D -> Nat], NEW p \in [D -> Nat], NEW rec \in [D -> Records]
  PROVE  TreeOf(D, root, l, r, p, rec, n) \in Trees
<1> DEFINE node == NodesOf(D, l, r, p, rec)
<1>1. \A z \in D : Node(l[z], r[z], p[z], rec[z]) \in NodeType
  BY DEF Node, NodeType
<1>2. node \in [Keys -> NodeType \cup {NoNode}]
  BY <1>1 DEF NodesOf
<1> HIDE DEF node
<1>3. TreeWith(root, n, node) \in Trees
  BY <1>2 DEF TreeWith, Trees
<1> QED
  BY <1>3 DEF TreeOf, node

LEMMA Stored ==
  ASSUME NEW D \in SUBSET Keys, NEW root \in Nat, NEW n \in Int, NEW l \in [D -> Nat],
         NEW r \in [D -> Nat], NEW p \in [D -> Nat], NEW rec \in [D -> Records],
         NEW h \in Seq(Trees), NEW t, t = TreeOf(D, root, l, r, p, rec, n)
  PROVE  Ends(Append(h, t), D, root, l, r, p, rec, n)
<1>1. t \in Trees
  BY TreeOfType
<1>2. Append(h, t) \in Seq(Trees) /\ Append(h, t) # << >> /\ Append(h, t)[Len(Append(h, t))] = t
  <2>1. /\ Append(h, t) \in Seq(Trees) /\ Append(h, t) # << >> /\ Len(Append(h, t)) = Len(h) + 1
        /\ Append(h, t)[Len(h) + 1] = t
    BY <1>1, AppendProperties
  <2> QED
    BY ONLY <2>1
<1> QED
  BY <1>2 DEF Ends, Now

LEMMA ReadOf ==
  ASSUME NEW h, NEW D, NEW root, NEW l, NEW r, NEW p, NEW rec, NEW n,
         Ends(h, D, root, l, r, p, rec, n)
  PROVE  /\ Now(h).root = root /\ Now(h).node_count = n /\ Allocated(Now(h)) = D
         /\ \A z \in D : /\ Left(h, z) = l[z] /\ Right(h, z) = r[z] /\ Parent(h, z) = p[z]
                         /\ Now(h).node[z].record = rec[z]
         /\ D \subseteq Nat /\ NULL \notin D
<1>1. D \subseteq Nat /\ NULL \notin D
  BY SplayTreeAssumption DEF Ends
<1>2. D \in SUBSET Keys /\ l \in [D -> Nat] /\ r \in [D -> Nat] /\ p \in [D -> Nat] /\ rec \in [D -> Records]
  BY DEF Ends
<1>3. Now(h).root = root /\ Now(h).node_count = n /\ Now(h).node = NodesOf(D, l, r, p, rec)
  BY DEF Ends, TreeOf, TreeWith
<1>4. \A z \in D : Now(h).node[z] = Node(l[z], r[z], p[z], rec[z])
  BY <1>2, <1>3 DEF NodesOf
<1>5. Allocated(Now(h)) = D
  <2>1. \A z \in D : Node(l[z], r[z], p[z], rec[z]) # NoNode
    BY <1>2, SplayTreeAssumption DEF Node
  <2> QED
    BY <1>2, <1>3, <1>4, <2>1 DEF Allocated, NodesOf
<1>6. \A z \in D : /\ Left(h, z) = l[z] /\ Right(h, z) = r[z] /\ Parent(h, z) = p[z]
                   /\ Now(h).node[z].record = rec[z]
  <2> SUFFICES ASSUME NEW z \in D
               PROVE  /\ Left(h, z) = l[z] /\ Right(h, z) = r[z] /\ Parent(h, z) = p[z]
                      /\ Now(h).node[z].record = rec[z]
    OBVIOUS
  <2>1. Now(h).node[z] = Node(l[z], r[z], p[z], rec[z])
    BY <1>4
  <2> QED
    BY <2>1 DEF Left, Right, Parent, Node
<1> QED
  BY <1>1, <1>3, <1>5, <1>6

(* A store into a field of node x *)
LEMMA SetLeftEnds ==
  ASSUME NEW h, NEW D, NEW root, NEW l, NEW r, NEW p, NEW rec, NEW n,
         Ends(h, D, root, l, r, p, rec, n), NEW x \in D, NEW y \in Nat
  PROVE  Ends(SetLeft(h, x, y), D, root, [l EXCEPT ![x] = y], r, p, rec, n)
<1> DEFINE N == NodesOf(D, l, r, p, rec)
           f == [l EXCEPT ![x] = y]
           M == NodesOf(D, f, r, p, rec)
<1>1. f \in [D -> Nat] /\ \A z \in D : f[z] = IF z = x THEN y ELSE l[z]
  BY DEF Ends
<1> HIDE DEF f
<1>2. x \in Keys /\ N[x] = Node(l[x], r[x], p[x], rec[x])
  BY DEF Ends, NodesOf
<1>3. [N[x] EXCEPT !.left = y] = Node(y, r[x], p[x], rec[x])
  BY <1>2 DEF Node
<1>4. M[x] = Node(y, r[x], p[x], rec[x])
  BY <1>1, <1>2 DEF NodesOf
<1>5. \A z \in Keys : z # x => M[z] = N[z]
  BY <1>1 DEF NodesOf
<1>6. DOMAIN N = Keys /\ M = [z \in Keys |-> M[z]] /\ N = [z \in Keys |-> N[z]]
  BY DEF NodesOf
<1> HIDE DEF N, M
<1>7. [N EXCEPT ![x] = M[x]] = M
  BY <1>2, <1>5, <1>6
<1>8. [N EXCEPT ![x].left = y] = M
  BY <1>3, <1>4, <1>7
<1>9. PICK t : t = Now(h) /\ t = TreeWith(root, n, N)
  BY DEF Ends, TreeOf, N
<1>10. [t EXCEPT !.node[x].left = y] = TreeWith(root, n, [N EXCEPT ![x].left = y])
  BY <1>9 DEF TreeWith
<1>11. [Now(h) EXCEPT !.node[x].left = y] = TreeOf(D, root, f, r, p, rec, n)
  BY <1>8, <1>9, <1>10 DEF TreeOf, M
<1>12. D \in SUBSET Keys /\ root \in Nat /\ n \in Int /\ rec \in [D -> Records] /\ h \in Seq(Trees)
       /\ l \in [D -> Nat] /\ r \in [D -> Nat] /\ p \in [D -> Nat]
  BY DEF Ends
<1>13. Ends(Append(h, [Now(h) EXCEPT !.node[x].left = y]), D, root, f, r, p, rec, n)
  BY <1>1, <1>11, <1>12, Stored
<1> QED
  BY <1>13 DEF SetLeft, f

LEMMA SetRightEnds ==
  ASSUME NEW h, NEW D, NEW root, NEW l, NEW r, NEW p, NEW rec, NEW n,
         Ends(h, D, root, l, r, p, rec, n), NEW x \in D, NEW y \in Nat
  PROVE  Ends(SetRight(h, x, y), D, root, l, [r EXCEPT ![x] = y], p, rec, n)
<1> DEFINE N == NodesOf(D, l, r, p, rec)
           f == [r EXCEPT ![x] = y]
           M == NodesOf(D, l, f, p, rec)
<1>1. f \in [D -> Nat] /\ \A z \in D : f[z] = IF z = x THEN y ELSE r[z]
  BY DEF Ends
<1> HIDE DEF f
<1>2. x \in Keys /\ N[x] = Node(l[x], r[x], p[x], rec[x])
  BY DEF Ends, NodesOf
<1>3. [N[x] EXCEPT !.right = y] = Node(l[x], y, p[x], rec[x])
  BY <1>2 DEF Node
<1>4. M[x] = Node(l[x], y, p[x], rec[x])
  BY <1>1, <1>2 DEF NodesOf
<1>5. \A z \in Keys : z # x => M[z] = N[z]
  BY <1>1 DEF NodesOf
<1>6. DOMAIN N = Keys /\ M = [z \in Keys |-> M[z]] /\ N = [z \in Keys |-> N[z]]
  BY DEF NodesOf
<1> HIDE DEF N, M
<1>7. [N EXCEPT ![x] = M[x]] = M
  BY <1>2, <1>5, <1>6
<1>8. [N EXCEPT ![x].right = y] = M
  BY <1>3, <1>4, <1>7
<1>9. PICK t : t = Now(h) /\ t = TreeWith(root, n, N)
  BY DEF Ends, TreeOf, N
<1>10. [t EXCEPT !.node[x].right = y] = TreeWith(root, n, [N EXCEPT ![x].right = y])
  BY <1>9 DEF TreeWith
<1>11. [Now(h) EXCEPT !.node[x].right = y] = TreeOf(D, root, l, f, p, rec, n)
  BY <1>8, <1>9, <1>10 DEF TreeOf, M
<1>12. D \in SUBSET Keys /\ root \in Nat /\ n \in Int /\ rec \in [D -> Records] /\ h \in Seq(Trees)
       /\ l \in [D -> Nat] /\ r \in [D -> Nat] /\ p \in [D -> Nat]
  BY DEF Ends
<1>13. Ends(Append(h, [Now(h) EXCEPT !.node[x].right = y]), D, root, l, f, p, rec, n)
  BY <1>1, <1>11, <1>12, Stored
<1> QED
  BY <1>13 DEF SetRight, f

LEMMA SetParentEnds ==
  ASSUME NEW h, NEW D, NEW root, NEW l, NEW r, NEW p, NEW rec, NEW n,
         Ends(h, D, root, l, r, p, rec, n), NEW x \in D, NEW y \in Nat
  PROVE  Ends(SetParent(h, x, y), D, root, l, r, [p EXCEPT ![x] = y], rec, n)
<1> DEFINE N == NodesOf(D, l, r, p, rec)
           f == [p EXCEPT ![x] = y]
           M == NodesOf(D, l, r, f, rec)
<1>1. f \in [D -> Nat] /\ \A z \in D : f[z] = IF z = x THEN y ELSE p[z]
  BY DEF Ends
<1> HIDE DEF f
<1>2. x \in Keys /\ N[x] = Node(l[x], r[x], p[x], rec[x])
  BY DEF Ends, NodesOf
<1>3. [N[x] EXCEPT !.parent = y] = Node(l[x], r[x], y, rec[x])
  BY <1>2 DEF Node
<1>4. M[x] = Node(l[x], r[x], y, rec[x])
  BY <1>1, <1>2 DEF NodesOf
<1>5. \A z \in Keys : z # x => M[z] = N[z]
  BY <1>1 DEF NodesOf
<1>6. DOMAIN N = Keys /\ M = [z \in Keys |-> M[z]] /\ N = [z \in Keys |-> N[z]]
  BY DEF NodesOf
<1> HIDE DEF N, M
<1>7. [N EXCEPT ![x] = M[x]] = M
  BY <1>2, <1>5, <1>6
<1>8. [N EXCEPT ![x].parent = y] = M
  BY <1>3, <1>4, <1>7
<1>9. PICK t : t = Now(h) /\ t = TreeWith(root, n, N)
  BY DEF Ends, TreeOf, N
<1>10. [t EXCEPT !.node[x].parent = y] = TreeWith(root, n, [N EXCEPT ![x].parent = y])
  BY <1>9 DEF TreeWith
<1>11. [Now(h) EXCEPT !.node[x].parent = y] = TreeOf(D, root, l, r, f, rec, n)
  BY <1>8, <1>9, <1>10 DEF TreeOf, M
<1>12. D \in SUBSET Keys /\ root \in Nat /\ n \in Int /\ rec \in [D -> Records] /\ h \in Seq(Trees)
       /\ l \in [D -> Nat] /\ r \in [D -> Nat] /\ p \in [D -> Nat]
  BY DEF Ends
<1>13. Ends(Append(h, [Now(h) EXCEPT !.node[x].parent = y]), D, root, l, r, f, rec, n)
  BY <1>1, <1>11, <1>12, Stored
<1> QED
  BY <1>13 DEF SetParent, f

LEMMA SetRootEnds ==
  ASSUME NEW h, NEW D, NEW root, NEW l, NEW r, NEW p, NEW rec, NEW n,
         Ends(h, D, root, l, r, p, rec, n), NEW x \in Nat
  PROVE  Ends(SetRoot(h, x), D, x, l, r, p, rec, n)
<1>1. PICK t, N : t = Now(h) /\ t = TreeWith(root, n, N) /\ N = NodesOf(D, l, r, p, rec)
  BY DEF Ends, TreeOf
<1>2. [t EXCEPT !.root = x] = TreeWith(x, n, N)
  BY <1>1 DEF TreeWith
<1>3. [Now(h) EXCEPT !.root = x] = TreeOf(D, x, l, r, p, rec, n)
  BY <1>1, <1>2 DEF TreeOf
<1>4. D \in SUBSET Keys /\ n \in Int /\ rec \in [D -> Records] /\ h \in Seq(Trees)
      /\ l \in [D -> Nat] /\ r \in [D -> Nat] /\ p \in [D -> Nat]
  BY DEF Ends
<1>5. Ends(Append(h, [Now(h) EXCEPT !.root = x]), D, x, l, r, p, rec, n)
  BY <1>3, <1>4, Stored
<1> QED
  BY <1>5 DEF SetRoot

(* SetParentIf and Rehang, with the pointer functions they leave *)
Told(p, b, x) == [z \in DOMAIN p |-> IF z = b THEN x ELSE p[z]]

LEMMA SetParentIfEnds ==
  ASSUME NEW h, NEW D, NEW root, NEW l, NEW r, NEW p, NEW rec, NEW n,
         Ends(h, D, root, l, r, p, rec, n), NEW b \in D \cup {NULL}, NEW x \in Nat
  PROVE  Ends(SetParentIf(h, b, x), D, root, l, r, Told(p, b, x), rec, n)
<1>1. NULL \notin D /\ p \in [D -> Nat]
  <2>1. p \in [D -> Nat]
    BY DEF Ends
  <2> QED
    BY <2>1, ReadOf
<1>2. CASE b = NULL
  <2>1. Told(p, b, x) = p
    BY <1>1, <1>2 DEF Told
  <2> QED
    BY <1>2, <2>1 DEF SetParentIf
<1>3. CASE b \in D
  <2>1. Told(p, b, x) = [p EXCEPT ![b] = x]
    BY <1>1 DEF Told
  <2>2. b # NULL
    BY <1>1, <1>3
  <2>3. Ends(SetParent(h, b, x), D, root, l, r, [p EXCEPT ![b] = x], rec, n)
    BY <1>3, SetParentEnds
  <2> QED
    BY <2>1, <2>2, <2>3 DEF SetParentIf
<1> QED
  BY <1>2, <1>3

(* The pointers that led to u lead to v. *)
Redirected(l, u, v) == [z \in DOMAIN l |-> IF l[z] = u THEN v ELSE l[z]]

(* u's parent q is the only node with a pointer to u. *)
LEMMA RehangEnds ==
  ASSUME NEW h, NEW D, NEW root, NEW l, NEW r, NEW p, NEW rec, NEW n,
         Ends(h, D, root, l, r, p, rec, n), NEW u \in D, NEW v \in Nat,
         p[u] \in D \cup {NULL}, p[u] = NULL <=> root = u,
         p[u] # NULL => (l[p[u]] = u \/ r[p[u]] = u) /\ ~ (l[p[u]] = u /\ r[p[u]] = u),
         \A z \in D : l[z] = u \/ r[z] = u => z = p[u]
  PROVE  Ends(Rehang(h, u, v), D, NewRoot(root, u, v), Redirected(l, u, v), Redirected(r, u, v),
              p, rec, n)
<1>r. p[u] # NULL => NewRoot(root, u, v) = root
  BY DEF NewRoot
<1>1. /\ NULL \notin D /\ Parent(h, u) = p[u] /\ l \in [D -> Nat] /\ r \in [D -> Nat]
      /\ p[u] \in D => Left(h, p[u]) = l[p[u]]
  <2>1. l \in [D -> Nat] /\ r \in [D -> Nat]
    BY DEF Ends
  <2> QED
    BY <2>1, ReadOf
<1>2. CASE p[u] = NULL
  <2>1. Redirected(l, u, v) = l /\ Redirected(r, u, v) = r
    BY <1>1, <1>2 DEF Redirected
  <2> QED
    BY <1>1, <1>2, <2>1, SetRootEnds DEF Rehang, NewRoot
<1>3. CASE p[u] # NULL /\ l[p[u]] = u
  <2>1. Redirected(l, u, v) = [l EXCEPT ![p[u]] = v] /\ Redirected(r, u, v) = r
    BY <1>1, <1>3 DEF Redirected
  <2>2. Rehang(h, u, v) = SetLeft(h, p[u], v) /\ p[u] \in D
    BY <1>1, <1>3 DEF Rehang
  <2>3. Ends(SetLeft(h, p[u], v), D, root, [l EXCEPT ![p[u]] = v], r, p, rec, n)
    BY <2>2, SetLeftEnds
  <2> QED
    BY <1>r, <1>3, <2>1, <2>2, <2>3
<1>4. CASE p[u] # NULL /\ l[p[u]] # u
  <2>1. Redirected(r, u, v) = [r EXCEPT ![p[u]] = v] /\ Redirected(l, u, v) = l
    BY <1>1, <1>4 DEF Redirected
  <2>2. Rehang(h, u, v) = SetRight(h, p[u], v) /\ p[u] \in D
    BY <1>1, <1>4 DEF Rehang
  <2>3. Ends(SetRight(h, p[u], v), D, root, l, [r EXCEPT ![p[u]] = v], p, rec, n)
    BY <2>2, SetRightEnds
  <2> QED
    BY <1>r, <1>4, <2>1, <2>2, <2>3
<1> QED
  BY <1>2, <1>3, <1>4

-----------------------------------------------------------------------------
(* What an interrupted call leaves *)

(* The links from root on stay within R, and q leads back along each, so   *)
(* that no two lead to the same node.                                      *)
Once(R, root, l, r, q) ==
  /\ NULL \notin R /\ root \in R \cup {NULL} /\ (root # NULL => q[root] = NULL)
  /\ \A z \in R : /\ l[z] \in R \cup {NULL} /\ r[z] \in R \cup {NULL}
                  /\ l[z] # NULL => q[l[z]] = z
                  /\ r[z] # NULL => q[r[z]] = z
                  /\ l[z] = r[z] => l[z] = NULL

FreesOnce(D, root, l, r) == \E R, q : R \subseteq D /\ Once(R, root, l, r, q)

Freeable(t) ==
  /\ IsFiniteSet(Allocated(t))
  /\ FreesOnce(Allocated(t), t.root, [z \in Allocated(t) |-> t.node[z].left],
               [z \in Allocated(t) |-> t.node[z].right])

AllFree(h) == h \in Seq(Trees) /\ \A k \in DOMAIN h : Freeable(h[k])

LEMMA FreesMirror ==
  ASSUME NEW D, NEW root, NEW l, NEW r, FreesOnce(D, root, r, l)
  PROVE  FreesOnce(D, root, l, r)
<1>1. PICK R, q : R \subseteq D /\ Once(R, root, r, l, q)
  BY DEF FreesOnce
<1>2. Once(R, root, l, r, q)
  BY <1>1 DEF Once
<1> QED
  BY <1>1, <1>2 DEF FreesOnce

LEMMA ShapeFrees ==
  ASSUME NEW D, NEW root, NEW l, NEW r, NEW p, NEW sub, Shape(D, root, l, r, p, sub)
  PROVE  FreesOnce(D, root, l, r)
<1>1. NULL \notin D /\ root \in D \cup {NULL} /\ (root # NULL => p[root] = NULL)
  BY DEF Shape, Typed, Rooted
<1>2. ASSUME NEW z \in D
      PROVE  /\ l[z] \in D \cup {NULL} /\ r[z] \in D \cup {NULL}
             /\ l[z] # NULL => p[l[z]] = z
             /\ r[z] # NULL => p[r[z]] = z
             /\ l[z] = r[z] => l[z] = NULL
  <2>1. l[z] \in D \cup {NULL} /\ r[z] \in D \cup {NULL}
    BY DEF Shape, Typed
  <2> QED
    BY <2>1, LinkFacts
<1>3. Once(D, root, l, r, p)
  BY <1>1, <1>2 DEF Once
<1> QED
  BY <1>3 DEF FreesOnce

(* Only the links of the nodes in E count, and those in D may be more. *)
LEMMA FreesMore ==
  ASSUME NEW E, NEW D, E \subseteq D, NEW root, NEW l, NEW r, NEW l2, NEW r2,
         FreesOnce(E, root, l, r), \A z \in E : l2[z] = l[z] /\ r2[z] = r[z]
  PROVE  FreesOnce(D, root, l2, r2)
<1>1. PICK R, q : R \subseteq E /\ Once(R, root, l, r, q)
  BY DEF FreesOnce
<1>2. R \subseteq D /\ \A z \in R : l2[z] = l[z] /\ r2[z] = r[z]
  BY <1>1
<1>3. Once(R, root, l2, r2, q)
  BY <1>1, <1>2 DEF Once
<1> QED
  BY <1>2, <1>3 DEF FreesOnce

(* The link to c leads to v instead, a node below c or none: R are the     *)
(* nodes that are left, and q leads back.                                  *)
Bypassed(D, sub, c, v) == D \ (sub[c] \ Sub(sub, v))
Back(D, p, c, v) == [z \in D |-> IF z = v THEN p[c] ELSE p[z]]

LEMMA BypassSide ==
  ASSUME NEW D, NEW root, NEW l, NEW r, NEW p, NEW sub, Shape(D, root, l, r, p, sub),
         NEW c \in D, NEW v \in sub[c] \cup {NULL}, v # c,
         NEW R, R = Bypassed(D, sub, c, v), NEW q, q = Back(D, p, c, v),
         NEW z \in R, NEW w, w = IF l[z] = c THEN v ELSE l[z]
  PROVE  /\ w \in R \cup {NULL}
         /\ w # NULL => q[w] = z
         /\ w # NULL /\ w = v => l[z] = c
<1>1. /\ NULL \notin D /\ z \in D /\ sub[c] \subseteq D /\ R \subseteq D
      /\ l[z] \in D \cup {NULL} /\ v \in D \cup {NULL}
  BY DEF Shape, Typed, Bypassed
<1>2. \A a \in D : \A d \in sub[a] : sub[d] \subseteq sub[a] /\ (d # a => p[d] # NULL /\ p[d] \in sub[a])
  BY DEF Shape, Nested
<1>3. \A a \in D : a \in sub[a]
  BY DEF Shape, Split
<1>4. l[z] # NULL => l[z] \in D /\ p[l[z]] = z /\ l[z] \in sub[z] /\ z \notin sub[l[z]]
  <2>1. l[z] # NULL => z \notin sub[l[z]]
    BY <1>1 DEF Shape, Split, Sub
  <2> QED
    BY <1>1, <2>1, LinkFacts
<1>5. v # NULL => v \in sub[c] /\ v \in R /\ sub[v] \subseteq sub[c] /\ p[v] \in sub[c]
                  /\ sub[v] = Sub(sub, v)
  BY <1>1, <1>2, <1>3 DEF Bypassed, Sub
<1>6. z \in sub[c] => v # NULL /\ z \in sub[v]
  BY DEF Bypassed, Sub
<1>7. CASE l[z] = c
  <2>1. w = v /\ p[c] = z /\ c # NULL
    BY <1>1, <1>4, <1>7
  <2>2. v # NULL => q[v] = p[c]
    BY <1>1 DEF Back
  <2> QED
    BY <1>5, <1>7, <2>1, <2>2
<1>8. CASE l[z] # c /\ l[z] # NULL
  <2>1. w = l[z] /\ w \in D /\ p[w] = z /\ w \in sub[z] /\ z \notin sub[w]
    BY <1>4, <1>8
  <2>2. w \in sub[c] => z \in sub[c]
    BY <1>2, <1>8, <2>1
  <2>3. w \in sub[c] => v # NULL /\ w \in sub[v] /\ v \in D
    <3>1. z \in sub[c] /\ v # NULL => v \in D /\ z \in sub[v]
      BY <1>1, <1>6
    <3> QED
      BY <1>2, <1>6, <2>1, <2>2, <3>1
  <2>4. w \in R
    BY <2>1, <2>3 DEF Bypassed, Sub
  <2>5. w # v
    BY <1>1, <1>5, <1>6, <2>1, <2>2
  <2>6. q[w] = p[w]
    BY <2>1, <2>5 DEF Back
  <2> QED
    BY <2>1, <2>4, <2>5, <2>6
<1>9. CASE l[z] # c /\ l[z] = NULL
  BY <1>9
<1> QED
  BY <1>7, <1>8, <1>9

LEMMA BypassFrees ==
  ASSUME NEW D, NEW root, NEW l, NEW r, NEW p, NEW sub, Shape(D, root, l, r, p, sub),
         NEW c \in D, NEW v \in sub[c] \cup {NULL}, v # c,
         NEW R, R = Bypassed(D, sub, c, v), NEW l2, NEW r2,
         \A z \in R : /\ l2[z] = IF l[z] = c THEN v ELSE l[z]
                      /\ r2[z] = IF r[z] = c THEN v ELSE r[z],
         NEW E, D \subseteq E
  PROVE  FreesOnce(E, NewRoot(root, c, v), l2, r2)
<1>1. PICK q, root2 : q = Back(D, p, c, v) /\ root2 = NewRoot(root, c, v)
  OBVIOUS
<1>2. NULL \notin D /\ R \subseteq E /\ root \in D \cup {NULL} /\ sub[c] \subseteq D
      /\ (root # NULL => p[root] = NULL)
  BY DEF Shape, Typed, Bypassed, Rooted
<1>3. \A d \in sub[c] : d # c => p[d] # NULL
  BY DEF Shape, Nested
<1>4. v # NULL => v \in R /\ v \in sub[c]
  <2>1. v # NULL => v \in sub[c] /\ v \in D
    BY <1>2
  <2>2. v # NULL => v \in sub[v]
    BY <2>1, LinkFacts
  <2> QED
    BY <2>1, <2>2 DEF Bypassed, Sub
<1>5. root2 \in R \cup {NULL} /\ (root2 # NULL => q[root2] = NULL)
  <2>1. CASE root = c
    <3>1. root2 = v /\ p[c] = NULL
      BY <1>1, <1>2, <2>1 DEF NewRoot
    <3> QED
      BY <1>1, <1>2, <1>4, <3>1 DEF Back
  <2>2. CASE root # c
    <3>1. root2 = root /\ root \notin sub[c]
      BY <1>1, <1>2, <1>3, <2>2 DEF NewRoot
    <3>2. root # NULL => root \in R /\ root # v /\ root \in D
      BY <1>2, <1>4, <3>1 DEF Bypassed
    <3> QED
      BY <1>1, <1>2, <3>1, <3>2 DEF Back
  <2> QED
    BY <2>1, <2>2
<1>6. Shape(D, root, r, l, p, sub)
  BY Mirror
<1>7. ASSUME NEW z \in R
      PROVE  /\ l2[z] \in R \cup {NULL} /\ r2[z] \in R \cup {NULL}
             /\ l2[z] # NULL => q[l2[z]] = z
             /\ r2[z] # NULL => q[r2[z]] = z
             /\ l2[z] = r2[z] => l2[z] = NULL
  <2>1. PICK a, b : a = l2[z] /\ b = r2[z]
    OBVIOUS
  <2>2. a = (IF l[z] = c THEN v ELSE l[z]) /\ b = (IF r[z] = c THEN v ELSE r[z])
    BY <2>1
  <2>3. a \in R \cup {NULL} /\ (a # NULL => q[a] = z) /\ (a # NULL /\ a = v => l[z] = c)
    BY <1>1, <2>2, BypassSide
  <2>4. b \in R \cup {NULL} /\ (b # NULL => q[b] = z) /\ (b # NULL /\ b = v => r[z] = c)
    BY <1>1, <1>6, <2>2, BypassSide
  <2>5. z \in D /\ c # NULL
    BY <1>2 DEF Bypassed
  <2>6. l[z] = r[z] => l[z] = NULL
    BY <2>5, LinkFacts
  <2> QED
    BY <2>1, <2>2, <2>3, <2>4, <2>5, <2>6
<1>8. Once(R, root2, l2, r2, q)
  BY <1>2, <1>5, <1>7 DEF Once, Bypassed
<1> QED
  BY <1>1, <1>2, <1>8 DEF FreesOnce

(* One tree more, or none *)
After(h, g) == g = h \/ \E t : g = Append(h, t)

LEMMA StoreAfter ==
  ASSUME NEW h, NEW x, NEW y
  PROVE  /\ After(h, SetLeft(h, x, y)) /\ After(h, SetRight(h, x, y)) /\ After(h, SetParent(h, x, y))
         /\ After(h, SetRoot(h, x)) /\ After(h, SetParentIf(h, x, y)) /\ After(h, Rehang(h, x, y))
<1>1. \A a, b : /\ After(h, SetLeft(h, a, b)) /\ After(h, SetRight(h, a, b))
                /\ After(h, SetParent(h, a, b)) /\ After(h, SetRoot(h, a))
  BY DEF After, SetLeft, SetRight, SetParent, SetRoot
<1>2. After(h, SetParentIf(h, x, y))
  <2>1. After(h, h)
    BY DEF After
  <2> QED
    BY <1>1, <2>1 DEF SetParentIf
<1>3. After(h, Rehang(h, x, y))
  BY <1>1 DEF Rehang
<1> QED
  BY <1>1, <1>2, <1>3

LEMMA FreeableNow ==
  ASSUME NEW h, NEW D, IsFiniteSet(D), NEW root, NEW l, NEW r, NEW p, NEW rec, NEW n,
         Ends(h, D, root, l, r, p, rec, n), FreesOnce(D, root, l, r)
  PROVE  Freeable(Now(h))
<1>1. PICK t : t = Now(h)
  OBVIOUS
<1>2. Allocated(t) = D /\ t.root = root /\ \A z \in D : t.node[z].left = l[z] /\ t.node[z].right = r[z]
  BY <1>1, ReadOf DEF Left, Right
<1>3. PICK l2, r2 : l2 = [z \in D |-> t.node[z].left] /\ r2 = [z \in D |-> t.node[z].right]
  OBVIOUS
<1>4. \A z \in D : l2[z] = l[z] /\ r2[z] = r[z]
  BY <1>2, <1>3
<1>5. FreesOnce(D, root, l2, r2)
  BY <1>4, FreesMore
<1> QED
  BY <1>1, <1>2, <1>3, <1>5 DEF Freeable

LEMMA AllFreeAfter ==
  ASSUME NEW h, AllFree(h), NEW g, After(h, g),
         NEW D, IsFiniteSet(D), NEW root, NEW l, NEW r, NEW p, NEW rec, NEW n,
         Ends(g, D, root, l, r, p, rec, n), FreesOnce(D, root, l, r)
  PROVE  AllFree(g)
<1>1. CASE g = h
  BY <1>1
<1>2. CASE \E t : g = Append(h, t)
  <2>1. PICK t : g = Append(h, t)
    BY <1>2
  <2>2. /\ DOMAIN g = 1 .. Len(h) + 1 /\ Len(g) = Len(h) + 1 /\ DOMAIN h = 1 .. Len(h) /\ Len(h) \in Nat
        /\ \A k \in 1 .. Len(h) : g[k] = h[k]
    BY <2>1 DEF AllFree
  <2>3. Freeable(g[Len(g)])
    BY FreeableNow DEF Now
  <2>4. ASSUME NEW k \in DOMAIN g PROVE Freeable(g[k])
    <3>1. k \in 1 .. Len(h) \/ k = Len(g)
      BY <2>2
    <3>2. ASSUME k \in 1 .. Len(h) PROVE Freeable(g[k])
      BY <2>2, <3>2 DEF AllFree
    <3> QED
      BY <2>3, <3>1, <3>2
  <2>5. g \in Seq(Trees)
    BY DEF Ends
  <2> QED
    BY <2>4, <2>5 DEF AllFree
<1> QED
  BY <1>1, <1>2 DEF After

-----------------------------------------------------------------------------
(* The rotations, store by store *)

(* The pointers to x and around its child y *)
LEMMA Around ==
  ASSUME NEW D, NEW root, NEW l, NEW r, NEW p, NEW sub, Shape(D, root, l, r, p, sub),
         NEW x \in D, NEW y \in D, y = r[x]
  PROVE  /\ x # NULL /\ y # NULL /\ y # x
         /\ l[y] \in D \cup {NULL} /\ l[y] # x /\ l[y] # y
         /\ p[x] \in D \cup {NULL} /\ p[x] # x /\ p[x] # y /\ (p[x] = NULL <=> root = x)
         /\ p[x] # NULL => (l[p[x]] = x \/ r[p[x]] = x) /\ ~ (l[p[x]] = x /\ r[p[x]] = x)
         /\ \A z \in D : l[z] = x \/ r[z] = x => z = p[x]
<1>1. x # NULL /\ y # NULL /\ p[x] \in D \cup {NULL} /\ l[y] \in D \cup {NULL} /\ NULL \notin D
  BY DEF Shape, Typed
<1>2. y # x /\ y \in sub[x]
  BY <1>1, LinkFacts
<1>3. x \notin sub[y]
  BY <1>1 DEF Shape, Split, Sub
<1>4. l[y] # x /\ l[y] # y
  BY <1>1, <1>3, LinkFacts
<1>5. p[x] = NULL <=> root = x
  BY DEF Shape, Rooted
<1>6. p[x] # NULL => p[x] \in D /\ (l[p[x]] = x \/ r[p[x]] = x)
  BY <1>1 DEF Shape, Agreed
<1>7. p[x] # NULL => x \in sub[p[x]] /\ p[x] # x /\ ~ (l[p[x]] = x /\ r[p[x]] = x)
  BY <1>1, <1>6, LinkFacts
<1>8. p[x] # y
  BY <1>1, <1>3, <1>7
<1>9. \A z \in D : l[z] = x \/ r[z] = x => z = p[x]
  BY <1>1 DEF Shape, Agreed
<1> QED
  BY <1>1, <1>2, <1>4, <1>5, <1>6, <1>7, <1>8, <1>9

(* The two links a rotation changes on its way, one after the other *)
LEMMA RotateFrees ==
  ASSUME NEW D, NEW root, NEW l, NEW r, NEW p, NEW sub, Shape(D, root, l, r, p, sub),
         NEW x \in D, NEW y \in D, y = r[x], NEW r1, \A z \in D : r1[z] = IF z = x THEN l[y] ELSE r[z],
         NEW l4, \A z \in D : l4[z] = IF l[z] = x THEN y ELSE l[z],
         NEW r4, \A z \in D : r4[z] = IF r1[z] = x THEN y ELSE r1[z]
  PROVE  /\ FreesOnce(D, root, l, r1)
         /\ FreesOnce(D, NewRoot(root, x, y), l4, r4)
<1>1. /\ x # NULL /\ y # NULL /\ y # x
      /\ l[y] \in D \cup {NULL} /\ l[y] # x /\ l[y] # y
  BY Around
<1>2. /\ p[y] = x /\ root # y /\ y \in sub[x] /\ l[y] \in sub[y] \cup {NULL} /\ l[x] # y
      /\ x \in sub[x] /\ x \notin sub[y]
  <2>1. p[y] = x /\ y \in sub[x] /\ x \in sub[x] /\ l[x] # y
    BY <1>1, LinkFacts
  <2>2. l[y] # NULL => l[y] \in sub[y]
    BY LinkFacts
  <2>3. x \notin sub[y] /\ (p[y] = NULL <=> root = y)
    BY <1>1 DEF Shape, Split, Sub, Rooted
  <2> QED
    BY <1>1, <2>1, <2>2, <2>3
<1>3. \A z \in D : (l[z] = y \/ r[z] = y) => z = x
  BY <1>1, <1>2 DEF Shape, Agreed
<1>4. FreesOnce(D, root, l, r1)
  <2>1. PICK R, v : R = Bypassed(D, sub, y, v) /\ v = l[y]
    OBVIOUS
  <2>2. R \subseteq D /\ NewRoot(root, y, v) = root
    BY <1>2, <2>1 DEF Bypassed, NewRoot
  <2>3. \A z \in R : l[z] = IF l[z] = y THEN v ELSE l[z]
    BY <1>2, <1>3, <2>2
  <2>4. \A z \in R : r1[z] = IF r[z] = y THEN v ELSE r[z]
    BY <1>3, <2>1, <2>2
  <2>5. v \in sub[y] \cup {NULL} /\ v # y
    BY <1>1, <1>2, <2>1
  <2>6. FreesOnce(D, NewRoot(root, y, v), l, r1)
    BY <2>1, <2>3, <2>4, <2>5, BypassFrees
  <2> QED
    BY <2>2, <2>6
<1>5. FreesOnce(D, NewRoot(root, x, y), l4, r4)
  <2>1. PICK R : R = Bypassed(D, sub, x, y)
    OBVIOUS
  <2>2. R \subseteq D /\ x \notin R
    BY <1>1, <1>2, <2>1 DEF Bypassed, Sub
  <2>3. \A z \in R : l4[z] = (IF l[z] = x THEN y ELSE l[z]) /\ r4[z] = (IF r[z] = x THEN y ELSE r[z])
    BY <2>2
  <2>4. y \in sub[x] \cup {NULL}
    BY <1>2
  <2> QED
    BY <1>1, <2>1, <2>3, <2>4, BypassFrees
<1> QED
  BY <1>4, <1>5

LEMMA LeftRotateEnds ==
  ASSUME NEW h, NEW D, NEW root, NEW l, NEW r, NEW p, NEW rec, NEW n,
         Ends(h, D, root, l, r, p, rec, n), NEW sub, Shape(D, root, l, r, p, sub),
         IsFiniteSet(D), AllFree(h),
         NEW x \in D, NEW y \in D, y = r[x]
  PROVE  /\ AllFree(left_rotate(h, x))
         /\ Ends(left_rotate(h, x), D, NewRoot(root, x, y), Lifting(D, l, x, y), Yielding(D, l, r, x, y),
                 Parents(D, l, p, x, y), rec, n)
<1> DEFINE b  == l[y]
           h1 == SetRight(h, x, b)
           r1 == [r EXCEPT ![x] = b]
           h2 == SetParentIf(h1, b, x)
           p2 == Told(p, b, x)
           h3 == SetParent(h2, y, p[x])
           p3 == [p2 EXCEPT ![y] = p[x]]
           h4 == Rehang(h3, x, y)
           l4 == Redirected(l, x, y)
           r4 == Redirected(r1, x, y)
           h5 == SetLeft(h4, y, x)
           l5 == [l4 EXCEPT ![y] = x]
           h6 == SetParent(h5, x, y)
           p6 == [p3 EXCEPT ![x] = y]
<1>1. Shape(D, root, l, r, p, sub)
  OBVIOUS
<1>2. /\ x # NULL /\ y # NULL /\ y # x
      /\ b \in D \cup {NULL} /\ b # x /\ b # y
      /\ p[x] \in D \cup {NULL} /\ p[x] # x /\ p[x] # y /\ (p[x] = NULL <=> root = x)
      /\ p[x] # NULL => (l[p[x]] = x \/ r[p[x]] = x) /\ ~ (l[p[x]] = x /\ r[p[x]] = x)
      /\ \A z \in D : l[z] = x \/ r[z] = x => z = p[x]
  BY <1>1, Around
<1>3. l \in [D -> Nat] /\ r \in [D -> Nat] /\ p \in [D -> Nat]
  BY DEF Ends
<1>4. D \subseteq Nat /\ NULL \in Nat
  <2>1. D \subseteq Nat
    BY ReadOf
  <2> QED
    BY <2>1 DEF NULL
<1>5. Right(h, x) = y /\ Left(h, y) = b /\ Parent(h, x) = p[x]
  BY ReadOf
<1>6. left_rotate(h, x) = h6
  BY <1>2, <1>5 DEF left_rotate
<1> HIDE DEF b
<1>7. Ends(h1, D, root, l, r1, p, rec, n)
  BY <1>2, <1>4, SetRightEnds
<1>8. Ends(h2, D, root, l, r1, p2, rec, n)
  <2> HIDE DEF h1, r1
  <2> QED
    BY <1>2, <1>4, <1>7, SetParentIfEnds
<1>9. Ends(h3, D, root, l, r1, p3, rec, n)
  <2> HIDE DEF h2, p2
  <2> QED
    BY <1>2, <1>4, <1>8, SetParentEnds
<1>10. p3[x] = p[x] /\ \A z \in D : r1[z] = IF z = x THEN b ELSE r[z]
  BY <1>2, <1>3 DEF Told
<1>11. Ends(h4, D, NewRoot(root, x, y), l4, r4, p3, rec, n)
  <2> HIDE DEF h3, p3, r1
  <2>1. p3[x] # NULL => /\ l[p3[x]] = x \/ r1[p3[x]] = x
                        /\ ~ (l[p3[x]] = x /\ r1[p3[x]] = x)
    BY <1>2, <1>10
  <2>2. \A z \in D : l[z] = x \/ r1[z] = x => z = p3[x]
    BY <1>2, <1>10
  <2>3. p3[x] \in D \cup {NULL} /\ (p3[x] = NULL <=> root = x) /\ y \in Nat
    BY <1>2, <1>4, <1>10
  <2> QED
    BY <1>9, <2>1, <2>2, <2>3, RehangEnds
<1>12. Ends(h5, D, NewRoot(root, x, y), l5, r4, p3, rec, n)
  <2> HIDE DEF h4, l4
  <2> QED
    BY <1>4, <1>11, SetLeftEnds
<1>13. Ends(h6, D, NewRoot(root, x, y), l5, r4, p6, rec, n)
  <2> HIDE DEF h5, p3
  <2> QED
    BY <1>4, <1>12, SetParentEnds
<1>14. l5 = Lifting(D, l, x, y)
  BY <1>3 DEF Redirected, Lifting
<1>15. r4 = Yielding(D, l, r, x, y)
  <2> HIDE DEF r1
  <2>1. DOMAIN r1 = D
    BY <1>3 DEF r1
  <2> QED
    BY <1>2, <1>10, <2>1 DEF Redirected, Yielding, b
<1>16. p6 = Parents(D, l, p, x, y)
  BY <1>2, <1>3 DEF Told, Parents, b
<1>17. /\ After(h, h1) /\ After(h1, h2) /\ After(h2, h3)
       /\ After(h3, h4) /\ After(h4, h5) /\ After(h5, h6)
  BY StoreAfter
<1>18. FreesOnce(D, root, l, r1) /\ FreesOnce(D, NewRoot(root, x, y), l4, r4)
  <2> HIDE DEF r1, l4, r4
  <2>1. DOMAIN r1 = D
    BY <1>3 DEF r1
  <2>2. \A z \in D : /\ l4[z] = IF l[z] = x THEN y ELSE l[z]
                     /\ r4[z] = IF r1[z] = x THEN y ELSE r1[z]
    BY <1>3, <2>1 DEF l4, r4, Redirected
  <2>3. \A z \in D : r1[z] = IF z = x THEN l[y] ELSE r[z]
    BY <1>10 DEF b
  <2>4. FreesOnce(D, root, l, r1) /\ FreesOnce(D, NewRoot(root, x, y), l4, r4)
    BY <1>1, <2>2, <2>3, RotateFrees
  <2> QED
    BY <2>4
<1>19. FreesOnce(D, NewRoot(root, x, y), l5, r4)
  <2>1. FreesOnce(D, NewRoot(root, x, y), Lifting(D, l, x, y), Yielding(D, l, r, x, y))
    BY <1>1, RotateShape, ShapeFrees
  <2> QED
    BY <1>14, <1>15, <2>1
<1> HIDE DEF h1, h2, h3, h4, h5, h6, r1, l4, l5, r4, p2, p3, p6
<1>20. AllFree(h1) /\ AllFree(h2) /\ AllFree(h3)
  <2>1. AllFree(h1)
    BY <1>7, <1>17, <1>18, AllFreeAfter
  <2>2. AllFree(h2)
    BY <1>8, <1>17, <1>18, <2>1, AllFreeAfter
  <2> QED
    BY <1>9, <1>17, <1>18, <2>1, <2>2, AllFreeAfter
<1>21. AllFree(h4)
  BY <1>11, <1>17, <1>18, <1>20, AllFreeAfter
<1>22. AllFree(h5)
  BY <1>12, <1>17, <1>19, <1>21, AllFreeAfter
<1>23. AllFree(h6)
  BY <1>13, <1>17, <1>19, <1>22, AllFreeAfter
<1> QED
  BY <1>6, <1>13, <1>14, <1>15, <1>16, <1>23

LEMMA RightRotateEnds ==
  ASSUME NEW h, NEW D, NEW root, NEW l, NEW r, NEW p, NEW rec, NEW n,
         Ends(h, D, root, l, r, p, rec, n), NEW sub, Shape(D, root, l, r, p, sub),
         IsFiniteSet(D), AllFree(h),
         NEW x \in D, NEW y \in D, y = l[x]
  PROVE  /\ AllFree(right_rotate(h, x))
         /\ Ends(right_rotate(h, x), D, NewRoot(root, x, y), Yielding(D, r, l, x, y), Lifting(D, r, x, y),
                 Parents(D, r, p, x, y), rec, n)
<1> DEFINE b  == r[y]
           h1 == SetLeft(h, x, b)
           r1 == [l EXCEPT ![x] = b]
           h2 == SetParentIf(h1, b, x)
           p2 == Told(p, b, x)
           h3 == SetParent(h2, y, p[x])
           p3 == [p2 EXCEPT ![y] = p[x]]
           h4 == Rehang(h3, x, y)
           l4 == Redirected(r, x, y)
           r4 == Redirected(r1, x, y)
           h5 == SetRight(h4, y, x)
           l5 == [l4 EXCEPT ![y] = x]
           h6 == SetParent(h5, x, y)
           p6 == [p3 EXCEPT ![x] = y]
<1>1. Shape(D, root, r, l, p, sub)
  BY Mirror
<1>2. /\ x # NULL /\ y # NULL /\ y # x
      /\ b \in D \cup {NULL} /\ b # x /\ b # y
      /\ p[x] \in D \cup {NULL} /\ p[x] # x /\ p[x] # y /\ (p[x] = NULL <=> root = x)
      /\ p[x] # NULL => (l[p[x]] = x \/ r[p[x]] = x) /\ ~ (l[p[x]] = x /\ r[p[x]] = x)
      /\ \A z \in D : l[z] = x \/ r[z] = x => z = p[x]
  BY <1>1, Around
<1>3. l \in [D -> Nat] /\ r \in [D -> Nat] /\ p \in [D -> Nat]
  BY DEF Ends
<1>4. D \subseteq Nat /\ NULL \in Nat
  <2>1. D \subseteq Nat
    BY ReadOf
  <2> QED
    BY <2>1 DEF NULL
<1>5. Left(h, x) = y /\ Right(h, y) = b /\ Parent(h, x) = p[x]
  BY ReadOf
<1>6. right_rotate(h, x) = h6
  BY <1>2, <1>5 DEF right_rotate
<1> HIDE DEF b
<1>7. Ends(h1, D, root, r1, r, p, rec, n)
  BY <1>2, <1>4, SetLeftEnds
<1>8. Ends(h2, D, root, r1, r, p2, rec, n)
  <2> HIDE DEF h1, r1
  <2> QED
    BY <1>2, <1>4, <1>7, SetParentIfEnds
<1>9. Ends(h3, D, root, r1, r, p3, rec, n)
  <2> HIDE DEF h2, p2
  <2> QED
    BY <1>2, <1>4, <1>8, SetParentEnds
<1>10. p3[x] = p[x] /\ \A z \in D : r1[z] = IF z = x THEN b ELSE l[z]
  BY <1>2, <1>3 DEF Told
<1>11. Ends(h4, D, NewRoot(root, x, y), r4, l4, p3, rec, n)
  <2> HIDE DEF h3, p3, r1
  <2>1. p3[x] # NULL => /\ r1[p3[x]] = x \/ r[p3[x]] = x
                        /\ ~ (r1[p3[x]] = x /\ r[p3[x]] = x)
    BY <1>2, <1>10
  <2>2. \A z \in D : r1[z] = x \/ r[z] = x => z = p3[x]
    BY <1>2, <1>10
  <2>3. p3[x] \in D \cup {NULL} /\ (p3[x] = NULL <=> root = x) /\ y \in Nat
    BY <1>2, <1>4, <1>10
  <2> QED
    BY <1>9, <2>1, <2>2, <2>3, RehangEnds
<1>12. Ends(h5, D, NewRoot(root, x, y), r4, l5, p3, rec, n)
  <2> HIDE DEF h4, l4
  <2> QED
    BY <1>4, <1>11, SetRightEnds
<1>13. Ends(h6, D, NewRoot(root, x, y), r4, l5, p6, rec, n)
  <2> HIDE DEF h5, p3
  <2> QED
    BY <1>4, <1>12, SetParentEnds
<1>14. l5 = Lifting(D, r, x, y)
  BY <1>3 DEF Redirected, Lifting
<1>15. r4 = Yielding(D, r, l, x, y)
  <2> HIDE DEF r1
  <2>1. DOMAIN r1 = D
    BY <1>3 DEF r1
  <2> QED
    BY <1>2, <1>10, <2>1 DEF Redirected, Yielding, b
<1>16. p6 = Parents(D, r, p, x, y)
  BY <1>2, <1>3 DEF Told, Parents, b
<1>17. /\ After(h, h1) /\ After(h1, h2) /\ After(h2, h3)
       /\ After(h3, h4) /\ After(h4, h5) /\ After(h5, h6)
  BY StoreAfter
<1>18. FreesOnce(D, root, r1, r) /\ FreesOnce(D, NewRoot(root, x, y), r4, l4)
  <2> HIDE DEF r1, l4, r4
  <2>1. DOMAIN r1 = D
    BY <1>3 DEF r1
  <2>2. \A z \in D : /\ l4[z] = IF r[z] = x THEN y ELSE r[z]
                     /\ r4[z] = IF r1[z] = x THEN y ELSE r1[z]
    BY <1>3, <2>1 DEF l4, r4, Redirected
  <2>3. \A z \in D : r1[z] = IF z = x THEN r[y] ELSE l[z]
    BY <1>10 DEF b
  <2>4. FreesOnce(D, root, r, r1) /\ FreesOnce(D, NewRoot(root, x, y), l4, r4)
    BY <1>1, <2>2, <2>3, RotateFrees
  <2> QED
    BY <2>4, FreesMirror
<1>19. FreesOnce(D, NewRoot(root, x, y), r4, l5)
  <2>1. FreesOnce(D, NewRoot(root, x, y), Lifting(D, r, x, y), Yielding(D, r, l, x, y))
    BY <1>1, RotateShape, ShapeFrees
  <2> QED
    BY <1>14, <1>15, <2>1, FreesMirror
<1> HIDE DEF h1, h2, h3, h4, h5, h6, r1, l4, l5, r4, p2, p3, p6
<1>20. AllFree(h1) /\ AllFree(h2) /\ AllFree(h3)
  <2>1. AllFree(h1)
    BY <1>7, <1>17, <1>18, AllFreeAfter
  <2>2. AllFree(h2)
    BY <1>8, <1>17, <1>18, <2>1, AllFreeAfter
  <2> QED
    BY <1>9, <1>17, <1>18, <2>1, <2>2, AllFreeAfter
<1>21. AllFree(h4)
  BY <1>11, <1>17, <1>18, <1>20, AllFreeAfter
<1>22. AllFree(h5)
  BY <1>12, <1>17, <1>19, <1>21, AllFreeAfter
<1>23. AllFree(h6)
  BY <1>13, <1>17, <1>19, <1>22, AllFreeAfter
<1> QED
  BY <1>6, <1>13, <1>14, <1>15, <1>16, <1>23

-----------------------------------------------------------------------------
(* Splaying *)

Cert(h, D, l, r, p, rec, n, sub) ==
  /\ IsFiniteSet(D) /\ AllFree(h)
  /\ \E root : /\ Ends(h, D, root, l, r, p, rec, n)
               /\ Shape(D, root, l, r, p, sub)
               /\ InOrder(D, l, r, sub)

LEMMA StoreCert ==
  ASSUME NEW h, AllFree(h), NEW g, After(h, g), NEW D, IsFiniteSet(D),
         NEW root, NEW l, NEW r, NEW p, NEW rec, NEW n, NEW sub,
         Ends(g, D, root, l, r, p, rec, n), Shape(D, root, l, r, p, sub), InOrder(D, l, r, sub)
  PROVE  Cert(g, D, l, r, p, rec, n, sub)
<1>1. AllFree(g)
  BY ShapeFrees, AllFreeAfter
<1> QED
  BY <1>1 DEF Cert

(* What a rotation at x did, that lifted its child y from the side r *)
Lifted(D, l, r, p, sub, l2, r2, p2, sub2, x, y) ==
  /\ r2[y] = r[y] /\ p2[y] = p[x]
  /\ p[x] # NULL => /\ l[p[x]] = x => l2[p[x]] = y
                    /\ r[p[x]] = x => r2[p[x]] = y
  /\ \A w : w = y \/ w \in Sub(sub, r[y]) =>
           /\ Above(D, sub2, w) \subseteq Above(D, sub, w) \ {x}
           /\ x \in Above(D, sub, w)

LEMMA LiftedFacts ==
  ASSUME NEW D, NEW root, NEW l, NEW r, NEW p, NEW sub, Shape(D, root, l, r, p, sub),
         NEW x \in D, NEW y \in D, y = r[x]
  PROVE  Lifted(D, l, r, p, sub, Lifting(D, l, x, y), Yielding(D, l, r, x, y),
                Parents(D, l, p, x, y), Subtrees(D, l, sub, x, y), x, y)
<1> DEFINE l2 == Lifting(D, l, x, y)
           r2 == Yielding(D, l, r, x, y)
           p2 == Parents(D, l, p, x, y)
           s2 == Subtrees(D, l, sub, x, y)
<1>1. /\ x # NULL /\ y # NULL /\ y # x
      /\ p[x] \in D \cup {NULL} /\ p[x] # x /\ p[x] # y
  BY Around
<1>2. r[y] # x /\ r[y] # y
  <2>1. Shape(D, root, r, l, p, sub)
    BY Mirror
  <2>2. y \in sub[x] /\ x \in sub[x] /\ (r[y] # NULL => r[y] \in sub[y] /\ r[y] # y)
    BY <1>1, LinkFacts
  <2>3. x \notin sub[y]
    BY <1>1 DEF Shape, Split, Sub
  <2>4. y \in D /\ NULL \notin D
    BY DEF Shape, Typed
  <2> QED
    BY <1>1, <2>2, <2>3, <2>4
<1>3. \A z \in D : /\ l2[z] = IF z = y THEN x ELSE IF l[z] = x THEN y ELSE l[z]
                   /\ r2[z] = IF z = x THEN l[y] ELSE IF r[z] = x THEN y ELSE r[z]
                   /\ p2[z] = IF z = x THEN y ELSE IF z = y THEN p[x] ELSE IF z = l[y] THEN x ELSE p[z]
  BY DEF Lifting, Yielding, Parents
<1>4. \A w : w = y \/ w \in Sub(sub, r[y]) =>
              Above(D, s2, w) \subseteq Above(D, sub, w) \ {x} /\ x \in Above(D, sub, w)
  BY RotateAbove
<1> HIDE DEF l2, r2, p2, s2
<1>5. r2[y] = r[y] /\ p2[y] = p[x]
  BY <1>1, <1>2, <1>3
<1>6. p[x] # NULL => (l[p[x]] = x => l2[p[x]] = y) /\ (r[p[x]] = x => r2[p[x]] = y)
  BY <1>1, <1>3
<1>7. Lifted(D, l, r, p, sub, l2, r2, p2, s2, x, y)
  BY <1>4, <1>5, <1>6 DEF Lifted
<1> QED
  BY <1>7 DEF l2, r2, p2, s2

LEMMA LeftLift ==
  ASSUME NEW h, NEW D, NEW l, NEW r, NEW p, NEW rec, NEW n, NEW sub,
         Cert(h, D, l, r, p, rec, n, sub), NEW x \in D, NEW y \in D, y = r[x]
  PROVE  \E l2, r2, p2, sub2 : /\ Cert(left_rotate(h, x), D, l2, r2, p2, rec, n, sub2)
                               /\ Lifted(D, l, r, p, sub, l2, r2, p2, sub2, x, y)
<1>1. PICK root : /\ Ends(h, D, root, l, r, p, rec, n)
                  /\ Shape(D, root, l, r, p, sub)
                  /\ InOrder(D, l, r, sub)
  BY DEF Cert
<1>0. IsFiniteSet(D) /\ AllFree(h)
  BY DEF Cert
<1>2. PICK l2, r2, p2, sub2, root2 :
        /\ l2 = Lifting(D, l, x, y) /\ r2 = Yielding(D, l, r, x, y)
        /\ p2 = Parents(D, l, p, x, y) /\ sub2 = Subtrees(D, l, sub, x, y)
        /\ root2 = NewRoot(root, x, y)
  OBVIOUS
<1>3. Shape(D, root, l, r, p, sub)
  BY <1>1
<1>4. AllFree(left_rotate(h, x)) /\ Ends(left_rotate(h, x), D, root2, l2, r2, p2, rec, n)
  BY <1>0, <1>1, <1>2, LeftRotateEnds
<1>5. Shape(D, root2, l2, r2, p2, sub2)
  BY <1>2, <1>3, RotateShape
<1>6. Shape(D, root2, l2, r2, p2, sub2)
  BY <1>5
<1>7. D \in SUBSET Int
  BY <1>1, ReadOf
<1>8. InOrder(D, l2, r2, sub2)
  BY <1>1, <1>2, <1>3, <1>7, RotateInOrder
<1>9. Lifted(D, l, r, p, sub, l2, r2, p2, sub2, x, y)
  BY <1>2, <1>3, LiftedFacts
<1> QED
  BY <1>0, <1>4, <1>6, <1>8, <1>9 DEF Cert

LEMMA RightLift ==
  ASSUME NEW h, NEW D, NEW l, NEW r, NEW p, NEW rec, NEW n, NEW sub,
         Cert(h, D, l, r, p, rec, n, sub), NEW x \in D, NEW y \in D, y = l[x]
  PROVE  \E l2, r2, p2, sub2 : /\ Cert(right_rotate(h, x), D, l2, r2, p2, rec, n, sub2)
                               /\ Lifted(D, r, l, p, sub, r2, l2, p2, sub2, x, y)
<1>1. PICK root : /\ Ends(h, D, root, l, r, p, rec, n)
                  /\ Shape(D, root, l, r, p, sub)
                  /\ InOrder(D, l, r, sub)
  BY DEF Cert
<1>0. IsFiniteSet(D) /\ AllFree(h)
  BY DEF Cert
<1>2. PICK l2, r2, p2, sub2, root2 :
        /\ r2 = Lifting(D, r, x, y) /\ l2 = Yielding(D, r, l, x, y)
        /\ p2 = Parents(D, r, p, x, y) /\ sub2 = Subtrees(D, r, sub, x, y)
        /\ root2 = NewRoot(root, x, y)
  OBVIOUS
<1>3. Shape(D, root, r, l, p, sub)
  BY <1>1, Mirror
<1>4. AllFree(right_rotate(h, x)) /\ Ends(right_rotate(h, x), D, root2, l2, r2, p2, rec, n)
  BY <1>0, <1>1, <1>2, RightRotateEnds
<1>5. Shape(D, root2, r2, l2, p2, sub2)
  BY <1>2, <1>3, RotateShape
<1>6. Shape(D, root2, l2, r2, p2, sub2)
  BY <1>5, Mirror
<1>7. D \in SUBSET Int
  BY <1>1, ReadOf
<1>8. InOrder(D, l2, r2, sub2)
  BY <1>1, <1>2, <1>3, <1>7, RotateInOrder
<1>9. Lifted(D, r, l, p, sub, r2, l2, p2, sub2, x, y)
  BY <1>2, <1>3, LiftedFacts
<1> QED
  BY <1>0, <1>4, <1>6, <1>8, <1>9 DEF Cert

LEMMA ReadCert ==
  ASSUME NEW h, NEW D, NEW l, NEW r, NEW p, NEW rec, NEW n, NEW sub,
         Cert(h, D, l, r, p, rec, n, sub)
  PROVE  /\ Allocated(Now(h)) = D
         /\ \A z \in D : /\ Left(h, z) = l[z] /\ Right(h, z) = r[z] /\ Parent(h, z) = p[z]
                         /\ Now(h).node[z].record = rec[z]
                         /\ l[z] \in D \cup {NULL} /\ r[z] \in D \cup {NULL} /\ p[z] \in D \cup {NULL}
                         /\ l[z] # NULL => p[l[z]] = z
                         /\ r[z] # NULL => p[r[z]] = z
                         /\ p[z] # NULL => z = l[p[z]] \/ z = r[p[z]]
                         /\ z \in sub[z]
         /\ D \subseteq Nat /\ NULL \notin D
<1>1. PICK root : Ends(h, D, root, l, r, p, rec, n) /\ Shape(D, root, l, r, p, sub)
  BY DEF Cert
<1>2. \A z \in D : /\ l[z] \in D \cup {NULL} /\ r[z] \in D \cup {NULL} /\ p[z] \in D \cup {NULL}
                   /\ z \in sub[z]
  BY <1>1, LinkFacts DEF Shape, Typed
<1>3. \A z \in D : /\ l[z] # NULL => p[l[z]] = z
                   /\ r[z] # NULL => p[r[z]] = z
                   /\ p[z] # NULL => z = l[p[z]] \/ z = r[p[z]]
  BY <1>1 DEF Shape, Agreed
<1>4. /\ Allocated(Now(h)) = D /\ D \subseteq Nat /\ NULL \notin D
      /\ \A z \in D : /\ Left(h, z) = l[z] /\ Right(h, z) = r[z] /\ Parent(h, z) = p[z]
                      /\ Now(h).node[z].record = rec[z]
  BY <1>1, ReadOf
<1> QED
  BY <1>2, <1>3, <1>4

(* The rotations of one turn *)
LEMMA LeftLeft ==
  ASSUME NEW h, NEW D, NEW l, NEW r, NEW p, NEW rec, NEW n, NEW sub,
         Cert(h, D, l, r, p, rec, n, sub), NEW x \in D, NEW y \in D, NEW z \in D,
         y = r[z], x = r[y]
  PROVE  \E l2, r2, p2, sub2 : /\ Cert(left_rotate(left_rotate(h, z), y), D, l2, r2, p2, rec, n, sub2)
                               /\ Above(D, sub2, x) \subseteq Above(D, sub, x) \ {z}
                               /\ z \in Above(D, sub, x)
<1>0. x \in Sub(sub, r[y])
  BY ReadCert DEF Sub
<1>1. PICK l1, r1, p1, sub1 : /\ Cert(left_rotate(h, z), D, l1, r1, p1, rec, n, sub1)
                              /\ Lifted(D, l, r, p, sub, l1, r1, p1, sub1, z, y)
  BY LeftLift
<1>2. r1[y] = x
  BY <1>1 DEF Lifted
<1>3. PICK l2, r2, p2, sub2 : /\ Cert(left_rotate(left_rotate(h, z), y), D, l2, r2, p2, rec, n, sub2)
                              /\ Lifted(D, l1, r1, p1, sub1, l2, r2, p2, sub2, y, x)
  BY <1>1, <1>2, LeftLift
<1>4. Above(D, sub1, x) \subseteq Above(D, sub, x) \ {z} /\ z \in Above(D, sub, x)
  BY <1>0, <1>1 DEF Lifted
<1>5. Above(D, sub2, x) \subseteq Above(D, sub1, x)
  BY <1>3 DEF Lifted
<1> QED
  BY <1>3, <1>4, <1>5

LEMMA RightRight ==
  ASSUME NEW h, NEW D, NEW l, NEW r, NEW p, NEW rec, NEW n, NEW sub,
         Cert(h, D, l, r, p, rec, n, sub), NEW x \in D, NEW y \in D, NEW z \in D,
         y = l[z], x = l[y]
  PROVE  \E l2, r2, p2, sub2 : /\ Cert(right_rotate(right_rotate(h, z), y), D, l2, r2, p2, rec, n, sub2)
                               /\ Above(D, sub2, x) \subseteq Above(D, sub, x) \ {z}
                               /\ z \in Above(D, sub, x)
<1>0. x \in Sub(sub, l[y])
  BY ReadCert DEF Sub
<1>1. PICK l1, r1, p1, sub1 : /\ Cert(right_rotate(h, z), D, l1, r1, p1, rec, n, sub1)
                              /\ Lifted(D, r, l, p, sub, r1, l1, p1, sub1, z, y)
  BY RightLift
<1>2. l1[y] = x
  BY <1>1 DEF Lifted
<1>3. PICK l2, r2, p2, sub2 : /\ Cert(right_rotate(right_rotate(h, z), y), D, l2, r2, p2, rec, n, sub2)
                              /\ Lifted(D, r1, l1, p1, sub1, r2, l2, p2, sub2, y, x)
  BY <1>1, <1>2, RightLift
<1>4. Above(D, sub1, x) \subseteq Above(D, sub, x) \ {z} /\ z \in Above(D, sub, x)
  BY <1>0, <1>1 DEF Lifted
<1>5. Above(D, sub2, x) \subseteq Above(D, sub1, x)
  BY <1>3 DEF Lifted
<1> QED
  BY <1>3, <1>4, <1>5

LEMMA LeftRight ==
  ASSUME NEW h, NEW D, NEW l, NEW r, NEW p, NEW rec, NEW n, NEW sub,
         Cert(h, D, l, r, p, rec, n, sub), NEW x \in D, NEW y \in D, NEW z \in D,
         y = l[z], x = r[y]
  PROVE  \E l2, r2, p2, sub2 : /\ Parent(left_rotate(h, y), x) = z
                               /\ Cert(right_rotate(left_rotate(h, y), z), D, l2, r2, p2, rec, n, sub2)
                               /\ Above(D, sub2, x) \subseteq Above(D, sub, x) \ {y}
                               /\ y \in Above(D, sub, x)
<1>0. p[y] = z /\ z # NULL
  BY ReadCert
<1>1. PICK l1, r1, p1, sub1 : /\ Cert(left_rotate(h, y), D, l1, r1, p1, rec, n, sub1)
                              /\ Lifted(D, l, r, p, sub, l1, r1, p1, sub1, y, x)
  BY LeftLift
<1>2. l1[z] = x /\ p1[x] = z
  BY <1>0, <1>1 DEF Lifted
<1>3. PICK l2, r2, p2, sub2 : /\ Cert(right_rotate(left_rotate(h, y), z), D, l2, r2, p2, rec, n, sub2)
                              /\ Lifted(D, r1, l1, p1, sub1, r2, l2, p2, sub2, z, x)
  BY <1>1, <1>2, RightLift
<1>4. Above(D, sub1, x) \subseteq Above(D, sub, x) \ {y} /\ y \in Above(D, sub, x)
  BY <1>1 DEF Lifted
<1>5. Above(D, sub2, x) \subseteq Above(D, sub1, x)
  BY <1>3 DEF Lifted
<1>6. Parent(left_rotate(h, y), x) = z
  BY <1>1, <1>2, ReadCert
<1> QED
  BY <1>3, <1>4, <1>5, <1>6

LEMMA RightLeft ==
  ASSUME NEW h, NEW D, NEW l, NEW r, NEW p, NEW rec, NEW n, NEW sub,
         Cert(h, D, l, r, p, rec, n, sub), NEW x \in D, NEW y \in D, NEW z \in D,
         y = r[z], x = l[y]
  PROVE  \E l2, r2, p2, sub2 : /\ Parent(right_rotate(h, y), x) = z
                               /\ Cert(left_rotate(right_rotate(h, y), z), D, l2, r2, p2, rec, n, sub2)
                               /\ Above(D, sub2, x) \subseteq Above(D, sub, x) \ {y}
                               /\ y \in Above(D, sub, x)
<1>0. p[y] = z /\ z # NULL
  BY ReadCert
<1>1. PICK l1, r1, p1, sub1 : /\ Cert(right_rotate(h, y), D, l1, r1, p1, rec, n, sub1)
                              /\ Lifted(D, r, l, p, sub, r1, l1, p1, sub1, y, x)
  BY RightLift
<1>2. r1[z] = x /\ p1[x] = z
  BY <1>0, <1>1 DEF Lifted
<1>3. PICK l2, r2, p2, sub2 : /\ Cert(left_rotate(right_rotate(h, y), z), D, l2, r2, p2, rec, n, sub2)
                              /\ Lifted(D, l1, r1, p1, sub1, l2, r2, p2, sub2, z, x)
  BY <1>1, <1>2, LeftLift
<1>4. Above(D, sub1, x) \subseteq Above(D, sub, x) \ {y} /\ y \in Above(D, sub, x)
  BY <1>1 DEF Lifted
<1>5. Above(D, sub2, x) \subseteq Above(D, sub1, x)
  BY <1>3 DEF Lifted
<1>6. Parent(right_rotate(h, y), x) = z
  BY <1>1, <1>2, ReadCert
<1> QED
  BY <1>3, <1>4, <1>5, <1>6

(* A turn keeps the tree a search tree and takes x nearer to the root. *)
LEMMA TurnCert ==
  ASSUME NEW h, NEW D, NEW l, NEW r, NEW p, NEW rec, NEW n, NEW sub,
         Cert(h, D, l, r, p, rec, n, sub), NEW x \in D, p[x] # NULL
  PROVE  \E l2, r2, p2, sub2, a :
           /\ Cert(SplayTurn(h, x), D, l2, r2, p2, rec, n, sub2)
           /\ Above(D, sub2, x) \subseteq Above(D, sub, x) \ {a} /\ a \in Above(D, sub, x)
<1>1. PICK y : y = p[x]
  OBVIOUS
<1>2. y \in D /\ Parent(h, x) = y /\ (x = l[y] \/ x = r[y]) /\ (Left(h, y) = x <=> l[y] = x)
  BY <1>1, ReadCert
<1>3. PICK z : z = p[y]
  OBVIOUS
<1>4. Parent(h, y) = z /\ (z # NULL => /\ z \in D /\ (y = l[z] \/ y = r[z])
                                       /\ (Left(h, z) = y <=> l[z] = y))
  BY <1>2, <1>3, ReadCert
<1>5. CASE z = NULL /\ l[y] = x
  <2>1. SplayTurn(h, x) = right_rotate(h, y)
    BY <1>2, <1>4, <1>5 DEF SplayTurn
  <2>2. PICK l2, r2, p2, sub2 : /\ Cert(right_rotate(h, y), D, l2, r2, p2, rec, n, sub2)
                                /\ Lifted(D, r, l, p, sub, r2, l2, p2, sub2, y, x)
    BY <1>2, <1>5, RightLift
  <2>3. Above(D, sub2, x) \subseteq Above(D, sub, x) \ {y} /\ y \in Above(D, sub, x)
    BY <2>2 DEF Lifted
  <2> QED
    BY <2>1, <2>2, <2>3
<1>6. CASE z = NULL /\ l[y] # x
  <2>1. SplayTurn(h, x) = left_rotate(h, y)
    BY <1>2, <1>4, <1>6 DEF SplayTurn
  <2>2. PICK l2, r2, p2, sub2 : /\ Cert(left_rotate(h, y), D, l2, r2, p2, rec, n, sub2)
                                /\ Lifted(D, l, r, p, sub, l2, r2, p2, sub2, y, x)
    BY <1>2, <1>6, LeftLift
  <2>3. Above(D, sub2, x) \subseteq Above(D, sub, x) \ {y} /\ y \in Above(D, sub, x)
    BY <2>2 DEF Lifted
  <2> QED
    BY <2>1, <2>2, <2>3
<1>7. CASE z # NULL /\ l[y] = x /\ l[z] = y
  <2>1. SplayTurn(h, x) = right_rotate(right_rotate(h, z), y)
    BY <1>2, <1>4, <1>7 DEF SplayTurn
  <2>2. PICK l2, r2, p2, sub2 :
          /\ Cert(right_rotate(right_rotate(h, z), y), D, l2, r2, p2, rec, n, sub2)
          /\ Above(D, sub2, x) \subseteq Above(D, sub, x) \ {z} /\ z \in Above(D, sub, x)
    BY <1>2, <1>4, <1>7, RightRight
  <2> QED
    BY <2>1, <2>2
<1>8. CASE z # NULL /\ l[y] # x /\ l[z] # y
  <2>1. SplayTurn(h, x) = left_rotate(left_rotate(h, z), y)
    BY <1>2, <1>4, <1>8 DEF SplayTurn
  <2>2. PICK l2, r2, p2, sub2 :
          /\ Cert(left_rotate(left_rotate(h, z), y), D, l2, r2, p2, rec, n, sub2)
          /\ Above(D, sub2, x) \subseteq Above(D, sub, x) \ {z} /\ z \in Above(D, sub, x)
    BY <1>2, <1>4, <1>8, LeftLeft
  <2> QED
    BY <2>1, <2>2
<1>9. CASE z # NULL /\ l[y] = x /\ l[z] # y
  <2>1. PICK l2, r2, p2, sub2 :
          /\ Parent(right_rotate(h, y), x) = z
          /\ Cert(left_rotate(right_rotate(h, y), z), D, l2, r2, p2, rec, n, sub2)
          /\ Above(D, sub2, x) \subseteq Above(D, sub, x) \ {y} /\ y \in Above(D, sub, x)
    BY <1>2, <1>4, <1>9, RightLeft
  <2>2. SplayTurn(h, x) = left_rotate(right_rotate(h, y), z)
    BY <1>2, <1>4, <1>9, <2>1 DEF SplayTurn
  <2> QED
    BY <2>1, <2>2
<1>10. CASE z # NULL /\ l[y] # x /\ l[z] = y
  <2>1. PICK l2, r2, p2, sub2 :
          /\ Parent(left_rotate(h, y), x) = z
          /\ Cert(right_rotate(left_rotate(h, y), z), D, l2, r2, p2, rec, n, sub2)
          /\ Above(D, sub2, x) \subseteq Above(D, sub, x) \ {y} /\ y \in Above(D, sub, x)
    BY <1>2, <1>4, <1>10, LeftRight
  <2>2. SplayTurn(h, x) = right_rotate(left_rotate(h, y), z)
    BY <1>2, <1>4, <1>10, <2>1 DEF SplayTurn
  <2> QED
    BY <2>1, <2>2
<1> QED
  BY <1>5, <1>6, <1>7, <1>8, <1>9, <1>10
-----------------------------------------------------------------------------
(* Loops *)

LEMMA LeastNatural ==
  ASSUME NEW T \in SUBSET Nat, T # {}
  PROVE  \E n \in T : \A m \in T : n <= m
<1>1. PICK n \in T : \A m \in T : ~ (<<m, n>> \in OpToRel(<, Nat))
  BY NatLessThanWellFounded, WFMin
<1>2. ASSUME NEW m \in T
      PROVE  n <= m
  <2>1. ASSUME m < n PROVE FALSE
    <3>1. <<m, n>> \in Nat \X Nat /\ <<m, n>>[1] < <<m, n>>[2]
      BY <2>1
    <3>2. <<m, n>> \in OpToRel(<, Nat)
      BY <3>1, Zenon DEF OpToRel
    <3> QED
      BY <1>1, <3>2
  <2> QED
    BY <2>1
<1> QED
  BY <1>2

IsRun(F, g, s, n) == g = [k \in 0 .. n |-> IF k = 0 THEN s ELSE F[g[k - 1]]]

LEMMA RunExists ==
  ASSUME NEW F, NEW s, NEW n \in Nat
  PROVE  \E g : IsRun(F, g, s, n)
<1> DEFINE Bad == {k \in Nat : ~ \E g : IsRun(F, g, s, k)}
<1> SUFFICES ASSUME Bad # {} PROVE FALSE
  OBVIOUS
<1>1. PICK k \in Bad : \A j \in Bad : k <= j
  BY LeastNatural
<1>2. CASE k = 0
  <2>1. PICK g : g = [j \in 0 .. 0 |-> s]
    OBVIOUS
  <2>2. IsRun(F, g, s, 0)
    BY <2>1 DEF IsRun
  <2> QED
    BY <1>1, <1>2, <2>2
<1>3. CASE k # 0
  <2>1. k \in Nat /\ k - 1 \in Nat /\ k - 1 \notin Bad
    BY <1>1, <1>3
  <2>2. PICK g : IsRun(F, g, s, k - 1)
    BY <2>1
  <2>3. PICK f : f = [j \in 0 .. k |-> IF j = k THEN F[g[k - 1]] ELSE g[j]]
    OBVIOUS
  <2>4. \A j \in 0 .. k - 1 : f[j] = g[j] /\ g[j] = IF j = 0 THEN s ELSE F[g[j - 1]]
    BY <2>1, <2>2, <2>3 DEF IsRun
  <2>5. ASSUME NEW j \in 0 .. k
        PROVE  f[j] = IF j = 0 THEN s ELSE F[f[j - 1]]
    <3>1. CASE j = k
      <4>1. f[k - 1] = g[k - 1] /\ f[k] = F[g[k - 1]]
        BY <2>1, <2>3, <2>4
      <4> QED
        BY <1>3, <3>1, <4>1
    <3>2. CASE j # k
      <4>1. j \in 0 .. k - 1 /\ (j # 0 => j - 1 \in 0 .. k - 1)
        BY <2>1, <3>2
      <4>2. f[j] = g[j] /\ g[j] = (IF j = 0 THEN s ELSE F[g[j - 1]]) /\ (j # 0 => f[j - 1] = g[j - 1])
        BY <2>4, <4>1
      <4> QED
        BY <4>2
    <3> QED
      BY <3>1, <3>2
  <2>6. IsRun(F, f, s, k)
    BY <2>3, <2>5 DEF IsRun
  <2> QED
    BY <1>1, <2>6
<1> QED
  BY <1>2, <1>3

(* What holds of a loop's first state and from turn to turn holds of its   *)
(* last state.                                                             *)
LEMMA RunHolds ==
  ASSUME NEW g, NEW n \in Nat, NEW P, <<0, g[0]>> \in P,
         \A k \in 0 .. n - 1 : <<k, g[k]>> \in P => <<k + 1, g[k + 1]>> \in P
  PROVE  \A k \in 0 .. n : <<k, g[k]>> \in P
<1> DEFINE Bad == {k \in 0 .. n : <<k, g[k]>> \notin P}
<1> SUFFICES ASSUME Bad # {} PROVE FALSE
  OBVIOUS
<1>0. Bad \in SUBSET Nat
  OBVIOUS
<1>1. PICK k \in Bad : \A j \in Bad : k <= j
  <2> HIDE DEF Bad
  <2> QED
    BY <1>0, LeastNatural
<1>2. k # 0 /\ k \in 0 .. n /\ <<k, g[k]>> \notin P
  BY <1>1
<1>3. k - 1 \in 0 .. n - 1 /\ k - 1 \notin Bad /\ k - 1 \in 0 .. n
  BY <1>1, <1>2
<1>4. <<k - 1, g[k - 1]>> \in P
  BY <1>3
<1>5. <<k - 1 + 1, g[k - 1 + 1]>> \in P /\ k - 1 + 1 = k
  BY <1>2, <1>3, <1>4
<1> QED
  BY <1>2, <1>5

LEMMA AboveLess ==
  ASSUME NEW D, IsFiniteSet(D), NEW sub, NEW sub2, NEW x, NEW a \in Above(D, sub, x),
         Above(D, sub2, x) \subseteq Above(D, sub, x) \ {a}
  PROVE  Cardinality(Above(D, sub2, x)) + 1 <= Cardinality(Above(D, sub, x))
<1> DEFINE A == Above(D, sub, x)
           B == Above(D, sub2, x)
<1>1. IsFiniteSet(A) /\ Cardinality(A) \in Nat
  <2>1. A \subseteq D
    BY DEF Above
  <2> QED
    BY <2>1, FS_Subset, FS_CardinalityType
<1>2. IsFiniteSet(A \ {a}) /\ Cardinality(A \ {a}) = Cardinality(A) - 1
  BY <1>1, FS_RemoveElement
<1>3. IsFiniteSet(B) /\ Cardinality(B) <= Cardinality(A \ {a}) /\ Cardinality(B) \in Nat
  BY <1>2, FS_Subset, FS_CardinalityType
<1> QED
  BY <1>1, <1>2, <1>3

(* Splaying makes x the root. *)
SplayStates(D, rec, n, x) ==
  {s \in Nat \X Seq(Trees) :
     \E l, r, p, sub : /\ Cert(s[2], D, l, r, p, rec, n, sub)
                       /\ p[x] = NULL \/ Cardinality(Above(D, sub, x)) + s[1] <= Cardinality(D)}

LEMMA SplayStep ==
  ASSUME NEW D, IsFiniteSet(D), NEW rec, NEW n, NEW x \in D, NEW k \in Nat, NEW t,
         <<k, t>> \in SplayStates(D, rec, n, x)
  PROVE  <<k + 1, SplayUnlessRoot(t, x)>> \in SplayStates(D, rec, n, x)
<1>1. PICK l, r, p, sub : /\ t \in Seq(Trees) /\ Cert(t, D, l, r, p, rec, n, sub)
                          /\ p[x] = NULL \/ Cardinality(Above(D, sub, x)) + k <= Cardinality(D)
  BY DEF SplayStates
<1>2. Parent(t, x) = p[x]
  BY <1>1, ReadCert
<1>3. CASE p[x] = NULL
  <2>1. SplayUnlessRoot(t, x) = t
    BY <1>2, <1>3 DEF SplayUnlessRoot
  <2> QED
    BY <1>1, <1>3, <2>1 DEF SplayStates
<1>4. CASE p[x] # NULL
  <2>1. SplayUnlessRoot(t, x) = SplayTurn(t, x)
    BY <1>2, <1>4 DEF SplayUnlessRoot
  <2>2. PICK l2, r2, p2, sub2, a :
           /\ Cert(SplayTurn(t, x), D, l2, r2, p2, rec, n, sub2)
           /\ Above(D, sub2, x) \subseteq Above(D, sub, x) \ {a} /\ a \in Above(D, sub, x)
    BY <1>1, <1>4, TurnCert
  <2>3. Cardinality(Above(D, sub2, x)) + 1 <= Cardinality(Above(D, sub, x))
    BY <2>2, AboveLess
  <2>4. Cardinality(Above(D, sub2, x)) \in Nat /\ Cardinality(Above(D, sub, x)) \in Nat
        /\ Cardinality(D) \in Nat
    <3>1. Above(D, sub2, x) \subseteq D /\ Above(D, sub, x) \subseteq D
      BY DEF Above
    <3> QED
      BY <3>1, FS_Subset, FS_CardinalityType
  <2>5. Cardinality(Above(D, sub2, x)) + (k + 1) <= Cardinality(D)
    BY <1>1, <1>4, <2>3, <2>4
  <2>6. SplayTurn(t, x) \in Seq(Trees)
    BY <2>2 DEF Cert, Ends
  <2> QED
    BY <2>1, <2>2, <2>5, <2>6 DEF SplayStates
<1> QED
  BY <1>3, <1>4

LEMMA SplayCert ==
  ASSUME NEW h, NEW D, IsFiniteSet(D), NEW l, NEW r, NEW p, NEW rec, NEW n, NEW sub,
         Cert(h, D, l, r, p, rec, n, sub), NEW x \in D
  PROVE  \E l2, r2, p2, sub2 : Cert(splay(h, x), D, l2, r2, p2, rec, n, sub2) /\ p2[x] = NULL
<1> DEFINE N == Cardinality(D)
           P == SplayStates(D, rec, n, x)
           S == {t \in Seq(Trees) : \E k \in Nat : <<k, t>> \in P}
           F == [t \in S |-> SplayUnlessRoot(t, x)]
<1>1. N \in Nat /\ Size(h) = N
  BY FS_CardinalityType, ReadCert DEF Size
<1>2. <<0, h>> \in P
  <2>1. Above(D, sub, x) \subseteq D
    BY DEF Above
  <2>2. Cardinality(Above(D, sub, x)) + 0 <= N
    BY <1>1, <2>1, FS_Subset, FS_CardinalityType
  <2>3. h \in Seq(Trees)
    BY DEF Cert, Ends
  <2> QED
    BY <2>2, <2>3 DEF SplayStates
<1>3. \A k \in Nat : \A t : <<k, t>> \in P => t \in S /\ <<k + 1, SplayUnlessRoot(t, x)>> \in P
  <2>1. \A k \in Nat : \A t : <<k, t>> \in P => <<k + 1, SplayUnlessRoot(t, x)>> \in P
    BY SplayStep
  <2>2. \A k \in Nat : \A t : <<k, t>> \in P => t \in S
    BY DEF SplayStates
  <2> QED
    BY <2>1, <2>2
<1> HIDE DEF P, N
<1>4. PICK g : IsRun(F, g, h, N)
  BY <1>1, RunExists
<1>f. \A t \in S : F[t] = SplayUnlessRoot(t, x)
  OBVIOUS
<1> HIDE DEF S, F
<1>5. g[0] = h /\ \A k \in 0 .. N - 1 : g[k + 1] = F[g[k]]
  BY <1>1, <1>4 DEF IsRun
<1>6. \A k \in 0 .. N - 1 : <<k, g[k]>> \in P => <<k + 1, g[k + 1]>> \in P
  <2> SUFFICES ASSUME NEW k \in 0 .. N - 1, <<k, g[k]>> \in P PROVE <<k + 1, g[k + 1]>> \in P
    OBVIOUS
  <2>1. k \in Nat /\ g[k + 1] = F[g[k]]
    BY <1>1, <1>5
  <2>2. g[k] \in S /\ <<k + 1, SplayUnlessRoot(g[k], x)>> \in P
    BY <1>3, <2>1
  <2> QED
    BY <1>f, <2>1, <2>2
<1>7. \A k \in 0 .. N : <<k, g[k]>> \in P
  BY <1>1, <1>2, <1>5, <1>6, RunHolds
<1>8. g = [k \in 0 .. N |-> IF k = 0 THEN h ELSE SplayUnlessRoot(g[k - 1], x)]
  <2>1. \A k \in 0 .. N : k # 0 => F[g[k - 1]] = SplayUnlessRoot(g[k - 1], x)
    <3> SUFFICES ASSUME NEW k \in 0 .. N, k # 0 PROVE F[g[k - 1]] = SplayUnlessRoot(g[k - 1], x)
      OBVIOUS
    <3>1. k - 1 \in 0 .. N /\ k - 1 \in Nat
      BY <1>1
    <3> QED
      BY <1>3, <1>7, <1>f, <3>1
  <2> QED
    BY <1>4, <2>1 DEF IsRun
<1>9. PICK f : /\ f = [k \in 0 .. N |-> IF k = 0 THEN h ELSE SplayUnlessRoot(f[k - 1], x)]
               /\ splay(h, x) = f[N]
  BY <1>1, <1>8 DEF splay, Loop
<1>10. f[0] = h /\ \A k \in 0 .. N - 1 : f[k + 1] = SplayUnlessRoot(f[k], x)
  BY <1>1, <1>9
<1>11. <<N, f[N]>> \in P
  <2>1. \A k \in 0 .. N - 1 : <<k, f[k]>> \in P => <<k + 1, f[k + 1]>> \in P
    BY <1>1, <1>3, <1>10
  <2>2. \A k \in 0 .. N : <<k, f[k]>> \in P
    BY <1>1, <1>2, <1>10, <2>1, RunHolds
  <2> QED
    BY <1>1, <2>2
<1>12. PICK l2, r2, p2, sub2 :
         /\ Cert(splay(h, x), D, l2, r2, p2, rec, n, sub2)
         /\ p2[x] = NULL \/ Cardinality(Above(D, sub2, x)) + N <= N
  <2>1. <<N, splay(h, x)>> \in SplayStates(D, rec, n, x)
    BY <1>9, <1>11 DEF P
  <2>2. Cardinality(D) = N
    BY DEF N
  <2> QED
    BY <2>1, <2>2 DEF SplayStates
<1>13. p2[x] = NULL
  <2>1. x \in Above(D, sub2, x) /\ Above(D, sub2, x) \subseteq D
    BY <1>12, ReadCert DEF Above
  <2>2. Cardinality(Above(D, sub2, x)) \in Nat \ {0}
    BY <2>1, FS_Subset, FS_CardinalityType, FS_EmptySet
  <2> QED
    BY <1>1, <1>12, <2>2
<1> QED
  BY <1>12, <1>13
-----------------------------------------------------------------------------
(* Descents *)

LEMMA RunWithin ==
  ASSUME NEW F, NEW s, NEW n \in Nat, NEW P, <<0, s>> \in P,
         \A k \in Nat : \A t : <<k, t>> \in P => <<k + 1, F[t]>> \in P
  PROVE  \E g : IsRun(F, g, s, n) /\ \A k \in 0 .. n : <<k, g[k]>> \in P
<1>1. PICK g : IsRun(F, g, s, n)
  BY RunExists
<1>2. g[0] = s /\ \A k \in 0 .. n - 1 : g[k + 1] = F[g[k]]
  BY <1>1 DEF IsRun
<1>3. \A k \in 0 .. n - 1 : <<k, g[k]>> \in P => <<k + 1, g[k + 1]>> \in P
  <2> SUFFICES ASSUME NEW k \in 0 .. n - 1, <<k, g[k]>> \in P PROVE <<k + 1, g[k + 1]>> \in P
    OBVIOUS
  <2>1. k \in Nat /\ g[k + 1] = F[g[k]]
    BY <1>2
  <2> QED
    BY <2>1
<1>4. \A k \in 0 .. n : <<k, g[k]>> \in P
  BY <1>2, <1>3, RunHolds
<1> QED
  BY <1>1, <1>4

(* All of a subtree is on one side of a node above it. *)
LEMMA SameSide ==
  ASSUME NEW D \in SUBSET Int, NEW root, NEW l, NEW r, NEW p, NEW sub,
         Shape(D, root, l, r, p, sub), InOrder(D, l, r, sub),
         NEW a \in D, NEW z \in sub[a], z # a, NEW c \in sub[z]
  PROVE  z < a <=> c < a
<1>t. /\ NULL \notin D /\ sub[a] \subseteq D
      /\ \A w \in D : l[w] \in D \cup {NULL} /\ r[w] \in D \cup {NULL}
  BY DEF Shape, Typed
<1>1. z \in Sub(sub, l[a]) \/ z \in Sub(sub, r[a])
  BY DEF Shape, Split
<1>2. \A w \in D : z \in sub[w] => c \in sub[w] /\ c \in D
  BY <1>t DEF Shape, Nested, Typed
<1>3. CASE z \in Sub(sub, l[a])
  <2>1. l[a] \in D /\ z \in sub[l[a]] /\ Sub(sub, l[a]) = sub[l[a]]
    BY <1>t, <1>3 DEF Sub
  <2>2. c \in Sub(sub, l[a])
    BY <1>2, <2>1
  <2> QED
    BY <1>3, <2>2 DEF InOrder
<1>4. CASE z \in Sub(sub, r[a])
  <2>1. r[a] \in D /\ z \in sub[r[a]] /\ Sub(sub, r[a]) = sub[r[a]]
    BY <1>t, <1>4 DEF Sub
  <2>2. c \in Sub(sub, r[a])
    BY <1>2, <2>1
  <2>3. a < z /\ a < c /\ a \in Int /\ z \in Int /\ c \in Int
    BY <1>t, <1>2, <1>4, <2>1, <2>2 DEF InOrder
  <2> QED
    BY <2>3
<1> QED
  BY <1>1, <1>3, <1>4

Facing(D, sub, q, key) == \A a \in D \ {q} : q \in sub[a] => (key < a <=> q < a)

(* Where a descent for key stands: at is the node it has come to, q the    *)
(* one before, and m the nearest it met.                                   *)
Standing(D, l, r, p, sub, key, at, q, m) ==
  /\ at \in D \cup {NULL} /\ q \in D \cup {NULL} /\ m \in D \cup {NULL}
  /\ key \in D => key \in Sub(sub, at)
  /\ at # NULL => q = p[at] /\ Facing(D, sub, at, key)
  /\ at = NULL /\ q # NULL => /\ Facing(D, sub, q, key) /\ key # q
                              /\ key < q => l[q] = NULL
                              /\ q < key => r[q] = NULL
  /\ at = NULL /\ q = NULL => D = {}

Nearest(D, sub, key, at, m) ==
  /\ m # NULL => m < key
  /\ \A a \in D : a < key => a \in Sub(sub, at) \/ (m # NULL /\ a <= m)

LEMMA DescendStands ==
  ASSUME NEW D \in SUBSET Nat, NEW root, NEW l, NEW r, NEW p, NEW sub,
         Shape(D, root, l, r, p, sub), InOrder(D, l, r, sub),
         NEW key \in Nat, NEW z \in D, z # key, NEW q, NEW m,
         Standing(D, l, r, p, sub, key, z, q, m),
         NEW c, c = IF key > z THEN r[z] ELSE l[z], NEW m2 \in D \cup {NULL}
  PROVE  Standing(D, l, r, p, sub, key, c, z, m2)
<1>t. /\ NULL \notin D /\ sub[z] \subseteq D
      /\ \A w \in D : l[w] \in D \cup {NULL} /\ r[w] \in D \cup {NULL}
  BY DEF Shape, Typed
<1>1. z \in sub[z] /\ (c # NULL => c \in D /\ c # z /\ c \in sub[z] /\ p[c] = z)
  <2>1. Shape(D, root, r, l, p, sub)
    BY Mirror
  <2>2. c = l[z] \/ c = r[z]
    OBVIOUS
  <2> QED
    BY <2>2, LinkFacts
<1>2. sub[z] = {z} \cup Sub(sub, l[z]) \cup Sub(sub, r[z])
  BY DEF Shape, Split
<1>3. (\A k \in Sub(sub, l[z]) : k < z) /\ (\A k \in Sub(sub, r[z]) : z < k)
  BY DEF InOrder
<1>4. key \in D => key \in Sub(sub, c)
  <2>1. key \in D => key \in sub[z]
    BY <1>t DEF Standing, Sub
  <2>2. z \in Nat /\ key \in Nat
    OBVIOUS
  <2> QED
    BY <1>2, <1>3, <2>1, <2>2
<1>5. Facing(D, sub, z, key)
  BY <1>t DEF Standing
<1>6. ASSUME c # NULL PROVE Facing(D, sub, c, key)
  <2> SUFFICES ASSUME NEW a \in D \ {c}, c \in sub[a] PROVE key < a <=> c < a
    BY DEF Facing
  <2>1. CASE a = z
    <3>1. CASE key > z
      <4>1. c \in Sub(sub, r[z])
        <5>1. c = r[z] /\ c \in sub[c]
          BY <1>1, <1>6, <3>1, LinkFacts
        <5> QED
          BY <1>6, <5>1 DEF Sub
      <4>2. z < c /\ c \in Nat
        BY <1>1, <1>3, <1>6, <4>1
      <4> QED
        BY <2>1, <3>1, <4>2
    <3>2. CASE ~ (key > z)
      <4>1. c \in Sub(sub, l[z])
        <5>1. c = l[z] /\ c \in sub[c]
          BY <1>1, <1>6, <3>2, LinkFacts
        <5> QED
          BY <1>6, <5>1 DEF Sub
      <4>2. c < z /\ c \in Nat /\ z \in Nat
        BY <1>1, <1>3, <1>6, <4>1
      <4>3. key < z
        BY <3>2, <4>2
      <4> QED
        BY <2>1, <4>2, <4>3
    <3> QED
      BY <3>1, <3>2
  <2>2. CASE a # z
    <3>1. z \in sub[a]
      BY <1>1, <1>6 DEF Shape, Nested
    <3>2. key < a <=> z < a
      BY <1>5, <2>2, <3>1 DEF Facing
    <3>3. z < a <=> c < a
      BY <1>1, <1>6, <2>2, <3>1, SameSide
    <3> QED
      BY <3>2, <3>3
  <2> QED
    BY <2>1, <2>2
<1>7. c \in D \cup {NULL} /\ z # NULL
  BY <1>t, <1>1
<1>8. c = NULL => (key < z => l[z] = NULL) /\ (z < key => r[z] = NULL)
  OBVIOUS
<1> QED
  BY <1>1, <1>4, <1>5, <1>6, <1>7, <1>8 DEF Standing

Nearer(key, z, m) == IF key > z /\ (m = NULL \/ m < z) THEN z ELSE m

LEMMA DescendNearest ==
  ASSUME NEW D \in SUBSET Nat, NEW root, NEW l, NEW r, NEW p, NEW sub,
         Shape(D, root, l, r, p, sub), InOrder(D, l, r, sub),
         NEW key \in Nat, NEW z \in D, z # key, NEW m \in D \cup {NULL},
         Nearest(D, sub, key, z, m),
         NEW c, c = IF key > z THEN r[z] ELSE l[z],
         NEW m2, m2 = Nearer(key, z, m)
  PROVE  Nearest(D, sub, key, c, m2) /\ m2 \in D \cup {NULL}
<1>m. m2 = IF key > z /\ (m = NULL \/ m < z) THEN z ELSE m
  BY DEF Nearer
<1>t. NULL \notin D /\ sub[z] \subseteq D /\ Sub(sub, z) = sub[z] /\ z \in Nat /\ z # NULL
  BY DEF Shape, Typed, Sub
<1>2. sub[z] = {z} \cup Sub(sub, l[z]) \cup Sub(sub, r[z])
  BY DEF Shape, Split
<1>3. (\A k \in Sub(sub, l[z]) : k < z) /\ (\A k \in Sub(sub, r[z]) : z < k)
  BY DEF InOrder
<1>4. m2 # NULL => m2 < key
  BY <1>m DEF Nearest
<1>5. ASSUME NEW a \in D, a < key PROVE a \in Sub(sub, c) \/ (m2 # NULL /\ a <= m2)
  <2>1. a \in sub[z] \/ (m # NULL /\ a <= m)
    BY <1>t, <1>5 DEF Nearest
  <2>2. m # NULL => m2 # NULL /\ m <= m2
    BY <1>m, <1>t
  <2>3. a \in Nat /\ m \in Nat /\ m2 \in Nat
    BY <1>m, <1>t DEF NULL
  <2>4. CASE a \in sub[z]
    <3>1. CASE key > z
      <4>1. z <= m2 /\ m2 # NULL
        <5>1. CASE m = NULL \/ m < z
          BY <1>m, <1>t, <3>1, <5>1
        <5>2. CASE m # NULL /\ ~ (m < z)
          BY <1>m, <1>t, <2>3, <3>1, <5>2
        <5> QED
          BY <5>1, <5>2
      <4> QED
        BY <1>2, <1>3, <2>3, <2>4, <3>1, <4>1
    <3>2. CASE ~ (key > z)
      <4>1. a < z
        BY <1>5, <1>t, <2>3, <3>2
      <4>2. a \notin Sub(sub, r[z]) /\ a # z
        BY <1>3, <1>t, <2>3, <4>1
      <4> QED
        BY <1>2, <2>4, <3>2, <4>2
    <3> QED
      BY <3>1, <3>2
  <2> QED
    BY <2>1, <2>2, <2>3, <2>4
<1>6. m2 \in D \cup {NULL}
  BY <1>m
<1> QED
  BY <1>4, <1>5, <1>6 DEF Nearest

Places(D) == [at : D \cup {NULL}, parent : D \cup {NULL}, nearest : D \cup {NULL}]

DescentStates(D, l, r, p, sub, key) ==
  {s \in Nat \X Places(D) :
     /\ Standing(D, l, r, p, sub, key, s[2].at, s[2].parent, s[2].nearest)
     /\ Nearest(D, sub, key, s[2].at, s[2].nearest)
     /\ s[2].at \in {NULL, key} \/ Cardinality(Sub(sub, s[2].at)) + s[1] <= Cardinality(D)}

(* A child's subtree is smaller. *)
LEMMA SmallerSub ==
  ASSUME NEW D, IsFiniteSet(D), NEW root, NEW l, NEW r, NEW p, NEW sub,
         Shape(D, root, l, r, p, sub), NEW z \in D, NEW c \in D, c = l[z] \/ c = r[z]
  PROVE  /\ Cardinality(Sub(sub, c)) + 1 <= Cardinality(Sub(sub, z))
         /\ Cardinality(Sub(sub, c)) \in Nat /\ Cardinality(Sub(sub, z)) \in Nat
<1>1. NULL \notin D /\ sub[z] \subseteq D /\ Sub(sub, z) = sub[z] /\ Sub(sub, c) = sub[c]
  BY DEF Shape, Typed, Sub
<1>2. z \in sub[z] /\ sub[c] \subseteq sub[z] \ {z}
  <2>1. c # NULL
    BY <1>1
  <2> QED
    BY <2>1 DEF Shape, Split, Sub
<1>3. IsFiniteSet(sub[z]) /\ Cardinality(sub[z]) \in Nat
  BY <1>1, FS_Subset, FS_CardinalityType
<1>4. IsFiniteSet(sub[z] \ {z}) /\ Cardinality(sub[z] \ {z}) = Cardinality(sub[z]) - 1
  BY <1>2, <1>3, FS_RemoveElement
<1>5. Cardinality(sub[c]) <= Cardinality(sub[z] \ {z}) /\ Cardinality(sub[c]) \in Nat
  BY <1>2, <1>4, FS_Subset, FS_CardinalityType
<1> QED
  BY <1>1, <1>3, <1>4, <1>5

LEMMA DescentStep ==
  ASSUME NEW h, NEW D, IsFiniteSet(D), NEW root, NEW l, NEW r, NEW p, NEW rec, NEW n,
         Ends(h, D, root, l, r, p, rec, n), NEW sub,
         Shape(D, root, l, r, p, sub), InOrder(D, l, r, sub), NEW key \in Nat,
         NEW k \in Nat, NEW d, <<k, d>> \in DescentStates(D, l, r, p, sub, key)
  PROVE  <<k + 1, Descend(h, d, key)>> \in DescentStates(D, l, r, p, sub, key)
<1>1. /\ d \in Places(D)
      /\ Standing(D, l, r, p, sub, key, d.at, d.parent, d.nearest)
      /\ Nearest(D, sub, key, d.at, d.nearest)
      /\ d.at \in {NULL, key} \/ Cardinality(Sub(sub, d.at)) + k <= Cardinality(D)
  BY DEF DescentStates
<1>2. CASE d.at \in {NULL, key}
  <2>1. Descend(h, d, key) = d
    BY <1>2 DEF Descend
  <2> QED
    BY <1>1, <1>2, <2>1 DEF DescentStates
<1>3. CASE d.at \notin {NULL, key}
  <2>1. PICK z : z = d.at /\ z \in D /\ z # key /\ z # NULL
    BY <1>1, <1>3 DEF Places
  <2>2. PICK c : c = IF key > z THEN r[z] ELSE l[z]
    OBVIOUS
  <2>3. PICK m : m = d.nearest /\ m \in D \cup {NULL}
    BY <1>1 DEF Places
  <2>4. PICK m2 : m2 = Nearer(key, z, m)
    OBVIOUS
  <2>5. PICK d2 : d2 = [at |-> c, parent |-> z, nearest |-> m2]
    OBVIOUS
  <2>6. Descend(h, d, key) = d2
    <3>1. Toward(h, z, key) = c
      BY <2>1, <2>2, ReadOf DEF Toward
    <3> QED
      BY <1>3, <2>1, <2>3, <2>4, <2>5, <3>1 DEF Descend, Nearer
  <2>7. D \in SUBSET Nat
    BY ReadOf
  <2>8. Nearest(D, sub, key, c, m2) /\ m2 \in D \cup {NULL}
    <3>1. Nearest(D, sub, key, z, m)
      BY <1>1, <2>1, <2>3
    <3> QED
      BY <2>1, <2>2, <2>3, <2>4, <2>7, <3>1, DescendNearest
  <2>9. Standing(D, l, r, p, sub, key, c, z, m2)
    <3>1. Standing(D, l, r, p, sub, key, z, d.parent, m)
      BY <1>1, <2>1, <2>3
    <3> QED
      BY <2>1, <2>2, <2>7, <2>8, <3>1, DescendStands
  <2>10. c \in D \cup {NULL}
    BY <2>9 DEF Standing
  <2>11. c \in {NULL, key} \/ Cardinality(Sub(sub, c)) + (k + 1) <= Cardinality(D)
    <3> SUFFICES ASSUME c \in D PROVE Cardinality(Sub(sub, c)) + (k + 1) <= Cardinality(D)
      BY <2>10
    <3>1. /\ Cardinality(Sub(sub, c)) + 1 <= Cardinality(Sub(sub, z))
          /\ Cardinality(Sub(sub, c)) \in Nat /\ Cardinality(Sub(sub, z)) \in Nat
      BY <2>1, <2>2, SmallerSub
    <3>2. Cardinality(Sub(sub, z)) + k <= Cardinality(D) /\ Cardinality(D) \in Nat
      BY <1>1, <1>3, <2>1, FS_CardinalityType
    <3> QED
      BY <3>1, <3>2
  <2>12. d2 \in Places(D) /\ d2.at = c /\ d2.parent = z /\ d2.nearest = m2
    BY <2>1, <2>5, <2>8, <2>10 DEF Places
  <2> QED
    BY <2>6, <2>8, <2>9, <2>11, <2>12 DEF DescentStates
<1> QED
  BY <1>2, <1>3

(* A descent ends at the node with the key, if there is one. *)
LEMMA DescentEnds ==
  ASSUME NEW h, NEW D, IsFiniteSet(D), NEW root, NEW l, NEW r, NEW p, NEW rec, NEW n,
         Ends(h, D, root, l, r, p, rec, n), NEW sub,
         Shape(D, root, l, r, p, sub), InOrder(D, l, r, sub), NEW key \in Nat,
         NEW d, d = Descent(h, key)
  PROVE  /\ Standing(D, l, r, p, sub, key, d.at, d.parent, d.nearest)
         /\ Nearest(D, sub, key, d.at, d.nearest)
         /\ d.at \in {NULL, key}
<1> DEFINE N == Cardinality(D)
           P == DescentStates(D, l, r, p, sub, key)
           S == {t \in Places(D) : \E k \in Nat : <<k, t>> \in P}
           F == [t \in S |-> Descend(h, t, key)]
           d0 == [at |-> root, parent |-> NULL, nearest |-> NULL]
<1>1. N \in Nat /\ Size(h) = N /\ Now(h).root = root /\ D \in SUBSET Nat
  BY FS_CardinalityType, ReadOf DEF Size
<1>2. <<0, d0>> \in P
  <2>1. root \in D \cup {NULL} /\ NULL \notin D /\ (root = NULL <=> D = {})
        /\ (root # NULL => p[root] = NULL /\ sub[root] = D)
    BY DEF Shape, Typed, Rooted
  <2>2. Sub(sub, root) = D
    BY <2>1 DEF Sub
  <2>3. \A a \in D : root \in sub[a] => a = root
    <3> SUFFICES ASSUME NEW a \in D, root \in sub[a], a # root PROVE FALSE
      OBVIOUS
    <3>1. p[root] # NULL /\ root # NULL
      BY <2>1 DEF Shape, Nested
    <3> QED
      BY <2>1, <3>1
  <2>4. Standing(D, l, r, p, sub, key, root, NULL, NULL)
    BY <2>1, <2>2, <2>3 DEF Standing, Facing
  <2>5. Nearest(D, sub, key, root, NULL)
    BY <2>2 DEF Nearest
  <2>6. Cardinality(Sub(sub, root)) + 0 <= Cardinality(D)
    BY <1>1, <2>2
  <2>7. d0 \in Places(D) /\ d0.at = root /\ d0.parent = NULL /\ d0.nearest = NULL
    BY <2>1 DEF Places
  <2> HIDE DEF d0
  <2> QED
    BY <2>4, <2>5, <2>6, <2>7 DEF DescentStates
<1>3. \A k \in Nat : \A t : <<k, t>> \in P => t \in S /\ <<k + 1, Descend(h, t, key)>> \in P
  <2>1. \A k \in Nat : \A t : <<k, t>> \in P => <<k + 1, Descend(h, t, key)>> \in P
    BY DescentStep
  <2>2. \A k \in Nat : \A t : <<k, t>> \in P => t \in S
    BY DEF DescentStates
  <2> QED
    BY <2>1, <2>2
<1> HIDE DEF P, N, d0
<1>f. \A t \in S : F[t] = Descend(h, t, key)
  OBVIOUS
<1> HIDE DEF S, F
<1>4. \A k \in Nat : \A t : <<k, t>> \in P => <<k + 1, F[t]>> \in P
  BY <1>3, <1>f
<1>5. PICK g : IsRun(F, g, d0, N) /\ \A k \in 0 .. N : <<k, g[k]>> \in P
  BY <1>1, <1>2, <1>4, RunWithin
<1>6. g = [k \in 0 .. N |-> IF k = 0 THEN d0 ELSE Descend(h, g[k - 1], key)]
  <2>1. \A k \in 0 .. N : k # 0 => F[g[k - 1]] = Descend(h, g[k - 1], key)
    <3> SUFFICES ASSUME NEW k \in 0 .. N, k # 0 PROVE F[g[k - 1]] = Descend(h, g[k - 1], key)
      OBVIOUS
    <3>1. k - 1 \in 0 .. N /\ k - 1 \in Nat
      BY <1>1
    <3> QED
      BY <1>3, <1>5, <1>f, <3>1
  <2> QED
    BY <1>5, <2>1 DEF IsRun
<1>7. PICK f : /\ f = [k \in 0 .. N |-> IF k = 0 THEN d0 ELSE Descend(h, f[k - 1], key)]
               /\ d = f[N]
  BY <1>1, <1>6 DEF Descent, Loop, d0
<1>8. f[0] = d0 /\ \A k \in 0 .. N - 1 : f[k + 1] = Descend(h, f[k], key)
  BY <1>1, <1>7
<1>9. <<N, d>> \in P
  <2>1. \A k \in 0 .. N - 1 : <<k, f[k]>> \in P => <<k + 1, f[k + 1]>> \in P
    BY <1>1, <1>3, <1>8
  <2>2. \A k \in 0 .. N : <<k, f[k]>> \in P
    BY <1>1, <1>2, <1>8, <2>1, RunHolds
  <2> QED
    BY <1>1, <1>7, <2>2
<1>10. /\ d \in Places(D)
       /\ Standing(D, l, r, p, sub, key, d.at, d.parent, d.nearest)
       /\ Nearest(D, sub, key, d.at, d.nearest)
       /\ d.at \in {NULL, key} \/ Cardinality(Sub(sub, d.at)) + N <= N
  <2>1. <<N, d>> \in DescentStates(D, l, r, p, sub, key)
    BY <1>9 DEF P
  <2>2. Cardinality(D) = N
    BY DEF N
  <2> QED
    BY <2>1, <2>2 DEF DescentStates
<1>11. d.at \in {NULL, key}
  <2> SUFFICES ASSUME d.at \notin {NULL, key} PROVE FALSE
    OBVIOUS
  <2>1. d.at \in D
    BY <1>10 DEF Places
  <2>2. d.at \in sub[d.at] /\ sub[d.at] \subseteq D /\ Sub(sub, d.at) = sub[d.at]
    BY <2>1, LinkFacts DEF Sub
  <2>3. Cardinality(sub[d.at]) \in Nat \ {0}
    BY <2>2, FS_Subset, FS_CardinalityType, FS_EmptySet
  <2> QED
    BY <1>1, <1>10, <2>2, <2>3
<1> QED
  BY <1>10, <1>11

Leftmost(h, z) == IF Left(h, z) = NULL THEN z ELSE Left(h, z)

MinimumStates(D, l, sub, u) ==
  {s \in Nat \X D :
     /\ s[2] \in sub[u]
     /\ \A k \in sub[u] : k \in sub[s[2]] \/ s[2] < k
     /\ l[s[2]] = NULL \/ Cardinality(sub[s[2]]) + s[1] <= Cardinality(D)}

LEMMA MinimumStep ==
  ASSUME NEW h, NEW D, IsFiniteSet(D), NEW root, NEW l, NEW r, NEW p, NEW rec, NEW n,
         Ends(h, D, root, l, r, p, rec, n), NEW sub,
         Shape(D, root, l, r, p, sub), InOrder(D, l, r, sub), NEW u \in D,
         NEW k \in Nat, NEW z, <<k, z>> \in MinimumStates(D, l, sub, u)
  PROVE  <<k + 1, Leftmost(h, z)>> \in MinimumStates(D, l, sub, u)
<1>1. /\ z \in D /\ z \in sub[u] /\ \A j \in sub[u] : j \in sub[z] \/ z < j
      /\ l[z] = NULL \/ Cardinality(sub[z]) + k <= Cardinality(D)
  BY DEF MinimumStates
<1>2. Left(h, z) = l[z] /\ D \in SUBSET Nat /\ NULL \notin D
  BY <1>1, ReadOf
<1>3. CASE l[z] = NULL
  <2>1. Leftmost(h, z) = z
    BY <1>2, <1>3 DEF Leftmost
  <2> QED
    BY <1>1, <1>3, <2>1 DEF MinimumStates
<1>4. CASE l[z] # NULL
  <2>1. PICK c : c = l[z] /\ c \in D /\ c # NULL /\ c \in sub[z] /\ c \in sub[c]
    BY <1>1, <1>4, LinkFacts
  <2>2. Leftmost(h, z) = c
    BY <1>2, <1>4, <2>1 DEF Leftmost
  <2>3. c \in sub[u]
    BY <1>1, <2>1 DEF Shape, Nested
  <2>4. sub[u] \subseteq D /\ z \in Nat /\ c \in Nat
    BY <1>1, <1>2, <2>1 DEF Shape, Typed
  <2>5. c < z /\ Sub(sub, c) = sub[c] /\ Sub(sub, z) = sub[z]
    <3>1. Sub(sub, c) = sub[c] /\ Sub(sub, z) = sub[z]
      BY <1>1, <1>2, <2>1 DEF Sub
    <3> QED
      BY <1>1, <2>1, <3>1 DEF InOrder
  <2>6. ASSUME NEW j \in sub[u] PROVE j \in sub[c] \/ c < j
    <3>1. j \in Nat
      BY <1>2, <2>4
    <3>2. CASE z < j
      BY <2>4, <2>5, <3>1, <3>2
    <3>3. CASE j \in sub[z]
      <4>1. j \in {z} \cup Sub(sub, c) \cup Sub(sub, r[z])
        BY <1>1, <2>1, <3>3 DEF Shape, Split
      <4>2. j \in Sub(sub, r[z]) => z < j
        BY <1>1 DEF InOrder
      <4> QED
        BY <2>4, <2>5, <3>1, <4>1, <4>2
    <3> QED
      BY <1>1, <3>2, <3>3
  <2>7. Cardinality(sub[c]) + (k + 1) <= Cardinality(D)
    <3>1. /\ Cardinality(Sub(sub, c)) + 1 <= Cardinality(Sub(sub, z))
          /\ Cardinality(Sub(sub, c)) \in Nat /\ Cardinality(Sub(sub, z)) \in Nat
      BY <1>1, <2>1, SmallerSub
    <3>2. Cardinality(sub[z]) + k <= Cardinality(D) /\ Cardinality(D) \in Nat
      BY <1>1, <1>4, FS_CardinalityType
    <3> QED
      BY <2>5, <3>1, <3>2
  <2> QED
    BY <2>1, <2>2, <2>3, <2>6, <2>7 DEF MinimumStates
<1> QED
  BY <1>3, <1>4

(* The minimum of a subtree has no left child, and no key of the subtree   *)
(* is smaller.                                                             *)
Smallest(D, l, sub, u, y) ==
  y \in sub[u] /\ y \in D /\ l[y] = NULL /\ \A k \in sub[u] : y <= k

LEMMA MinimumEnds ==
  ASSUME NEW h, NEW D, IsFiniteSet(D), NEW root, NEW l, NEW r, NEW p, NEW rec, NEW n,
         Ends(h, D, root, l, r, p, rec, n), NEW sub,
         Shape(D, root, l, r, p, sub), InOrder(D, l, r, sub), NEW u \in D,
         NEW y, y = subtree_minimum(h, u)
  PROVE  Smallest(D, l, sub, u, y)
<1> DEFINE N == Cardinality(D)
           P == MinimumStates(D, l, sub, u)
           S == {t \in D : \E k \in Nat : <<k, t>> \in P}
           F == [t \in S |-> Leftmost(h, t)]
<1>1. N \in Nat /\ Size(h) = N /\ D \in SUBSET Nat
  BY FS_CardinalityType, ReadOf DEF Size
<1>2. <<0, u>> \in P
  <2>1. u \in sub[u] /\ sub[u] \subseteq D
    BY LinkFacts
  <2>2. Cardinality(sub[u]) + 0 <= N
    BY <1>1, <2>1, FS_Subset, FS_CardinalityType
  <2> QED
    BY <2>1, <2>2 DEF MinimumStates
<1>3. \A k \in Nat : \A t : <<k, t>> \in P => t \in S /\ <<k + 1, Leftmost(h, t)>> \in P
  <2>1. \A k \in Nat : \A t : <<k, t>> \in P => <<k + 1, Leftmost(h, t)>> \in P
    BY MinimumStep
  <2>2. \A k \in Nat : \A t : <<k, t>> \in P => t \in S
    BY DEF MinimumStates
  <2> QED
    BY <2>1, <2>2
<1> HIDE DEF P, N
<1>f. \A t \in S : F[t] = Leftmost(h, t)
  OBVIOUS
<1> HIDE DEF S, F
<1>4. \A k \in Nat : \A t : <<k, t>> \in P => <<k + 1, F[t]>> \in P
  BY <1>3, <1>f
<1>5. PICK g : IsRun(F, g, u, N) /\ \A k \in 0 .. N : <<k, g[k]>> \in P
  BY <1>1, <1>2, <1>4, RunWithin
<1>6. g = [k \in 0 .. N |-> IF k = 0 THEN u ELSE Leftmost(h, g[k - 1])]
  <2>1. \A k \in 0 .. N : k # 0 => F[g[k - 1]] = Leftmost(h, g[k - 1])
    <3> SUFFICES ASSUME NEW k \in 0 .. N, k # 0 PROVE F[g[k - 1]] = Leftmost(h, g[k - 1])
      OBVIOUS
    <3>1. k - 1 \in 0 .. N /\ k - 1 \in Nat
      BY <1>1
    <3> QED
      BY <1>3, <1>5, <1>f, <3>1
  <2> QED
    BY <1>5, <2>1 DEF IsRun
<1>7. PICK f : /\ f = [k \in 0 .. N |-> IF k = 0 THEN u ELSE Leftmost(h, f[k - 1])]
               /\ y = f[N]
  BY <1>1, <1>6 DEF subtree_minimum, Loop, Leftmost
<1>8. f[0] = u /\ \A k \in 0 .. N - 1 : f[k + 1] = Leftmost(h, f[k])
  BY <1>1, <1>7
<1>9. <<N, y>> \in P
  <2>1. \A k \in 0 .. N - 1 : <<k, f[k]>> \in P => <<k + 1, f[k + 1]>> \in P
    BY <1>1, <1>3, <1>8
  <2>2. \A k \in 0 .. N : <<k, f[k]>> \in P
    BY <1>1, <1>2, <1>8, <2>1, RunHolds
  <2> QED
    BY <1>1, <1>7, <2>2
<1>10. /\ y \in D /\ y \in sub[u] /\ \A k \in sub[u] : k \in sub[y] \/ y < k
       /\ l[y] = NULL \/ Cardinality(sub[y]) + N <= N
  <2>1. <<N, y>> \in MinimumStates(D, l, sub, u)
    BY <1>9 DEF P
  <2>2. Cardinality(D) = N
    BY DEF N
  <2> QED
    BY <2>1, <2>2 DEF MinimumStates
<1>11. l[y] = NULL
  <2>1. y \in sub[y] /\ sub[y] \subseteq D
    BY <1>10, LinkFacts
  <2>2. Cardinality(sub[y]) \in Nat \ {0}
    BY <2>1, FS_Subset, FS_CardinalityType, FS_EmptySet
  <2> QED
    BY <1>1, <1>10, <2>2
<1>12. \A k \in sub[u] : y <= k
  <2> SUFFICES ASSUME NEW k \in sub[u], k \in sub[y], k # y PROVE y <= k
    BY <1>1, <1>10 DEF Shape, Typed
  <2>1. k \in Sub(sub, r[y])
    BY <1>10, <1>11 DEF Shape, Split, Sub
  <2>2. y < k
    BY <1>10, <2>1 DEF InOrder
  <2>3. y \in Nat /\ k \in Nat
    BY <1>1, <1>10 DEF Shape, Typed
  <2> QED
    BY <2>2, <2>3
<1> QED
  BY <1>10, <1>11, <1>12 DEF Smallest
-----------------------------------------------------------------------------
(* Insertion *)

LEMMA CreateEnds ==
  ASSUME NEW h, NEW D, NEW root, NEW l, NEW r, NEW p, NEW rec, NEW n,
         Ends(h, D, root, l, r, p, rec, n), NEW key \in Keys, key \notin D,
         NEW q \in Nat, NEW record \in Records,
         NEW z, z = [left |-> NULL, right |-> NULL, parent |-> q, record |-> record]
  PROVE  Ends(Append(h, [Now(h) EXCEPT !.node[key] = z]), D \cup {key}, root,
              Extended(D, l, key, NULL), Extended(D, r, key, NULL), Extended(D, p, key, q),
              Extended(D, rec, key, record), n)
<1> DEFINE E  == D \cup {key}
           l2 == Extended(D, l, key, NULL)
           r2 == Extended(D, r, key, NULL)
           p2 == Extended(D, p, key, q)
           c2 == Extended(D, rec, key, record)
           M  == NodesOf(E, l2, r2, p2, c2)
<1>1. /\ D \in SUBSET Keys /\ root \in Nat /\ n \in Int /\ h \in Seq(Trees)
      /\ l \in [D -> Nat] /\ r \in [D -> Nat] /\ p \in [D -> Nat] /\ rec \in [D -> Records]
  BY DEF Ends
<1>2. PICK t, N : t = Now(h) /\ t = TreeWith(root, n, N) /\ N = NodesOf(D, l, r, p, rec)
  BY DEF Ends, TreeOf
<1>3. /\ l2 \in [E -> Nat] /\ r2 \in [E -> Nat] /\ p2 \in [E -> Nat]
      /\ \A w \in E : /\ l2[w] = IF w = key THEN NULL ELSE l[w]
                      /\ r2[w] = IF w = key THEN NULL ELSE r[w]
                      /\ p2[w] = IF w = key THEN q ELSE p[w]
                      /\ c2[w] = IF w = key THEN record ELSE rec[w]
  BY <1>1 DEF Extended, NULL
<1>4. c2 \in [E -> Records]
  BY <1>1 DEF Extended
<1> HIDE DEF l2, r2, p2, c2
<1>5. M[key] = z
  BY <1>3 DEF NodesOf, Node
<1>6. \A w \in Keys : w # key => M[w] = N[w]
  <2> SUFFICES ASSUME NEW w \in Keys, w # key PROVE M[w] = N[w]
    OBVIOUS
  <2>1. CASE w \in D
    <3>1. l2[w] = l[w] /\ r2[w] = r[w] /\ p2[w] = p[w] /\ c2[w] = rec[w]
      BY <1>3, <2>1
    <3> QED
      BY <1>2, <2>1, <3>1 DEF NodesOf
  <2>2. CASE w \notin D
    BY <1>2, <2>2 DEF NodesOf
  <2> QED
    BY <2>1, <2>2
<1>7. DOMAIN N = Keys /\ M = [w \in Keys |-> M[w]] /\ N = [w \in Keys |-> N[w]]
  BY <1>2 DEF NodesOf
<1> HIDE DEF M, E
<1>8. [N EXCEPT ![key] = z] = M
  BY <1>5, <1>6, <1>7
<1>9. [t EXCEPT !.node[key] = z] = TreeWith(root, n, [N EXCEPT ![key] = z])
  BY <1>2 DEF TreeWith
<1>10. [Now(h) EXCEPT !.node[key] = z] = TreeOf(E, root, l2, r2, p2, c2, n)
  BY <1>2, <1>8, <1>9 DEF TreeOf, M
<1>11. E \in SUBSET Keys
  BY <1>1 DEF E
<1>12. Ends(Append(h, [Now(h) EXCEPT !.node[key] = z]), E, root, l2, r2, p2, c2, n)
  BY <1>1, <1>3, <1>4, <1>10, <1>11, Stored
<1> QED
  BY <1>12 DEF E, l2, r2, p2, c2

LEMMA CountEnds ==
  ASSUME NEW h, NEW D, NEW root, NEW l, NEW r, NEW p, NEW rec, NEW n,
         Ends(h, D, root, l, r, p, rec, n)
  PROVE  /\ Ends(Append(h, [Now(h) EXCEPT !.node_count = @ + 1]), D, root, l, r, p, rec, n + 1)
         /\ Ends(Append(h, [Now(h) EXCEPT !.node_count = @ - 1]), D, root, l, r, p, rec, n - 1)
<1>1. PICK t, N : t = Now(h) /\ t = TreeWith(root, n, N) /\ N = NodesOf(D, l, r, p, rec)
  BY DEF Ends, TreeOf
<1>2. /\ [t EXCEPT !.node_count = @ + 1] = TreeWith(root, n + 1, N)
      /\ [t EXCEPT !.node_count = @ - 1] = TreeWith(root, n - 1, N)
  BY <1>1 DEF TreeWith
<1>3. PICK m1, m2 : m1 = n + 1 /\ m2 = n - 1
  OBVIOUS
<1>4. /\ [Now(h) EXCEPT !.node_count = @ + 1] = TreeOf(D, root, l, r, p, rec, m1)
      /\ [Now(h) EXCEPT !.node_count = @ - 1] = TreeOf(D, root, l, r, p, rec, m2)
  BY <1>1, <1>2, <1>3 DEF TreeOf
<1>5. /\ D \in SUBSET Keys /\ root \in Nat /\ m1 \in Int /\ m2 \in Int /\ h \in Seq(Trees)
      /\ l \in [D -> Nat] /\ r \in [D -> Nat] /\ p \in [D -> Nat] /\ rec \in [D -> Records]
  BY <1>3 DEF Ends
<1>6. Ends(Append(h, [Now(h) EXCEPT !.node_count = @ + 1]), D, root, l, r, p, rec, m1)
  BY <1>4, <1>5, Stored
<1>7. Ends(Append(h, [Now(h) EXCEPT !.node_count = @ - 1]), D, root, l, r, p, rec, m2)
  BY <1>4, <1>5, Stored
<1> QED
  BY <1>3, <1>6, <1>7

(* The tree of one node *)
LEMMA SingleShape ==
  ASSUME NEW key, key # NULL, NEW f, f = [w \in {key} |-> NULL], NEW sub, sub = [w \in {key} |-> {key}]
  PROVE  Shape({key}, key, f, f, f, sub) /\ InOrder({key}, f, f, sub)
<1>1. f[key] = NULL /\ sub[key] = {key}
  OBVIOUS
<1>2. Typed({key}, key, f, f, f, sub)
  BY DEF Typed
<1>3. Rooted({key}, key, f, sub)
  BY <1>1 DEF Rooted
<1>4. Split({key}, f, f, sub)
  BY <1>1 DEF Split, Sub
<1>5. Nested({key}, f, sub)
  BY <1>1 DEF Nested
<1>6. Agreed({key}, f, f, f)
  BY <1>1 DEF Agreed
<1>7. InOrder({key}, f, f, sub)
  BY <1>1 DEF InOrder, Sub
<1> QED
  BY <1>2, <1>3, <1>4, <1>5, <1>6, <1>7 DEF Shape

(* The node key, with parent q, is in memory. *)
Created(h, D, root, l, r, p, rec, n, key, q, record) ==
  Ends(h, D \cup {key}, root, Extended(D, l, key, NULL), Extended(D, r, key, NULL),
       Extended(D, p, key, q), Extended(D, rec, key, record), n)

(* The tree has the node key, too. *)
Planted(h, D, rec, n, key, record) ==
  \E l2, r2, p2, sub2 :
    Cert(h, D \cup {key}, l2, r2, p2, Extended(D, rec, key, record), n, sub2)

LEMMA AddChildCert ==
  ASSUME NEW h, NEW D, NEW root, NEW l, NEW r, NEW p, NEW rec, NEW n, NEW sub,
         Shape(D, root, l, r, p, sub), InOrder(D, l, r, sub), D \in SUBSET Nat,
         NEW key \in Keys, key \notin D, NEW q, NEW m, NEW record,
         l \in [D -> Nat], r \in [D -> Nat], p \in [D -> Nat],
         Standing(D, l, r, p, sub, key, NULL, q, m),
         Created(h, D, root, l, r, p, rec, n, key, q, record), IsFiniteSet(D), AllFree(h)
  PROVE  Planted(AddChild(h, q, key), D, rec, n, key, record)
<1> DEFINE E  == D \cup {key}
           l1 == Extended(D, l, key, NULL)
           r1 == Extended(D, r, key, NULL)
           p1 == Extended(D, p, key, q)
           c1 == Extended(D, rec, key, record)
<1>1. key \in Nat /\ key # NULL /\ key \in Int /\ D \in SUBSET Int /\ NULL \notin D
  BY SplayTreeAssumption DEF Shape, Typed
<1>4. IsFiniteSet(E) /\ After(h, AddChild(h, q, key))
  BY FS_AddElement, StoreAfter DEF AddChild
<1>2. CASE q = NULL
  <2>1. D = {}
    BY <1>2 DEF Standing
  <2>2. AddChild(h, q, key) = SetRoot(h, key)
    BY <1>2 DEF AddChild
  <2>3. Ends(SetRoot(h, key), E, key, l1, r1, p1, c1, n)
    <3> HIDE DEF E, l1, r1, p1, c1
    <3>1. Ends(h, E, root, l1, r1, p1, c1, n)
      BY DEF E, l1, r1, p1, c1, Created
    <3> QED
      BY <1>1, <3>1, SetRootEnds
  <2>4. PICK f, s : f = [w \in {key} |-> NULL] /\ s = [w \in {key} |-> {key}]
    OBVIOUS
  <2>5. l1 = f /\ r1 = f /\ p1 = f /\ E = {key}
    BY <1>2, <2>1, <2>4 DEF Extended
  <2>6. Shape({key}, key, f, f, f, s) /\ InOrder({key}, f, f, s)
    BY <1>1, <2>4, SingleShape
  <2> HIDE DEF E, l1, r1, p1, c1
  <2>7. Cert(AddChild(h, q, key), E, l1, r1, p1, c1, n, s)
    BY <1>4, <2>2, <2>3, <2>5, <2>6, StoreCert
  <2> QED
    BY <2>7 DEF E, c1, Planted
<1>3. CASE q # NULL
  <2>1. q \in D /\ q \in Nat /\ q # key /\ \A a \in D \ {q} : q \in sub[a] => (key < a <=> q < a)
    BY <1>3 DEF Standing, Facing
  <2>2. CASE q < key
    <3>1. r[q] = NULL
      BY <1>3, <2>2 DEF Standing
    <3>2. AddChild(h, q, key) = SetRight(h, q, key)
      BY <1>3, <2>2 DEF AddChild
    <3>3. PICK r2, s2 : r2 = Grafted(D, r, q, key) /\ s2 = GraftedSubs(D, sub, q, key)
      OBVIOUS
    <3>4. Shape(D, root, r, l, p, sub)
      BY Mirror
    <3>5. Shape(E, root, r2, l1, p1, s2)
      BY <1>1, <2>1, <3>1, <3>3, <3>4, GraftShape
    <3>6. Shape(E, root, l1, r2, p1, s2)
      BY <3>5, Mirror
    <3>7. InOrder(E, l1, r2, s2)
      BY <1>1, <2>1, <2>2, <3>1, <3>3, <3>4, GraftInOrder
    <3>8. [r1 EXCEPT ![q] = key] = r2
      BY <2>1, <3>3 DEF Extended, Grafted
    <3> HIDE DEF E, l1, r1, p1, c1
    <3>9. Ends(h, E, root, l1, r1, p1, c1, n) /\ q \in E
      BY <2>1 DEF E, l1, r1, p1, c1, Created
    <3>10. Ends(SetRight(h, q, key), E, root, l1, r2, p1, c1, n)
      BY <1>1, <3>8, <3>9, SetRightEnds
    <3>11. Cert(AddChild(h, q, key), E, l1, r2, p1, c1, n, s2)
      BY <1>4, <3>2, <3>6, <3>7, <3>10, StoreCert
    <3> QED
      BY <3>11 DEF E, c1, Planted
  <2>3. CASE key < q
    <3>1. l[q] = NULL
      BY <1>3, <2>3 DEF Standing
    <3>2. AddChild(h, q, key) = SetLeft(h, q, key)
      BY <1>1, <1>3, <2>1, <2>3 DEF AddChild
    <3>3. PICK l2, s2 : l2 = Grafted(D, l, q, key) /\ s2 = GraftedSubs(D, sub, q, key)
      OBVIOUS
    <3>5. Shape(E, root, l2, r1, p1, s2)
      BY <1>1, <2>1, <3>1, <3>3, GraftShape
    <3>7. InOrder(E, l2, r1, s2)
      BY <1>1, <2>1, <2>3, <3>1, <3>3, GraftInOrder
    <3>8. [l1 EXCEPT ![q] = key] = l2
      BY <2>1, <3>3 DEF Extended, Grafted
    <3> HIDE DEF E, l1, r1, p1, c1
    <3>9. Ends(h, E, root, l1, r1, p1, c1, n) /\ q \in E
      BY <2>1 DEF E, l1, r1, p1, c1, Created
    <3>10. Ends(SetLeft(h, q, key), E, root, l2, r1, p1, c1, n)
      BY <1>1, <3>8, <3>9, SetLeftEnds
    <3>11. Cert(AddChild(h, q, key), E, l2, r1, p1, c1, n, s2)
      BY <1>4, <3>2, <3>5, <3>7, <3>10, StoreCert
    <3> QED
      BY <3>11 DEF E, c1, Planted
  <2> QED
    BY <1>1, <2>1, <2>2, <2>3
<1> QED
  BY <1>2, <1>3

Inserts(h, D, rec, n, key, record) ==
  \E l2, r2, p2, sub2 :
    /\ Cert(tree_insert(h, key, record), D \cup {key}, l2, r2, p2,
            Extended(D, rec, key, record), n + 1, sub2)
    /\ p2[key] = NULL

(* An insertion of a key that is there changes nothing; one of a key that  *)
(* is not adds its node and leaves it at the root.                         *)
LEMMA InsertCert ==
  ASSUME NEW h, NEW D, IsFiniteSet(D), NEW l, NEW r, NEW p, NEW rec, NEW n, NEW sub,
         Cert(h, D, l, r, p, rec, n, sub), NEW key \in Keys, NEW record \in Records
  PROVE  /\ Descent(h, key).at = NULL <=> key \notin D
         /\ key \in D => tree_insert(h, key, record) = h
         /\ key \notin D => Inserts(h, D, rec, n, key, record)
<1>1. PICK root : /\ Ends(h, D, root, l, r, p, rec, n)
                  /\ Shape(D, root, l, r, p, sub)
                  /\ InOrder(D, l, r, sub)
  BY DEF Cert
<1>0. AllFree(h)
  BY DEF Cert
<1>2. key \in Nat /\ key # NULL /\ D \in SUBSET Nat /\ NULL \notin D
  BY <1>1, ReadOf, SplayTreeAssumption
<1>3. PICK d : d = Descent(h, key)
  OBVIOUS
<1>4. /\ Standing(D, l, r, p, sub, key, d.at, d.parent, d.nearest)
      /\ d.at \in {NULL, key}
  BY <1>1, <1>2, <1>3, DescentEnds
<1>5. d.at = NULL <=> key \notin D
  BY <1>2, <1>4 DEF Standing, Sub
<1>6. ASSUME key \in D PROVE tree_insert(h, key, record) = h
  BY <1>3, <1>5, <1>6 DEF tree_insert
<1>7. ASSUME key \notin D
      PROVE  \E l2, r2, p2, sub2 :
               /\ Cert(tree_insert(h, key, record), D \cup {key}, l2, r2, p2,
                       Extended(D, rec, key, record), n + 1, sub2)
               /\ p2[key] = NULL
  <2>1. PICK q, c2, z, a, b :
          /\ q = d.parent
          /\ c2 = Extended(D, rec, key, record)
          /\ z = [left |-> NULL, right |-> NULL, parent |-> q, record |-> record]
          /\ a = Append(h, [Now(h) EXCEPT !.node[key] = z])
          /\ b = splay(AddChild(a, q, key), key)
    OBVIOUS
  <2>2. tree_insert(h, key, record) = Append(b, [Now(b) EXCEPT !.node_count = @ + 1])
    BY <1>3, <1>5, <1>7, <2>1 DEF tree_insert
  <2>3. Standing(D, l, r, p, sub, key, NULL, q, d.nearest) /\ q \in Nat
    <3>1. d.at = NULL
      BY <1>5, <1>7
    <3>2. Standing(D, l, r, p, sub, key, NULL, q, d.nearest)
      BY <1>4, <2>1, <3>1
    <3>3. q \in D \cup {NULL}
      BY <3>2 DEF Standing
    <3> QED
      BY <1>2, <3>2, <3>3 DEF NULL
  <2>4. Created(a, D, root, l, r, p, rec, n, key, q, record)
    BY <1>1, <1>7, <2>1, <2>3, CreateEnds DEF Created
  <2>5. IsFiniteSet(D \cup {key})
    BY FS_AddElement
  <2>6. AllFree(a)
    <3>1. PICK E, l1, r1 : /\ E = D \cup {key}
                           /\ l1 = Extended(D, l, key, NULL) /\ r1 = Extended(D, r, key, NULL)
      OBVIOUS
    <3>2. D \subseteq E /\ \A w \in D : l1[w] = l[w] /\ r1[w] = r[w]
      BY <1>7, <3>1 DEF Extended
    <3>3. FreesOnce(D, root, l, r)
      BY <1>1, ShapeFrees
    <3>4. FreesOnce(E, root, l1, r1)
      BY <3>2, <3>3, FreesMore
    <3>5. PICK p1 : Ends(a, E, root, l1, r1, p1, c2, n)
      BY <2>1, <2>4, <3>1 DEF Created
    <3>6. After(h, a) /\ IsFiniteSet(E)
      BY <2>1, <2>5, <3>1 DEF After
    <3> QED
      BY <1>0, <3>4, <3>5, <3>6, AllFreeAfter
  <2>7. PICK l1, r1, p1, sub1 : Cert(AddChild(a, q, key), D \cup {key}, l1, r1, p1, c2, n, sub1)
    <3>1. l \in [D -> Nat] /\ r \in [D -> Nat] /\ p \in [D -> Nat]
      BY <1>1 DEF Ends
    <3>2. Planted(AddChild(a, q, key), D, rec, n, key, record)
      BY <1>1, <1>2, <1>7, <2>3, <2>4, <2>6, <3>1, AddChildCert
    <3> QED
      BY <2>1, <3>2 DEF Planted
  <2>8. PICK l2, r2, p2, sub2 : Cert(b, D \cup {key}, l2, r2, p2, c2, n, sub2) /\ p2[key] = NULL
    <3>1. PICK t : t = AddChild(a, q, key)
      OBVIOUS
    <3>2. Cert(t, D \cup {key}, l1, r1, p1, c2, n, sub1) /\ key \in D \cup {key} /\ b = splay(t, key)
      BY ONLY <2>1, <2>7, <3>1
    <3> QED
      BY ONLY <2>5, <3>2, SplayCert
  <2>9. PICK root2 : /\ Ends(b, D \cup {key}, root2, l2, r2, p2, c2, n)
                     /\ Shape(D \cup {key}, root2, l2, r2, p2, sub2)
                     /\ InOrder(D \cup {key}, l2, r2, sub2)
    BY <2>8 DEF Cert
  <2>10. Ends(Append(b, [Now(b) EXCEPT !.node_count = @ + 1]), D \cup {key}, root2, l2, r2, p2, c2, n + 1)
    BY <2>9, CountEnds
  <2>11. Cert(tree_insert(h, key, record), D \cup {key}, l2, r2, p2, c2, n + 1, sub2)
    <3>1. PICK g : g = Append(b, [Now(b) EXCEPT !.node_count = @ + 1])
      OBVIOUS
    <3>2. AllFree(b) /\ After(b, g)
      BY <2>8, <3>1 DEF Cert, After
    <3>3. PICK E, m : E = D \cup {key} /\ m = n + 1
      OBVIOUS
    <3>4. Ends(g, E, root2, l2, r2, p2, c2, m) /\ IsFiniteSet(E)
      BY <2>10, <2>5, <3>1, <3>3
    <3>5. Cert(g, E, l2, r2, p2, c2, m, sub2)
      BY <2>9, <3>2, <3>3, <3>4, StoreCert
    <3> QED
      BY <2>2, <3>1, <3>3, <3>5
  <2> QED
    BY <2>1, <2>8, <2>11
<1> QED
  BY <1>3, <1>5, <1>6, <1>7 DEF Inserts

-----------------------------------------------------------------------------
(* Removal *)

LEMMA DropEnds ==
  ASSUME NEW h, NEW D, NEW root, NEW l, NEW r, NEW p, NEW rec, NEW n,
         Ends(h, D, root, l, r, p, rec, n), NEW key \in D, NEW E, E = D \ {key}
  PROVE  Ends(Append(h, [Now(h) EXCEPT !.node[key] = NoNode]), E, root,
              Fewer(l, E), Fewer(r, E), Fewer(p, E), Fewer(rec, E), n)
<1> DEFINE l2 == Fewer(l, E)
           r2 == Fewer(r, E)
           p2 == Fewer(p, E)
           c2 == Fewer(rec, E)
           M  == NodesOf(E, l2, r2, p2, c2)
<1>1. /\ D \in SUBSET Keys /\ root \in Nat /\ n \in Int /\ h \in Seq(Trees)
      /\ l \in [D -> Nat] /\ r \in [D -> Nat] /\ p \in [D -> Nat] /\ rec \in [D -> Records]
  BY DEF Ends
<1>2. PICK t, N : t = Now(h) /\ t = TreeWith(root, n, N) /\ N = NodesOf(D, l, r, p, rec)
  BY DEF Ends, TreeOf
<1>3. /\ l2 \in [E -> Nat] /\ r2 \in [E -> Nat] /\ p2 \in [E -> Nat] /\ c2 \in [E -> Records]
      /\ \A w \in E : l2[w] = l[w] /\ r2[w] = r[w] /\ p2[w] = p[w] /\ c2[w] = rec[w]
  BY <1>1 DEF Fewer
<1> HIDE DEF l2, r2, p2, c2
<1>5. M[key] = NoNode /\ key \in Keys
  BY <1>1 DEF NodesOf
<1>6. \A w \in Keys : w # key => M[w] = N[w]
  <2> SUFFICES ASSUME NEW w \in Keys, w # key PROVE M[w] = N[w]
    OBVIOUS
  <2>1. CASE w \in E
    <3>1. l2[w] = l[w] /\ r2[w] = r[w] /\ p2[w] = p[w] /\ c2[w] = rec[w]
      BY <1>3, <2>1
    <3> QED
      BY <1>2, <2>1, <3>1 DEF NodesOf
  <2>2. CASE w \notin E
    BY <1>2, <2>2 DEF NodesOf
  <2> QED
    BY <2>1, <2>2
<1>7. DOMAIN N = Keys /\ M = [w \in Keys |-> M[w]] /\ N = [w \in Keys |-> N[w]]
  BY <1>2 DEF NodesOf
<1> HIDE DEF M
<1>8. [N EXCEPT ![key] = NoNode] = M
  BY <1>5, <1>6, <1>7
<1>9. [t EXCEPT !.node[key] = NoNode] = TreeWith(root, n, [N EXCEPT ![key] = NoNode])
  BY <1>2 DEF TreeWith
<1>10. [Now(h) EXCEPT !.node[key] = NoNode] = TreeOf(E, root, l2, r2, p2, c2, n)
  BY <1>2, <1>8, <1>9 DEF TreeOf, M
<1>11. E \in SUBSET Keys
  BY <1>1
<1>12. Ends(Append(h, [Now(h) EXCEPT !.node[key] = NoNode]), E, root, l2, r2, p2, c2, n)
  BY <1>1, <1>3, <1>10, <1>11, Stored
<1> QED
  BY <1>12 DEF l2, r2, p2, c2

LEMMA ReplaceRootEnds ==
  ASSUME NEW h, NEW D, NEW root, NEW l, NEW r, NEW p, NEW rec, NEW n,
         Ends(h, D, root, l, r, p, rec, n), NEW z \in D, p[z] = NULL, NEW v \in D \cup {NULL},
         IsFiniteSet(D), AllFree(h), FreesOnce(D, v, l, r)
  PROVE  /\ Ends(replace(h, z, v), D, v, l, r, Told(p, v, NULL), rec, n)
         /\ AllFree(replace(h, z, v))
<1>1. Parent(h, z) = NULL /\ v \in Nat /\ NULL \in Nat
  BY ReadOf DEF NULL
<1>2. Ends(SetRoot(h, v), D, v, l, r, p, rec, n)
  BY <1>1, SetRootEnds
<1>3. Ends(SetParentIf(SetRoot(h, v), v, NULL), D, v, l, r, Told(p, v, NULL), rec, n)
  BY <1>1, <1>2, SetParentIfEnds
<1>4. replace(h, z, v) = SetParentIf(SetRoot(h, v), v, NULL)
  BY <1>1 DEF replace, Rehang
<1>5. AllFree(SetRoot(h, v))
  <2>1. After(h, SetRoot(h, v))
    BY StoreAfter
  <2> QED
    BY <1>2, <2>1, AllFreeAfter
<1>6. AllFree(SetParentIf(SetRoot(h, v), v, NULL))
  <2>1. PICK g : g = SetRoot(h, v)
    OBVIOUS
  <2>2. After(g, SetParentIf(g, v, NULL))
    BY StoreAfter
  <2> QED
    BY <1>3, <1>5, <2>1, <2>2, AllFreeAfter
<1> QED
  BY <1>3, <1>4, <1>6

LEMMA ReplaceEnds ==
  ASSUME NEW h, NEW D, NEW root, NEW l, NEW r, NEW p, NEW rec, NEW n,
         Ends(h, D, root, l, r, p, rec, n), NEW sub, Shape(D, root, l, r, p, sub),
         NEW u \in D, p[u] # NULL, NEW v \in sub[u] \cup {NULL}, v # u, IsFiniteSet(D), AllFree(h)
  PROVE  /\ Ends(replace(h, u, v), D, root, Redirected(l, u, v), Redirected(r, u, v),
                 Told(p, v, p[u]), rec, n)
         /\ AllFree(replace(h, u, v))
<1>0. v \in D \cup {NULL}
  BY DEF Shape, Typed
<1>1. /\ p[u] \in D /\ root # u /\ (l[p[u]] = u \/ r[p[u]] = u) /\ NULL \notin D /\ u # NULL
      /\ \A z \in D : l[z] = u \/ r[z] = u => z = p[u]
  BY DEF Shape, Typed, Rooted, Agreed
<1>2. ~ (l[p[u]] = u /\ r[p[u]] = u)
  BY <1>1, LinkFacts
<1>3. Parent(h, u) = p[u] /\ v \in Nat /\ p[u] \in Nat
  BY <1>0, <1>1, ReadOf DEF NULL
<1>4. NewRoot(root, u, v) = root
  BY <1>1 DEF NewRoot
<1>5. Ends(Rehang(h, u, v), D, root, Redirected(l, u, v), Redirected(r, u, v), p, rec, n)
  <2>1. Ends(Rehang(h, u, v), D, NewRoot(root, u, v), Redirected(l, u, v), Redirected(r, u, v), p, rec, n)
    BY <1>1, <1>2, <1>3, RehangEnds
  <2> QED
    BY <1>4, <2>1
<1>6. Ends(SetParentIf(Rehang(h, u, v), v, p[u]), D, root, Redirected(l, u, v), Redirected(r, u, v),
           Told(p, v, p[u]), rec, n)
  BY <1>0, <1>3, <1>5, SetParentIfEnds
<1>7. FreesOnce(D, root, Redirected(l, u, v), Redirected(r, u, v))
  <2>1. PICK R, l2, r2 : /\ R = Bypassed(D, sub, u, v)
                         /\ l2 = Redirected(l, u, v) /\ r2 = Redirected(r, u, v)
    OBVIOUS
  <2>2. R \subseteq D /\ DOMAIN l = D /\ DOMAIN r = D
    BY <2>1 DEF Bypassed, Ends
  <2>3. \A z \in R : l2[z] = (IF l[z] = u THEN v ELSE l[z]) /\ r2[z] = (IF r[z] = u THEN v ELSE r[z])
    BY <2>1, <2>2 DEF Redirected
  <2>4. FreesOnce(D, NewRoot(root, u, v), l2, r2)
    BY <2>1, <2>3, BypassFrees
  <2> QED
    BY <1>4, <2>1, <2>4
<1>8. PICK g : g = Rehang(h, u, v)
  OBVIOUS
<1>9. AllFree(g)
  <2>1. After(h, g)
    BY <1>8, StoreAfter
  <2> QED
    BY <1>5, <1>7, <1>8, <2>1, AllFreeAfter
<1>10. AllFree(SetParentIf(g, v, p[u]))
  <2>1. After(g, SetParentIf(g, v, p[u]))
    BY StoreAfter
  <2> QED
    BY <1>6, <1>7, <1>8, <1>9, <2>1, AllFreeAfter
<1> QED
  BY <1>3, <1>6, <1>8, <1>10 DEF replace

(* Without z, which is still in memory, the nodes are a search tree. *)
Unlinked(h, D, z, rec, n) ==
  AllFree(h) /\ \E root, l, r, p, sub :
    LET E == D \ {z}
    IN  /\ Ends(h, D, root, l, r, p, rec, n)
        /\ Shape(E, root, Fewer(l, E), Fewer(r, E), Fewer(p, E), sub)
        /\ InOrder(E, Fewer(l, E), Fewer(r, E), sub)

(* The root has one child or none. *)
LEMMA OneChild ==
  ASSUME NEW h, NEW D, NEW l, NEW r, NEW p, NEW rec, NEW n, NEW z \in D,
         Ends(h, D, z, l, r, p, rec, n), NEW sub, Shape(D, z, l, r, p, sub), InOrder(D, l, r, sub),
         NEW v, (l[z] = NULL /\ v = r[z]) \/ (r[z] = NULL /\ v = l[z]),
         IsFiniteSet(D), AllFree(h)
  PROVE  Unlinked(replace(h, z, v), D, z, rec, n)
<1>1. PICK E, p2 : E = D \ {z} /\ p2 = Told(p, v, NULL)
  OBVIOUS
<1>2. p[z] = NULL /\ v \in D \cup {NULL} /\ DOMAIN p = D
  BY DEF Shape, Typed, Rooted
<1>3. Fewer(p2, E) = Promoted(p, E, v)
  BY <1>1, <1>2 DEF Fewer, Promoted, Told
<1>4. Shape(E, v, Fewer(l, E), Fewer(r, E), Promoted(p, E, v), Fewer(sub, E))
  <2>1. CASE l[z] = NULL /\ v = r[z]
    BY <1>1, <2>1, DropShape
  <2>2. CASE r[z] = NULL /\ v = l[z]
    <3>1. Shape(D, z, r, l, p, sub)
      BY Mirror
    <3>2. Shape(E, v, Fewer(r, E), Fewer(l, E), Promoted(p, E, v), Fewer(sub, E))
      BY <1>1, <2>2, <3>1, DropShape
    <3> QED
      BY <3>2, Mirror
  <2> QED
    BY <2>1, <2>2
<1>5. FreesOnce(D, v, l, r)
  <2>1. PICK l2, r2 : l2 = Fewer(l, E) /\ r2 = Fewer(r, E)
    OBVIOUS
  <2>2. FreesOnce(E, v, l2, r2)
    BY <1>4, <2>1, ShapeFrees
  <2>3. E \subseteq D /\ \A w \in E : l[w] = l2[w] /\ r[w] = r2[w]
    BY <1>1, <2>1 DEF Fewer
  <2> QED
    BY <2>2, <2>3, FreesMore
<1>6. InOrder(E, Fewer(l, E), Fewer(r, E), Fewer(sub, E))
  BY <1>1, FewerInOrder
<1>7. AllFree(replace(h, z, v)) /\ Ends(replace(h, z, v), D, v, l, r, p2, rec, n)
  BY <1>1, <1>2, <1>5, ReplaceRootEnds
<1> QED
  BY <1>1, <1>7, <1>3, <1>4, <1>6 DEF Unlinked

(* The root z has two: its successor y takes its place. *)
Follows(D, l, r, p, z, y) ==
  /\ NULL \notin D /\ z # NULL /\ p[z] = NULL
  /\ y \in D /\ y # NULL /\ y # z /\ l[z] \in D /\ r[z] \in D /\ l[z] # y /\ l[z] # r[z]
  /\ l[z] # z /\ r[z] # z
  /\ r[y] \in D \cup {NULL} /\ r[y] # y /\ r[y] # z /\ r[y] # l[z] /\ r[y] # r[z]
  /\ r[y] # NULL => p[r[y]] = y
  /\ p[y] \in D /\ p[y] # y /\ p[y] # NULL /\ (p[y] = z <=> y = r[z])
  /\ \A w \in D : l[w] = y \/ r[w] = y => w = p[y]
  /\ p[l[z]] = z /\ p[r[z]] = z

LEMMA Successor ==
  ASSUME NEW D, NEW l, NEW r, NEW p, NEW z \in D, NEW sub, Shape(D, z, l, r, p, sub),
         l[z] # NULL, r[z] # NULL, NEW y \in sub[r[z]]
  PROVE  Follows(D, l, r, p, z, y)
<1>1. /\ NULL \notin D /\ p[z] = NULL /\ l[z] \in D /\ r[z] \in D
      /\ sub[r[z]] \subseteq D /\ r[y] \in D \cup {NULL} /\ p[y] \in D \cup {NULL}
  BY DEF Shape, Typed, Rooted
<1>2. /\ l[z] # z /\ r[z] # z /\ l[z] # r[z] /\ p[l[z]] = z /\ p[r[z]] = z
      /\ l[z] \in sub[l[z]]
  BY <1>1, LinkFacts
<1>3. z \notin sub[r[z]] /\ l[z] \notin sub[r[z]]
  BY <1>1, <1>2 DEF Shape, Split, Sub
<1>4. y \in D /\ y # z /\ y # l[z] /\ y # NULL
  BY <1>1, <1>3
<1>5. r[y] # NULL => p[r[y]] = y /\ r[y] # y
  BY <1>4, LinkFacts
<1>6. r[y] # z /\ r[y] # l[z] /\ r[y] # r[z]
  BY <1>1, <1>2, <1>4, <1>5
<1>7. p[y] # NULL /\ \A w \in D : l[w] = y \/ r[w] = y => w = p[y]
  BY <1>1, <1>4 DEF Shape, Rooted, Agreed
<1>8. (y = l[p[y]] \/ y = r[p[y]]) /\ p[y] \in D
  BY <1>1, <1>4, <1>7 DEF Shape, Agreed
<1>9. p[y] # y
  BY <1>4, <1>8, LinkFacts
<1>10. p[y] = z <=> y = r[z]
  BY <1>2, <1>4, <1>7, <1>8
<1> QED
  BY <1>1, <1>2, <1>4, <1>5, <1>6, <1>7, <1>8, <1>9, <1>10 DEF Follows

(* Before z's left child is hung below y, everything else is there. *)
LEMMA PlaceFrees ==
  ASSUME NEW E, NEW y \in E, NEW l, NEW r, NEW p, NEW sub, Shape(E, y, l, r, p, sub), l[y] # NULL,
         NEW D, E \subseteq D, NEW l2, NEW r2, l2[y] = NULL,
         \A w \in E : (w # y => l2[w] = l[w]) /\ r2[w] = r[w]
  PROVE  FreesOnce(D, y, l2, r2)
<1>1. PICK c, R : c = l[y] /\ R = Bypassed(E, sub, c, NULL)
  OBVIOUS
<1>2. c \in E /\ c # NULL /\ c # y /\ p[c] = y /\ l[y] # r[y] /\ R \subseteq E
  BY <1>1, LinkFacts DEF Bypassed
<1>3. \A w \in E : l[w] = c \/ r[w] = c => w = y
  BY <1>2 DEF Shape, Agreed
<1>4. \A w \in R : l2[w] = IF l[w] = c THEN NULL ELSE l[w]
  BY <1>1, <1>2, <1>3
<1>5. \A w \in R : r2[w] = IF r[w] = c THEN NULL ELSE r[w]
  BY <1>1, <1>2, <1>3
<1>6. FreesOnce(D, NewRoot(y, c, NULL), l2, r2)
  BY <1>1, <1>2, <1>4, <1>5, BypassFrees
<1> QED
  BY <1>2, <1>6 DEF NewRoot

(* y is a child of the root. *)
LEMMA TakePlaceNear ==
  ASSUME NEW h, NEW D, NEW l, NEW r, NEW p, NEW rec, NEW n, NEW z \in D,
         Ends(h, D, z, l, r, p, rec, n), NEW sub, Shape(D, z, l, r, p, sub),
         l[z] # NULL, r[z] # NULL, NEW y \in sub[r[z]], p[y] = z, y = subtree_minimum(h, Right(h, z)),
         NEW E, E = D \ {z}, l[y] = NULL, IsFiniteSet(D), AllFree(h)
  PROVE  /\ AllFree(TakePlace(h, z))
         /\ \E l2, r2, p2 : /\ Ends(TakePlace(h, z), D, y, l2, r2, p2, rec, n)
                            /\ Fewer(l2, E) = PlaceL(l, r, E, z, y)
                            /\ Fewer(r2, E) = PlaceR(r, E, z, y)
                            /\ Fewer(p2, E) = PlaceP(l, r, p, E, z, y)
<1>1. /\ NULL \notin D /\ z # NULL /\ p[z] = NULL
      /\ y \in D /\ y # NULL /\ y # z /\ l[z] \in D /\ l[z] # y /\ y = r[z]
      /\ r[y] # y /\ r[y] # l[z] /\ (r[y] # NULL => p[r[y]] = y)
      /\ \A w \in D : l[w] = y \/ r[w] = y => w = z
  <2>1. Follows(D, l, r, p, z, y)
    BY Successor
  <2> QED
    BY <2>1 DEF Follows
<1>2. l \in [D -> Nat] /\ r \in [D -> Nat] /\ p \in [D -> Nat] /\ D \subseteq Nat
  <2>1. l \in [D -> Nat] /\ r \in [D -> Nat] /\ p \in [D -> Nat]
    BY DEF Ends
  <2> QED
    BY <2>1, ReadOf
<1>3. PICK b, p1, l2, p2 : /\ b = replace(h, z, y) /\ p1 = Told(p, y, NULL)
                           /\ l2 = [l EXCEPT ![y] = l[z]]
                           /\ p2 = [p1 EXCEPT ![l[z]] = y]
  OBVIOUS
<1>4. /\ \A w \in D : l2[w] = IF w = y THEN l[z] ELSE l[w]
      /\ \A w \in D : p2[w] = IF w = l[z] THEN y ELSE IF w = y THEN NULL ELSE p[w]
  BY <1>1, <1>2, <1>3 DEF Told
<1>5. \A w \in E : w # z /\ w \in D /\ l[w] # y /\ r[w] # y
  BY <1>1
<1>6. Fewer(l2, E) = PlaceL(l, r, E, z, y)
  BY <1>4, <1>5 DEF Fewer, PlaceL, Instead
<1>7. Fewer(r, E) = PlaceR(r, E, z, y)
  BY <1>1, <1>5 DEF Fewer, PlaceR, Instead
<1>8. Shape(E, y, PlaceL(l, r, E, z, y), PlaceR(r, E, z, y), PlaceP(l, r, p, E, z, y),
            PlaceSubs(sub, E, y))
  <2>1. y \in Sub(sub, r[z])
    BY DEF Sub
  <2> QED
    BY <2>1, PlaceShape
<1>9. FreesOnce(D, y, l, r) /\ FreesOnce(D, y, l2, r)
  <2>1. PICK l3, r3, p3, s3 : /\ l3 = PlaceL(l, r, E, z, y) /\ r3 = PlaceR(r, E, z, y)
                              /\ p3 = PlaceP(l, r, p, E, z, y) /\ s3 = PlaceSubs(sub, E, y)
    OBVIOUS
  <2>2. E \subseteq D /\ y \in E /\ Shape(E, y, l3, r3, p3, s3)
    BY <1>1, <1>8, <2>1
  <2>3. \A w \in E : l2[w] = l3[w] /\ r[w] = r3[w]
    BY <1>6, <1>7, <2>1 DEF Fewer
  <2>4. l3[y] # NULL /\ \A w \in E : w # y => l[w] = l3[w]
    BY <1>4, <2>2, <2>3
  <2>5. FreesOnce(D, y, l, r)
    BY <2>2, <2>3, <2>4, PlaceFrees
  <2>6. FreesOnce(E, y, l3, r3)
    BY <2>2, ShapeFrees
  <2>7. FreesOnce(D, y, l2, r)
    BY <2>2, <2>3, <2>6, FreesMore
  <2> QED
    BY <2>5, <2>7
<1>10. AllFree(b) /\ Ends(b, D, y, l, r, p1, rec, n)
  BY <1>1, <1>3, <1>9, ReplaceRootEnds
<1>11. TakePlace(h, z) = SetParent(SetLeft(b, y, l[z]), l[z], y)
  <2>1. Parent(h, y) = z
    BY <1>1, ReadOf
  <2>2. Left(b, z) = l[z]
    BY <1>10, ReadOf
  <2> QED
    BY <1>3, <2>1, <2>2 DEF TakePlace
<1>12. Ends(SetLeft(b, y, l[z]), D, y, l2, r, p1, rec, n)
  BY <1>1, <1>2, <1>3, <1>10, SetLeftEnds
<1>13. AllFree(TakePlace(h, z)) /\ Ends(TakePlace(h, z), D, y, l2, r, p2, rec, n)
  <2>1. PICK c, u : c = SetLeft(b, y, l[z]) /\ u = l[z]
    OBVIOUS
  <2>2. Ends(c, D, y, l2, r, p1, rec, n) /\ u \in D /\ y \in Nat
    BY <1>1, <1>2, <1>12, <2>1
  <2>3. Ends(SetParent(c, u, y), D, y, l2, r, [p1 EXCEPT ![u] = y], rec, n)
    BY <2>2, SetParentEnds
  <2>4. After(b, c) /\ After(c, SetParent(c, u, y))
    BY <2>1, StoreAfter
  <2>5. AllFree(c)
    BY <1>10, <1>9, <2>2, <2>4, AllFreeAfter
  <2>6. AllFree(SetParent(c, u, y))
    BY <1>9, <2>3, <2>4, <2>5, AllFreeAfter
  <2> QED
    BY <1>3, <1>11, <2>1, <2>3, <2>6
<1>14. Fewer(p2, E) = PlaceP(l, r, p, E, z, y)
  <2>1. ASSUME NEW w \in E
        PROVE  p2[w] = IF w = y THEN NULL
                       ELSE IF w = l[z] THEN y
                       ELSE IF w = r[y] THEN (IF p[y] = z THEN y ELSE p[y])
                       ELSE IF w = r[z] THEN y ELSE p[w]
    BY <1>1, <1>4, <1>5
  <2> QED
    BY <2>1 DEF Fewer, PlaceP
<1> QED
  BY <1>13, <1>6, <1>7, <1>14

(* y hangs further down. *)
LEMMA TakePlaceFar ==
  ASSUME NEW h, NEW D, NEW l, NEW r, NEW p, NEW rec, NEW n, NEW z \in D,
         Ends(h, D, z, l, r, p, rec, n), NEW sub, Shape(D, z, l, r, p, sub),
         l[z] # NULL, r[z] # NULL, NEW y \in sub[r[z]], p[y] # z, y = subtree_minimum(h, Right(h, z)),
         NEW E, E = D \ {z}, l[y] = NULL, IsFiniteSet(D), AllFree(h)
  PROVE  /\ AllFree(TakePlace(h, z))
         /\ \E l2, r2, p2 : /\ Ends(TakePlace(h, z), D, y, l2, r2, p2, rec, n)
                            /\ Fewer(l2, E) = PlaceL(l, r, E, z, y)
                            /\ Fewer(r2, E) = PlaceR(r, E, z, y)
                            /\ Fewer(p2, E) = PlaceP(l, r, p, E, z, y)
<1>1. /\ NULL \notin D /\ z # NULL /\ p[z] = NULL
      /\ y \in D /\ y # NULL /\ y # z /\ l[z] \in D /\ r[z] \in D /\ l[z] # y /\ l[z] # r[z]
      /\ l[z] # z /\ r[z] # z /\ r[z] # y
      /\ r[y] \in D \cup {NULL} /\ r[y] # y /\ r[y] # z /\ r[y] # l[z] /\ r[y] # r[z]
      /\ p[y] \in D /\ p[y] # NULL
  <2>1. Follows(D, l, r, p, z, y)
    BY Successor
  <2> QED
    BY <2>1 DEF Follows
<1>2. l \in [D -> Nat] /\ r \in [D -> Nat] /\ p \in [D -> Nat] /\ D \subseteq Nat /\ NULL \in Nat
  <2>1. l \in [D -> Nat] /\ r \in [D -> Nat] /\ p \in [D -> Nat]
    BY DEF Ends
  <2> QED
    BY <2>1, ReadOf DEF NULL
<1>3. PICK v, c, l1, r1, p1 : /\ v = r[y] /\ c = replace(h, y, v)
                              /\ l1 = Redirected(l, y, v) /\ r1 = Redirected(r, y, v)
                              /\ p1 = Told(p, v, p[y])
  OBVIOUS
<1>4. PICK r2, p2, p3, l4, p5 : /\ r2 = [r1 EXCEPT ![y] = r[z]]
                                /\ p2 = [p1 EXCEPT ![r[z]] = y]
                                /\ p3 = Told(p2, y, NULL)
                                /\ l4 = [l1 EXCEPT ![y] = l[z]]
                                /\ p5 = [p3 EXCEPT ![l[z]] = y]
  OBVIOUS
<1>5. /\ l1 \in [D -> Nat] /\ r1 \in [D -> Nat] /\ p1 \in [D -> Nat]
      /\ \A w \in D : l1[w] = IF l[w] = y THEN v ELSE l[w]
      /\ \A w \in D : r1[w] = IF r[w] = y THEN v ELSE r[w]
      /\ \A w \in D : p1[w] = IF w = v THEN p[y] ELSE p[w]
  BY <1>1, <1>2, <1>3 DEF Redirected, Told
<1>6. p2 \in [D -> Nat] /\ \A w \in D : p2[w] = IF w = r[z] THEN y ELSE p1[w]
  BY <1>1, <1>2, <1>4, <1>5
<1>7. p3 \in [D -> Nat] /\ \A w \in D : p3[w] = IF w = y THEN NULL ELSE p2[w]
  BY <1>1, <1>2, <1>4, <1>6 DEF Told
<1>8. /\ \A w \in D : p5[w] = IF w = l[z] THEN y ELSE p3[w]
      /\ \A w \in D : l4[w] = IF w = y THEN l[z] ELSE l1[w]
      /\ \A w \in D : r2[w] = IF w = y THEN r[z] ELSE r1[w]
  BY <1>1, <1>2, <1>4, <1>5, <1>7
<1>9. Fewer(l4, E) = PlaceL(l, r, E, z, y)
  <2>1. \A w \in E : l4[w] = IF w = y THEN l[z] ELSE IF l[w] = y THEN r[y] ELSE l[w]
    BY <1>3, <1>5, <1>8
  <2> QED
    BY <2>1 DEF Fewer, PlaceL, Instead
<1>10. Fewer(r2, E) = PlaceR(r, E, z, y)
  <2>1. \A w \in E : r2[w] = IF w = y THEN r[z] ELSE IF r[w] = y THEN r[y] ELSE r[w]
    BY <1>3, <1>5, <1>8
  <2> QED
    BY <1>1, <2>1 DEF Fewer, PlaceR, Instead
<1>11. v \in sub[y] \cup {NULL} /\ v # y
  BY <1>1, <1>3, LinkFacts
<1>12. AllFree(c) /\ Ends(c, D, z, l1, r1, p1, rec, n)
  <2>1. Shape(D, z, l, r, p, sub)
    OBVIOUS
  <2> QED
    BY <1>1, <1>3, <1>11, <2>1, ReplaceEnds
<1>13. FreesOnce(D, z, l1, r1) /\ FreesOnce(D, z, l1, r2)
  <2>1. PICK R : R = Bypassed(D, sub, y, v)
    OBVIOUS
  <2>2. R \subseteq D /\ y \notin R /\ NewRoot(z, y, v) = z
    <3>1. y \in sub[y] /\ y \notin Sub(sub, r[y])
      BY <1>1 DEF Shape, Split
    <3> QED
      BY <1>1, <1>3, <2>1, <3>1 DEF Bypassed, NewRoot
  <2>3. \A w \in R : /\ l1[w] = IF l[w] = y THEN v ELSE l[w]
                     /\ r1[w] = IF r[w] = y THEN v ELSE r[w]
    BY <1>5, <2>2
  <2>4. \A w \in R : r2[w] = IF r[w] = y THEN v ELSE r[w]
    BY <1>5, <1>8, <2>2
  <2>5. FreesOnce(D, NewRoot(z, y, v), l1, r1) /\ FreesOnce(D, NewRoot(z, y, v), l1, r2)
    BY <1>1, <1>11, <2>1, <2>3, <2>4, BypassFrees
  <2> QED
    BY <2>2, <2>5
<1>14. FreesOnce(D, y, l1, r2) /\ FreesOnce(D, y, l4, r2)
  <2>1. PICK l3, r3, p4, s3 : /\ l3 = PlaceL(l, r, E, z, y) /\ r3 = PlaceR(r, E, z, y)
                              /\ p4 = PlaceP(l, r, p, E, z, y) /\ s3 = PlaceSubs(sub, E, y)
    OBVIOUS
  <2>2. E \subseteq D /\ y \in E /\ Shape(E, y, l3, r3, p4, s3)
    <3>1. y \in Sub(sub, r[z])
      BY DEF Sub
    <3> QED
      BY <1>1, <2>1, <3>1, PlaceShape
  <2>3. \A w \in E : l4[w] = l3[w] /\ r2[w] = r3[w]
    BY <1>9, <1>10, <2>1 DEF Fewer
  <2>4. l3[y] # NULL /\ l1[y] = NULL /\ \A w \in E : w # y => l1[w] = l3[w]
    BY <1>1, <1>5, <1>8, <2>2, <2>3
  <2>5. FreesOnce(D, y, l1, r2)
    BY <2>2, <2>3, <2>4, PlaceFrees
  <2>6. FreesOnce(E, y, l3, r3)
    BY <2>2, ShapeFrees
  <2>7. FreesOnce(D, y, l4, r2)
    BY <2>2, <2>3, <2>6, FreesMore
  <2> QED
    BY <2>5, <2>7
<1>15. PICK d, a, b, e : /\ d = SetRight(c, y, r[z]) /\ a = SetParent(d, r[z], y)
                         /\ b = replace(a, z, y) /\ e = SetLeft(b, y, l[z])
  OBVIOUS
<1>16. Ends(d, D, z, l1, r2, p1, rec, n)
  BY <1>1, <1>2, <1>4, <1>12, <1>15, SetRightEnds
<1>17. Ends(a, D, z, l1, r2, p2, rec, n)
  BY <1>1, <1>2, <1>4, <1>15, <1>16, SetParentEnds
<1>18. p2[z] = NULL
  BY <1>1, <1>3, <1>5, <1>6
<1>19. AllFree(d) /\ AllFree(a)
  <2>1. After(c, d) /\ After(d, a)
    BY <1>15, StoreAfter
  <2>2. AllFree(d)
    BY <1>12, <1>16, <1>13, <2>1, AllFreeAfter
  <2> QED
    BY <1>17, <1>13, <2>1, <2>2, AllFreeAfter
<1>20. AllFree(b) /\ Ends(b, D, y, l1, r2, p3, rec, n)
  BY <1>1, <1>4, <1>15, <1>17, <1>18, <1>14, <1>19, ReplaceRootEnds
<1>21. Ends(e, D, y, l4, r2, p3, rec, n)
  BY <1>1, <1>2, <1>4, <1>15, <1>20, SetLeftEnds
<1>22. Ends(SetParent(e, l[z], y), D, y, l4, r2, p5, rec, n)
  BY <1>1, <1>2, <1>4, <1>21, SetParentEnds
<1>23. AllFree(SetParent(e, l[z], y))
  <2>1. After(b, e) /\ After(e, SetParent(e, l[z], y))
    BY <1>15, StoreAfter
  <2>2. AllFree(e)
    BY <1>20, <1>21, <1>14, <2>1, AllFreeAfter
  <2>3. PICK g : g = SetParent(e, l[z], y)
    OBVIOUS
  <2> QED
    BY <1>22, <1>14, <2>1, <2>2, <2>3, AllFreeAfter
<1>24. TakePlace(h, z) = SetParent(e, l[z], y)
  <2>1. Right(h, y) = v /\ Parent(h, y) = p[y]
    BY <1>1, <1>3, ReadOf
  <2>2. Right(c, z) = r[z]
    <3>1. r1[z] = r[z]
      BY <1>1, <1>5
    <3> QED
      BY <1>12, <3>1, ReadOf
  <2>3. Left(b, z) = l[z]
    <3>1. l1[z] = l[z]
      BY <1>1, <1>5
    <3> QED
      BY <1>20, <3>1, ReadOf
  <2> QED
    BY <1>3, <1>15, <2>1, <2>2, <2>3 DEF TakePlace
<1>25. Fewer(p5, E) = PlaceP(l, r, p, E, z, y)
  <2>1. ASSUME NEW w \in E
        PROVE  p5[w] = IF w = y THEN NULL
                       ELSE IF w = l[z] THEN y
                       ELSE IF w = r[y] THEN (IF p[y] = z THEN y ELSE p[y])
                       ELSE IF w = r[z] THEN y ELSE p[w]
    BY <1>1, <1>3, <1>5, <1>6, <1>7, <1>8
  <2> QED
    BY <2>1 DEF Fewer, PlaceP
<1> QED
  BY <1>22, <1>24, <1>9, <1>10, <1>25, <1>23

LEMMA TwoChildren ==
  ASSUME NEW h, NEW D, IsFiniteSet(D), NEW l, NEW r, NEW p, NEW rec, NEW n, NEW z \in D,
         Ends(h, D, z, l, r, p, rec, n), NEW sub, Shape(D, z, l, r, p, sub), InOrder(D, l, r, sub),
         l[z] # NULL, r[z] # NULL, AllFree(h)
  PROVE  Unlinked(TakePlace(h, z), D, z, rec, n)
<1>1. PICK y, E : y = subtree_minimum(h, Right(h, z)) /\ E = D \ {z}
  OBVIOUS
<1>2. Right(h, z) = r[z] /\ r[z] \in D /\ D \in SUBSET Int
  BY ReadOf DEF Shape, Typed
<1>3. y \in sub[r[z]] /\ y \in D /\ l[y] = NULL /\ \A k \in sub[r[z]] : y <= k
  <2>1. PICK u : u = r[z]
    OBVIOUS
  <2>2. y = subtree_minimum(h, u) /\ u \in D
    BY <1>1, <1>2, <2>1
  <2>3. Smallest(D, l, sub, u, y)
    BY <1>2, <2>2, MinimumEnds
  <2> QED
    BY <2>1, <2>3 DEF Smallest
<1>4. Sub(sub, r[z]) = sub[r[z]]
  BY DEF Sub
<1>5. /\ AllFree(TakePlace(h, z))
      /\ \E l2, r2, p2 : /\ Ends(TakePlace(h, z), D, y, l2, r2, p2, rec, n)
                         /\ Fewer(l2, E) = PlaceL(l, r, E, z, y)
                         /\ Fewer(r2, E) = PlaceR(r, E, z, y)
                         /\ Fewer(p2, E) = PlaceP(l, r, p, E, z, y)
  <2>1. CASE p[y] = z
    BY <1>1, <1>3, <2>1, TakePlaceNear
  <2>2. CASE p[y] # z
    BY <1>1, <1>3, <2>2, TakePlaceFar
  <2> QED
    BY <2>1, <2>2
<1>6. PICK l2, r2, p2 : /\ Ends(TakePlace(h, z), D, y, l2, r2, p2, rec, n)
                        /\ Fewer(l2, E) = PlaceL(l, r, E, z, y)
                        /\ Fewer(r2, E) = PlaceR(r, E, z, y)
                        /\ Fewer(p2, E) = PlaceP(l, r, p, E, z, y)
  BY <1>5
<1>7. Shape(E, y, PlaceL(l, r, E, z, y), PlaceR(r, E, z, y), PlaceP(l, r, p, E, z, y), PlaceSubs(sub, E, y))
  BY <1>1, <1>3, <1>4, PlaceShape
<1>8. InOrder(E, PlaceL(l, r, E, z, y), PlaceR(r, E, z, y), PlaceSubs(sub, E, y))
  BY <1>1, <1>2, <1>3, <1>4, PlaceInOrder
<1> QED
  BY <1>1, <1>6, <1>7, <1>8, <1>5 DEF Unlinked

(* A removal of a key that is not there changes nothing; one of a key that *)
(* is takes its node away.                                                 *)
LEMMA RemoveCert ==
  ASSUME NEW h, NEW D, IsFiniteSet(D), NEW l, NEW r, NEW p, NEW rec, NEW n, NEW sub,
         Cert(h, D, l, r, p, rec, n, sub), NEW key \in Keys
  PROVE  /\ key \notin D => tree_remove(h, key) = h
         /\ key \in D =>
              \E l2, r2, p2, sub2 :
                Cert(tree_remove(h, key), D \ {key}, l2, r2, p2, Fewer(rec, D \ {key}), n - 1, sub2)
<1>1. PICK root : /\ Ends(h, D, root, l, r, p, rec, n)
                  /\ Shape(D, root, l, r, p, sub)
                  /\ InOrder(D, l, r, sub)
  BY DEF Cert
<1>2. key \in Nat /\ key # NULL /\ D \in SUBSET Nat /\ NULL \notin D
  BY <1>1, ReadOf, SplayTreeAssumption
<1>3. PICK d : d = Descent(h, key)
  OBVIOUS
<1>4. /\ Standing(D, l, r, p, sub, key, d.at, d.parent, d.nearest)
      /\ d.at \in {NULL, key}
  BY <1>1, <1>2, <1>3, DescentEnds
<1>5. d.at = NULL <=> key \notin D
  BY <1>2, <1>4 DEF Standing, Sub
<1>6. ASSUME key \notin D PROVE tree_remove(h, key) = h
  BY <1>3, <1>5, <1>6 DEF tree_remove
<1>7. ASSUME key \in D
      PROVE  \E l2, r2, p2, sub2 :
               Cert(tree_remove(h, key), D \ {key}, l2, r2, p2, Fewer(rec, D \ {key}), n - 1, sub2)
  <2>1. PICK s, a, b, E :
          /\ s = splay(h, key)
          /\ a = (IF Left(s, key) = NULL THEN replace(s, key, Right(s, key))
                  ELSE IF Right(s, key) = NULL THEN replace(s, key, Left(s, key))
                  ELSE TakePlace(s, key))
          /\ b = Append(a, [Now(a) EXCEPT !.node_count = @ - 1])
          /\ E = D \ {key}
    OBVIOUS
  <2>2. tree_remove(h, key) = Append(b, [Now(b) EXCEPT !.node[key] = NoNode])
    BY <1>3, <1>5, <1>7, <2>1 DEF tree_remove
  <2>3. PICK l1, r1, p1, sub1 : Cert(s, D, l1, r1, p1, rec, n, sub1) /\ p1[key] = NULL
    BY <1>7, <2>1, SplayCert
  <2>4. PICK root1 : /\ Ends(s, D, root1, l1, r1, p1, rec, n)
                     /\ Shape(D, root1, l1, r1, p1, sub1)
                     /\ InOrder(D, l1, r1, sub1)
    BY <2>3 DEF Cert
  <2>5. AllFree(s)
    BY <2>3 DEF Cert
  <2>6. root1 = key
    BY <1>7, <2>3, <2>4 DEF Shape, Rooted
  <2>7. Left(s, key) = l1[key] /\ Right(s, key) = r1[key]
    BY <1>7, <2>3, ReadCert
  <2>8. Unlinked(a, D, key, rec, n)
    <3>1. CASE l1[key] = NULL
      <4>1. a = replace(s, key, r1[key])
        BY <2>1, <2>7, <3>1
      <4> QED
        BY <1>7, <2>4, <2>6, <2>5, <3>1, <4>1, OneChild
    <3>2. CASE l1[key] # NULL /\ r1[key] = NULL
      <4>1. a = replace(s, key, l1[key])
        BY <2>1, <2>7, <3>2
      <4> QED
        BY <1>7, <2>4, <2>6, <2>5, <3>2, <4>1, OneChild
    <3>3. CASE l1[key] # NULL /\ r1[key] # NULL
      <4>1. a = TakePlace(s, key)
        BY <2>1, <2>7, <3>3
      <4> QED
        BY <1>7, <2>4, <2>6, <2>5, <3>3, <4>1, TwoChildren
    <3> QED
      BY <3>1, <3>2, <3>3
  <2>9. PICK root2, l2, r2, p2, sub2 :
          /\ Ends(a, D, root2, l2, r2, p2, rec, n)
          /\ Shape(E, root2, Fewer(l2, E), Fewer(r2, E), Fewer(p2, E), sub2)
          /\ InOrder(E, Fewer(l2, E), Fewer(r2, E), sub2)
    BY <2>1, <2>8 DEF Unlinked
  <2>10. Ends(b, D, root2, l2, r2, p2, rec, n - 1)
    BY <2>1, <2>9, CountEnds
  <2>11. AllFree(b)
    <3>1. E \subseteq D /\ \A w \in E : l2[w] = Fewer(l2, E)[w] /\ r2[w] = Fewer(r2, E)[w]
      BY <2>1 DEF Fewer
    <3>2. FreesOnce(E, root2, Fewer(l2, E), Fewer(r2, E))
      BY <2>9, ShapeFrees
    <3>3. PICK l3, r3 : l3 = Fewer(l2, E) /\ r3 = Fewer(r2, E)
      OBVIOUS
    <3>4. FreesOnce(D, root2, l2, r2)
      BY <3>1, <3>2, <3>3, FreesMore
    <3>5. PICK m : m = n - 1
      OBVIOUS
    <3>6. Ends(b, D, root2, l2, r2, p2, rec, m)
      BY <2>10, <3>5
    <3>7. AllFree(a) /\ After(a, b)
      BY <2>1, <2>8 DEF Unlinked, After
    <3> QED
      BY <3>4, <3>6, <3>7, AllFreeAfter
  <2>12. Ends(tree_remove(h, key), E, root2, Fewer(l2, E), Fewer(r2, E), Fewer(p2, E), Fewer(rec, E), n - 1)
    <3>1. PICK m : m = n - 1
      OBVIOUS
    <3>2. Ends(b, D, root2, l2, r2, p2, rec, m)
      BY <2>10, <3>1
    <3>3. key \in D /\ E = D \ {key}
      BY <1>7, <2>1
    <3>4. Ends(Append(b, [Now(b) EXCEPT !.node[key] = NoNode]), E, root2,
               Fewer(l2, E), Fewer(r2, E), Fewer(p2, E), Fewer(rec, E), m)
      BY ONLY <3>2, <3>3, DropEnds
    <3> QED
      BY <2>2, <3>1, <3>4
  <2>13. Cert(tree_remove(h, key), E, Fewer(l2, E), Fewer(r2, E), Fewer(p2, E), Fewer(rec, E), n - 1, sub2)
    <3>1. PICK g, l3, r3, p3, c3, m :
            /\ g = tree_remove(h, key) /\ l3 = Fewer(l2, E) /\ r3 = Fewer(r2, E)
            /\ p3 = Fewer(p2, E) /\ c3 = Fewer(rec, E) /\ m = n - 1
      OBVIOUS
    <3>2. After(b, g) /\ IsFiniteSet(E)
      <4>1. After(b, g)
        BY <2>2, <3>1 DEF After
      <4>2. IsFiniteSet(E)
        BY <2>1, FS_Subset
      <4> QED
        BY <4>1, <4>2
    <3>3. Ends(g, E, root2, l3, r3, p3, c3, m) /\ Shape(E, root2, l3, r3, p3, sub2) /\ InOrder(E, l3, r3, sub2)
      BY <2>9, <2>12, <3>1
    <3>4. Cert(g, E, l3, r3, p3, c3, m, sub2)
      BY <2>11, <3>2, <3>3, StoreCert
    <3> QED
      BY <3>1, <3>4
  <2> QED
    BY <2>1, <2>13
<1> QED
  BY <1>6, <1>7

-----------------------------------------------------------------------------
(* What the links lead to *)

Farther(h, ys) == ys \cup UNION {{Left(h, y), Right(h, y)} \ {NULL} : y \in ys}

ReachStates(D, sub, u) ==
  {s \in Nat \X SUBSET D :
     /\ {u} \ {NULL} \subseteq s[2] /\ s[2] \subseteq Sub(sub, u)
     /\ \A y \in Sub(sub, u) : y \in s[2] \/ Cardinality(sub[y]) + s[1] <= Cardinality(D)}

LEMMA ReachStep ==
  ASSUME NEW h, NEW D, IsFiniteSet(D), NEW root, NEW l, NEW r, NEW p, NEW rec, NEW n,
         Ends(h, D, root, l, r, p, rec, n), NEW sub,
         Shape(D, root, l, r, p, sub), NEW u \in D \cup {NULL},
         NEW k \in Nat, NEW ys, <<k, ys>> \in ReachStates(D, sub, u)
  PROVE  <<k + 1, Farther(h, ys)>> \in ReachStates(D, sub, u)
<1>1. /\ ys \subseteq D /\ {u} \ {NULL} \subseteq ys /\ ys \subseteq Sub(sub, u)
      /\ \A y \in Sub(sub, u) : y \in ys \/ Cardinality(sub[y]) + k <= Cardinality(D)
  BY DEF ReachStates
<1>2. NULL \notin D /\ Sub(sub, u) \subseteq D
  BY DEF Shape, Typed, Sub
<1>3. \A y \in ys : Left(h, y) = l[y] /\ Right(h, y) = r[y]
  BY <1>1, ReadOf
<1>4. PICK zs : zs = Farther(h, ys)
  OBVIOUS
<1>5. ys \subseteq zs /\ \A y \in ys : {l[y], r[y]} \ {NULL} \subseteq zs
  BY <1>3, <1>4 DEF Farther
<1>6. zs \subseteq Sub(sub, u)
  <2>1. ASSUME NEW y \in ys, NEW c \in {l[y], r[y]} \ {NULL} PROVE c \in Sub(sub, u)
    <3>1. y \in D /\ u # NULL /\ y \in sub[u]
      BY <1>1, <1>2, <2>1 DEF Sub
    <3>2. c \in sub[y]
      BY <2>1, <3>1, LinkFacts
    <3>3. u \in D
      BY <3>1
    <3> QED
      BY <3>1, <3>2, <3>3 DEF Shape, Nested, Sub
  <2> QED
    BY <1>1, <1>3, <1>4, <2>1 DEF Farther
<1>7. ASSUME NEW y \in Sub(sub, u), y \notin zs
      PROVE  Cardinality(sub[y]) + (k + 1) <= Cardinality(D)
  <2>1. /\ u # NULL /\ u \in D /\ y \in sub[u] /\ y # u /\ y \in D
    BY <1>1, <1>2, <1>5, <1>7 DEF Sub
  <2>2. p[y] # NULL /\ p[y] \in sub[u] /\ p[y] \in D
    BY <1>2, <2>1 DEF Shape, Nested, Sub
  <2>3. y = l[p[y]] \/ y = r[p[y]]
    BY <2>1, <2>2 DEF Shape, Agreed
  <2>4. p[y] \notin ys /\ y # NULL
    BY <1>2, <1>5, <1>7, <2>1, <2>3
  <2>5. PICK q : q = p[y]
    OBVIOUS
  <2>6. Cardinality(sub[q]) + k <= Cardinality(D)
    BY <1>1, <2>1, <2>2, <2>4, <2>5 DEF Sub
  <2>7. q \in D /\ q # NULL /\ (y = l[q] \/ y = r[q])
    BY <2>2, <2>3, <2>5
  <2>8. /\ Cardinality(Sub(sub, y)) + 1 <= Cardinality(Sub(sub, q))
        /\ Cardinality(Sub(sub, y)) \in Nat /\ Cardinality(Sub(sub, q)) \in Nat
    BY <2>1, <2>7, SmallerSub
  <2>9. Sub(sub, y) = sub[y] /\ Sub(sub, q) = sub[q] /\ Cardinality(D) \in Nat
    BY <2>4, <2>7, FS_CardinalityType DEF Sub
  <2> QED
    BY <2>6, <2>8, <2>9
<1> QED
  BY <1>1, <1>2, <1>4, <1>5, <1>6, <1>7 DEF ReachStates

(* What the links from s lead to is in the states that hold s and keep up  *)
(* with the links.                                                         *)
LEMMA ReachHolds ==
  ASSUME NEW h, Size(h) \in Nat, NEW U, NEW P \in SUBSET (Nat \X U), NEW s, <<0, s>> \in P,
         \A k \in Nat : \A ys : <<k, ys>> \in P => <<k + 1, Farther(h, ys)>> \in P
  PROVE  <<Size(h), Reached(h, s)>> \in P
<1> DEFINE F == [t \in U |-> Farther(h, t)]
<1>1. PICK N \in Nat : N = Size(h)
  OBVIOUS
<1>2. \A k : \A t : <<k, t>> \in P => k \in Nat /\ t \in U /\ F[t] = Farther(h, t)
  OBVIOUS
<1> HIDE DEF F
<1>3. \A k \in Nat : \A t : <<k, t>> \in P => <<k + 1, F[t]>> \in P
  BY <1>2
<1>4. PICK g : IsRun(F, g, s, N) /\ \A k \in 0 .. N : <<k, g[k]>> \in P
  BY <1>3, RunWithin
<1>5. g = [k \in 0 .. N |-> IF k = 0 THEN s ELSE Farther(h, g[k - 1])]
  <2>1. \A k \in 0 .. N : k # 0 => F[g[k - 1]] = Farther(h, g[k - 1])
    <3> SUFFICES ASSUME NEW k \in 0 .. N, k # 0 PROVE F[g[k - 1]] = Farther(h, g[k - 1])
      OBVIOUS
    <3>1. k - 1 \in 0 .. N
      OBVIOUS
    <3> QED
      BY <1>2, <1>4, <3>1
  <2> QED
    BY <1>4, <2>1 DEF IsRun
<1>6. PICK f : /\ f = [k \in 0 .. N |-> IF k = 0 THEN s ELSE Farther(h, f[k - 1])]
               /\ Reached(h, s) = f[N]
  <2>1. Reached(h, s) = Loop(LAMBDA ys : Farther(h, ys), s, N)
    BY <1>1 DEF Reached, Loop, Farther
  <2> QED
    BY <1>5, <2>1 DEF Loop
<1>7. f[0] = s /\ \A k \in 0 .. N - 1 : f[k + 1] = Farther(h, f[k])
  BY <1>6
<1>8. \A k \in 0 .. N - 1 : <<k, f[k]>> \in P => <<k + 1, f[k + 1]>> \in P
  BY <1>7
<1>9. \A k \in 0 .. N : <<k, f[k]>> \in P
  BY <1>7, <1>8, RunHolds
<1> QED
  BY <1>1, <1>6, <1>9

(* The nodes below u are those of the subtree at u. *)
LEMMA BelowIsSub ==
  ASSUME NEW h, NEW D, IsFiniteSet(D), NEW root, NEW l, NEW r, NEW p, NEW rec, NEW n,
         Ends(h, D, root, l, r, p, rec, n), NEW sub,
         Shape(D, root, l, r, p, sub), NEW u \in D \cup {NULL}
  PROVE  Below(h, u) = Sub(sub, u)
<1> DEFINE N == Cardinality(D)
           P == ReachStates(D, sub, u)
           s == {u} \ {NULL}
           y == Below(h, u)
<1>1. N \in Nat /\ Size(h) = N /\ D \in SUBSET Nat /\ NULL \notin D /\ Sub(sub, u) \subseteq D
  BY FS_CardinalityType, ReadOf DEF Size, Shape, Typed, Sub
<1>2. <<0, s>> \in P
  <2>1. s \subseteq D /\ s \subseteq Sub(sub, u)
    BY LinkFacts DEF Sub
  <2>2. ASSUME NEW z \in Sub(sub, u) PROVE Cardinality(sub[z]) + 0 <= N
    <3>1. z \in D
      BY <1>1
    <3>2. sub[z] \subseteq D
      BY <3>1, LinkFacts
    <3> QED
      BY <1>1, <3>2, FS_Subset, FS_CardinalityType
  <2> QED
    BY <2>1, <2>2 DEF ReachStates
<1>3. \A k \in Nat : \A ys : <<k, ys>> \in P => <<k + 1, Farther(h, ys)>> \in P
  BY ReachStep
<1>4. P \in SUBSET (Nat \X SUBSET D)
  BY DEF ReachStates
<1> HIDE DEF P, N, s
<1>5. <<N, y>> \in P
  <2>1. <<Size(h), Reached(h, s)>> \in P
    BY <1>1, <1>2, <1>3, <1>4, ReachHolds
  <2> QED
    BY <1>1, <2>1 DEF Below, s
<1> HIDE DEF y
<1>6. /\ y \subseteq Sub(sub, u)
       /\ \A z \in Sub(sub, u) : z \in y \/ Cardinality(sub[z]) + N <= N
  <2>1. <<N, y>> \in ReachStates(D, sub, u)
    BY <1>5 DEF P
  <2>2. Cardinality(D) = N
    BY DEF N
  <2> QED
    BY <2>1, <2>2 DEF ReachStates
<1>7. ASSUME NEW z \in Sub(sub, u) PROVE z \in y
  <2>1. z \in D
    BY <1>1
  <2>2. z \in sub[z] /\ sub[z] \subseteq D
    BY <2>1, LinkFacts
  <2>3. Cardinality(sub[z]) \in Nat \ {0}
    BY <2>2, FS_Subset, FS_CardinalityType, FS_EmptySet
  <2> QED
    BY <1>1, <1>6, <2>3
<1>8. y = Sub(sub, u)
  BY <1>6, <1>7
<1> QED
  BY <1>8 DEF y

-----------------------------------------------------------------------------
(* The tree between two calls *)

(* The tree in which a history ends has the nodes D, with the records rec. *)
Holds(h, D, rec) ==
  /\ IsFiniteSet(D)
  /\ \E l, r, p, sub : Cert(h, D, l, r, p, rec, Cardinality(D), sub)

(* Of a history, only where it ends matters. *)
LEMMA HoldsNow ==
  ASSUME NEW h, NEW D, NEW rec, Holds(h, D, rec), NEW t, t = Now(h)
  PROVE  Holds(<<t>>, D, rec)
<1>1. PICK n, l, r, p, sub : n = Cardinality(D) /\ Cert(h, D, l, r, p, rec, n, sub)
  BY DEF Holds
<1>2. PICK root : /\ Ends(h, D, root, l, r, p, rec, n)
                  /\ Shape(D, root, l, r, p, sub)
                  /\ InOrder(D, l, r, sub)
  BY <1>1 DEF Cert
<1>3. Now(<<t>>) = t /\ <<t>> # << >>
  BY DEF Now
<1>4. <<t>> \in Seq(Trees)
  <2>1. Len(h) \in 1 .. Len(h) /\ h \in Seq(Trees)
    BY <1>2, EmptySeq, LenProperties DEF Ends
  <2>2. t \in Trees
    BY <2>1, ElementOfSeq DEF Now
  <2> QED
    BY <2>2
<1>5. Ends(<<t>>, D, root, l, r, p, rec, n)
  BY <1>2, <1>3, <1>4 DEF Ends
<1>6. Cert(<<t>>, D, l, r, p, rec, n, sub)
  <2>1. IsFiniteSet(D) /\ AllFree(h)
    BY <1>1 DEF Cert
  <2>2. Len(h) \in DOMAIN h
    BY <1>2, EmptySeq, LenProperties DEF Ends
  <2>3. Freeable(t)
    BY <2>1, <2>2 DEF AllFree, Now
  <2>4. AllFree(<<t>>)
    BY <1>4, <2>3 DEF AllFree
  <2> QED
    BY <1>2, <1>5, <2>1, <2>4 DEF Cert
<1> QED
  BY <1>1, <1>6 DEF Holds

LEMMA NewHolds ==
  ASSUME NEW rec, rec = [k \in {} |-> NoRecord]
  PROVE  Holds(<<tree_new>>, {}, rec)
<1> DEFINE f == [k \in {} |-> NULL]
           sub == [k \in {} |-> {}]
           n == Cardinality({})
<1>1. n = 0 /\ IsFiniteSet({})
  BY FS_EmptySet
<1>2. /\ f \in [{} -> Nat] /\ f \in [{} -> {} \cup {NULL}] /\ rec \in [{} -> Records]
      /\ sub \in [{} -> SUBSET {}]
  OBVIOUS
<1> HIDE DEF f, sub, n
<1>3. tree_new = TreeOf({}, NULL, f, f, f, rec, n)
  <2>1. NodesOf({}, f, f, f, rec) = [key \in Keys |-> NoNode]
    BY DEF NodesOf
  <2> QED
    BY <1>1, <2>1 DEF TreeOf, TreeWith, tree_new
<1>4. tree_new \in Trees
  <2>1. NULL \in Nat /\ n \in Int /\ {} \in SUBSET Keys
    BY <1>1 DEF NULL
  <2> QED
    BY <1>2, <1>3, <2>1, TreeOfType
<1>5. Ends(<<tree_new>>, {}, NULL, f, f, f, rec, n)
  <2>1. <<tree_new>> \in Seq(Trees) /\ <<tree_new>> # << >> /\ Now(<<tree_new>>) = tree_new
    BY <1>4 DEF Now
  <2> QED
    BY <1>1, <1>2, <1>3, <2>1 DEF Ends, NULL
<1>6. Shape({}, NULL, f, f, f, sub) /\ InOrder({}, f, f, sub)
  BY <1>2 DEF Shape, Typed, Rooted, Split, Nested, Agreed, InOrder
<1>7. Cert(<<tree_new>>, {}, f, f, f, rec, n, sub)
  <2>1. Freeable(Now(<<tree_new>>))
    BY <1>1, <1>5, <1>6, ShapeFrees, FreeableNow
  <2>2. AllFree(<<tree_new>>)
    BY <1>4, <2>1 DEF AllFree, Now
  <2> QED
    BY <1>1, <1>5, <1>6, <2>2 DEF Cert
<1> QED
  BY <1>1, <1>7 DEF Holds, n

LEMMA InsertHolds ==
  ASSUME NEW h, NEW D, NEW rec, Holds(h, D, rec), NEW key \in Keys, NEW record \in Records,
         NEW g, g = tree_insert(h, key, record)
  PROVE  /\ Descent(h, key).at = NULL <=> key \notin D
         /\ key \in D => g = h
         /\ key \notin D => Holds(g, D \cup {key}, Extended(D, rec, key, record))
         /\ key \notin D => Now(g).root = key
<1>1. PICK n, l, r, p, sub : n = Cardinality(D) /\ Cert(h, D, l, r, p, rec, n, sub)
  BY DEF Holds
<1>2. IsFiniteSet(D)
  BY DEF Holds
<1>3. Descent(h, key).at = NULL <=> key \notin D
  BY <1>1, <1>2, InsertCert
<1>4. key \in D => g = h
  BY <1>1, <1>2, InsertCert
<1>5. ASSUME key \notin D
      PROVE  /\ Holds(g, D \cup {key}, Extended(D, rec, key, record))
             /\ Now(g).root = key
  <2>1. PICK E, rec2, m : E = D \cup {key} /\ rec2 = Extended(D, rec, key, record) /\ m = n + 1
    OBVIOUS
  <2>2. PICK l2, r2, p2, sub2 : Cert(g, E, l2, r2, p2, rec2, m, sub2) /\ p2[key] = NULL
    <3>1. PICK l2, r2, p2, sub2 : /\ Cert(g, D \cup {key}, l2, r2, p2,
                                          Extended(D, rec, key, record), n + 1, sub2)
                                  /\ p2[key] = NULL
      <4>1. Inserts(h, D, rec, n, key, record)
        BY <1>1, <1>2, <1>5, InsertCert
      <4> QED
        BY <4>1 DEF Inserts
    <3> QED
      BY <2>1, <3>1
  <2>3. IsFiniteSet(E) /\ m = Cardinality(E)
    BY <1>1, <1>2, <1>5, <2>1, FS_AddElement
  <2>4. Holds(g, E, rec2)
    BY <2>2, <2>3 DEF Holds
  <2>5. PICK root : Ends(g, E, root, l2, r2, p2, rec2, m) /\ Shape(E, root, l2, r2, p2, sub2)
    BY <2>2 DEF Cert
  <2>6. root = key
    BY <2>1, <2>2, <2>5 DEF Shape, Rooted
  <2>7. Now(g).root = root
    BY <2>5, ReadOf
  <2> QED
    BY <2>1, <2>4, <2>6, <2>7
<1> QED
  BY <1>3, <1>4, <1>5

LEMMA RemoveHolds ==
  ASSUME NEW h, NEW D, NEW rec, Holds(h, D, rec), NEW key \in Keys,
         NEW g, g = tree_remove(h, key)
  PROVE  /\ key \notin D => g = h
         /\ key \in D => Holds(g, D \ {key}, Fewer(rec, D \ {key}))
<1>1. PICK n, l, r, p, sub : n = Cardinality(D) /\ Cert(h, D, l, r, p, rec, n, sub)
  BY DEF Holds
<1>2. IsFiniteSet(D)
  BY DEF Holds
<1>3. key \notin D => g = h
  BY <1>1, <1>2, RemoveCert
<1>4. ASSUME key \in D PROVE Holds(g, D \ {key}, Fewer(rec, D \ {key}))
  <2>1. PICK E, rec2, m : E = D \ {key} /\ rec2 = Fewer(rec, E) /\ m = n - 1
    OBVIOUS
  <2>2. PICK l2, r2, p2, sub2 : Cert(g, E, l2, r2, p2, rec2, m, sub2)
    <3>1. PICK l2, r2, p2, sub2 :
            Cert(g, D \ {key}, l2, r2, p2, Fewer(rec, D \ {key}), n - 1, sub2)
      BY <1>1, <1>2, <1>4, RemoveCert
    <3> QED
      BY <2>1, <3>1
  <2>3. IsFiniteSet(E) /\ m = Cardinality(E)
    BY <1>1, <1>2, <1>4, <2>1, FS_RemoveElement
  <2>4. Holds(g, E, rec2)
    BY <2>2, <2>3 DEF Holds
  <2> QED
    BY <2>1, <2>4
<1> QED
  BY <1>3, <1>4

(* tree_find_nearest comes to the node with the largest key that is not    *)
(* above key, if there is one.                                             *)
LEMMA FindHolds ==
  ASSUME NEW h, NEW D, NEW rec, Holds(h, D, rec), NEW key \in Keys
  PROVE  /\ tree_find(h, key) = IF key \in D THEN rec[key] ELSE NoRecord
         /\ \/ \E k \in D : /\ k <= key
                            /\ \A j \in D : j <= key => j <= k
                            /\ tree_find_nearest(h, key) = rec[k]
            \/ (\A k \in D : k > key) /\ tree_find_nearest(h, key) = NoRecord
<1>1. PICK n, l, r, p, sub : Cert(h, D, l, r, p, rec, n, sub)
  BY DEF Holds
<1>2. PICK root : /\ Ends(h, D, root, l, r, p, rec, n)
                  /\ Shape(D, root, l, r, p, sub)
                  /\ InOrder(D, l, r, sub)
  BY <1>1 DEF Cert
<1>3. key \in Nat /\ key # NULL /\ D \subseteq Nat /\ NULL \notin D /\ IsFiniteSet(D)
  BY <1>2, ReadOf, SplayTreeAssumption DEF Holds
<1>4. PICK d : d = Descent(h, key)
  OBVIOUS
<1>5. /\ Standing(D, l, r, p, sub, key, d.at, d.parent, d.nearest)
      /\ Nearest(D, sub, key, d.at, d.nearest)
      /\ d.at \in {NULL, key}
  BY <1>2, <1>3, <1>4, DescentEnds
<1>6. d.at \in D \cup {NULL} /\ d.nearest \in D \cup {NULL} /\ (d.at = NULL => key \notin D)
  BY <1>5 DEF Standing, Sub
<1>7. \A z \in D : RecordOf(h, z) = rec[z]
  BY <1>2, <1>3, ReadOf DEF RecordOf
<1>8. RecordOf(h, NULL) = NoRecord
  BY DEF RecordOf
<1>9. CASE d.at = key
  <2>1. key \in D
    BY <1>3, <1>6, <1>9
  <2>2. tree_find(h, key) = rec[key]
    BY <1>4, <1>7, <1>9, <2>1 DEF tree_find
  <2>3. tree_find_nearest(h, key) = rec[key]
    BY <1>4, <1>7, <1>9, <2>1 DEF tree_find_nearest
  <2>4. key <= key
    BY <1>3
  <2> QED
    BY <2>1, <2>2, <2>3, <2>4
<1>10. CASE d.at = NULL
  <2>1. key \notin D /\ NULL # key
    BY <1>3, <1>6, <1>10
  <2>2. tree_find(h, key) = NoRecord
    BY <1>4, <1>8, <1>10 DEF tree_find
  <2>3. tree_find_nearest(h, key) = RecordOf(h, d.nearest)
    BY <1>4, <1>10, <2>1 DEF tree_find_nearest
  <2>4. /\ d.nearest # NULL => d.nearest < key
        /\ \A a \in D : a < key => d.nearest # NULL /\ a <= d.nearest
    BY <1>5, <1>10 DEF Nearest, Sub
  <2>5. CASE d.nearest = NULL
    <3>1. \A a \in D : a > key
      BY <1>3, <2>1, <2>4, <2>5
    <3> QED
      BY <1>8, <2>1, <2>2, <2>3, <2>5, <3>1
  <2>6. CASE d.nearest # NULL
    <3>1. d.nearest \in D /\ d.nearest <= key
      <4>1. d.nearest \in D /\ d.nearest < key
        BY <1>6, <2>4, <2>6
      <4>2. d.nearest \in Nat
        BY <1>3, <4>1
      <4> QED
        BY <1>3, <4>1, <4>2
    <3>2. \A j \in D : j <= key => j <= d.nearest
      BY <1>3, <2>1, <2>4
    <3> QED
      BY <1>7, <2>1, <2>2, <2>3, <3>1, <3>2
  <2> QED
    BY <2>5, <2>6
<1> QED
  BY <1>5, <1>9, <1>10

(* The tree of the state holds the nodes D. *)
LEMMA HoldsIsSound ==
  ASSUME NEW D, NEW rec, Holds(<<tree>>, D, rec)
  PROVE  Nodes = D /\ [k \in Nodes |-> tree.node[k].record] = rec
         /\ TypeOK /\ ParentsMatch /\ Ordered
<1>1. PICK n, l, r, p, sub : n = Cardinality(D) /\ Cert(Current, D, l, r, p, rec, n, sub)
  BY DEF Holds, Current
<1>2. PICK root : /\ Ends(Current, D, root, l, r, p, rec, n)
                  /\ Shape(D, root, l, r, p, sub)
                  /\ InOrder(D, l, r, sub)
  BY <1>1 DEF Cert
<1>3. Now(Current) = tree
  BY DEF Now, Current
<1>4. /\ tree.root = root /\ tree.node_count = n /\ Nodes = D
      /\ D \subseteq Nat /\ NULL \notin D
      /\ \A z \in D : /\ Left(Current, z) = l[z] /\ Right(Current, z) = r[z]
                      /\ Parent(Current, z) = p[z] /\ tree.node[z].record = rec[z]
  BY <1>2, <1>3, ReadOf DEF Nodes
<1>5. IsFiniteSet(D) /\ n \in Nat
  BY <1>1, FS_CardinalityType DEF Holds
<1>6. rec \in [D -> Records]
  BY <1>2 DEF Ends
<1>7. [k \in Nodes |-> tree.node[k].record] = rec
  BY <1>4, <1>6
<1>8. TypeOK
  <2>1. DOMAIN tree.node = Keys
    BY <1>2, <1>3 DEF Ends, TreeOf, TreeWith, NodesOf
  <2>2. /\ root \in D \cup {NULL}
        /\ \A z \in D : /\ l[z] \in D \cup {NULL} /\ r[z] \in D \cup {NULL}
                        /\ p[z] \in D \cup {NULL} /\ rec[z] \in Records
    BY <1>2, <1>6 DEF Shape, Typed
  <2> QED
    BY <1>4, <1>5, <2>1, <2>2 DEF TypeOK
<1>9. ParentsMatch
  <2>1. (root = NULL) <=> (D = {})
    BY <1>2 DEF Shape, Rooted
  <2>2. ASSUME NEW x \in D
        PROVE  /\ l[x] # NULL => l[x] \in D /\ p[l[x]] = x
               /\ r[x] # NULL => r[x] \in D /\ p[r[x]] = x
               /\ (p[x] = NULL) <=> (x = root)
               /\ p[x] # NULL => p[x] \in D /\ x \in {l[p[x]], r[p[x]]}
    BY <1>2, <2>2 DEF Shape, Typed, Rooted, Agreed
  <2>3. ASSUME NEW x \in D
        PROVE  /\ Left(Current, x) # NULL => Parent(Current, Left(Current, x)) = x
               /\ Right(Current, x) # NULL => Parent(Current, Right(Current, x)) = x
               /\ (Parent(Current, x) = NULL) <=> (x = tree.root)
               /\ Parent(Current, x) # NULL =>
                    x \in {Left(Current, Parent(Current, x)), Right(Current, Parent(Current, x))}
    <3>1. Left(Current, x) = l[x] /\ Right(Current, x) = r[x] /\ Parent(Current, x) = p[x]
      BY <1>4
    <3>2. l[x] # NULL => Parent(Current, l[x]) = x
      BY <1>4, <2>2
    <3>3. r[x] # NULL => Parent(Current, r[x]) = x
      BY <1>4, <2>2
    <3>4. p[x] # NULL => x \in {Left(Current, p[x]), Right(Current, p[x])}
      BY <1>4, <2>2
    <3> QED
      BY <1>4, <2>2, <3>1, <3>2, <3>3, <3>4
  <2> QED
    BY <1>4, <2>1, <2>3 DEF ParentsMatch
<1>10. Ordered
  <2>1. ASSUME NEW u \in D \cup {NULL} PROVE Below(Current, u) = Sub(sub, u)
    BY <1>2, <1>5, BelowIsSub
  <2>2. Below(Current, tree.root) = Nodes
    <3>1. root \in D \cup {NULL} /\ Sub(sub, root) = D
      BY <1>2 DEF Shape, Typed, Rooted, Sub
    <3> QED
      BY <1>4, <2>1, <3>1
  <2>3. ASSUME NEW x \in D
        PROVE  /\ \A y \in Below(Current, Left(Current, x)) : y < x
               /\ \A y \in Below(Current, Right(Current, x)) : x < y
    <3>1. l[x] \in D \cup {NULL} /\ r[x] \in D \cup {NULL}
      BY <1>2 DEF Shape, Typed
    <3>2. /\ Below(Current, Left(Current, x)) = Sub(sub, l[x])
          /\ Below(Current, Right(Current, x)) = Sub(sub, r[x])
      BY <1>4, <2>1, <3>1
    <3> QED
      BY <1>2, <3>2 DEF InOrder
  <2> QED
    BY <1>1, <1>4, <2>2, <2>3 DEF Ordered
<1> QED
  BY <1>4, <1>7, <1>8, <1>9, <1>10

LEMMA HoldsMap ==
  ASSUME NEW t, NEW D, NEW rec, Holds(<<t>>, D, rec)
  PROVE  /\ Allocated(t) = D /\ [k \in Allocated(t) |-> t.node[k].record] = rec
         /\ DOMAIN rec = D /\ D \subseteq Keys
<1>1. PICK n, l, r, p, sub, root : Ends(<<t>>, D, root, l, r, p, rec, n)
  BY DEF Holds, Cert
<1>2. Now(<<t>>) = t
  BY DEF Now
<1>3. Allocated(t) = D /\ \A z \in D : t.node[z].record = rec[z]
  BY <1>1, <1>2, ReadOf
<1>4. rec \in [D -> Records] /\ D \subseteq Keys
  BY <1>1 DEF Ends
<1> QED
  BY <1>3, <1>4

-----------------------------------------------------------------------------
(* The steps *)

(* What a step does that starts with the nodes D: it leaves a tree, does   *)
(* what the map does or nothing, and any new node is the root.             *)
Carries(D) ==
  \E D2, rec2 : /\ Holds(<<tree'>>, D2, rec2)
                /\ [Map!Next]_(Map!vars)
                /\ \A key \in D2 \ D : tree'.root = key

LEMMA CarriesInsert ==
  ASSUME NEW D, NEW rec, Holds(<<tree>>, D, rec), NEW key \in Keys, NEW record \in Records,
         Insert(key, record)
  PROVE  Carries(D)
<1>1. PICK t, t2, g : t = tree /\ t2 = tree' /\ g = tree_insert(<<t>>, key, record)
  OBVIOUS
<1>2. t2 = Now(g) /\ ret' = <<"insert", key, Descent(<<t>>, key).at = NULL>>
  BY <1>1 DEF Insert, Returned
<1>3. Holds(<<t>>, D, rec)
  BY <1>1
<1>4. /\ Descent(<<t>>, key).at = NULL <=> key \notin D
      /\ key \in D => g = <<t>>
      /\ key \notin D => Holds(g, D \cup {key}, Extended(D, rec, key, record))
      /\ key \notin D => Now(g).root = key
  BY <1>1, <1>3, InsertHolds
<1>5. Nodes = D /\ [k \in Nodes |-> tree.node[k].record] = rec /\ DOMAIN rec = D
  BY <1>1, <1>3, HoldsMap DEF Nodes
<1>6. CASE key \in D
  <2>1. t2 = t
    <3>1. g = <<t>> /\ Now(<<t>>) = t
      BY <1>4, <1>6 DEF Now
    <3> QED
      BY <1>2, <3>1
  <2>2. Map!Insert(key, record)
    BY <1>1, <1>2, <1>4, <1>5, <1>6, <2>1 DEF Map!Insert, Map!Returned, Nodes
  <2>3. Map!Next
    BY <2>2 DEF Map!Next
  <2> QED
    BY <1>1, <1>3, <2>1, <2>3 DEF Carries
<1>7. CASE key \notin D
  <2>1. PICK E, rec2 : E = D \cup {key} /\ rec2 = Extended(D, rec, key, record)
    OBVIOUS
  <2>2. Holds(<<t2>>, E, rec2)
    BY <1>2, <1>4, <1>7, <2>1, HoldsNow
  <2>3. Nodes' = E /\ [k \in Nodes' |-> tree'.node[k].record] = rec2
    BY <1>1, <2>2, HoldsMap DEF Nodes
  <2>4. Map!Insert(key, record)
    BY <1>1, <1>2, <1>4, <1>5, <1>7, <2>1, <2>3 DEF Map!Insert, Map!Returned, Extended
  <2>5. Map!Next
    BY <2>4 DEF Map!Next
  <2>6. \A k \in E \ D : t2.root = k
    BY <1>2, <1>4, <1>7, <2>1
  <2> QED
    BY <1>1, <2>2, <2>5, <2>6 DEF Carries
<1> QED
  BY <1>6, <1>7

LEMMA CarriesFind ==
  ASSUME NEW D, NEW rec, Holds(<<tree>>, D, rec), NEW key \in Keys, Find(key)
  PROVE  Carries(D)
<1>1. PICK t : t = tree /\ Holds(<<t>>, D, rec)
  OBVIOUS
<1>2. tree' = tree /\ ret' = <<"find", key, tree_find(<<t>>, key)>>
  BY <1>1 DEF Find, Returned
<1>3. tree_find(<<t>>, key) = IF key \in D THEN rec[key] ELSE NoRecord
  BY <1>1, FindHolds
<1>4. Nodes = D /\ [k \in Nodes |-> tree.node[k].record] = rec /\ DOMAIN rec = D
  BY <1>1, HoldsMap DEF Nodes
<1>5. Map!Find(key)
  BY <1>2, <1>3, <1>4 DEF Map!Find, Map!Lookup, Map!Returned, Nodes
<1>6. Map!Next
  BY <1>5 DEF Map!Next
<1> QED
  BY <1>1, <1>2, <1>6 DEF Carries

LEMMA CarriesFindNearest ==
  ASSUME NEW D, NEW rec, Holds(<<tree>>, D, rec), NEW key \in Keys, FindNearest(key)
  PROVE  Carries(D)
<1>1. PICK t, found : t = tree /\ Holds(<<t>>, D, rec) /\ found = tree_find_nearest(<<t>>, key)
  OBVIOUS
<1>2. tree' = tree /\ ret' = <<"find_nearest", key, found>>
  BY <1>1 DEF FindNearest, Returned
<1>3. \/ \E k \in D : k <= key /\ (\A j \in D : j <= key => j <= k) /\ found = rec[k]
      \/ (\A k \in D : k > key) /\ found = NoRecord
  BY <1>1, FindHolds
<1>4. Nodes = D /\ [k \in Nodes |-> tree.node[k].record] = rec /\ DOMAIN rec = D
  BY <1>1, HoldsMap DEF Nodes
<1>5. Map!FindNearest(key)
  BY <1>2, <1>3, <1>4 DEF Map!FindNearest, Map!Returned, Nodes
<1>6. Map!Next
  BY <1>5 DEF Map!Next
<1> QED
  BY <1>1, <1>2, <1>6 DEF Carries

LEMMA CarriesRemove ==
  ASSUME NEW D, NEW rec, Holds(<<tree>>, D, rec), NEW key \in Keys, Remove(key)
  PROVE  Carries(D)
<1>1. PICK t, t2, g : t = tree /\ t2 = tree' /\ g = tree_remove(<<t>>, key)
  OBVIOUS
<1>2. t2 = Now(g) /\ ret' = <<"remove", key, tree_find(<<t>>, key)>>
  BY <1>1 DEF Remove, Returned
<1>3. Holds(<<t>>, D, rec)
  BY <1>1
<1>4. /\ key \notin D => g = <<t>>
      /\ key \in D => Holds(g, D \ {key}, Fewer(rec, D \ {key}))
  BY <1>1, <1>3, RemoveHolds
<1>5. tree_find(<<t>>, key) = IF key \in D THEN rec[key] ELSE NoRecord
  BY <1>3, FindHolds
<1>6. Nodes = D /\ [k \in Nodes |-> tree.node[k].record] = rec /\ DOMAIN rec = D
  BY <1>1, <1>3, HoldsMap DEF Nodes
<1>7. CASE key \notin D
  <2>1. t2 = t
    <3>1. g = <<t>> /\ Now(<<t>>) = t
      BY <1>4, <1>7 DEF Now
    <3> QED
      BY <1>2, <3>1
  <2>2. D \ {key} = D /\ rec = [k \in D |-> rec[k]]
    <3>1. rec = [k \in D |-> tree.node[k].record]
      BY <1>6
    <3> QED
      BY <1>7, <3>1
  <2>3. Map!Remove(key)
    BY <1>1, <1>2, <1>5, <1>6, <1>7, <2>1, <2>2 DEF Map!Remove, Map!Lookup, Map!Returned, Nodes
  <2>4. Map!Next
    BY <2>3 DEF Map!Next
  <2> QED
    BY <1>1, <1>3, <2>1, <2>4 DEF Carries
<1>8. CASE key \in D
  <2>1. PICK E, rec2 : E = D \ {key} /\ rec2 = Fewer(rec, E)
    OBVIOUS
  <2>2. Holds(<<t2>>, E, rec2)
    BY <1>2, <1>4, <1>8, <2>1, HoldsNow
  <2>3. Nodes' = E /\ [k \in Nodes' |-> tree'.node[k].record] = rec2
    BY <1>1, <2>2, HoldsMap DEF Nodes
  <2>4. Map!Remove(key)
    BY <1>1, <1>2, <1>5, <1>6, <1>8, <2>1, <2>3 DEF Map!Remove, Map!Lookup, Map!Returned, Fewer
  <2>5. Map!Next
    BY <2>4 DEF Map!Next
  <2> QED
    BY <1>1, <2>1, <2>2, <2>5 DEF Carries
<1> QED
  BY <1>7, <1>8

(* A new tree is made, by tree_free's caller or once the alarm has rung.   *)
LEMMA CarriesClear ==
  ASSUME NEW D, tree' = tree_new, ret' = << >>
  PROVE  Carries(D)
<1>1. PICK E, rec2 : E = {} /\ rec2 = [k \in {} |-> NoRecord]
  OBVIOUS
<1>2. Holds(<<tree_new>>, E, rec2)
  BY <1>1, NewHolds
<1>3. PICK t2 : t2 = tree' /\ Holds(<<t2>>, E, rec2)
  BY <1>2
<1>4. Nodes' = E /\ [k \in Nodes' |-> tree'.node[k].record] = rec2
  BY <1>3, HoldsMap DEF Nodes
<1>5. rec2 = << >>
  BY <1>1
<1>6. Map!Clear
  BY <1>4, <1>5 DEF Map!Clear
<1>7. Map!Next
  BY <1>6 DEF Map!Next
<1> QED
  BY <1>1, <1>3, <1>7 DEF Carries

LEMMA StepCarries ==
  ASSUME NEW D, NEW rec, Holds(<<tree>>, D, rec), [Next]_vars
  PROVE  Carries(D)
<1>1. ASSUME NEW key \in Keys, NEW record \in Records, Insert(key, record) PROVE Carries(D)
  BY <1>1, CarriesInsert
<1>2. ASSUME NEW key \in Keys, Find(key) PROVE Carries(D)
  BY <1>2, CarriesFind
<1>3. ASSUME NEW key \in Keys, FindNearest(key) PROVE Carries(D)
  BY <1>3, CarriesFindNearest
<1>4. ASSUME NEW key \in Keys, Remove(key) PROVE Carries(D)
  BY <1>4, CarriesRemove
<1>5. CASE Clear
  BY <1>5, CarriesClear DEF Clear
<1>6. ASSUME NEW key \in Keys, NEW record \in Records, InterruptInsert(key, record)
      PROVE  Carries(D)
  BY <1>6, CarriesClear DEF InterruptInsert, Interrupted
<1>7. ASSUME NEW key \in Keys, InterruptRemove(key) PROVE Carries(D)
  BY <1>7, CarriesClear DEF InterruptRemove, Interrupted
<1>8. CASE tree' = tree /\ ret' = ret
  <2>1. UNCHANGED Map!vars
    BY <1>8 DEF Map!vars, Nodes
  <2>2. Holds(<<tree'>>, D, rec)
    BY <1>8
  <2> QED
    BY <2>1, <2>2 DEF Carries
<1>9. CASE FreeHalfway
  BY <1>8, <1>9 DEF FreeHalfway
<1>10. CASE UNCHANGED vars
  BY <1>8, <1>10 DEF vars
<1> QED
  BY <1>1, <1>2, <1>3, <1>4, <1>5, <1>6, <1>7, <1>9, <1>10 DEF Next

-----------------------------------------------------------------------------
(* What tree_free meets *)

(* A node it comes to hangs from another that it came to, or is the root.  *)
EnteredStates(R, root, l, r) ==
  {s \in Nat \X SUBSET R :
     \A y \in s[2] : y # root => \E x \in s[2] : l[x] = y \/ r[x] = y}

LEMMA EnteredStep ==
  ASSUME NEW h, NEW R, NEW root, NEW l, NEW r, NEW q, Once(R, root, l, r, q),
         \A z \in R : Left(h, z) = l[z] /\ Right(h, z) = r[z],
         NEW k \in Nat, NEW ys, <<k, ys>> \in EnteredStates(R, root, l, r)
  PROVE  <<k + 1, Farther(h, ys)>> \in EnteredStates(R, root, l, r)
<1>1. ys \subseteq R /\ \A y \in ys : y # root => \E x \in ys : l[x] = y \/ r[x] = y
  BY DEF EnteredStates
<1>2. PICK zs : zs = Farther(h, ys)
  OBVIOUS
<1>3. ys \subseteq zs /\ \A y \in zs : y \in ys \/ (y # NULL /\ \E x \in ys : l[x] = y \/ r[x] = y)
  BY <1>1, <1>2 DEF Farther
<1>4. zs \subseteq R
  BY <1>1, <1>3 DEF Once
<1>5. \A y \in zs : y # root => \E x \in zs : l[x] = y \/ r[x] = y
  BY <1>1, <1>3
<1> QED
  BY <1>2, <1>4, <1>5 DEF EnteredStates

LEMMA EnteredOnce ==
  ASSUME NEW t, Freeable(t), NEW h, h = <<t>>, NEW nodes, nodes = Below(h, t.root)
  PROVE  /\ nodes \subseteq Allocated(t)
         /\ \A y \in nodes :
              Cardinality({x \in nodes : Left(h, x) = y} \X {"left"}
                          \cup {x \in nodes : Right(h, x) = y} \X {"right"})
                = IF y = t.root THEN 0 ELSE 1
<1>1. PICK D, root : D = Allocated(t) /\ root = t.root
  OBVIOUS
<1>2. Now(h) = t
  BY DEF Now
<1>3. PICK l, r : l = [z \in D |-> t.node[z].left] /\ r = [z \in D |-> t.node[z].right]
  OBVIOUS
<1>4. IsFiniteSet(D) /\ FreesOnce(D, root, l, r)
  BY <1>1, <1>3 DEF Freeable
<1>5. PICK R, q : R \subseteq D /\ Once(R, root, l, r, q)
  BY <1>4 DEF FreesOnce
<1>6. \A z \in R : Left(h, z) = l[z] /\ Right(h, z) = r[z]
  BY <1>2, <1>3, <1>5 DEF Left, Right
<1>7. Size(h) \in Nat
  BY <1>1, <1>2, <1>4, FS_CardinalityType DEF Size
<1>8. PICK P, s : P = EnteredStates(R, root, l, r) /\ s = {root} \ {NULL}
  OBVIOUS
<1>9. <<0, s>> \in P
  <2>1. s \subseteq R /\ \A y \in s : y = root
    BY <1>5, <1>8 DEF Once
  <2> QED
    BY <1>8, <2>1 DEF EnteredStates
<1>10. \A k \in Nat : \A ys : <<k, ys>> \in P => <<k + 1, Farther(h, ys)>> \in P
  BY <1>5, <1>6, <1>8, EnteredStep
<1>11. P \in SUBSET (Nat \X SUBSET R)
  BY <1>8 DEF EnteredStates
<1>12. <<Size(h), nodes>> \in P
  BY <1>1, <1>7, <1>8, <1>9, <1>10, <1>11, ReachHolds DEF Below
<1>13. nodes \subseteq R /\ \A y \in nodes : y # root => \E x \in nodes : l[x] = y \/ r[x] = y
  BY <1>8, <1>12 DEF EnteredStates
<1>14. \A x \in nodes : Left(h, x) = l[x] /\ Right(h, x) = r[x]
  BY <1>6, <1>13
<1>15. ASSUME NEW y \in nodes
       PROVE  Cardinality({x \in nodes : Left(h, x) = y} \X {"left"}
                          \cup {x \in nodes : Right(h, x) = y} \X {"right"})
                = IF y = root THEN 0 ELSE 1
  <2>1. PICK A, B : A = {x \in nodes : Left(h, x) = y} /\ B = {x \in nodes : Right(h, x) = y}
    OBVIOUS
  <2>2. y # NULL /\ \A x \in A \cup B : x \in R /\ x # NULL /\ q[y] = x
    BY <1>5, <1>13, <1>14, <2>1 DEF Once
  <2>3. A \cap B = {}
    BY <1>5, <1>13, <1>14, <2>1, <2>2 DEF Once
  <2>4. CASE y = root
    <3>1. A = {} /\ B = {}
      BY <1>5, <2>2, <2>4 DEF Once
    <3>2. (A \X {"left"}) \cup (B \X {"right"}) = {}
      BY <3>1
    <3> QED
      BY <2>1, <2>4, <3>2, FS_EmptySet
  <2>5. CASE y # root
    <3>1. PICK x \in A \cup B : TRUE
      BY <1>13, <1>14, <2>1, <2>5
    <3>2. (A = {x} /\ B = {}) \/ (A = {} /\ B = {x})
      BY <2>2, <2>3, <3>1
    <3>3. PICK e : (A \X {"left"}) \cup (B \X {"right"}) = {e}
      <4>1. CASE A = {x} /\ B = {}
        <5>1. (A \X {"left"}) \cup (B \X {"right"}) = {<<x, "left">>}
          BY <4>1
        <5> QED
          BY <5>1
      <4>2. CASE A = {} /\ B = {x}
        <5>1. (A \X {"left"}) \cup (B \X {"right"}) = {<<x, "right">>}
          BY <4>2
        <5> QED
          BY <5>1
      <4> QED
        BY <3>2, <4>1, <4>2
    <3> QED
      BY <2>1, <2>5, <3>3, FS_Singleton
  <2> QED
    BY <2>4, <2>5
<1> QED
  BY <1>1, <1>5, <1>13, <1>15

(* Whatever a call from a search tree writes can be freed at any time. *)
LEMMA CallFrees ==
  ASSUME NEW h, NEW D, NEW rec, Holds(h, D, rec), NEW key \in Keys
  PROVE  /\ AllFree(h) /\ AllFree(tree_remove(h, key))
         /\ \A record \in Records : AllFree(tree_insert(h, key, record))
<1>1. \A g, E, c : Holds(g, E, c) => AllFree(g)
  BY DEF Holds, Cert
<1>2. AllFree(tree_remove(h, key))
  <2>1. PICK g : g = tree_remove(h, key)
    OBVIOUS
  <2>2. g = h \/ Holds(g, D \ {key}, Fewer(rec, D \ {key}))
    BY <2>1, RemoveHolds
  <2> QED
    BY <1>1, <2>1, <2>2
<1>3. ASSUME NEW record \in Records PROVE AllFree(tree_insert(h, key, record))
  <2>1. PICK g : g = tree_insert(h, key, record)
    OBVIOUS
  <2>2. g = h \/ Holds(g, D \cup {key}, Extended(D, rec, key, record))
    BY <2>1, InsertHolds
  <2> QED
    BY <1>1, <2>1, <2>2
<1> QED
  BY <1>1, <1>2, <1>3

-----------------------------------------------------------------------------
(* The theorems *)

(* The inductive invariant: the tree in memory is a search tree. *)
IsTree == \E D, rec : Holds(<<tree>>, D, rec)

LEMMA StaysTree == Spec => []IsTree
<1>1. Init => IsTree
  BY NewHolds DEF Init, IsTree
<1>2. IsTree /\ [Next]_vars => IsTree'
  BY StepCarries DEF IsTree, Carries
<1> QED
  BY <1>1, <1>2, PTL DEF Spec

(* Every link of every tree leads to a node that is allocated. *)
THEOREM TreeIsTyped == Spec => []TypeOK
<1>1. IsTree => TypeOK
  BY HoldsIsSound DEF IsTree
<1> QED
  BY <1>1, StaysTree, PTL

(* Parent and child pointers agree after every call, for any keys. *)
THEOREM LinksMatch == Spec => []ParentsMatch
<1>1. IsTree => ParentsMatch
  BY HoldsIsSound DEF IsTree
<1> QED
  BY <1>1, StaysTree, PTL

(* Every call leaves a search tree whose nodes are all below its root and  *)
(* counted.                                                                *)
THEOREM TreeIsOrdered == Spec => []Ordered
<1>1. IsTree => Ordered
  BY HoldsIsSound DEF IsTree
<1> QED
  BY <1>1, StaysTree, PTL

(* An insertion splays its new node to the root. *)
THEOREM NewNodeIsRoot == Spec => InsertedIsRoot
<1>1. ASSUME IsTree, [Next]_vars
      PROVE  \A key \in Keys : (key \in Nodes' \ Nodes) => tree'.root = key
  <2>1. PICK D, rec : Holds(<<tree>>, D, rec)
    BY <1>1 DEF IsTree
  <2>2. PICK D2, rec2 : Holds(<<tree'>>, D2, rec2) /\ \A key \in D2 \ D : tree'.root = key
    BY <1>1, <2>1, StepCarries DEF Carries
  <2>3. PICK t, t2 : t = tree /\ t2 = tree'
    OBVIOUS
  <2>4. Nodes = D /\ Nodes' = D2
    BY <2>1, <2>2, <2>3, HoldsMap DEF Nodes
  <2> QED
    BY <2>2, <2>4
<1> QED
  BY <1>1, StaysTree, PTL DEF Spec, InsertedIsRoot

(* The splay tree implements the map that stree.h promises. *)
THEOREM TreeIsMap == Spec => IsOrderedMap
<1>1. Init => Map!Init
  <2> SUFFICES ASSUME Init PROVE Map!Init
    OBVIOUS
  <2>1. PICK rec : rec = [k \in {} |-> NoRecord]
    OBVIOUS
  <2>2. PICK t : t = tree /\ Holds(<<t>>, {}, rec)
    BY <2>1, NewHolds DEF Init
  <2>3. [k \in Nodes |-> tree.node[k].record] = rec
    BY <2>2, HoldsMap DEF Nodes
  <2>4. rec = << >>
    BY <2>1
  <2> QED
    BY <2>3, <2>4 DEF Init, Map!Init
<1>2. IsTree /\ [Next]_vars => [Map!Next]_(Map!vars)
  BY StepCarries DEF IsTree, Carries
<1> QED
  BY <1>1, <1>2, StaysTree, PTL DEF Spec, IsOrderedMap, Map!Spec

(* What an alarm in the middle of a call leaves can be freed. *)
LEMMA StaysFreeable == Spec => []Freeable(halfway)
<1>1. Freeable(tree_new)
  <2>1. PICK rec : rec = [k \in {} |-> NoRecord]
    OBVIOUS
  <2>2. Holds(<<tree_new>>, {}, rec)
    BY <2>1, NewHolds
  <2>3. AllFree(<<tree_new>>)
    BY <2>2 DEF Holds, Cert
  <2>4. 1 \in DOMAIN <<tree_new>> /\ <<tree_new>>[1] = tree_new
    OBVIOUS
  <2> QED
    BY <2>3, <2>4 DEF AllFree
<1>2. Init => Freeable(halfway)
  BY <1>1 DEF Init
<1>3. ASSUME IsTree, Freeable(halfway), [Next]_vars PROVE Freeable(halfway')
  <2>1. PICK D, rec : Holds(<<tree>>, D, rec)
    BY <1>3 DEF IsTree
  <2>2. ASSUME NEW history, AllFree(history), Interrupted(history) PROVE Freeable(halfway')
    BY <2>2 DEF AllFree, Interrupted
  <2>3. ASSUME NEW key \in Keys, NEW record \in Records, InterruptInsert(key, record)
        PROVE  Freeable(halfway')
    BY <2>1, <2>2, <2>3, CallFrees DEF InterruptInsert
  <2>4. ASSUME NEW key \in Keys, InterruptRemove(key) PROVE Freeable(halfway')
    BY <2>1, <2>2, <2>4, CallFrees DEF InterruptRemove
  <2>5. CASE FreeHalfway
    BY <1>1, <2>5 DEF FreeHalfway
  <2>6. CASE halfway' = halfway
    BY <1>3, <2>6
  <2> QED
    BY <1>3, <2>3, <2>4, <2>5, <2>6 DEF Next, Insert, Find, FindNearest, Remove, Clear, Whole, vars
<1>4. Freeable(halfway') <=> Freeable(halfway)'
  OBVIOUS
<1> QED
  BY <1>2, <1>3, <1>4, StaysTree, PTL DEF Spec

(* Wherever the alarm stops a call, tree_free comes to no node that was    *)
(* freed and to each node by one link only.                                *)
THEOREM HalfwayIsFreed == Spec => []HalfwayFreesOnce
<1>1. Freeable(halfway) => HalfwayFreesOnce
  <2> SUFFICES ASSUME Freeable(halfway) PROVE HalfwayFreesOnce
    OBVIOUS
  <2>1. PICK t, h, nodes : t = halfway /\ h = <<t>> /\ nodes = Below(h, t.root)
    OBVIOUS
  <2>2. /\ nodes \subseteq Allocated(t)
        /\ \A y \in nodes :
             Cardinality({x \in nodes : Left(h, x) = y} \X {"left"}
                         \cup {x \in nodes : Right(h, x) = y} \X {"right"})
               = IF y = t.root THEN 0 ELSE 1
    BY <2>1, EnteredOnce
  <2> QED
    BY <2>1, <2>2 DEF HalfwayFreesOnce
<1> QED
  BY <1>1, StaysFreeable, PTL
=============================================================================
