------------------------- MODULE Dictionary_proofs --------------------------
(* Proofs about the dictionary. First the shape: trees with parent pointers *)
(* over any set of nodes, and what rotations, new leaves and removals make  *)
(* of them; then that each action keeps the tree a search tree in every     *)
(* intermediate state (Structure). On it rest the type theorems, the        *)
(* refinement of KeyMap, the ownership of the objects, and the colours: the *)
(* ways down stay evenly black until a second removal.                      *)
EXTENDS Dictionary, FiniteSetTheorems, TLAPS

-----------------------------------------------------------------------------
(* A binary tree with parent pointers                                       *)

\* The nodes U are linked both ways, left (A) and right (B) children and parents (P).
Links(root, A, B, P, U) ==
    /\ U \subseteq Nodes /\ root \in U \cup {NULL}
    /\ A \in [Nodes -> U \cup {NULL}]
    /\ B \in [Nodes -> U \cup {NULL}]
    /\ P \in [Nodes -> U \cup {NULL}]
    /\ \A n \in Nodes \ U : A[n] = NULL /\ B[n] = NULL /\ P[n] = NULL
    /\ \A n \in U : P[n] = NULL <=> n = root
    /\ \A n, m \in U : P[m] = n <=> m = A[n] \/ m = B[n]

\* sub[n] is the set of the nodes of the subtree at n; there are no cycles, and
\* all of U hangs below the root.
Spans(root, A, B, U, sub) ==
    /\ sub \in [Nodes \cup {NULL} -> SUBSET U]
    /\ sub[NULL] = {} /\ sub[root] = U
    /\ \A n \in U : sub[n] = {n} \cup sub[A[n]] \cup sub[B[n]]
    /\ \A n \in U : n \notin sub[A[n]] /\ n \notin sub[B[n]] /\ sub[A[n]] \cap sub[B[n]] = {}
    /\ \A n \in Nodes \ U : sub[n] = {}

\* The two together: a finite binary tree with parent pointers, whatever the keys are.
Shape(root, A, B, P, U, sub) == Links(root, A, B, P, U) /\ Spans(root, A, B, U, sub)

\* What hangs on one side comes before the node, and what hangs on the other after it.
Sorted(A, B, U, sub, Less) ==
    \A n \in U : /\ \A m \in sub[A[n]] : <<m, n>> \in Less
                 /\ \A m \in sub[B[n]] : <<n, m>> \in Less

\* The order the other way round.
Reversed(Less) == {<<p[2], p[1]>> : p \in Less}

\* Reversing an order twice gives it back.
LEMMA ReversedTwice ==
    ASSUME NEW Less, Less \subseteq Nodes \X Nodes
    PROVE  Reversed(Less) \subseteq Nodes \X Nodes /\ Reversed(Reversed(Less)) = Less
<1>1. \A R \in SUBSET (Nodes \X Nodes) :
          /\ Reversed(R) \subseteq Nodes \X Nodes
          /\ \A x, y : <<x, y>> \in Reversed(R) <=> <<y, x>> \in R
    BY DEF Reversed
<1>2. Reversed(Less) \in SUBSET (Nodes \X Nodes)
    BY <1>1
<1>3. Reversed(Reversed(Less)) \in SUBSET (Nodes \X Nodes)
    BY <1>1, <1>2
<1>4. \A x, y : <<x, y>> \in Reversed(Reversed(Less)) <=> <<x, y>> \in Less
    BY <1>1, <1>2
<1> QED BY <1>2, <1>3, <1>4

\* The definitions say the same of the mirror image.
LEMMA Mirror ==
    ASSUME NEW root, NEW A, NEW B, NEW P, NEW U, NEW sub, NEW Less, Less \subseteq Nodes \X Nodes
    PROVE  /\ Shape(root, A, B, P, U, sub) => Shape(root, B, A, P, U, sub)
           /\ Sorted(A, B, U, sub, Less) => Sorted(B, A, U, sub, Reversed(Less))
<1>1. Shape(root, A, B, P, U, sub) => Shape(root, B, A, P, U, sub)
    BY DEF Shape, Links, Spans
<1>2. \A x, y : <<x, y>> \in Less => <<y, x>> \in Reversed(Less)
    BY DEF Reversed
<1>3. Sorted(A, B, U, sub, Less) => Sorted(B, A, U, sub, Reversed(Less))
    BY <1>2 DEF Sorted
<1> QED BY <1>1, <1>3

\* The left rotation at n: its right child r takes the place of n.
LEMMA RotateShape ==
    ASSUME NEW root, NEW A, NEW B, NEW P, NEW U, NEW sub, Shape(root, A, B, P, U, sub),
           NULL \notin Nodes, NEW n \in U, NEW r, r = B[n], r # NULL,
           NEW A1, A1 = [y \in Nodes |-> IF y = r THEN n ELSE IF A[y] = n THEN r ELSE A[y]],
           NEW B1, B1 = [y \in Nodes |-> IF y = n THEN A[r] ELSE IF B[y] = n THEN r ELSE B[y]],
           NEW P1, P1 = [y \in Nodes |-> IF y = n THEN r ELSE IF y = r THEN P[n]
                                         ELSE IF y = A[r] THEN n ELSE P[y]],
           NEW root1, root1 = IF n = root THEN r ELSE root
    PROVE  Shape(root1, A1, B1, P1, U,
                 [sub EXCEPT ![r] = sub[n], ![n] = {n} \cup sub[A[n]] \cup sub[A[r]]])
<1> DEFINE sub1 == [sub EXCEPT ![r] = sub[n], ![n] = {n} \cup sub[A[n]] \cup sub[A[r]]]
<1>1. /\ r \in U /\ r # n /\ A[r] # n /\ A[r] # r /\ B[r] # r /\ B[r] # n /\ A[n] # r /\ A[n] # n
      /\ P[r] = n /\ n \in Nodes /\ r \in Nodes /\ (A[r] = B[r] => A[r] = NULL)
    <2>1. r \in U /\ n \in Nodes /\ r \in Nodes
        BY DEF Shape, Links
    <2>2. \A x \in U : x \in sub[x]
        BY DEF Shape, Spans
    <2>3. \A x \in U : A[x] = B[x] => A[x] = NULL
        BY <2>2 DEF Shape, Links, Spans
    <2> QED BY <2>1, <2>2, <2>3 DEF Shape, Links, Spans
<1>2. \A y \in U : y \notin {n, r} => A[y] # r /\ B[y] # r
    BY <1>1 DEF Shape, Links
<1>3. \A x \in U : x # n /\ A[r] # NULL /\ x # r => A[x] # A[r] /\ B[x] # A[r]
    BY <1>1 DEF Shape, Links
<1>4. Links(root1, A1, B1, P1, U)
    <2>1. /\ A1 \in [Nodes -> U \cup {NULL}]
          /\ B1 \in [Nodes -> U \cup {NULL}]
          /\ P1 \in [Nodes -> U \cup {NULL}]
          /\ \A x \in Nodes \ U : A1[x] = NULL /\ B1[x] = NULL /\ P1[x] = NULL
        BY <1>1 DEF Shape, Links
    <2>2. \A x \in U : P1[x] = NULL <=> x = root1
        BY <1>1 DEF Shape, Links
    <2>3. ASSUME NEW x \in U, NEW m \in U PROVE P1[m] = x <=> m = A1[x] \/ m = B1[x]
        <3>1. CASE x = n
            BY <1>1, <1>2, <1>3, <3>1 DEF Shape, Links
        <3>2. CASE x = r
            BY <1>1, <1>2, <1>3, <3>2 DEF Shape, Links
        <3>3. CASE x # n /\ x # r
            BY <1>1, <1>2, <1>3, <3>3 DEF Shape, Links
        <3> QED BY <3>1, <3>2, <3>3
    <2> QED BY <1>1, <2>1, <2>2, <2>3 DEF Shape, Links
<1>5. Spans(root1, A1, B1, U, sub1)
    <2>1. /\ sub1 \in [Nodes \cup {NULL} -> SUBSET U]
          /\ sub1[NULL] = {}
          /\ \A x \in Nodes \ U : sub1[x] = {}
          /\ sub1[r] = sub[n] /\ sub1[n] = {n} \cup sub[A[n]] \cup sub[A[r]]
          /\ \A x \in Nodes \cup {NULL} : x # n /\ x # r => sub1[x] = sub[x]
        <3>1. sub \in [Nodes \cup {NULL} -> SUBSET U] /\ sub[NULL] = {}
              /\ \A x \in Nodes \ U : sub[x] = {}
            BY DEF Shape, Spans
        <3>2. {n} \cup sub[A[n]] \cup sub[A[r]] \in SUBSET U /\ sub[n] \in SUBSET U
            BY <1>1, <3>1 DEF Shape, Links
        <3> HIDE DEF sub1
        <3>3. sub1 = [sub EXCEPT ![r] = sub[n], ![n] = {n} \cup sub[A[n]] \cup sub[A[r]]]
            BY DEF sub1
        <3>4. /\ sub1 \in [Nodes \cup {NULL} -> SUBSET U]
              /\ sub1[r] = sub[n] /\ sub1[n] = {n} \cup sub[A[n]] \cup sub[A[r]]
              /\ \A x \in Nodes \cup {NULL} : x # n /\ x # r => sub1[x] = sub[x]
            BY <1>1, <3>1, <3>2, <3>3
        <3> QED BY <1>1, <3>1, <3>4
    <2>2. sub1[root1] = U
        BY <1>1, <2>1 DEF Shape, Links, Spans
    <2>3. A1[n] = A[n] /\ B1[n] = A[r] /\ A1[r] = n /\ B1[r] = B[r]
        BY <1>1
    <2>4. ASSUME NEW x \in U, x # n, x # r
          PROVE  sub1[x] = sub[x] /\ sub1[A1[x]] = sub[A[x]] /\ sub1[B1[x]] = sub[B[x]]
        <3>1. x \in Nodes /\ A[x] \in Nodes \cup {NULL} /\ B[x] \in Nodes \cup {NULL}
            BY DEF Shape, Links
        <3> QED BY <1>1, <1>2, <2>1, <2>4, <3>1
    <2>5. \A x \in U : sub1[x] = {x} \cup sub1[A1[x]] \cup sub1[B1[x]]
        <3>1. sub1[n] = {n} \cup sub1[A1[n]] \cup sub1[B1[n]]
            BY <1>1, <2>1, <2>3 DEF Shape, Links
        <3>2. sub1[r] = {r} \cup sub1[A1[r]] \cup sub1[B1[r]]
            BY <1>1, <2>1, <2>3 DEF Shape, Links, Spans
        <3>3. \A x \in U : x # n /\ x # r => sub1[x] = {x} \cup sub1[A1[x]] \cup sub1[B1[x]]
            BY <2>4 DEF Shape, Spans
        <3> QED BY <3>1, <3>2, <3>3
    <2>6. \A x \in U : x \notin sub1[A1[x]] /\ x \notin sub1[B1[x]]
                       /\ sub1[A1[x]] \cap sub1[B1[x]] = {}
        <3>1. n \notin sub1[A1[n]] /\ n \notin sub1[B1[n]] /\ sub1[A1[n]] \cap sub1[B1[n]] = {}
            BY <1>1, <2>1, <2>3 DEF Shape, Links, Spans
        <3>2. r \notin sub1[A1[r]] /\ r \notin sub1[B1[r]] /\ sub1[A1[r]] \cap sub1[B1[r]] = {}
            BY <1>1, <2>1, <2>3 DEF Shape, Links, Spans
        <3> QED BY <2>4, <3>1, <3>2, ZenonT(30) DEF Shape, Spans
    <2> QED BY <2>1, <2>2, <2>5, <2>6 DEF Spans
<1> QED BY <1>4, <1>5 DEF Shape

\* Rotating keeps the order.
LEMMA RotateSorted ==
    ASSUME NEW root, NEW A, NEW B, NEW P, NEW U, NEW sub, Shape(root, A, B, P, U, sub),
           NULL \notin Nodes, NEW n \in U, NEW r, r = B[n], r # NULL,
           NEW A1, A1 = [y \in Nodes |-> IF y = r THEN n ELSE IF A[y] = n THEN r ELSE A[y]],
           NEW B1, B1 = [y \in Nodes |-> IF y = n THEN A[r] ELSE IF B[y] = n THEN r ELSE B[y]],
           NEW sub1, sub1 = [sub EXCEPT ![r] = sub[n], ![n] = {n} \cup sub[A[n]] \cup sub[A[r]]],
           NEW Less, Sorted(A, B, U, sub, Less),
           \A x, y, z \in U : <<x, y>> \in Less /\ <<y, z>> \in Less => <<x, z>> \in Less
    PROVE  Sorted(A1, B1, U, sub1, Less)
<1>1. /\ r \in U /\ n \in Nodes /\ r \in Nodes /\ r # n /\ A[r] # n /\ A[r] # r /\ B[r] # r
      /\ B[r] # n /\ A[n] # r /\ A[n] # n /\ P[r] = n
    <2>1. r \in U /\ n \in Nodes /\ r \in Nodes
        BY DEF Shape, Links
    <2>2. \A x \in U : x \in sub[x]
        BY DEF Shape, Spans
    <2> QED BY <2>1, <2>2 DEF Shape, Links, Spans
<1>2. \A y \in U : y \notin {n, r} => A[y] # r /\ B[y] # r
    BY <1>1 DEF Shape, Links
<1>3. /\ sub1[r] = sub[n] /\ sub1[n] = {n} \cup sub[A[n]] \cup sub[A[r]]
      /\ \A x \in Nodes \cup {NULL} : x # n /\ x # r => sub1[x] = sub[x]
    BY <1>1 DEF Shape, Spans
<1>4. A1[n] = A[n] /\ B1[n] = A[r] /\ A1[r] = n /\ B1[r] = B[r]
    BY <1>1
<1>5. \A x \in U : sub[x] = {x} \cup sub[A[x]] \cup sub[B[x]]
    BY DEF Shape, Spans
<1>6. A[n] \in Nodes \cup {NULL} /\ A[r] \in Nodes \cup {NULL} /\ B[r] \in Nodes \cup {NULL}
      /\ \A x \in Nodes \cup {NULL} : sub[x] \subseteq U
    BY <1>1 DEF Shape, Links, Spans
<1>7. ASSUME NEW x \in U, x # n, x # r
      PROVE  sub1[A1[x]] = sub[A[x]] /\ sub1[B1[x]] = sub[B[x]]
    <2>1. x \in Nodes /\ A[x] \in Nodes \cup {NULL} /\ B[x] \in Nodes \cup {NULL}
        BY DEF Shape, Links
    <2> QED BY <1>1, <1>2, <1>3, <1>7, <2>1
<1>8. ASSUME NEW x \in U, x # n, x # r
      PROVE  /\ \A m \in sub1[A1[x]] : <<m, x>> \in Less
             /\ \A m \in sub1[B1[x]] : <<x, m>> \in Less
    BY <1>7, <1>8 DEF Sorted
<1>9. /\ \A m \in sub1[A1[n]] : <<m, n>> \in Less
      /\ \A m \in sub1[B1[n]] : <<n, m>> \in Less
    <2>1. sub1[A1[n]] = sub[A[n]] /\ sub1[B1[n]] = sub[A[r]]
        BY <1>1, <1>3, <1>4, <1>6
    <2>2. sub[A[r]] \subseteq sub[B[n]]
        BY <1>1, <1>5
    <2> QED BY <2>1, <2>2 DEF Sorted
<1>10. /\ \A m \in sub1[A1[r]] : <<m, r>> \in Less
       /\ \A m \in sub1[B1[r]] : <<r, m>> \in Less
    <2>1. sub1[A1[r]] = {n} \cup sub[A[n]] \cup sub[A[r]] /\ sub1[B1[r]] = sub[B[r]]
        BY <1>1, <1>3, <1>4, <1>6
    <2>2. <<n, r>> \in Less
        <3>1. r \in sub[B[n]]
            BY <1>1, <1>5
        <3> QED BY <3>1 DEF Sorted
    <2>3. \A m \in sub[A[n]] : <<m, r>> \in Less
        BY <1>1, <1>6, <2>2 DEF Sorted
    <2> QED BY <1>1, <2>1, <2>2, <2>3 DEF Sorted
<1> QED BY <1>8, <1>9, <1>10 DEF Sorted

-----------------------------------------------------------------------------
(* The tree operations of the code                                          *)

\* The values tree takes.
Trees == [root : Nodes \cup {NULL}, left : [Nodes -> Nodes \cup {NULL}],
          right : [Nodes -> Nodes \cup {NULL}], parent : [Nodes -> Nodes \cup {NULL}],
          red : SUBSET Nodes]

\* The same of a tree of the model.
ShapeOf(t, U, sub) == Shape(t.root, t.left, t.right, t.parent, U, sub)
\* Its nodes in an order.
SortedIn(t, U, sub, Less) == Sorted(t.left, t.right, U, sub, Less)

\* The tree t with m in the place of n.
Rehung(t, n, m) ==
    [root |-> IF n = t.root THEN m ELSE t.root,
     left |-> [y \in Nodes |-> IF t.left[y] = n THEN m ELSE t.left[y]],
     right |-> [y \in Nodes |-> IF t.right[y] = n THEN m ELSE t.right[y]],
     parent |-> t.parent, red |-> t.red]

\* The tree t with the right child r of n in the place of n, and n its left child.
RotatedLeft(t, n) ==
    LET r == t.right[n]
    IN  [root |-> IF n = t.root THEN r ELSE t.root,
         left |-> [y \in Nodes |-> IF y = r THEN n ELSE IF t.left[y] = n THEN r ELSE t.left[y]],
         right |-> [y \in Nodes |-> IF y = n THEN t.left[r]
                                    ELSE IF t.right[y] = n THEN r ELSE t.right[y]],
         parent |-> [y \in Nodes |-> IF y = n THEN r ELSE IF y = r THEN t.parent[n]
                                     ELSE IF y = t.left[r] THEN n ELSE t.parent[y]],
         red |-> t.red]

\* The mirror image.
RotatedRight(t, n) ==
    LET l == t.left[n]
    IN  [root |-> IF n = t.root THEN l ELSE t.root,
         left |-> [y \in Nodes |-> IF y = n THEN t.right[l]
                                   ELSE IF t.left[y] = n THEN l ELSE t.left[y]],
         right |-> [y \in Nodes |-> IF y = l THEN n ELSE IF t.right[y] = n THEN l ELSE t.right[y]],
         parent |-> [y \in Nodes |-> IF y = n THEN l ELSE IF y = l THEN t.parent[n]
                                     ELSE IF y = t.right[l] THEN n ELSE t.parent[y]],
         red |-> t.red]

\* Rehang replaces n by m at the one place where n hangs.
LEMMA RehangIs ==
    ASSUME NEW t \in Trees, NEW U, NEW sub, ShapeOf(t, U, sub), NULL \notin Nodes,
           NEW n \in U, NEW m \in Nodes \cup {NULL}
    PROVE  Rehang(t, n, m) = Rehung(t, n, m)
<1> DEFINE A == t.left
           B == t.right
           P == t.parent
           p == P[n]
           A1 == [y \in Nodes |-> IF A[y] = n THEN m ELSE A[y]]
           B1 == [y \in Nodes |-> IF B[y] = n THEN m ELSE B[y]]
<1>1. /\ A \in [Nodes -> Nodes \cup {NULL}] /\ B \in [Nodes -> Nodes \cup {NULL}]
      /\ t = [root |-> t.root, left |-> A, right |-> B, parent |-> P, red |-> t.red]
    BY DEF Trees
<1>2. Links(t.root, A, B, P, U)
    BY DEF ShapeOf, Shape
<1>3. /\ n \in Nodes /\ (p = NULL <=> n = t.root) /\ (p # NULL => p \in U /\ p \in Nodes)
      /\ \A y \in Nodes : (A[y] = n \/ B[y] = n) <=> y = p
    BY <1>2 DEF Links
<1>4. A[p] = n /\ p \in U => B[p] # n
    <2>1. \A x \in U : x \in sub[x]
        BY DEF ShapeOf, Shape, Spans
    <2> QED BY <1>2, <2>1 DEF ShapeOf, Shape, Spans
<1>5. CASE p = NULL
    <2>1. A1 = A /\ B1 = B
        BY <1>1, <1>3, <1>5
    <2>2. Rehang(t, n, m) = [t EXCEPT !.root = m]
        BY <1>5 DEF Rehang
    <2> QED BY <1>1, <1>3, <1>5, <2>1, <2>2 DEF Rehung
<1>6. CASE p # NULL /\ n = A[p]
    <2>1. A1 = [A EXCEPT ![p] = m] /\ B1 = B
        BY <1>1, <1>3, <1>4, <1>6
    <2>2. Rehang(t, n, m) = [t EXCEPT !.left[p] = m]
        BY <1>6 DEF Rehang
    <2> QED BY <1>1, <1>3, <1>6, <2>1, <2>2 DEF Rehung
<1>7. CASE p # NULL /\ n # A[p]
    <2>1. A1 = A /\ B1 = [B EXCEPT ![p] = m]
        BY <1>1, <1>3, <1>7
    <2>2. Rehang(t, n, m) = [t EXCEPT !.right[p] = m]
        BY <1>7 DEF Rehang
    <2> QED BY <1>1, <1>3, <1>7, <2>1, <2>2 DEF Rehung
<1> QED BY <1>5, <1>6, <1>7

\* The left rotation of the code, field by field.
LEMMA RotateLeftIs ==
    ASSUME NEW t \in Trees, NEW U, NEW sub, ShapeOf(t, U, sub), NULL \notin Nodes,
           NEW n \in U, NEW r, r = t.right[n], r # NULL
    PROVE  __rb_rotate_left(t, n) = RotatedLeft(t, n)
<1> DEFINE u == Rehang(t, n, r)
           par == [x \in Nodes |-> CASE x = n -> r [] x = r -> t.parent[n]
                                     [] x = t.left[r] -> n [] OTHER -> t.parent[x]]
<1>1. n \in Nodes /\ r \in Nodes /\ r # n /\ t.left[r] # n /\ t.left[r] # r
    <2>1. n \in Nodes /\ r \in U /\ r \in Nodes
        BY DEF ShapeOf, Shape, Links
    <2>2. \A x \in U : x \in sub[x]
        BY DEF ShapeOf, Shape, Spans
    <2> QED BY <2>1, <2>2 DEF ShapeOf, Shape, Links, Spans
<1>2. u = Rehung(t, n, r)
    BY <1>1, RehangIs
<1>3. __rb_rotate_left(t, n) = [u EXCEPT !.right[n] = t.left[r], !.left[r] = n, !.parent = par]
    BY DEF __rb_rotate_left
<1>4. par = [y \in Nodes |-> IF y = n THEN r ELSE IF y = r THEN t.parent[n]
                             ELSE IF y = t.left[r] THEN n ELSE t.parent[y]]
    <2>1. \A y \in Nodes : par[y] = IF y = n THEN r ELSE IF y = r THEN t.parent[n]
                                     ELSE IF y = t.left[r] THEN n ELSE t.parent[y]
        <3> SUFFICES ASSUME NEW y \in Nodes
                     PROVE  par[y] = IF y = n THEN r ELSE IF y = r THEN t.parent[n]
                                     ELSE IF y = t.left[r] THEN n ELSE t.parent[y]
            OBVIOUS
        <3>1. CASE y = n
            BY <1>1, <3>1
        <3>2. CASE y = r
            BY <1>1, <3>2
        <3>3. CASE y = t.left[r]
            BY <1>1, <3>3
        <3>4. CASE y \notin {n, r, t.left[r]}
            BY <1>1, <3>4
        <3> QED BY <3>1, <3>2, <3>3, <3>4
    <2> QED BY <2>1
<1> HIDE DEF u
<1> HIDE DEF par
<1>5. PICK v : v = [u EXCEPT !.right[n] = t.left[r]]
    OBVIOUS
<1>6. PICK w : w = [v EXCEPT !.left[r] = n]
    OBVIOUS
<1>7. __rb_rotate_left(t, n) = [w EXCEPT !.parent = par]
    BY <1>3, <1>5, <1>6
<1>8. u = [root |-> u.root, left |-> u.left, right |-> u.right, parent |-> u.parent, red |-> u.red]
    BY <1>2 DEF Rehung
<1>9. v = [u EXCEPT !.right = [u.right EXCEPT ![n] = t.left[r]]]
    BY <1>5, <1>8
<1>10. w = [v EXCEPT !.left = [u.left EXCEPT ![r] = n]]
    BY <1>6, <1>8, <1>9
<1>11. __rb_rotate_left(t, n) =
        [root |-> u.root, left |-> [u.left EXCEPT ![r] = n],
         right |-> [u.right EXCEPT ![n] = t.left[r]], parent |-> par, red |-> u.red]
    BY <1>7, <1>8, <1>9, <1>10
<1> QED BY <1>1, <1>2, <1>4, <1>11 DEF Rehung, RotatedLeft

\* The right rotation of the code, field by field.
LEMMA RotateRightIs ==
    ASSUME NEW t \in Trees, NEW U, NEW sub, ShapeOf(t, U, sub), NULL \notin Nodes,
           NEW n \in U, NEW l, l = t.left[n], l # NULL
    PROVE  __rb_rotate_right(t, n) = RotatedRight(t, n)
<1> DEFINE u == Rehang(t, n, l)
           par == [x \in Nodes |-> CASE x = n -> l [] x = l -> t.parent[n]
                                     [] x = t.right[l] -> n [] OTHER -> t.parent[x]]
<1>1. n \in Nodes /\ l \in Nodes /\ l # n /\ t.right[l] # n /\ t.right[l] # l
    <2>1. n \in Nodes /\ l \in U /\ l \in Nodes
        BY DEF ShapeOf, Shape, Links
    <2>2. \A x \in U : x \in sub[x]
        BY DEF ShapeOf, Shape, Spans
    <2> QED BY <2>1, <2>2 DEF ShapeOf, Shape, Links, Spans
<1>2. u = Rehung(t, n, l)
    BY <1>1, RehangIs
<1>3. __rb_rotate_right(t, n) = [u EXCEPT !.left[n] = t.right[l], !.right[l] = n, !.parent = par]
    BY DEF __rb_rotate_right
<1>4. par = [y \in Nodes |-> IF y = n THEN l ELSE IF y = l THEN t.parent[n]
                             ELSE IF y = t.right[l] THEN n ELSE t.parent[y]]
    <2>1. \A y \in Nodes : par[y] = IF y = n THEN l ELSE IF y = l THEN t.parent[n]
                                     ELSE IF y = t.right[l] THEN n ELSE t.parent[y]
        <3> SUFFICES ASSUME NEW y \in Nodes
                     PROVE  par[y] = IF y = n THEN l ELSE IF y = l THEN t.parent[n]
                                     ELSE IF y = t.right[l] THEN n ELSE t.parent[y]
            OBVIOUS
        <3>1. CASE y = n
            BY <1>1, <3>1
        <3>2. CASE y = l
            BY <1>1, <3>2
        <3>3. CASE y = t.right[l]
            BY <1>1, <3>3
        <3>4. CASE y \notin {n, l, t.right[l]}
            BY <1>1, <3>4
        <3> QED BY <3>1, <3>2, <3>3, <3>4
    <2> QED BY <2>1
<1> HIDE DEF u
<1> HIDE DEF par
<1>5. PICK v : v = [u EXCEPT !.left[n] = t.right[l]]
    OBVIOUS
<1>6. PICK w : w = [v EXCEPT !.right[l] = n]
    OBVIOUS
<1>7. __rb_rotate_right(t, n) = [w EXCEPT !.parent = par]
    BY <1>3, <1>5, <1>6
<1>8. u = [root |-> u.root, left |-> u.left, right |-> u.right, parent |-> u.parent, red |-> u.red]
    BY <1>2 DEF Rehung
<1>9. v = [u EXCEPT !.left = [u.left EXCEPT ![n] = t.right[l]]]
    BY <1>5, <1>8
<1>10. w = [v EXCEPT !.right = [u.right EXCEPT ![l] = n]]
    BY <1>6, <1>8, <1>9
<1>11. __rb_rotate_right(t, n) =
        [root |-> u.root, left |-> [u.left EXCEPT ![n] = t.right[l]],
         right |-> [u.right EXCEPT ![l] = n], parent |-> par, red |-> u.red]
    BY <1>7, <1>8, <1>9, <1>10
<1> QED BY <1>1, <1>2, <1>4, <1>11 DEF Rehung, RotatedRight

-----------------------------------------------------------------------------
(* Rotations keep the shape and the order                                   *)

\* An order of the nodes U that chains.
Transitive(Less, U) ==
    \A x, y, z \in U : <<x, y>> \in Less /\ <<y, z>> \in Less => <<x, z>> \in Less

\* u is built over the same nodes as t and keeps them in every order t keeps.
SameNodes(t, u, U, sub, sub1) ==
    /\ u \in Trees /\ ShapeOf(u, U, sub1) /\ u.red = t.red
    /\ \A Less \in SUBSET (Nodes \X Nodes) :
          Transitive(Less, U) /\ SortedIn(t, U, sub, Less) => SortedIn(u, U, sub1, Less)

\* The subtrees after the left rotation at n.
SubAfterLeft(t, n, sub) ==
    [sub EXCEPT ![t.right[n]] = sub[n],
                ![n] = {n} \cup sub[t.left[n]] \cup sub[t.left[t.right[n]]]]

\* The subtrees after the right rotation at n.
SubAfterRight(t, n, sub) ==
    [sub EXCEPT ![t.left[n]] = sub[n],
                ![n] = {n} \cup sub[t.right[n]] \cup sub[t.right[t.left[n]]]]

\* The fields of a tree with the given shape.
LEMMA InTrees ==
    ASSUME NEW root, NEW A, NEW B, NEW P, NEW red \in SUBSET Nodes, NEW U, NEW sub,
           Shape(root, A, B, P, U, sub)
    PROVE  [root |-> root, left |-> A, right |-> B, parent |-> P, red |-> red] \in Trees
<1>1. root \in Nodes \cup {NULL} /\ U \cup {NULL} \subseteq Nodes \cup {NULL}
    BY DEF Shape, Links
<1>2. /\ A \in [Nodes -> Nodes \cup {NULL}] /\ B \in [Nodes -> Nodes \cup {NULL}]
      /\ P \in [Nodes -> Nodes \cup {NULL}]
    BY <1>1 DEF Shape, Links
<1> QED BY <1>1, <1>2 DEF Trees

\* The left rotation keeps the shape and every order.
LEMMA RotatedLeftSame ==
    ASSUME NEW t \in Trees, NEW U, NEW sub, ShapeOf(t, U, sub), NULL \notin Nodes,
           NEW n \in U, t.right[n] # NULL
    PROVE  SameNodes(t, RotatedLeft(t, n), U, sub, SubAfterLeft(t, n, sub))
<1> DEFINE u == RotatedLeft(t, n)
           r == t.right[n]
<1>1. /\ u.root = IF n = t.root THEN r ELSE t.root
      /\ u.left = [y \in Nodes |-> IF y = r THEN n ELSE IF t.left[y] = n THEN r ELSE t.left[y]]
      /\ u.right = [y \in Nodes |-> IF y = n THEN t.left[r]
                                    ELSE IF t.right[y] = n THEN r ELSE t.right[y]]
      /\ u.parent = [y \in Nodes |-> IF y = n THEN r ELSE IF y = r THEN t.parent[n]
                                     ELSE IF y = t.left[r] THEN n ELSE t.parent[y]]
      /\ u.red = t.red
      /\ u = [root |-> u.root, left |-> u.left, right |-> u.right, parent |-> u.parent,
              red |-> u.red]
    BY DEF RotatedLeft
<1> HIDE DEF u
<1>2. Shape(t.root, t.left, t.right, t.parent, U, sub)
    BY DEF ShapeOf
<1>3. Shape(u.root, u.left, u.right, u.parent, U,
            [sub EXCEPT ![r] = sub[n], ![n] = {n} \cup sub[t.left[n]] \cup sub[t.left[r]]])
    BY <1>1, <1>2, RotateShape
<1>4. u \in Trees
    <2>1. u.red \in SUBSET Nodes
        BY <1>1 DEF Trees
    <2>2. [root |-> u.root, left |-> u.left, right |-> u.right, parent |-> u.parent,
           red |-> u.red] \in Trees
        BY <1>3, <2>1, InTrees
    <2> QED BY <1>1, <2>2
<1>5. ASSUME NEW Less \in SUBSET (Nodes \X Nodes), Transitive(Less, U), SortedIn(t, U, sub, Less)
      PROVE  SortedIn(u, U, SubAfterLeft(t, n, sub), Less)
    <2>1. Sorted(t.left, t.right, U, sub, Less)
        BY <1>5 DEF SortedIn
    <2>2. \A x, y, z \in U : <<x, y>> \in Less /\ <<y, z>> \in Less => <<x, z>> \in Less
        BY <1>5 DEF Transitive
    <2>3. Sorted(u.left, u.right, U,
                 [sub EXCEPT ![r] = sub[n], ![n] = {n} \cup sub[t.left[n]] \cup sub[t.left[r]]], Less)
        BY <1>1, <1>2, <2>1, <2>2, RotateSorted
    <2> QED BY <2>3 DEF SortedIn, SubAfterLeft
<1> QED BY <1>1, <1>3, <1>4, <1>5 DEF SameNodes, ShapeOf, SubAfterLeft, u

\* So does the right rotation.
LEMMA RotatedRightSame ==
    ASSUME NEW t \in Trees, NEW U, NEW sub, ShapeOf(t, U, sub), NULL \notin Nodes,
           NEW n \in U, t.left[n] # NULL
    PROVE  SameNodes(t, RotatedRight(t, n), U, sub, SubAfterRight(t, n, sub))
<1> DEFINE u == RotatedRight(t, n)
           l == t.left[n]
           sub1 == [sub EXCEPT ![l] = sub[n], ![n] = {n} \cup sub[t.right[n]] \cup sub[t.right[l]]]
<1>1. /\ u.root = IF n = t.root THEN l ELSE t.root
      /\ u.left = [y \in Nodes |-> IF y = n THEN t.right[l]
                                   ELSE IF t.left[y] = n THEN l ELSE t.left[y]]
      /\ u.right = [y \in Nodes |-> IF y = l THEN n ELSE IF t.right[y] = n THEN l ELSE t.right[y]]
      /\ u.parent = [y \in Nodes |-> IF y = n THEN l ELSE IF y = l THEN t.parent[n]
                                     ELSE IF y = t.right[l] THEN n ELSE t.parent[y]]
      /\ u.red = t.red
      /\ u = [root |-> u.root, left |-> u.left, right |-> u.right, parent |-> u.parent,
              red |-> u.red]
    BY DEF RotatedRight
<1> HIDE DEF u
<1>2. Shape(t.root, t.right, t.left, t.parent, U, sub)
    BY Mirror DEF ShapeOf
<1>3. Shape(u.root, u.right, u.left, u.parent, U, sub1)
    BY <1>1, <1>2, RotateShape
<1>4. Shape(u.root, u.left, u.right, u.parent, U, sub1)
    BY <1>3, Mirror
<1>5. u \in Trees
    <2>1. u.red \in SUBSET Nodes
        BY <1>1 DEF Trees
    <2>2. [root |-> u.root, left |-> u.left, right |-> u.right, parent |-> u.parent,
           red |-> u.red] \in Trees
        BY <1>4, <2>1, InTrees
    <2> QED BY <1>1, <2>2
<1>6. ASSUME NEW Less \in SUBSET (Nodes \X Nodes), Transitive(Less, U), SortedIn(t, U, sub, Less)
      PROVE  SortedIn(u, U, sub1, Less)
    <2>1. Sorted(t.right, t.left, U, sub, Reversed(Less))
        BY <1>6, Mirror DEF SortedIn
    <2>2. \A x, y, z \in U : <<x, y>> \in Reversed(Less) /\ <<y, z>> \in Reversed(Less)
                                => <<x, z>> \in Reversed(Less)
        <3>1. \A x, y : <<x, y>> \in Reversed(Less) <=> <<y, x>> \in Less
            BY <1>6 DEF Reversed
        <3> QED BY <1>6, <3>1 DEF Transitive
    <2>3. Sorted(u.right, u.left, U, sub1, Reversed(Less))
        BY <1>1, <1>2, <2>1, <2>2, RotateSorted
    <2>4. Reversed(Less) \subseteq Nodes \X Nodes /\ Reversed(Reversed(Less)) = Less
        BY <1>6, ReversedTwice
    <2> QED BY <2>3, <2>4, Mirror DEF SortedIn
<1> QED BY <1>1, <1>4, <1>5, <1>6 DEF SameNodes, ShapeOf, SubAfterRight, u

\* Lift is the one or the other, and puts n in the place of its parent.
LEMMA LiftIs ==
    ASSUME NEW t \in Trees, NEW U, NEW sub, ShapeOf(t, U, sub), NULL \notin Nodes,
           NEW n \in U, NEW p, p = t.parent[n], p # NULL
    PROVE  /\ p \in U
           /\ n = t.right[p] => n # t.left[p] /\ Lift(t, n) = RotatedLeft(t, p)
           /\ n # t.right[p] => n = t.left[p] /\ Lift(t, n) = RotatedRight(t, p)
<1>1. p \in U /\ n \in Nodes /\ (n = t.left[p] \/ n = t.right[p])
    BY DEF ShapeOf, Shape, Links
<1>2. n = t.right[p] => n # t.left[p]
    <2>1. \A x \in U : x \in sub[x]
        BY DEF ShapeOf, Shape, Spans
    <2> QED BY <1>1, <2>1 DEF ShapeOf, Shape, Spans
<1>3. n = t.right[p] => Lift(t, n) = RotatedLeft(t, p)
    BY <1>1, RotateLeftIs DEF Lift
<1>4. n # t.right[p] => Lift(t, n) = RotatedRight(t, p)
    BY <1>1, RotateRightIs DEF Lift
<1> QED BY <1>1, <1>2, <1>3, <1>4

\* Lifting a node keeps the shape and every order, and moves the root when the parent is the root.
LEMMA LiftSame ==
    ASSUME NEW t \in Trees, NEW U, NEW sub, ShapeOf(t, U, sub), NULL \notin Nodes,
           NEW n \in U, t.parent[n] # NULL
    PROVE  /\ \E sub1 : SameNodes(t, Lift(t, n), U, sub, sub1)
           /\ Lift(t, n).root = IF t.parent[n] = t.root THEN n ELSE t.root
           /\ Lift(t, n).parent[n] = t.parent[t.parent[n]]
           /\ \A y \in U : t.parent[y] # n /\ y # n /\ y # t.parent[n]
                             => Lift(t, n).parent[y] = t.parent[y]
<1>0. PICK p : p = t.parent[n] /\ p # NULL
    OBVIOUS
<1>3. /\ p \in U
      /\ n = t.right[p] => n # t.left[p] /\ Lift(t, n) = RotatedLeft(t, p)
      /\ n # t.right[p] => n = t.left[p] /\ Lift(t, n) = RotatedRight(t, p)
    BY <1>0, LiftIs
<1>4. n # NULL /\ n \in Nodes /\ t.parent[n] # n
    BY DEF ShapeOf, Shape, Links, Spans
<1>5. ASSUME NEW y \in U, t.parent[y] # n PROVE y \in Nodes /\ y # t.left[n] /\ y # t.right[n]
    BY <1>5 DEF ShapeOf, Shape, Links
<1>1. CASE n = t.right[p]
    <2>1. p \in U /\ Lift(t, n) = RotatedLeft(t, p) /\ t.right[p] # NULL
        BY <1>1, <1>3, <1>4
    <2>2. SameNodes(t, Lift(t, n), U, sub, SubAfterLeft(t, p, sub))
        BY <2>1, RotatedLeftSame
    <2>3. RotatedLeft(t, p).root = IF p = t.root THEN t.right[p] ELSE t.root
        BY DEF RotatedLeft
    <2>4. RotatedLeft(t, p).parent[n] = t.parent[p]
        BY <1>0, <1>1, <1>4, <2>1 DEF RotatedLeft
    <2>5. ASSUME NEW y \in U, t.parent[y] # n, y # n, y # p
          PROVE  RotatedLeft(t, p).parent[y] = t.parent[y]
        BY <1>0, <1>1, <1>5, <2>1, <2>5 DEF RotatedLeft
    <2> QED BY <1>0, <1>1, <2>1, <2>2, <2>3, <2>4, <2>5
<1>2. CASE n # t.right[p]
    <2>1. p \in U /\ Lift(t, n) = RotatedRight(t, p) /\ n = t.left[p] /\ t.left[p] # NULL
        BY <1>2, <1>3, <1>4
    <2>2. SameNodes(t, Lift(t, n), U, sub, SubAfterRight(t, p, sub))
        BY <2>1, RotatedRightSame
    <2>3. RotatedRight(t, p).root = IF p = t.root THEN t.left[p] ELSE t.root
        BY DEF RotatedRight
    <2>4. RotatedRight(t, p).parent[n] = t.parent[p]
        BY <1>0, <1>2, <1>4, <2>1 DEF RotatedRight
    <2>5. ASSUME NEW y \in U, t.parent[y] # n, y # n, y # p
          PROVE  RotatedRight(t, p).parent[y] = t.parent[y]
        BY <1>0, <1>2, <1>5, <2>1, <2>5 DEF RotatedRight
    <2> QED BY <1>0, <1>2, <2>1, <2>2, <2>3, <2>4, <2>5
<1> QED BY <1>1, <1>2

-----------------------------------------------------------------------------
(* A leaf is added, a node with at most one child goes                      *)

\* The subtrees with a leaf n added below p.
SubWithLeaf(sub, p, n) ==
    [y \in Nodes \cup {NULL} |-> IF y = n THEN {n} ELSE IF p \in sub[y] THEN sub[y] \cup {n} ELSE sub[y]]

\* A new leaf n under p, where p had no child.
LEMMA LeafShape ==
    ASSUME NEW root, NEW A, NEW B, NEW P, NEW U, NEW sub, Shape(root, A, B, P, U, sub),
           NULL \notin Nodes, NEW n \in Nodes \ U, NEW p \in U, A[p] = NULL,
           NEW A1, A1 = [A EXCEPT ![p] = n], NEW P1, P1 = [P EXCEPT ![n] = p]
    PROVE  Shape(root, A1, B, P1, U \cup {n}, SubWithLeaf(sub, p, n))
<1> DEFINE U1 == U \cup {n}
           sub1 == SubWithLeaf(sub, p, n)
<1>1. /\ n \in Nodes /\ p \in Nodes /\ n # p /\ n # NULL /\ p # NULL /\ n \notin U
      /\ A[n] = NULL /\ B[n] = NULL /\ sub[n] = {} /\ sub[NULL] = {}
    BY DEF Shape, Links, Spans
<1>2. Links(root, A1, B, P1, U1)
    <2>1. U1 \subseteq Nodes /\ root \in U1 \cup {NULL}
        BY DEF Shape, Links
    <2>2. /\ A1 \in [Nodes -> U1 \cup {NULL}] /\ B \in [Nodes -> U1 \cup {NULL}]
          /\ P1 \in [Nodes -> U1 \cup {NULL}]
        BY <1>1 DEF Shape, Links
    <2>3. \A x \in Nodes \ U1 : A1[x] = NULL /\ B[x] = NULL /\ P1[x] = NULL
        BY <1>1 DEF Shape, Links
    <2>4. \A x \in U1 : P1[x] = NULL <=> x = root
        BY <1>1 DEF Shape, Links
    <2>5. ASSUME NEW x \in U1, NEW m \in U1 PROVE P1[m] = x <=> m = A1[x] \/ m = B[x]
        BY <1>1 DEF Shape, Links
    <2> QED BY <2>1, <2>2, <2>3, <2>4, <2>5 DEF Links
<1>3. /\ sub1 \in [Nodes \cup {NULL} -> SUBSET U1]
      /\ sub1[n] = {n} /\ sub1[NULL] = {}
      /\ \A y \in Nodes \cup {NULL} :
            y # n => sub1[y] = IF p \in sub[y] THEN sub[y] \cup {n} ELSE sub[y]
    BY <1>1 DEF Shape, Spans, SubWithLeaf
<1> HIDE DEF sub1
<1>4. \A x \in Nodes : A[x] \in Nodes \cup {NULL} /\ B[x] \in Nodes \cup {NULL} /\ A[x] # n /\ B[x] # n
    BY <1>1 DEF Shape, Links
<1>5. \A x \in U : x \in Nodes /\ x # n
    BY <1>1 DEF Shape, Links
<1>6. \A x \in Nodes \cup {NULL} : n \notin sub[x] /\ sub[x] \subseteq U
    BY <1>1 DEF Shape, Spans
<1>7. sub1[root] = U1
    BY <1>1, <1>3 DEF Shape, Links, Spans
<1>8. ASSUME NEW x \in U, x # p
      PROVE  /\ sub1[x] = {x} \cup sub1[A1[x]] \cup sub1[B[x]]
             /\ x \notin sub1[A1[x]] /\ x \notin sub1[B[x]] /\ sub1[A1[x]] \cap sub1[B[x]] = {}
    <2>1. A1[x] = A[x]
        BY <1>8, <1>5 DEF Shape, Links
    <2>2. /\ sub1[x] = IF p \in sub[x] THEN sub[x] \cup {n} ELSE sub[x]
          /\ sub1[A[x]] = IF p \in sub[A[x]] THEN sub[A[x]] \cup {n} ELSE sub[A[x]]
          /\ sub1[B[x]] = IF p \in sub[B[x]] THEN sub[B[x]] \cup {n} ELSE sub[B[x]]
        BY <1>3, <1>4, <1>5
    <2>3. /\ sub[x] = {x} \cup sub[A[x]] \cup sub[B[x]]
          /\ x \notin sub[A[x]] /\ x \notin sub[B[x]] /\ sub[A[x]] \cap sub[B[x]] = {}
        BY DEF Shape, Spans
    <2>4. n \notin sub[A[x]] /\ n \notin sub[B[x]] /\ n # x
        BY <1>4, <1>5, <1>6
    <2> QED BY <1>8, <2>1, <2>2, <2>3, <2>4
<1>9. /\ sub1[p] = {p} \cup sub1[A1[p]] \cup sub1[B[p]]
      /\ p \notin sub1[A1[p]] /\ p \notin sub1[B[p]] /\ sub1[A1[p]] \cap sub1[B[p]] = {}
    <2>1. A1[p] = n
        BY <1>1 DEF Shape, Links
    <2>2. /\ sub[p] = {p} \cup sub[B[p]] /\ p \notin sub[B[p]]
        BY <1>1 DEF Shape, Spans
    <2>3. sub1[p] = sub[p] \cup {n} /\ sub1[B[p]] = sub[B[p]] /\ n \notin sub[B[p]]
        BY <1>1, <1>3, <1>4, <1>6, <2>2
    <2> QED BY <1>1, <1>3, <2>1, <2>2, <2>3
<1>10. /\ sub1[n] = {n} \cup sub1[A1[n]] \cup sub1[B[n]]
       /\ n \notin sub1[A1[n]] /\ n \notin sub1[B[n]] /\ sub1[A1[n]] \cap sub1[B[n]] = {}
    <2>1. A1[n] = NULL /\ B[n] = NULL
        BY <1>1 DEF Shape, Links
    <2> QED BY <1>3, <2>1
<1>11. \A x \in Nodes \ U1 : sub1[x] = {}
    BY <1>3 DEF Shape, Spans
<1>12. Spans(root, A1, B, U1, sub1)
    BY <1>3, <1>7, <1>8, <1>9, <1>10, <1>11 DEF Spans
<1> QED BY <1>2, <1>12 DEF Shape, sub1

\* The order extends to a leaf that fits there.
LEMMA LeafSorted ==
    ASSUME NEW root, NEW A, NEW B, NEW P, NEW U, NEW sub, Shape(root, A, B, P, U, sub),
           NULL \notin Nodes, NEW n \in Nodes \ U, NEW p \in U, A[p] = NULL,
           NEW A1, A1 = [A EXCEPT ![p] = n],
           NEW Less, Sorted(A, B, U, sub, Less),
           NEW Less1, \A x, y \in U : <<x, y>> \in Less => <<x, y>> \in Less1,
           <<n, p>> \in Less1,
           \A a \in U : /\ p \in sub[A[a]] => <<n, a>> \in Less1
                        /\ p \in sub[B[a]] => <<a, n>> \in Less1
    PROVE  Sorted(A1, B, U \cup {n}, SubWithLeaf(sub, p, n), Less1)
<1> DEFINE sub1 == SubWithLeaf(sub, p, n)
<1>1. /\ n \in Nodes /\ p \in Nodes /\ n # p /\ n # NULL /\ n \notin U
      /\ A[n] = NULL /\ B[n] = NULL /\ sub[NULL] = {}
    BY DEF Shape, Links, Spans
<1>2. /\ sub1[n] = {n} /\ sub1[NULL] = {}
      /\ \A y \in Nodes \cup {NULL} :
            y # n => sub1[y] = IF p \in sub[y] THEN sub[y] \cup {n} ELSE sub[y]
    BY <1>1 DEF SubWithLeaf
<1> HIDE DEF sub1
<1>3. /\ \A x \in Nodes : /\ A[x] \in Nodes \cup {NULL} /\ B[x] \in Nodes \cup {NULL}
                         /\ A[x] # n /\ B[x] # n
      /\ \A x \in U : x \in Nodes /\ x # n
      /\ \A x \in Nodes \cup {NULL} : sub[x] \subseteq U
    BY <1>1 DEF Shape, Links, Spans
<1>4. ASSUME NEW x \in U
      PROVE  /\ \A m \in sub[A[x]] : <<m, x>> \in Less1
             /\ \A m \in sub[B[x]] : <<x, m>> \in Less1
    BY <1>3 DEF Sorted
<1>5. ASSUME NEW x \in U, x # p, NEW m \in sub1[A1[x]] PROVE <<m, x>> \in Less1
    <2>1. A1[x] = A[x]
        BY <1>3, <1>5 DEF Shape, Links
    <2>2. m \in sub[A[x]] \/ (m = n /\ p \in sub[A[x]])
        BY <1>2, <1>3, <1>5, <2>1
    <2> QED BY <1>4, <2>2
<1>6. ASSUME NEW x \in U, NEW m \in sub1[B[x]] PROVE <<x, m>> \in Less1
    <2>1. m \in sub[B[x]] \/ (m = n /\ p \in sub[B[x]])
        BY <1>2, <1>3
    <2> QED BY <1>4, <2>1
<1>7. ASSUME NEW m \in sub1[A1[p]] PROVE <<m, p>> \in Less1
    <2>1. A1[p] = n
        BY <1>1 DEF Shape, Links
    <2> QED BY <1>2, <2>1
<1>8. sub1[A1[n]] = {} /\ sub1[B[n]] = {}
    <2>1. A1[n] = NULL /\ B[n] = NULL
        BY <1>1 DEF Shape, Links
    <2> QED BY <1>2, <2>1
<1> QED BY <1>5, <1>6, <1>7, <1>8 DEF Sorted, sub1

\* The subtrees without the node x.
SubWithout(sub, x) == [y \in Nodes \cup {NULL} |-> IF y = x THEN {} ELSE sub[y] \ {x}]

\* The node x, which has no left child, goes and its right child, if any, takes its place.
LEMMA SpliceShape ==
    ASSUME NEW root, NEW A, NEW B, NEW P, NEW U, NEW sub, Shape(root, A, B, P, U, sub),
           NULL \notin Nodes, NEW x \in U, A[x] = NULL, NEW c, c = B[x],
           NEW A1, A1 = [y \in Nodes |-> IF y = x THEN NULL ELSE IF A[y] = x THEN c ELSE A[y]],
           NEW B1, B1 = [y \in Nodes |-> IF y = x THEN NULL ELSE IF B[y] = x THEN c ELSE B[y]],
           NEW P1, P1 = [y \in Nodes |-> IF y = x THEN NULL ELSE IF y = c THEN P[x] ELSE P[y]],
           NEW root1, root1 = IF x = root THEN c ELSE root
    PROVE  Shape(root1, A1, B1, P1, U \ {x}, SubWithout(sub, x))
<1> DEFINE U1 == U \ {x}
           sub1 == SubWithout(sub, x)
<1>1. \A y \in U : y \in Nodes /\ y \in sub[y] /\ y # NULL
    BY DEF Shape, Links, Spans
<1>2. /\ x \in Nodes /\ c \in U \cup {NULL} /\ c # x /\ x # NULL /\ sub[x] = {x} \cup sub[c]
      /\ x \notin sub[c] /\ (c # NULL => P[c] = x)
    BY <1>1 DEF Shape, Links, Spans
<1>3. \A y \in Nodes : A[y] \in U \cup {NULL} /\ B[y] \in U \cup {NULL} /\ P[y] \in U \cup {NULL}
    BY DEF Shape, Links
<1>4. \A y \in U : (A[y] = x \/ B[y] = x) <=> (P[x] = y)
    BY DEF Shape, Links
<1>5. \A y \in U : y # x /\ c # NULL => A[y] # c /\ B[y] # c
    BY <1>2 DEF Shape, Links
<1>6. P[x] # x
    BY <1>1, <1>2 DEF Shape, Links, Spans
<1>7. Links(root1, A1, B1, P1, U1)
    <2>1. U1 \subseteq Nodes /\ root1 \in U1 \cup {NULL}
        BY <1>2 DEF Shape, Links
    <2>2. \A y \in Nodes : P[y] = x => y = c
        BY <1>2 DEF Shape, Links
    <2>3. /\ A1 \in [Nodes -> U1 \cup {NULL}] /\ B1 \in [Nodes -> U1 \cup {NULL}]
          /\ P1 \in [Nodes -> U1 \cup {NULL}]
        BY <1>2, <1>3, <1>6, <2>2
    <2>4. \A y \in Nodes \ U1 : A1[y] = NULL /\ B1[y] = NULL /\ P1[y] = NULL
        BY <1>2 DEF Shape, Links
    <2>5. \A y \in U1 : P1[y] = NULL <=> y = root1
        BY <1>2, <1>1 DEF Shape, Links
    <2>6. ASSUME NEW y \in U1, NEW m \in U1 PROVE P1[m] = y <=> m = A1[y] \/ m = B1[y]
        <3>1. CASE m = c
            BY <1>1, <1>2, <1>4, <1>5, <3>1
        <3>2. CASE m # c
            BY <1>1, <1>2, <1>4, <3>2 DEF Shape, Links
        <3> QED BY <3>1, <3>2
    <2> QED BY <2>1, <2>3, <2>4, <2>5, <2>6 DEF Links
<1>8. /\ sub1 \in [Nodes \cup {NULL} -> SUBSET U1]
      /\ \A y \in Nodes \cup {NULL} : y # x => sub1[y] = sub[y] \ {x}
      /\ sub1[x] = {} /\ sub1[NULL] = {}
    BY <1>2 DEF Shape, Spans, SubWithout
<1> HIDE DEF sub1
<1>9. sub1[c] = sub[x] \ {x}
    BY <1>1, <1>2, <1>8
<1>10. sub1[root1] = U1
    BY <1>1, <1>2, <1>8, <1>9 DEF Shape, Links, Spans
<1>11. ASSUME NEW y \in U1
       PROVE  sub1[y] = sub[y] \ {x} /\ sub1[A1[y]] = sub[A[y]] \ {x} /\ sub1[B1[y]] = sub[B[y]] \ {x}
    BY <1>1, <1>2, <1>3, <1>8, <1>9
<1>12. \A y \in U1 : /\ sub1[y] = {y} \cup sub1[A1[y]] \cup sub1[B1[y]]
                     /\ y \notin sub1[A1[y]] /\ y \notin sub1[B1[y]]
                     /\ sub1[A1[y]] \cap sub1[B1[y]] = {}
    <2> SUFFICES ASSUME NEW y \in U1
                 PROVE  /\ sub1[y] = {y} \cup sub1[A1[y]] \cup sub1[B1[y]]
                        /\ y \notin sub1[A1[y]] /\ y \notin sub1[B1[y]]
                        /\ sub1[A1[y]] \cap sub1[B1[y]] = {}
        OBVIOUS
    <2>1. /\ sub[y] = {y} \cup sub[A[y]] \cup sub[B[y]]
          /\ y \notin sub[A[y]] /\ y \notin sub[B[y]] /\ sub[A[y]] \cap sub[B[y]] = {}
        BY DEF Shape, Spans
    <2>2. y # x
        OBVIOUS
    <2>3. /\ sub1[y] = sub[y] \ {x} /\ sub1[A1[y]] = sub[A[y]] \ {x}
          /\ sub1[B1[y]] = sub[B[y]] \ {x}
        BY <1>11
    <2> QED BY <2>1, <2>2, <2>3
<1>13. \A y \in Nodes \ U1 : sub1[y] = {}
    BY <1>8 DEF Shape, Spans
<1>14. Spans(root1, A1, B1, U1, sub1)
    BY <1>8, <1>10, <1>12, <1>13 DEF Spans
<1> QED BY <1>7, <1>14 DEF Shape, sub1

\* The others stay in order.
LEMMA SpliceSorted ==
    ASSUME NEW root, NEW A, NEW B, NEW P, NEW U, NEW sub, Shape(root, A, B, P, U, sub),
           NULL \notin Nodes, NEW x \in U, A[x] = NULL, NEW c, c = B[x],
           NEW A1, A1 = [y \in Nodes |-> IF y = x THEN NULL ELSE IF A[y] = x THEN c ELSE A[y]],
           NEW B1, B1 = [y \in Nodes |-> IF y = x THEN NULL ELSE IF B[y] = x THEN c ELSE B[y]],
           NEW Less, Sorted(A, B, U, sub, Less),
           NEW Less1, \A y, z \in U \ {x} : <<y, z>> \in Less => <<y, z>> \in Less1
    PROVE  Sorted(A1, B1, U \ {x}, SubWithout(sub, x), Less1)
<1> DEFINE U1 == U \ {x}
           sub1 == SubWithout(sub, x)
<1>1. \A y \in U : y \in Nodes /\ y # NULL
    BY DEF Shape, Links
<1>2. c \in U \cup {NULL} /\ c # x /\ sub[x] = {x} \cup sub[c] /\ sub[NULL] = {}
    BY <1>1 DEF Shape, Links, Spans
<1>3. \A y \in Nodes : A[y] \in U \cup {NULL} /\ B[y] \in U \cup {NULL}
    BY DEF Shape, Links
<1>4. \A y \in Nodes \cup {NULL} : y # x => sub1[y] = sub[y] \ {x}
    BY DEF SubWithout
<1>5. \A y \in Nodes \cup {NULL} : sub[y] \subseteq U
    BY DEF Shape, Spans
<1> HIDE DEF sub1
<1>6. ASSUME NEW y \in U1
      PROVE  sub1[A1[y]] \subseteq sub[A[y]] \ {x} /\ sub1[B1[y]] \subseteq sub[B[y]] \ {x}
    <2>1. sub1[c] \subseteq sub[x] \ {x}
        BY <1>1, <1>2, <1>4
    <2> QED BY <1>1, <1>2, <1>3, <1>4, <2>1
<1>7. ASSUME NEW y \in U1, NEW m \in sub1[A1[y]] PROVE <<m, y>> \in Less1
    <2>1. m \in sub[A[y]] /\ m \in U1
        BY <1>1, <1>3, <1>5, <1>6
    <2> QED BY <2>1 DEF Sorted
<1>8. ASSUME NEW y \in U1, NEW m \in sub1[B1[y]] PROVE <<y, m>> \in Less1
    <2>1. m \in sub[B[y]] /\ m \in U1
        BY <1>1, <1>3, <1>5, <1>6
    <2> QED BY <2>1 DEF Sorted
<1> QED BY <1>7, <1>8 DEF Sorted, sub1

-----------------------------------------------------------------------------
(* Searching                                                                *)

\* f recurses in its last step only, until it reaches stop.
Recurses(f, D, stop, val, next) == f = [x \in D |-> IF x \in stop THEN val[x] ELSE f[next[x]]]

\* A function that recurses in its last step only is always defined: the value
\* at x is the one at the end of the chain x, next[x], next[next[x]], ...
LEMMA TailRecursion ==
    ASSUME NEW D, NEW stop, NEW val, NEW next, \A x \in D : x \notin stop => next[x] \in D
    PROVE  \E f : Recurses(f, D, stop, val, next)
<1> DEFINE Closed(S) == \A x \in S : x \notin stop => next[x] \in S
           Ends(x) == {y \in D \cap stop : \A S \in SUBSET D : x \in S /\ Closed(S) => y \in S}
           Last(x) == CHOOSE y : y \in Ends(x)
           f == [x \in D |-> val[Last(x)]]
<1>1. ASSUME NEW x \in D, x \in stop PROVE Ends(x) = {x}
    <2>1. {x} \in SUBSET D /\ x \in {x} /\ Closed({x})
        BY <1>1
    <2> QED BY <2>1, <1>1
<1>2. ASSUME NEW x \in D, x \notin stop PROVE Ends(x) = Ends(next[x])
    <2>1. ASSUME NEW y \in D \cap stop, NEW S \in SUBSET D, x \in S, Closed(S), y \in Ends(next[x])
          PROVE  y \in S
        <3>1. next[x] \in S
            BY <1>2, <2>1
        <3> QED BY <2>1, <3>1
    <2>2. ASSUME NEW y \in D \cap stop, NEW S \in SUBSET D, next[x] \in S, Closed(S), y \in Ends(x)
          PROVE  y \in S
        <3>1. S \cup {x} \in SUBSET D /\ x \in S \cup {x} /\ Closed(S \cup {x})
            BY <2>2
        <3>2. y \in S \cup {x}
            BY <2>2, <3>1
        <3> QED BY <1>2, <2>2, <3>2
    <2> QED BY <2>1, <2>2
<1>3. ASSUME NEW x \in D, x \in stop PROVE Last(x) = x
    BY <1>1, <1>3
<1>4. ASSUME NEW x \in D, x \notin stop PROVE Last(x) = Last(next[x])
    BY <1>2, <1>4
<1> HIDE DEF Last
<1>5. ASSUME NEW x \in D PROVE f[x] = IF x \in stop THEN val[x] ELSE f[next[x]]
    <2>1. CASE x \in stop
        BY <2>1, <1>3
    <2>2. CASE x \notin stop
        <3>1. next[x] \in D
            BY <2>2
        <3>2. f[next[x]] = val[Last(next[x])] /\ f[x] = val[Last(x)]
            BY <3>1
        <3> QED BY <2>2, <3>2, <1>4
    <2> QED BY <2>1, <2>2
<1>6. PICK g : g = f
    OBVIOUS
<1>7. g = [x \in D |-> g[x]] /\ \A x \in D : g[x] = IF x \in stop THEN val[x] ELSE g[next[x]]
    BY <1>5, <1>6
<1> HIDE DEF f
<1>8. Recurses(g, D, stop, val, next)
    BY <1>7 DEF Recurses
<1> QED BY <1>8

\* What holds of a node when it holds of its children holds of all nodes.
LEMMA TreeInduction ==
    ASSUME NEW root, NEW A, NEW B, NEW P, NEW U, NEW sub, Shape(root, A, B, P, U, sub),
           NULL \notin Nodes, IsFiniteSet(Nodes),
           NEW G, \A n \in U : (A[n] # NULL => A[n] \in G) /\ (B[n] # NULL => B[n] \in G) => n \in G
    PROVE  U \subseteq G
<1> SUFFICES ASSUME U \ G # {} PROVE FALSE
    OBVIOUS
<1> DEFINE T == {sub[n] : n \in U \ G}
<1>1. /\ \A n \in U : sub[n] \in SUBSET U /\ n \in sub[n]
      /\ \A n \in U : A[n] \in U \cup {NULL} /\ B[n] \in U \cup {NULL}
      /\ \A n \in U : sub[A[n]] \subseteq sub[n] /\ sub[B[n]] \subseteq sub[n]
                      /\ n \notin sub[A[n]] /\ n \notin sub[B[n]]
    BY DEF Shape, Links, Spans
<1>2. IsFiniteSet(U)
    BY FS_Subset DEF Shape, Links
<1>3. T \subseteq SUBSET U /\ T # {}
    BY <1>1
<1>4. PICK x \in T : \A y \in T : ~(<<y, x>> \in StrictSubsetOrdering(U))
    <2>1. T \subseteq FiniteSubsetsOf(U)
        BY <1>2, <1>3, FS_FiniteSubsetsOfFinite
    <2> QED BY <1>2, <1>3, <2>1, FS_StrictSubsetOrderingWellFounded, WFMin
<1>5. \A y \in T : y \subseteq x => y = x
    BY <1>3, <1>4 DEF StrictSubsetOrdering
<1> HIDE DEF T
<1>6. PICK n \in U \ G : x = sub[n]
    BY DEF T
<1>7. \A c \in U : c \in {A[n], B[n]} => c \in G
    <2> SUFFICES ASSUME NEW c \in U \ G, c \in {A[n], B[n]} PROVE FALSE
        OBVIOUS
    <2>1. sub[c] \in T
        BY DEF T
    <2>2. sub[c] \subseteq sub[n] /\ n \notin sub[c] /\ n \in sub[n]
        BY <1>1
    <2> QED BY <1>5, <1>6, <2>1, <2>2
<1> QED BY <1>1, <1>6, <1>7

\* The subtree of a node of the subtree at n is part of it.
LEMMA SubTransitive ==
    ASSUME NEW root, NEW A, NEW B, NEW P, NEW U, NEW sub, Shape(root, A, B, P, U, sub),
           NULL \notin Nodes, IsFiniteSet(Nodes), NEW n \in U, NEW m \in sub[n]
    PROVE  m \in U /\ sub[m] \subseteq sub[n]
<1> DEFINE G == {a \in U : \A b \in sub[a] : b \in U /\ sub[b] \subseteq sub[a]}
<1>1. ASSUME NEW a \in U, A[a] # NULL => A[a] \in G, B[a] # NULL => B[a] \in G PROVE a \in G
    <2>1. sub[a] = {a} \cup sub[A[a]] \cup sub[B[a]] /\ sub[NULL] = {} /\ sub[a] \subseteq U
        BY DEF Shape, Links, Spans
    <2>2. /\ \A b \in sub[A[a]] : b \in U /\ sub[b] \subseteq sub[A[a]]
          /\ \A b \in sub[B[a]] : b \in U /\ sub[b] \subseteq sub[B[a]]
        BY <1>1, <2>1
    <2> QED BY <2>1, <2>2
<1>2. U \subseteq G
    <2> HIDE DEF G
    <2> QED BY <1>1, TreeInduction
<1> QED BY <1>2

\* Going down by d until there is no child ends at a node of the subtree without a child on
\* that side, and on the way turns towards it at each node.
LEMMA DescendIs ==
    ASSUME NEW root, NEW A, NEW B, NEW P, NEW U, NEW sub, Shape(root, A, B, P, U, sub),
           NULL \notin Nodes, IsFiniteSet(Nodes),
           NEW d, \A x \in U : d[x] = A[x] \/ d[x] = B[x],
           NEW F, \A x \in U : F[x] = IF d[x] = NULL THEN x ELSE F[d[x]],
           NEW n \in U
    PROVE  /\ F[n] \in U /\ F[n] \in sub[n] /\ d[F[n]] = NULL
           /\ \A a \in sub[n] : F[n] \in sub[a] => F[n] = a \/ F[n] \in sub[d[a]]
<1> DEFINE G == {x \in U : /\ F[x] \in sub[x] /\ d[F[x]] = NULL
                           /\ \A a \in sub[x] : F[x] \in sub[a] => F[x] = a \/ F[x] \in sub[d[a]]}
<1>1. ASSUME NEW x \in U, A[x] # NULL => A[x] \in G, B[x] # NULL => B[x] \in G PROVE x \in G
    <2>1. /\ sub[x] = {x} \cup sub[A[x]] \cup sub[B[x]] /\ sub[NULL] = {} /\ sub[x] \subseteq U
          /\ x \notin sub[A[x]] /\ x \notin sub[B[x]] /\ sub[A[x]] \cap sub[B[x]] = {}
        BY DEF Shape, Links, Spans
    <2>2. A[x] \in U \cup {NULL} /\ B[x] \in U \cup {NULL}
        BY DEF Shape, Links
    <2>3. CASE d[x] = NULL
        <3>1. F[x] = x
            BY <2>3
        <3>2. ASSUME NEW a \in sub[x], x \in sub[a], x # a PROVE FALSE
            <4>1. PICK c \in {A[x], B[x]} : c # NULL /\ a \in sub[c]
                BY <2>1, <3>2
            <4>2. sub[a] \subseteq sub[c]
                BY <2>2, <4>1, SubTransitive
            <4> QED BY <2>1, <3>2, <4>1, <4>2
        <3> QED BY <2>1, <2>3, <3>1, <3>2
    <2>4. CASE d[x] # NULL
        <3>1. PICK c : c = d[x] /\ c \in U /\ c \in G /\ F[x] = F[c]
            BY <1>1, <2>2, <2>4
        <3>2. F[x] \in sub[c] /\ d[F[x]] = NULL /\ sub[c] \subseteq sub[x]
            BY <2>1, <3>1
        <3>3. ASSUME NEW a \in sub[x], F[x] \in sub[a] PROVE F[x] = a \/ F[x] \in sub[d[a]]
            <4>1. CASE a = x
                BY <3>1, <3>2, <4>1
            <4>2. CASE a \in sub[c]
                BY <3>1, <3>3, <4>2
            <4>3. CASE a # x /\ a \notin sub[c]
                <5>1. PICK e \in {A[x], B[x]} : e # NULL /\ a \in sub[e] /\ e # c
                    BY <2>1, <4>3
                <5>2. sub[a] \subseteq sub[e]
                    BY <2>2, <5>1, SubTransitive
                <5>3. sub[e] \cap sub[c] = {}
                    BY <2>1, <3>1, <5>1
                <5> QED BY <3>2, <3>3, <5>2, <5>3
            <4> QED BY <4>1, <4>2, <4>3
        <3> QED BY <3>2, <3>3
    <2> QED BY <2>3, <2>4
<1>2. U \subseteq G
    <2> HIDE DEF G
    <2> QED BY <1>1, TreeInduction
<1>3. sub[n] \subseteq U
    BY DEF Shape, Links, Spans
<1> QED BY <1>2, <1>3

\* The leftmost node comes before the others.
LEMMA LeftmostIs ==
    ASSUME NEW root, NEW A, NEW B, NEW P, NEW U, NEW sub, Shape(root, A, B, P, U, sub),
           NULL \notin Nodes, IsFiniteSet(Nodes),
           NEW Less, Sorted(A, B, U, sub, Less), Transitive(Less, U),
           NEW F, \A x \in U : F[x] = IF A[x] = NULL THEN x ELSE F[A[x]],
           NEW n \in U, NEW m \in sub[n], m # F[n]
    PROVE  <<F[n], m>> \in Less
<1> DEFINE G == {x \in U : /\ F[x] \in sub[x]
                           /\ \A a \in sub[x] : a # F[x] => <<F[x], a>> \in Less}
<1>1. ASSUME NEW x \in U, A[x] # NULL => A[x] \in G, B[x] # NULL => B[x] \in G PROVE x \in G
    <2>1. sub[x] = {x} \cup sub[A[x]] \cup sub[B[x]] /\ sub[NULL] = {} /\ sub[x] \subseteq U
        BY DEF Shape, Links, Spans
    <2>2. A[x] \in U \cup {NULL} /\ B[x] \in U \cup {NULL}
        BY DEF Shape, Links
    <2>3. CASE A[x] = NULL
        BY <2>1, <2>3 DEF Sorted
    <2>4. CASE A[x] # NULL
        <3>1. PICK c : c = A[x] /\ c \in U /\ c \in G /\ F[x] = F[c]
            BY <1>1, <2>2, <2>4
        <3>2. F[x] \in sub[c]
            BY <3>1
        <3>3. <<F[x], x>> \in Less
            BY <3>1, <3>2 DEF Sorted
        <3>4. ASSUME NEW a \in sub[B[x]] PROVE <<F[x], a>> \in Less
            <4>1. <<x, a>> \in Less /\ a \in U /\ F[x] \in U
                BY <2>1, <3>1, <3>2 DEF Sorted
            <4> QED BY <3>3, <4>1 DEF Transitive
        <3> QED BY <2>1, <3>1, <3>2, <3>3, <3>4
    <2> QED BY <2>3, <2>4
<1>2. U \subseteq G
    <2> HIDE DEF G
    <2> QED BY <1>1, TreeInduction
<1> QED BY <1>2

\* A search that turns, at each node that is not in hits, to the side where all hits are.
LEMMA SearchIs ==
    ASSUME NEW root, NEW A, NEW B, NEW P, NEW U, NEW sub, Shape(root, A, B, P, U, sub),
           NULL \notin Nodes, IsFiniteSet(Nodes),
           NEW d, \A x \in U : d[x] = A[x] \/ d[x] = B[x],
           NEW hits, \A x \in U : x \notin hits => \A m \in sub[x] : m \in hits => m \in sub[d[x]],
           NEW F, F[NULL] = NULL, \A x \in U : F[x] = IF x \in hits THEN x ELSE F[d[x]]
    PROVE  IF U \cap hits = {} THEN F[root] = NULL ELSE F[root] \in U \cap hits
<1> DEFINE Found(x) == IF sub[x] \cap hits = {} THEN F[x] = NULL ELSE F[x] \in U \cap hits
           G == {x \in U : Found(x)}
<1>1. ASSUME NEW x \in U, A[x] # NULL => A[x] \in G, B[x] # NULL => B[x] \in G PROVE x \in G
    <2>1. sub[x] = {x} \cup sub[A[x]] \cup sub[B[x]] /\ sub[NULL] = {} /\ sub[x] \subseteq U
        BY DEF Shape, Links, Spans
    <2>2. CASE x \in hits
        BY <2>1, <2>2
    <2>3. CASE x \notin hits
        <3>1. F[x] = F[d[x]] /\ sub[x] \cap hits = sub[d[x]] \cap hits
            BY <2>1, <2>3
        <3>2. Found(d[x])
            BY <1>1, <2>1
        <3> QED BY <3>1, <3>2
    <2> QED BY <2>2, <2>3
<1>2. U \subseteq G
    <2> HIDE DEF G
    <2> QED BY <1>1, TreeInduction
<1>3. Found(root)
    BY <1>2 DEF Shape, Links, Spans
<1> QED BY <1>3 DEF Shape, Spans

\* Of two nodes one comes before the other.
LEMMA TotalOrder ==
    ASSUME NEW root, NEW A, NEW B, NEW P, NEW U, NEW sub, Shape(root, A, B, P, U, sub),
           NULL \notin Nodes, IsFiniteSet(Nodes),
           NEW Less, Sorted(A, B, U, sub, Less), Transitive(Less, U),
           NEW m \in U, NEW n \in U, m # n
    PROVE  <<m, n>> \in Less \/ <<n, m>> \in Less
<1> DEFINE G == {x \in U : \A a, b \in sub[x] : a # b => <<a, b>> \in Less \/ <<b, a>> \in Less}
<1>1. ASSUME NEW x \in U, A[x] # NULL => A[x] \in G, B[x] # NULL => B[x] \in G PROVE x \in G
    <2>1. sub[x] = {x} \cup sub[A[x]] \cup sub[B[x]] /\ sub[NULL] = {} /\ sub[x] \subseteq U
        BY DEF Shape, Links, Spans
    <2>2. ASSUME NEW a \in sub[A[x]], NEW b \in sub[B[x]] PROVE <<a, b>> \in Less
        <3>1. <<a, x>> \in Less /\ <<x, b>> \in Less /\ a \in U /\ b \in U
            BY <2>1 DEF Sorted
        <3> QED BY <3>1 DEF Transitive
    <2>3. /\ \A a \in sub[A[x]] : <<a, x>> \in Less
          /\ \A b \in sub[B[x]] : <<x, b>> \in Less
        BY DEF Sorted
    <2>4. /\ \A a, b \in sub[A[x]] : a # b => <<a, b>> \in Less \/ <<b, a>> \in Less
          /\ \A a, b \in sub[B[x]] : a # b => <<a, b>> \in Less \/ <<b, a>> \in Less
        BY <1>1, <2>1
    <2> QED BY <2>1, <2>2, <2>3, <2>4
<1>2. U \subseteq G
    <2> HIDE DEF G
    <2> QED BY <1>1, TreeInduction
<1>3. root \in G \/ U = {}
    BY <1>2 DEF Shape, Links, Spans
<1> QED BY <1>3 DEF Shape, Spans

-----------------------------------------------------------------------------
(* The tree of the dictionary                                               *)

\* The order of the tree: by key, except that a node in D may come after one with its key.
KeyOrder(ky, D) ==
    {q \in Nodes \X Nodes : ky[q[1]] < ky[q[2]] \/ (q[2] \in D /\ ky[q[1]] = ky[q[2]])}

\* t is a search tree of the nodes U.
Fits(t, ky, D, U) ==
    \E sub : ShapeOf(t, U, sub) /\ SortedIn(t, U, sub, KeyOrder(ky, D))

\* Two trees that differ in colours at most.
SameLinks(t, u) ==
    u.root = t.root /\ u.left = t.left /\ u.right = t.right /\ u.parent = t.parent

\* What the assumption on the constants gives: NULL is not a node, and the nodes are finitely many
\* integers.
LEMMA Constants ==
    NULL \notin Nodes /\ IsFiniteSet(Nodes) /\ Nodes = Keys /\ \A k \in Keys : k \in Int
BY DictAssumption DEF Nodes

\* KeyOrder compares the keys, and lets a node of D come after one with the same key.
LEMMA KeyOrderIs ==
    ASSUME NEW ky, NEW D, NEW x \in Nodes, NEW y \in Nodes
    PROVE  <<x, y>> \in KeyOrder(ky, D) <=> ky[x] < ky[y] \/ (y \in D /\ ky[x] = ky[y])
BY DEF KeyOrder

\* Without exceptions it compares the keys only.
LEMMA KeyOrderPlain ==
    ASSUME NEW ky, NEW x \in Nodes, NEW y \in Nodes
    PROVE  <<x, y>> \in KeyOrder(ky, {}) <=> ky[x] < ky[y]
BY DEF KeyOrder

\* KeyOrder chains on nodes that have keys.
LEMMA KeyOrderTransitive ==
    ASSUME NEW ky, NEW D, NEW U \in SUBSET Nodes, \A n \in U : ky[n] \in Keys
    PROVE  KeyOrder(ky, D) \in SUBSET (Nodes \X Nodes) /\ Transitive(KeyOrder(ky, D), U)
<1>1. KeyOrder(ky, D) \in SUBSET (Nodes \X Nodes)
    BY DEF KeyOrder
<1>2. ASSUME NEW x \in U, NEW y \in U, NEW z \in U,
             <<x, y>> \in KeyOrder(ky, D), <<y, z>> \in KeyOrder(ky, D)
      PROVE  <<x, z>> \in KeyOrder(ky, D)
    <2>1. ky[x] \in Keys /\ ky[y] \in Keys /\ ky[z] \in Keys
        OBVIOUS
    <2>2. ky[x] \in Int /\ ky[y] \in Int /\ ky[z] \in Int
        BY <2>1, Constants
    <2>3. /\ ky[x] < ky[y] \/ (y \in D /\ ky[x] = ky[y])
          /\ ky[y] < ky[z] \/ (z \in D /\ ky[y] = ky[z])
        BY <1>2, KeyOrderIs, ZenonT(30)
    <2>4. ky[x] < ky[z] \/ (z \in D /\ ky[x] = ky[z])
        BY <2>2, <2>3
    <2> QED BY <2>4, KeyOrderIs
<1> QED BY <1>1, <1>2 DEF Transitive

\* Painting changes no link.
LEMMA SetRedIs ==
    ASSUME NEW t \in Trees, NEW n \in Nodes \cup {NULL}
    PROVE  /\ _SET_RED(t, n) \in Trees /\ SameLinks(t, _SET_RED(t, n))
           /\ _SET_RED(t, n).red = t.red \cup ({n} \ {NULL})
BY DEF _SET_RED, Trees, SameLinks

\* Painting black changes no link either.
LEMMA SetBlackIs ==
    ASSUME NEW t \in Trees, NEW n
    PROVE  /\ _SET_BLACK(t, n) \in Trees /\ SameLinks(t, _SET_BLACK(t, n))
           /\ _SET_BLACK(t, n).red = t.red \ {n}
BY DEF _SET_BLACK, Trees, SameLinks

\* A search tree is still one in other colours.
LEMMA PaintedFits ==
    ASSUME NEW t, NEW u, SameLinks(t, u), NEW ky, NEW D, NEW U, Fits(t, ky, D, U)
    PROVE  Fits(u, ky, D, U)
BY DEF SameLinks, Fits, ShapeOf, SortedIn

\* The facts about links that the steps use.
LEMMA LinksOf ==
    ASSUME NEW t, NEW ky, NEW D, NEW U, Fits(t, ky, D, U)
    PROVE  /\ U \subseteq Nodes /\ NULL \notin U /\ t.root \in U \cup {NULL}
           /\ \A n \in Nodes : t.left[n] \in U \cup {NULL} /\ t.right[n] \in U \cup {NULL}
                               /\ t.parent[n] \in U \cup {NULL}
           /\ \A n \in U : t.parent[n] = NULL <=> n = t.root
           /\ \A n, m \in U : t.parent[m] = n <=> m = t.left[n] \/ m = t.right[n]
           /\ \A n \in U : t.parent[n] # n /\ (t.parent[n] # NULL => t.parent[t.parent[n]] # n)
           /\ \A n \in U : t.left[n] = t.right[n] => t.left[n] = NULL
           /\ U # {} => t.root \in U
<1> PICK sub : ShapeOf(t, U, sub)
    BY DEF Fits
<1>1. Links(t.root, t.left, t.right, t.parent, U)
    BY DEF ShapeOf, Shape
<1>2. \A x \in U : x \in sub[x]
    BY DEF ShapeOf, Shape, Spans
<1>3. \A n \in U : t.parent[n] # n /\ (t.left[n] = t.right[n] => t.left[n] = NULL)
    BY <1>1, <1>2 DEF ShapeOf, Shape, Spans, Links
<1>4. U # {} => t.root \in U
    BY <1>1 DEF Links, ShapeOf, Shape, Spans
<1>5. ASSUME NEW n \in U, t.parent[n] # NULL, t.parent[t.parent[n]] = n PROVE FALSE
    <2>1. PICK p \in U : p = t.parent[n] /\ t.parent[p] = n
        BY <1>1, <1>5 DEF Links
    <2>2. sub[n] \subseteq sub[p] /\ p \notin sub[n] /\ sub[p] \subseteq sub[n]
        BY <1>1, <2>1 DEF Links, ShapeOf, Shape, Spans
    <2> QED BY <1>2, <2>2
<1> QED BY <1>1, <1>3, <1>4, <1>5, Constants DEF Links

\* Lifting a node gives a search tree of the same nodes.
LEMMA LiftFits ==
    ASSUME NEW t \in Trees, NEW ky, NEW D, NEW U, Fits(t, ky, D, U), \A n \in U : ky[n] \in Keys,
           NEW n \in U, t.parent[n] # NULL
    PROVE  /\ Lift(t, n) \in Trees /\ Lift(t, n).red = t.red /\ Fits(Lift(t, n), ky, D, U)
           /\ Lift(t, n).root = IF t.parent[n] = t.root THEN n ELSE t.root
           /\ Lift(t, n).parent[n] = t.parent[t.parent[n]]
           /\ \A y \in U : t.parent[y] # n /\ y # n /\ y # t.parent[n]
                             => Lift(t, n).parent[y] = t.parent[y]
<1>1. PICK sub : ShapeOf(t, U, sub) /\ SortedIn(t, U, sub, KeyOrder(ky, D))
    BY DEF Fits
<1>2. PICK sub1 : SameNodes(t, Lift(t, n), U, sub, sub1)
    BY <1>1, LiftSame, Constants
<1>3. KeyOrder(ky, D) \in SUBSET (Nodes \X Nodes) /\ Transitive(KeyOrder(ky, D), U)
    BY LinksOf, KeyOrderTransitive
<1>4. SortedIn(Lift(t, n), U, sub1, KeyOrder(ky, D))
    BY <1>1, <1>2, <1>3 DEF SameNodes
<1>5. /\ Lift(t, n).root = IF t.parent[n] = t.root THEN n ELSE t.root
      /\ Lift(t, n).parent[n] = t.parent[t.parent[n]]
      /\ \A y \in U : t.parent[y] # n /\ y # n /\ y # t.parent[n]
                        => Lift(t, n).parent[y] = t.parent[y]
    BY <1>1, LiftSame, Constants
<1> QED BY <1>2, <1>4, <1>5 DEF SameNodes, Fits

-----------------------------------------------------------------------------
(* What the searches of the code return                                     *)

\* The links of tree lead to nodes or nowhere.
LEMMA TreeFields ==
    ASSUME tree \in Trees
    PROVE  /\ tree.root \in Nodes \cup {NULL}
           /\ \A n \in Nodes : /\ tree.left[n] \in Nodes \cup {NULL}
                               /\ tree.right[n] \in Nodes \cup {NULL}
                               /\ tree.parent[n] \in Nodes \cup {NULL}
BY DEF Trees

\* _rb_find_node returns a node with the key when there is one, and NULL when there is none.
LEMMA FindIs ==
    ASSUME tree \in Trees, NEW D, Fits(tree, key, D, used), \A n \in used : key[n] \in Keys,
           NEW k \in Keys
    PROVE  IF \E x \in used : key[x] = k
           THEN _rb_find_node(k) \in used /\ key[_rb_find_node(k)] = k
           ELSE _rb_find_node(k) = NULL
<1> DEFINE All == Nodes \cup {NULL}
           Eq(f) == f = [n \in All |-> IF n = NULL THEN NULL
                                       ELSE IF key[n] = k THEN n ELSE f[Towards(n, k)]]
           Search == CHOOSE f : Eq(f)
           d == [n \in All |-> Towards(n, k)]
           hits == {x \in used : key[x] = k}
<1>1. \E f : Eq(f)
    <2> DEFINE stop == {NULL} \cup {n \in Nodes : key[n] = k}
               val == [n \in All |-> n]
    <2>1. \A x \in All : x \notin stop => d[x] \in All
        BY TreeFields DEF Towards
    <2>2. PICK f : Recurses(f, All, stop, val, d)
        <3> HIDE DEF stop, val, d
        <3> QED BY <2>1, TailRecursion
    <2>3. \A n \in All : f[n] = IF n = NULL THEN NULL ELSE IF key[n] = k THEN n ELSE f[Towards(n, k)]
        BY <2>2 DEF Recurses
    <2>4. f = [n \in All |-> f[n]]
        BY <2>2 DEF Recurses
    <2>5. Eq(f)
        BY <2>3, <2>4
    <2> QED BY <2>5
<1>2. Eq(Search)
    BY <1>1
<1>3. _rb_find_node(k) = Search[tree.root]
    BY DEF _rb_find_node
<1> HIDE DEF Search
<1>4. Search[NULL] = NULL
    BY <1>2
<1>5. PICK sub : ShapeOf(tree, used, sub) /\ SortedIn(tree, used, sub, KeyOrder(key, D))
    BY DEF Fits
<1>6. Shape(tree.root, tree.left, tree.right, tree.parent, used, sub)
    BY <1>5 DEF ShapeOf
<1>7. used \subseteq Nodes /\ NULL \notin used
    BY LinksOf
<1>8. \A x \in used : Search[x] = IF x \in hits THEN x ELSE Search[d[x]]
    BY <1>2, <1>7
<1>9. \A x \in used : d[x] = tree.left[x] \/ d[x] = tree.right[x]
    BY <1>7 DEF Towards
<1>10. ASSUME NEW x \in used, x \notin hits, NEW m \in sub[x], m \in hits PROVE m \in sub[d[x]]
    <2>1. m \in sub[tree.left[x]] \/ m \in sub[tree.right[x]]
        BY <1>6, <1>10 DEF Shape, Spans
    <2>2. key[x] \in Int /\ k \in Int /\ key[m] = k /\ key[x] # k
        BY <1>10, Constants
    <2>3. x \in Nodes /\ m \in Nodes
        BY <1>7, <1>10
    <2>4. m \in sub[tree.left[x]] => k < key[x]
        BY <1>5, <2>2, <2>3, KeyOrderIs DEF SortedIn, Sorted
    <2>5. m \in sub[tree.right[x]] => key[x] < k
        BY <1>5, <2>2, <2>3, KeyOrderIs DEF SortedIn, Sorted
    <2>6. d[x] = IF k < key[x] THEN tree.left[x] ELSE tree.right[x]
        BY <1>7 DEF Towards
    <2> QED BY <2>1, <2>2, <2>4, <2>5, <2>6
<1> HIDE DEF d, hits
<1>11. IF used \cap hits = {} THEN Search[tree.root] = NULL ELSE Search[tree.root] \in used \cap hits
    BY <1>4, <1>6, <1>8, <1>9, <1>10, SearchIs, Constants
<1> QED BY <1>3, <1>11 DEF hits

\* ParentFor ends at a node with no child on the side of the key, and is on that side of every
\* node above it.
LEMMA ParentForIs ==
    ASSUME tree \in Trees, NEW sub, ShapeOf(tree, used, sub), tree.root # NULL, NEW k \in Keys
    PROVE  /\ ParentFor(k) \in used /\ Towards(ParentFor(k), k) = NULL
           /\ \A a \in used : ParentFor(k) \in sub[a] =>
                                ParentFor(k) = a \/ ParentFor(k) \in sub[Towards(a, k)]
<1> DEFINE Eq(f) == f = [n \in Nodes |-> IF Towards(n, k) = NULL THEN n ELSE f[Towards(n, k)]]
           Descend == CHOOSE f : Eq(f)
           d == [n \in Nodes |-> Towards(n, k)]
<1>1. \E f : Eq(f)
    <2> DEFINE stop == {n \in Nodes : Towards(n, k) = NULL}
               val == [n \in Nodes |-> n]
    <2>1. \A x \in Nodes : x \notin stop => d[x] \in Nodes
        BY TreeFields DEF Towards
    <2>2. PICK f : Recurses(f, Nodes, stop, val, d)
        <3> HIDE DEF stop, val, d
        <3> QED BY <2>1, TailRecursion
    <2>3. \A n \in Nodes : f[n] = IF Towards(n, k) = NULL THEN n ELSE f[Towards(n, k)]
        BY <2>2 DEF Recurses
    <2>4. f = [n \in Nodes |-> f[n]]
        BY <2>2 DEF Recurses
    <2>5. Eq(f)
        BY <2>3, <2>4
    <2> QED BY <2>5
<1>2. Eq(Descend)
    BY <1>1
<1>3. ParentFor(k) = Descend[tree.root]
    BY DEF ParentFor
<1> HIDE DEF Descend
<1>4. Shape(tree.root, tree.left, tree.right, tree.parent, used, sub)
    BY DEF ShapeOf
<1>5. used \subseteq Nodes /\ tree.root \in used /\ sub[tree.root] = used
    BY <1>4 DEF Shape, Links, Spans
<1>6. \A x \in used : Descend[x] = IF d[x] = NULL THEN x ELSE Descend[d[x]]
    BY <1>2, <1>5
<1>7. \A x \in used : d[x] = tree.left[x] \/ d[x] = tree.right[x]
    BY <1>5 DEF Towards
<1>8. \A x \in used : d[x] = Towards(x, k)
    BY <1>5
<1> HIDE DEF d
<1>9. /\ Descend[tree.root] \in used /\ d[Descend[tree.root]] = NULL
      /\ \A a \in sub[tree.root] : Descend[tree.root] \in sub[a] =>
                                     Descend[tree.root] = a \/ Descend[tree.root] \in sub[d[a]]
    BY <1>4, <1>5, <1>6, <1>7, DescendIs, Constants
<1> QED BY <1>3, <1>5, <1>8, <1>9

\* _rb_find_min_leaf returns the node of the subtree that comes before the others.
LEMMA MinLeafIs ==
    ASSUME tree \in Trees, NEW sub, ShapeOf(tree, used, sub), NEW D,
           SortedIn(tree, used, sub, KeyOrder(key, D)), \A n \in used : key[n] \in Keys,
           NEW top \in used
    PROVE  /\ _rb_find_min_leaf(top) \in used /\ _rb_find_min_leaf(top) \in sub[top]
           /\ tree.left[_rb_find_min_leaf(top)] = NULL
           /\ \A m \in sub[top] : m # _rb_find_min_leaf(top) =>
                                    <<_rb_find_min_leaf(top), m>> \in KeyOrder(key, D)
<1> DEFINE Eq(f) == f = [n \in Nodes |-> IF tree.left[n] = NULL THEN n ELSE f[tree.left[n]]]
           Descend == CHOOSE f : Eq(f)
           d == tree.left
<1>1. \E f : Eq(f)
    <2> DEFINE stop == {n \in Nodes : tree.left[n] = NULL}
               val == [n \in Nodes |-> n]
    <2>1. \A x \in Nodes : x \notin stop => d[x] \in Nodes
        BY TreeFields
    <2>2. PICK f : Recurses(f, Nodes, stop, val, d)
        <3> HIDE DEF stop, val, d
        <3> QED BY <2>1, TailRecursion
    <2>3. \A n \in Nodes : f[n] = IF tree.left[n] = NULL THEN n ELSE f[tree.left[n]]
        BY <2>2 DEF Recurses
    <2>4. f = [n \in Nodes |-> f[n]]
        BY <2>2 DEF Recurses
    <2>5. Eq(f)
        BY <2>3, <2>4
    <2> QED BY <2>5
<1>2. Eq(Descend)
    BY <1>1
<1>3. _rb_find_min_leaf(top) = Descend[top]
    BY DEF _rb_find_min_leaf
<1> HIDE DEF Descend
<1>4. Shape(tree.root, tree.left, tree.right, tree.parent, used, sub)
    BY DEF ShapeOf
<1>5. used \subseteq Nodes
    BY <1>4 DEF Shape, Links
<1>6. \A x \in used : Descend[x] = IF tree.left[x] = NULL THEN x ELSE Descend[tree.left[x]]
    BY <1>2, <1>5
<1>7. Descend[top] \in used /\ Descend[top] \in sub[top] /\ tree.left[Descend[top]] = NULL
    BY <1>4, <1>6, DescendIs, Constants
<1>8. Transitive(KeyOrder(key, D), used)
    BY <1>5, KeyOrderTransitive
<1>9. Sorted(tree.left, tree.right, used, sub, KeyOrder(key, D))
    BY DEF SortedIn
<1>10. \A m \in sub[top] : m # Descend[top] => <<Descend[top], m>> \in KeyOrder(key, D)
    BY <1>4, <1>6, <1>8, <1>9, LeftmostIs, Constants
<1> QED BY <1>3, <1>7, <1>10

-----------------------------------------------------------------------------
(* The invariant of the structure                                           *)

\* The node that is about to go, when it has no left child: after DeleteInner it is the one
\* whose contents the node that was to go has taken.
Doomed == IF pc = "remove" /\ tree.left[node] = NULL THEN {node} ELSE {}

\* A node in use has a key and an object of that key.
ContentsOK ==
    /\ key \in [Nodes -> Keys \cup {NULL}]
    /\ value \in [Nodes -> Objects \cup {NULL}]
    /\ \A n \in used : key[n] \in Keys /\ value[n] \in ObjectsOf(key[n])
    /\ \A m, n \in used : key[m] = key[n] => value[m] = value[n]

\* The node a call is at is in use, and where the root may be red.
CursorOK ==
    /\ pc # "idle" => node \in used
    /\ pc = "sibling" => tree.parent[node] # NULL
    /\ tree.root \in tree.red => pc = "insert" /\ node = tree.root

\* tree is a search tree of the nodes in use in every state, also between two steps of a call;
\* the root is black but for a new node still to be looked at, so a red parent has a parent.
Structure ==
    /\ tree \in Trees /\ tree.red \subseteq used
    /\ Fits(tree, key, Doomed, used)
    /\ count = Cardinality(used)
    /\ ContentsOK /\ CursorOK

\* A larger D only weakens the order.
LEMMA FitsMore ==
    ASSUME NEW t, NEW ky, NEW D, NEW D1, D \subseteq D1, NEW U, Fits(t, ky, D, U)
    PROVE  Fits(t, ky, D1, U)
<1>1. KeyOrder(ky, D) \subseteq KeyOrder(ky, D1)
    BY DEF KeyOrder
<1> QED BY <1>1 DEF Fits, SortedIn, Sorted

\* A step that moves nodes and paints them, and touches nothing else.
LEMMA Rebalanced ==
    ASSUME Structure, UNCHANGED <<key, value, used, count>>, pc # "remove", pc' # "remove",
           tree' \in Trees, tree'.red \subseteq used, Fits(tree', key, {}, used),
           pc' # "idle" => node' \in used,
           pc' = "sibling" => tree'.parent[node'] # NULL,
           tree'.root \in tree'.red => pc' = "insert" /\ node' = tree'.root
    PROVE  Structure'
<1>1. Doomed' = {}
    BY DEF Doomed
<1>2. Fits(tree, key, Doomed, used)'
    BY <1>1
<1>3. ContentsOK'
    BY DEF Structure, ContentsOK
<1>4. CursorOK'
    BY DEF CursorOK
<1> QED BY <1>2, <1>3, <1>4 DEF Structure

\* Outside of a removal the order is that of the keys.
LEMMA StructureIs ==
    ASSUME Structure
    PROVE  /\ tree \in Trees /\ tree.red \subseteq used /\ used \subseteq Nodes
           /\ pc # "remove" => Fits(tree, key, {}, used)
           /\ \A n \in used : key[n] \in Keys
           /\ IsFiniteSet(used)
<1>1. used \subseteq Nodes /\ IsFiniteSet(used)
    BY LinksOf, Constants, FS_Subset DEF Structure
<1> QED BY <1>1 DEF Structure, Doomed, ContentsOK

\* InsertRoot keeps the structure: it only paints.
LEMMA InsertRootKeeps == ASSUME Structure, InsertRoot PROVE Structure'
<1>1. /\ tree \in Trees /\ tree.red \subseteq used /\ Fits(tree, key, {}, used) /\ node \in used
    BY StructureIs DEF InsertRoot, Structure, CursorOK
<1>2. node = tree.root
    BY <1>1, LinksOf DEF InsertRoot
<1>3. tree' \in Trees /\ SameLinks(tree, tree') /\ tree'.red = tree.red \ {node}
    BY <1>1, SetBlackIs DEF InsertRoot
<1>4. Fits(tree', key, {}, used)
    BY <1>1, <1>3, PaintedFits
<1> QED BY <1>1, <1>2, <1>3, <1>4, Rebalanced DEF InsertRoot, Return, SameLinks

\* InsertBlackParent keeps the structure: it changes nothing, and the root stays black.
LEMMA InsertBlackParentKeeps == ASSUME Structure, InsertBlackParent PROVE Structure'
<1>1. /\ tree \in Trees /\ tree.red \subseteq used /\ Fits(tree, key, {}, used) /\ node \in used
    BY StructureIs DEF InsertBlackParent, Structure, CursorOK
<1>2. node # tree.root
    BY <1>1, LinksOf DEF InsertBlackParent
<1>3. tree.root \notin tree.red
    BY <1>2 DEF Structure, CursorOK
<1> QED BY <1>1, <1>3, Rebalanced DEF InsertBlackParent, Return, contents

\* A red parent is not the root: it has a parent, and the sides of the family are known.
LEMMA RedParentIs ==
    ASSUME Structure, RedParent
    PROVE  LET p == tree.parent[node]
               g == tree.parent[p]
           IN  /\ node \in used /\ p \in used /\ p \in tree.red /\ g \in used
               /\ node # p /\ p # g
               /\ node = tree.left[p] \/ node = tree.right[p]
               /\ p = tree.left[g] \/ p = tree.right[g]
               /\ Uncle \in used \cup {NULL}
               /\ Uncle = IF p = tree.left[g] THEN tree.right[g] ELSE tree.left[g]
               /\ tree.root \notin tree.red /\ Fits(tree, key, {}, used)
<1>1. /\ tree \in Trees /\ tree.red \subseteq used /\ Fits(tree, key, {}, used) /\ node \in used
    BY StructureIs DEF RedParent, Structure, CursorOK
<1>2. node # tree.root
    BY <1>1, LinksOf DEF RedParent
<1>3. tree.root \notin tree.red
    BY <1>2 DEF Structure, CursorOK
<1>4. tree.parent[node] \in used /\ tree.parent[node] \in tree.red
    BY <1>1 DEF RedParent, _IS_RED
<1>5. tree.parent[tree.parent[node]] \in used
    BY <1>1, <1>3, <1>4, LinksOf
<1> QED BY <1>1, <1>3, <1>4, <1>5, LinksOf DEF Uncle, _rb_brother_node

\* InsertRedUncle keeps the structure: it paints, and goes on at the grandparent, the only red root
\* there can be.
LEMMA InsertRedUncleKeeps == ASSUME Structure, InsertRedUncle PROVE Structure'
<1> DEFINE p == tree.parent[node]
           g == tree.parent[p]
           t1 == _SET_BLACK(tree, p)
           t2 == _SET_BLACK(t1, Uncle)
<1>1. /\ p \in used /\ g \in used /\ Uncle \in used \cup {NULL} /\ tree.root \notin tree.red
      /\ Fits(tree, key, {}, used) /\ used \subseteq Nodes /\ tree \in Trees /\ tree.red \subseteq used
    BY RedParentIs, StructureIs DEF InsertRedUncle
<1>2. t1 \in Trees /\ SameLinks(tree, t1) /\ t1.red = tree.red \ {p}
    BY <1>1, SetBlackIs
<1>3. t2 \in Trees /\ SameLinks(t1, t2) /\ t2.red = t1.red \ {Uncle}
    BY <1>2, SetBlackIs
<1>4. tree' = _SET_RED(t2, g) /\ pc = "insert" /\ pc' = "insert" /\ node' = g
      /\ UNCHANGED <<key, value, used, count>>
    BY DEF InsertRedUncle, GrandParent, Goto, RedParent
<1> HIDE DEF t1, t2
<1>5. tree' \in Trees /\ SameLinks(t2, tree') /\ tree'.red = t2.red \cup ({g} \ {NULL})
    BY <1>1, <1>3, <1>4, SetRedIs
<1>6. SameLinks(tree, tree')
    BY <1>2, <1>3, <1>5 DEF SameLinks
<1>7. Fits(tree', key, {}, used)
    BY <1>1, <1>6, PaintedFits
<1>8. tree'.red \subseteq used /\ tree'.root = tree.root
    BY <1>1, <1>2, <1>3, <1>5, <1>6 DEF SameLinks
<1>9. tree'.root \in tree'.red => tree'.root = g
    BY <1>1, <1>2, <1>3, <1>5, <1>8
<1> HIDE DEF g
<1> QED BY <1>1, <1>4, <1>5, <1>7, <1>8, <1>9, Rebalanced

\* InsertRotate keeps the structure: one rotation or two, and the new top is painted black.
LEMMA InsertRotateKeeps == ASSUME Structure, InsertRotate PROVE Structure'
<1> DEFINE p == tree.parent[node]
           g == tree.parent[p]
           inner == (node = tree.right[p]) <=> (p = tree.left[g])
           outer == IF inner THEN Lift(tree, node) ELSE tree
           top == IF inner THEN node ELSE p
           t1 == _SET_BLACK(outer, top)
           t2 == _SET_RED(t1, g)
<1>1. /\ node \in used /\ p \in used /\ g \in used /\ tree.root \notin tree.red /\ p \in tree.red
      /\ p # g /\ node # g
      /\ Fits(tree, key, {}, used) /\ used \subseteq Nodes /\ tree \in Trees /\ tree.red \subseteq used
      /\ \A n \in used : key[n] \in Keys
      /\ NULL \notin used
    BY RedParentIs, StructureIs, LinksOf DEF InsertRotate
<1>2. /\ pc = "insert" /\ tree' = Lift(t2, top) /\ pc' = "idle"
      /\ UNCHANGED <<key, value, used, count>>
    BY DEF InsertRotate, GrandParent, RedParent, Return
<1>3. /\ outer \in Trees /\ outer.red = tree.red /\ Fits(outer, key, {}, used)
      /\ outer.root = tree.root /\ outer.parent[top] = g
    BY <1>1, LiftFits
<1>4. top \in used /\ top # g
    BY <1>1
<1> HIDE DEF outer, top, g
<1>5. t1 \in Trees /\ SameLinks(outer, t1) /\ t1.red = outer.red \ {top}
    BY <1>3, SetBlackIs
<1> HIDE DEF t1
<1>6. t2 \in Trees /\ SameLinks(t1, t2) /\ t2.red = t1.red \cup ({g} \ {NULL})
    BY <1>1, <1>5, SetRedIs
<1> HIDE DEF t2
<1>7. /\ Fits(t2, key, {}, used) /\ t2.root = tree.root /\ t2.parent[top] = g /\ g # NULL
      /\ t2.red \subseteq used /\ t2.red = (tree.red \ {top}) \cup {g}
    <2>1. SameLinks(outer, t2)
        BY <1>5, <1>6 DEF SameLinks
    <2>2. Fits(t2, key, {}, used)
        BY <1>3, <2>1, PaintedFits
    <2> QED BY <1>1, <1>3, <1>5, <1>6, <2>1, <2>2 DEF SameLinks
<1>8. /\ tree' \in Trees /\ tree'.red = t2.red /\ Fits(tree', key, {}, used)
      /\ tree'.root = IF g = t2.root THEN top ELSE t2.root
    BY <1>1, <1>2, <1>4, <1>6, <1>7, LiftFits
<1>9. tree'.root \notin tree'.red
    BY <1>1, <1>4, <1>7, <1>8
<1> QED BY <1>2, <1>7, <1>8, <1>9, Rebalanced

\* DeleteCase1 keeps the structure: the rebalancing has reached the root.
LEMMA DeleteCase1Keeps == ASSUME Structure, DeleteCase1 PROVE Structure'
<1>1. /\ tree \in Trees /\ tree.red \subseteq used /\ Fits(tree, key, {}, used)
    BY StructureIs DEF DeleteCase1
<1>2. tree.root \notin tree.red
    BY DEF Structure, CursorOK, DeleteCase1
<1> QED BY <1>1, <1>2, Rebalanced DEF DeleteCase1, Return, contents

\* A brother has the same parent, and neither is the root.
LEMMA BrotherIs ==
    ASSUME NEW t, NEW ky, NEW D, NEW U, Fits(t, ky, D, U), NEW n \in U, _rb_brother_node(t, n) # NULL
    PROVE  LET b == _rb_brother_node(t, n)
           IN  /\ b \in U /\ b # n /\ t.parent[n] \in U /\ t.parent[b] = t.parent[n]
               /\ b # t.root /\ n # t.root /\ b # t.parent[n]
               /\ b = IF n = t.left[t.parent[n]] THEN t.right[t.parent[n]] ELSE t.left[t.parent[n]]
<1> DEFINE b == _rb_brother_node(t, n)
           p == t.parent[n]
<1>1. p \in U /\ p \in Nodes /\ n \in Nodes /\ NULL \notin U
    BY LinksOf DEF _rb_brother_node
<1>2. b = IF n = t.left[p] THEN t.right[p] ELSE t.left[p]
    BY <1>1 DEF _rb_brother_node
<1>3. b \in U /\ t.parent[b] = p
    BY <1>1, <1>2, LinksOf
<1>4. b # n
    <2>1. n = t.left[p] \/ n = t.right[p]
        BY <1>1, LinksOf
    <2>2. n = t.left[p] => n # t.right[p]
        BY <1>1, LinksOf
    <2> QED BY <1>2, <2>1, <2>2
<1>5. b # t.root /\ n # t.root
    BY <1>1, <1>3, LinksOf
<1>6. b # p
    BY <1>3, LinksOf
<1> QED BY <1>1, <1>2, <1>3, <1>4, <1>5, <1>6

\* DeleteCase2 keeps the structure: a red brother is lifted over the parent.
LEMMA DeleteCase2Keeps == ASSUME Structure, DeleteCase2 PROVE Structure'
<1> DEFINE p == tree.parent[node]
           t1 == _SET_RED(tree, p)
           t2 == _SET_BLACK(t1, Brother)
<1>1. /\ node \in used /\ tree.root \notin tree.red /\ NULL \notin used
      /\ Fits(tree, key, {}, used) /\ used \subseteq Nodes /\ tree \in Trees /\ tree.red \subseteq used
      /\ \A n \in used : key[n] \in Keys
    BY StructureIs, LinksOf DEF DeleteCase2, Structure, CursorOK
<1>2. /\ Brother \in used /\ Brother # node /\ p \in used /\ tree.parent[Brother] = p
      /\ node # tree.root /\ Brother # p
    BY <1>1, BrotherIs DEF DeleteCase2, Brother
<1>3. /\ pc = "delete" /\ pc' = "sibling" /\ node' = node
      /\ UNCHANGED <<key, value, used, count>>
      /\ tree' = IF _IS_RED(tree, Brother) THEN Lift(t2, Brother) ELSE tree
    BY DEF DeleteCase2, Goto
<1>4. CASE tree' = tree
    BY <1>1, <1>2, <1>3, <1>4, Rebalanced
<1>5. CASE tree' = Lift(t2, Brother)
    <2>1. t1 \in Trees /\ SameLinks(tree, t1) /\ t1.red = tree.red \cup ({p} \ {NULL})
        BY <1>1, <1>2, SetRedIs
    <2> HIDE DEF t1
    <2>2. t2 \in Trees /\ SameLinks(t1, t2) /\ t2.red = t1.red \ {Brother}
        BY <2>1, SetBlackIs
    <2> HIDE DEF t2
    <2>3. SameLinks(tree, t2)
        BY <2>1, <2>2 DEF SameLinks
    <2>4. /\ Fits(t2, key, {}, used) /\ t2.root = tree.root /\ t2.parent[Brother] = p /\ p # NULL
        BY <1>1, <1>2, <2>3, PaintedFits DEF SameLinks
    <2>5. /\ tree' \in Trees /\ tree'.red = t2.red /\ Fits(tree', key, {}, used)
          /\ tree'.root = IF p = tree.root THEN Brother ELSE tree.root
        BY <1>1, <1>2, <1>5, <2>2, <2>4, LiftFits
    <2>6. tree'.parent[node] # NULL
        BY <1>1, <1>2, <2>5, LinksOf
    <2>7. tree'.red \subseteq used /\ tree'.root \notin tree'.red
        BY <1>1, <1>2, <2>1, <2>2, <2>5
    <2> QED BY <1>1, <1>2, <1>3, <2>5, <2>6, <2>7, Rebalanced
<1> QED BY <1>3, <1>4, <1>5

\* The family of the node the rebalancing after a removal is at.
LEMMA SiblingIs ==
    ASSUME Structure, pc = "sibling", Sibling # NULL
    PROVE  LET p == tree.parent[node]
           IN  /\ node \in used /\ p \in used /\ Sibling \in used
               /\ Sibling # p /\ tree.parent[Sibling] = tree.parent[p]
               /\ tree.parent[p] \in used /\ Sibling # tree.root /\ p # tree.root
               /\ tree.root \notin tree.red
               /\ Fits(tree, key, {}, used) /\ used \subseteq Nodes /\ NULL \notin used
               /\ tree \in Trees /\ tree.red \subseteq used /\ \A n \in used : key[n] \in Keys
<1>1. /\ node \in used /\ tree.root \notin tree.red /\ NULL \notin used
      /\ Fits(tree, key, {}, used) /\ used \subseteq Nodes /\ tree \in Trees /\ tree.red \subseteq used
      /\ \A n \in used : key[n] \in Keys
    BY StructureIs, LinksOf DEF Structure, CursorOK
<1>2. tree.parent[node] \in used
    BY <1>1, LinksOf DEF Structure, CursorOK
<1>3. _rb_brother_node(tree, tree.parent[node]) = Sibling
    BY DEF Sibling, Uncle
<1> QED BY <1>1, <1>2, <1>3, BrotherIs

\* DeleteCase3 keeps the structure: it paints the sibling, which is not the root.
LEMMA DeleteCase3Keeps == ASSUME Structure, DeleteCase3 PROVE Structure'
<1> DEFINE p == tree.parent[node]
<1>1. pc = "sibling" /\ Sibling # NULL /\ tree' = _SET_RED(tree, Sibling)
      /\ pc' = "delete" /\ node' = p /\ UNCHANGED <<key, value, used, count>>
    BY DEF DeleteCase3, SiblingIsBlack, Goto
<1>2. /\ p \in used /\ Sibling \in used /\ Sibling # tree.root /\ tree.root \notin tree.red
      /\ Fits(tree, key, {}, used) /\ used \subseteq Nodes /\ tree \in Trees /\ tree.red \subseteq used
    BY <1>1, SiblingIs
<1>3. tree' \in Trees /\ SameLinks(tree, tree') /\ tree'.red = tree.red \cup ({Sibling} \ {NULL})
    BY <1>1, <1>2, SetRedIs
<1>4. Fits(tree', key, {}, used)
    BY <1>2, <1>3, PaintedFits
<1>5. tree'.red \subseteq used /\ tree'.root \notin tree'.red
    BY <1>2, <1>3 DEF SameLinks
<1> QED BY <1>1, <1>2, <1>3, <1>4, <1>5, Rebalanced

\* DeleteCase4 keeps the structure: it exchanges colours below the root.
LEMMA DeleteCase4Keeps == ASSUME Structure, DeleteCase4 PROVE Structure'
<1> DEFINE p == tree.parent[node]
           t1 == _SET_RED(tree, Sibling)
<1>1. pc = "sibling" /\ Sibling # NULL /\ tree' = _SET_BLACK(t1, p)
      /\ pc' = "idle" /\ UNCHANGED <<key, value, used, count>>
    BY DEF DeleteCase4, SiblingIsBlack, Return
<1>2. /\ p \in used /\ Sibling \in used /\ Sibling # tree.root /\ tree.root \notin tree.red
      /\ Fits(tree, key, {}, used) /\ used \subseteq Nodes /\ tree \in Trees /\ tree.red \subseteq used
    BY <1>1, SiblingIs
<1>3. t1 \in Trees /\ SameLinks(tree, t1) /\ t1.red = tree.red \cup ({Sibling} \ {NULL})
    BY <1>2, SetRedIs
<1> HIDE DEF t1
<1>4. tree' \in Trees /\ SameLinks(t1, tree') /\ tree'.red = t1.red \ {p}
    BY <1>1, <1>3, SetBlackIs
<1>5. SameLinks(tree, tree')
    BY <1>3, <1>4 DEF SameLinks
<1>6. Fits(tree', key, {}, used)
    BY <1>2, <1>5, PaintedFits
<1>7. tree'.red \subseteq used /\ tree'.root \notin tree'.red
    BY <1>2, <1>3, <1>4, <1>5 DEF SameLinks
<1> QED BY <1>1, <1>4, <1>6, <1>7, Rebalanced

\* The turn in the sibling's subtree leaves the root and the colours elsewhere as they were.
LEMMA AfterCase5Is ==
    ASSUME Structure, pc = "sibling", Sibling # NULL
    PROVE  /\ AfterCase5 \in Trees /\ Fits(AfterCase5, key, {}, used)
           /\ AfterCase5.root = tree.root /\ AfterCase5.root \notin AfterCase5.red
           /\ AfterCase5.red \subseteq used
           /\ \A y \in used : tree.parent[y] = tree.parent[node] => AfterCase5.parent[y] = tree.parent[y]
<1> DEFINE isLeft == node = tree.left[tree.parent[node]]
           near == IF isLeft THEN tree.left[Sibling] ELSE tree.right[Sibling]
           far == IF isLeft THEN tree.right[Sibling] ELSE tree.left[Sibling]
           turn == ~_IS_RED(tree, Sibling) /\ _IS_RED(tree, near) /\ ~_IS_RED(tree, far)
           t1 == _SET_RED(tree, Sibling)
           t2 == _SET_BLACK(t1, near)
<1>1. /\ Sibling \in used /\ Sibling # tree.root /\ tree.root \notin tree.red
      /\ Fits(tree, key, {}, used) /\ used \subseteq Nodes /\ tree \in Trees /\ tree.red \subseteq used
      /\ \A n \in used : key[n] \in Keys
      /\ NULL \notin used
    BY SiblingIs
<1>2. AfterCase5 = IF turn THEN Lift(t2, near) ELSE tree
    BY DEF AfterCase5
<1>3. CASE turn
    <2>1. near \in used /\ tree.parent[near] = Sibling
        <3>1. near \in tree.red /\ (near = tree.left[Sibling] \/ near = tree.right[Sibling])
            BY <1>3 DEF _IS_RED
        <3> QED BY <1>1, <3>1, LinksOf
    <2> HIDE DEF near
    <2>2. t1 \in Trees /\ SameLinks(tree, t1) /\ t1.red = tree.red \cup ({Sibling} \ {NULL})
        BY <1>1, SetRedIs
    <2> HIDE DEF t1
    <2>3. t2 \in Trees /\ SameLinks(t1, t2) /\ t2.red = t1.red \ {near}
        BY <2>2, SetBlackIs
    <2> HIDE DEF t2
    <2>4. SameLinks(tree, t2)
        BY <2>2, <2>3 DEF SameLinks
    <2>5. /\ Fits(t2, key, {}, used) /\ t2.root = tree.root /\ t2.parent[near] = Sibling
          /\ Sibling # NULL
        BY <1>1, <2>1, <2>4, PaintedFits DEF SameLinks
    <2>6. LET u == Lift(t2, near)
          IN  /\ u \in Trees /\ u.red = t2.red /\ Fits(u, key, {}, used) /\ u.root = tree.root
              /\ \A y \in used : t2.parent[y] # near /\ y # near /\ y # Sibling
                                   => u.parent[y] = t2.parent[y]
        BY <1>1, <2>1, <2>3, <2>5, LiftFits
    <2>7. ASSUME NEW y \in used, tree.parent[y] = tree.parent[node]
          PROVE  tree.parent[y] # near /\ y # near /\ y # Sibling
        <3>1. /\ Sibling # tree.parent[node]
              /\ tree.parent[Sibling] = tree.parent[tree.parent[node]]
              /\ tree.parent[Sibling] # Sibling
              /\ tree.parent[tree.parent[node]] # tree.parent[node]
            BY <1>1, SiblingIs, LinksOf
        <3> QED BY <2>1, <2>7, <3>1
    <2>8. t2.parent = tree.parent
        BY <2>4 DEF SameLinks
    <2> QED BY <1>1, <1>2, <1>3, <2>2, <2>3, <2>6, <2>7, <2>8
<1>4. CASE ~turn
    <2>1. AfterCase5 = tree
        BY <1>2, <1>4
    <2> QED BY <1>1, <2>1
<1> QED BY <1>3, <1>4

\* DeleteCase6 keeps the structure: the sibling is lifted after the turn of case 5.
LEMMA DeleteCase6Keeps == ASSUME Structure, DeleteCase6 PROVE Structure'
<1> DEFINE t == AfterCase5
           p == tree.parent[node]
           s == _rb_brother_node(t, p)
           coloured == IF _IS_RED(t, p) THEN _SET_RED(t, s) ELSE _SET_BLACK(t, s)
           far == IF node = t.left[p] THEN t.right[s] ELSE t.left[s]
           t1 == _SET_BLACK(coloured, p)
           t2 == _SET_BLACK(t1, far)
<1>1. /\ pc = "sibling" /\ Sibling # NULL /\ Brother # NULL /\ tree' = Lift(t2, Brother)
      /\ pc' = "idle" /\ UNCHANGED <<key, value, used, count>>
    BY DEF DeleteCase6, Return
<1>2. /\ node \in used /\ p \in used /\ p # tree.root
      /\ Fits(tree, key, {}, used) /\ used \subseteq Nodes /\ NULL \notin used
      /\ \A n \in used : key[n] \in Keys
    BY <1>1, SiblingIs
<1>3. /\ Brother \in used /\ Brother # tree.root /\ tree.parent[Brother] = p
    BY <1>1, <1>2, BrotherIs DEF Brother
<1>4. /\ t \in Trees /\ Fits(t, key, {}, used) /\ t.root = tree.root /\ t.root \notin t.red
      /\ t.red \subseteq used /\ t.parent[Brother] = p
    BY <1>1, <1>3, AfterCase5Is
<1> HIDE DEF t
<1>5. s \in used \cup {NULL} /\ s # t.root
    BY <1>2, <1>4, BrotherIs, LinksOf
<1> HIDE DEF s
<1>6. /\ coloured \in Trees /\ SameLinks(t, coloured)
      /\ coloured.red \subseteq used /\ t.root \notin coloured.red
    <2>1. CASE _IS_RED(t, p)
        BY <1>2, <1>4, <1>5, <2>1, SetRedIs
    <2>2. CASE ~_IS_RED(t, p)
        BY <1>2, <1>4, <1>5, <2>2, SetBlackIs
    <2> QED BY <2>1, <2>2
<1> HIDE DEF coloured
<1>7. t1 \in Trees /\ SameLinks(coloured, t1) /\ t1.red = coloured.red \ {p}
    BY <1>6, SetBlackIs
<1> HIDE DEF t1
<1>8. t2 \in Trees /\ SameLinks(t1, t2) /\ t2.red = t1.red \ {far}
    BY <1>7, SetBlackIs
<1> HIDE DEF t2
<1>9. SameLinks(t, t2) /\ t2.red \subseteq used /\ t.root \notin t2.red
    BY <1>6, <1>7, <1>8 DEF SameLinks
<1>10. Fits(t2, key, {}, used) /\ t2.root = tree.root
    BY <1>4, <1>9, PaintedFits DEF SameLinks
<1>11. t2.parent[Brother] # NULL
    BY <1>3, <1>10, LinksOf
<1>12. /\ tree' \in Trees /\ tree'.red = t2.red /\ Fits(tree', key, {}, used)
       /\ tree'.root = IF t2.parent[Brother] = t2.root THEN Brother ELSE t2.root
    BY <1>1, <1>2, <1>3, <1>8, <1>10, <1>11, LiftFits
<1>13. t2.parent[Brother] # t2.root
    BY <1>2, <1>4, <1>9, <1>10 DEF SameLinks
<1>14. tree'.root \notin tree'.red
    BY <1>4, <1>9, <1>10, <1>12, <1>13
<1> QED BY <1>1, <1>9, <1>12, <1>14, Rebalanced

\* A node has two children, one or none.
LEMMA ChildrenAre ==
    ASSUME NEW n
    PROVE  /\ Children(n) = {} => tree.left[n] = NULL /\ tree.right[n] = NULL
           /\ Cardinality(Children(n)) = 2 => tree.left[n] # NULL /\ tree.right[n] # NULL
           /\ \A c : Children(n) = {c} =>
                 \/ tree.left[n] = NULL /\ tree.right[n] = c
                 \/ tree.right[n] = NULL /\ tree.left[n] = c
                 \/ tree.left[n] = c /\ tree.right[n] = c
<1>1. Cardinality({}) # 2 /\ \A x : Cardinality({x}) # 2
    <2>1. Cardinality({}) = 0
        BY FS_EmptySet
    <2>2. \A x : Cardinality({x}) = 1
        BY FS_Singleton
    <2> QED BY <2>1, <2>2
<1>2. Cardinality(Children(n)) = 2 => tree.left[n] # NULL /\ tree.right[n] # NULL
    <2>1. CASE tree.left[n] = NULL /\ tree.right[n] = NULL
        <3>1. Children(n) = {}
            BY <2>1 DEF Children
        <3> QED BY <1>1, <3>1
    <2>2. CASE tree.left[n] = NULL /\ tree.right[n] # NULL
        <3>1. Children(n) = {tree.right[n]}
            BY <2>2 DEF Children
        <3> QED BY <1>1, <3>1
    <2>3. CASE tree.left[n] # NULL /\ tree.right[n] = NULL
        <3>1. Children(n) = {tree.left[n]}
            BY <2>3 DEF Children
        <3> QED BY <1>1, <3>1
    <2> QED BY <2>1, <2>2, <2>3
<1> QED BY <1>2 DEF Children

\* Forget field by field.
LEMMA ForgetIs ==
    ASSUME NEW t \in Trees, NEW n \in Nodes
    PROVE  /\ Forget(t, n) \in Trees
           /\ Forget(t, n).root = t.root
           /\ Forget(t, n).left = [t.left EXCEPT ![n] = NULL]
           /\ Forget(t, n).right = [t.right EXCEPT ![n] = NULL]
           /\ Forget(t, n).parent = [t.parent EXCEPT ![n] = NULL]
           /\ Forget(t, n).red = t.red \ {n}
<1>1. PICK u : u = [t EXCEPT !.left[n] = NULL]
    OBVIOUS
<1>2. PICK v : v = [u EXCEPT !.right[n] = NULL]
    OBVIOUS
<1>3. PICK w : w = [v EXCEPT !.parent[n] = NULL]
    OBVIOUS
<1>4. Forget(t, n) = [w EXCEPT !.red = w.red \ {n}]
    BY <1>1, <1>2, <1>3 DEF Forget
<1>5. u \in Trees /\ u = [t EXCEPT !.left = [t.left EXCEPT ![n] = NULL]]
    BY <1>1 DEF Trees
<1>6. v \in Trees /\ v = [u EXCEPT !.right = [u.right EXCEPT ![n] = NULL]]
    BY <1>2, <1>5 DEF Trees
<1>7. w \in Trees /\ w = [v EXCEPT !.parent = [v.parent EXCEPT ![n] = NULL]]
    BY <1>3, <1>6 DEF Trees
<1>8. /\ u.root = t.root /\ u.left = [t.left EXCEPT ![n] = NULL] /\ u.right = t.right
      /\ u.parent = t.parent /\ u.red = t.red
    BY <1>5 DEF Trees
<1>9. v.root = u.root /\ v.left = u.left /\ v.right = [u.right EXCEPT ![n] = NULL]
      /\ v.parent = u.parent /\ v.red = u.red
    BY <1>5, <1>6 DEF Trees
<1>10. w.root = v.root /\ w.left = v.left /\ w.right = v.right
       /\ w.parent = [v.parent EXCEPT ![n] = NULL] /\ w.red = v.red
    BY <1>6, <1>7 DEF Trees
<1>11. LET f == Forget(t, n)
       IN  /\ f \in Trees /\ f.root = w.root /\ f.left = w.left /\ f.right = w.right
           /\ f.parent = w.parent /\ f.red = w.red \ {n}
    <2>1. w.red \ {n} \in SUBSET Nodes
        BY <1>7 DEF Trees
    <2> DEFINE f == [w EXCEPT !.red = w.red \ {n}]
    <2>2. f \in Trees
        BY <1>7, <2>1 DEF Trees
    <2>3. /\ f.root = w.root /\ f.left = w.left /\ f.right = w.right
          /\ f.parent = w.parent /\ f.red = w.red \ {n}
        BY <1>7 DEF Trees
    <2> HIDE DEF f
    <2>4. Forget(t, n) = f
        BY <1>4 DEF f
    <2> QED BY <2>2, <2>3, <2>4
<1> QED BY <1>8, <1>9, <1>10, <1>11

\* In u the node x is unlinked, and c, its only child or NULL, hangs where x hung in t.
Spliced(t, x, c, u) ==
    /\ u.root = IF x = t.root THEN c ELSE t.root
    /\ u.left = [y \in Nodes |-> IF y = x THEN NULL ELSE IF t.left[y] = x THEN c ELSE t.left[y]]
    /\ u.right = [y \in Nodes |-> IF y = x THEN NULL ELSE IF t.right[y] = x THEN c ELSE t.right[y]]
    /\ u.parent = [y \in Nodes |-> IF y = x THEN NULL
                                    ELSE IF y = c THEN t.parent[x] ELSE t.parent[y]]

\* Without x, whose place its only child c takes, t is a search tree of the others.
LEMMA SpliceFits ==
    ASSUME NEW t \in Trees, NEW ky, NEW D, NEW U, Fits(t, ky, D, U), \A n \in U : ky[n] \in Keys,
           NEW x \in U, NEW c,
           (t.left[x] = NULL /\ c = t.right[x]) \/ (t.right[x] = NULL /\ c = t.left[x]),
           D \subseteq {x}, NEW ky1, \A y \in U \ {x} : ky1[y] = ky[y],
           NEW u, Spliced(t, x, c, u)
    PROVE  Fits(u, ky1, {}, U \ {x})
<1>1. PICK sub : ShapeOf(t, U, sub) /\ SortedIn(t, U, sub, KeyOrder(ky, D))
    BY DEF Fits
<1>2. Shape(t.root, t.left, t.right, t.parent, U, sub)
    BY <1>1 DEF ShapeOf
<1>3. Sorted(t.left, t.right, U, sub, KeyOrder(ky, D))
    BY <1>1 DEF SortedIn
<1>4. \A y, z \in U \ {x} : <<y, z>> \in KeyOrder(ky, D) => <<y, z>> \in KeyOrder(ky1, {})
    <2> SUFFICES ASSUME NEW y \in U \ {x}, NEW z \in U \ {x}, <<y, z>> \in KeyOrder(ky, D)
                 PROVE  <<y, z>> \in KeyOrder(ky1, {})
        OBVIOUS
    <2>1. y \in Nodes /\ z \in Nodes
        BY LinksOf
    <2>2. ky[y] < ky[z]
        BY <2>1, KeyOrderIs
    <2> QED BY <2>1, <2>2, KeyOrderIs
<1>5. CASE t.left[x] = NULL /\ c = t.right[x]
    <2>1. Shape(u.root, u.left, u.right, u.parent, U \ {x}, SubWithout(sub, x))
        BY <1>2, <1>5, SpliceShape, Constants DEF Spliced
    <2>2. Sorted(u.left, u.right, U \ {x}, SubWithout(sub, x), KeyOrder(ky1, {}))
        BY <1>2, <1>3, <1>4, <1>5, SpliceSorted, Constants DEF Spliced
    <2> QED BY <2>1, <2>2 DEF Fits, ShapeOf, SortedIn
<1>6. CASE t.right[x] = NULL /\ c = t.left[x]
    <2>1. KeyOrder(ky, D) \subseteq Nodes \X Nodes /\ KeyOrder(ky1, {}) \subseteq Nodes \X Nodes
        BY DEF KeyOrder
    <2>2. Shape(t.root, t.right, t.left, t.parent, U, sub)
        BY <1>2, <2>1, Mirror
    <2>3. Sorted(t.right, t.left, U, sub, Reversed(KeyOrder(ky, D)))
        BY <1>3, <2>1, Mirror
    <2>4. \A y, z \in U \ {x} : <<y, z>> \in Reversed(KeyOrder(ky, D))
                                  => <<y, z>> \in Reversed(KeyOrder(ky1, {}))
        <3>1. \A R : R \subseteq Nodes \X Nodes =>
                  \A a, b : <<a, b>> \in Reversed(R) <=> <<b, a>> \in R
            BY DEF Reversed
        <3> QED BY <1>4, <2>1, <3>1
    <2>5. Shape(u.root, u.right, u.left, u.parent, U \ {x}, SubWithout(sub, x))
        BY <1>6, <2>2, SpliceShape, Constants, SMTT(30) DEF Spliced
    <2>6. Sorted(u.right, u.left, U \ {x}, SubWithout(sub, x), Reversed(KeyOrder(ky1, {})))
        BY <1>6, <2>2, <2>3, <2>4, SpliceSorted, Constants DEF Spliced
    <2>7. /\ Reversed(KeyOrder(ky1, {})) \subseteq Nodes \X Nodes
          /\ Reversed(Reversed(KeyOrder(ky1, {}))) = KeyOrder(ky1, {})
        BY <2>1, ReversedTwice
    <2>8. Shape(u.root, u.left, u.right, u.parent, U \ {x}, SubWithout(sub, x))
        BY <2>1, <2>5, Mirror
    <2>9. Sorted(u.left, u.right, U \ {x}, SubWithout(sub, x), KeyOrder(ky1, {}))
        BY <2>6, <2>7, Mirror
    <2> QED BY <2>8, <2>9 DEF Fits, ShapeOf, SortedIn
<1> QED BY <1>5, <1>6

\* The node the call is at goes, and the others keep their contents.
LEMMA Freed ==
    ASSUME Structure, pc = "remove", _rb_free_node(node), pc' \in {"idle", "delete"},
           tree' \in Trees, tree'.red \subseteq used \ {node},
           Fits(tree', key', {}, used \ {node}),
           pc' # "idle" => node' \in used \ {node},
           tree'.root \notin tree'.red
    PROVE  Structure'
<1>1. /\ used' = used \ {node} /\ key' = [key EXCEPT ![node] = NULL]
      /\ value' = [value EXCEPT ![node] = NULL]
      /\ count' = IF node = tree.root /\ Children(node) = {} THEN 0 ELSE count - 1
    BY DEF _rb_free_node
<1>2. node \in used /\ node \in Nodes /\ count = Cardinality(used) /\ IsFiniteSet(used)
    BY StructureIs DEF Structure, CursorOK
<1>3. Doomed' = {}
    BY DEF Doomed
<1>4. Fits(tree, key, Doomed, used)'
    BY <1>1, <1>3
<1>5. Cardinality(used \ {node}) = Cardinality(used) - 1
    BY <1>2, FS_RemoveElement
<1>6. node = tree.root /\ Children(node) = {} => used \ {node} = {}
    <2>1. PICK sub : ShapeOf(tree, used, sub)
        BY DEF Structure, Fits
    <2> QED BY <1>2, <2>1, ChildrenAre DEF ShapeOf, Shape, Spans
<1>7. Cardinality({}) = 0
    BY FS_EmptySet
<1>8. count' = Cardinality(used')
    BY <1>1, <1>2, <1>5, <1>6, <1>7
<1>9. ContentsOK'
    <2>1. \A n \in used' : n \in used /\ n \in Nodes /\ key'[n] = key[n] /\ value'[n] = value[n]
        BY <1>1, StructureIs DEF Structure, ContentsOK
    <2>2. /\ key' \in [Nodes -> Keys \cup {NULL}]
          /\ value' \in [Nodes -> Objects \cup {NULL}]
        BY <1>1 DEF Structure, ContentsOK
    <2>3. /\ \A n \in used' : key'[n] \in Keys /\ value'[n] \in ObjectsOf(key'[n])
          /\ \A m, n \in used' : key'[m] = key'[n] => value'[m] = value'[n]
        BY <2>1 DEF Structure, ContentsOK
    <2> QED BY <2>2, <2>3 DEF ContentsOK
<1>10. CursorOK'
    BY <1>1 DEF CursorOK
<1> QED BY <1>1, <1>4, <1>8, <1>9, <1>10 DEF Structure

\* Unlinking a node in the two steps of the code.
LEMMA SplicedIs ==
    ASSUME NEW t \in Trees, NEW x \in Nodes, NEW c \in Nodes \cup {NULL}, x # c, NEW r,
           r.root = Rehung(t, x, c).root, r.left = Rehung(t, x, c).left,
           r.right = Rehung(t, x, c).right,
           c = NULL => r.parent = t.parent,
           c # NULL => r.parent = [t.parent EXCEPT ![c] = t.parent[x]],
           NEW u, u.root = r.root, u.left = [r.left EXCEPT ![x] = NULL],
           u.right = [r.right EXCEPT ![x] = NULL], u.parent = [r.parent EXCEPT ![x] = NULL]
    PROVE  Spliced(t, x, c, u)
<1>1. /\ t.left \in [Nodes -> Nodes \cup {NULL}] /\ t.right \in [Nodes -> Nodes \cup {NULL}]
      /\ t.parent \in [Nodes -> Nodes \cup {NULL}]
    BY DEF Trees
<1>2. u.root = IF x = t.root THEN c ELSE t.root
    BY DEF Rehung
<1>3. u.left = [y \in Nodes |-> IF y = x THEN NULL ELSE IF t.left[y] = x THEN c ELSE t.left[y]]
    <2>1. r.left = [y \in Nodes |-> IF t.left[y] = x THEN c ELSE t.left[y]]
        BY DEF Rehung
    <2> QED BY <2>1
<1>4. u.right = [y \in Nodes |-> IF y = x THEN NULL ELSE IF t.right[y] = x THEN c ELSE t.right[y]]
    <2>1. r.right = [y \in Nodes |-> IF t.right[y] = x THEN c ELSE t.right[y]]
        BY DEF Rehung
    <2> QED BY <2>1
<1>5. u.parent = [y \in Nodes |-> IF y = x THEN NULL
                                  ELSE IF y = c THEN t.parent[x] ELSE t.parent[y]]
    <2>1. CASE c = NULL
        BY <1>1, <2>1, Constants
    <2>2. CASE c # NULL
        BY <1>1, <2>2
    <2> QED BY <2>1, <2>2
<1> QED BY <1>2, <1>3, <1>4, <1>5 DEF Spliced

\* _rb_delete_leaf keeps the structure: a leaf goes, and with it the last of an empty tree.
LEMMA DeleteLeafKeeps == ASSUME Structure, _rb_delete_leaf PROVE Structure'
<1> DEFINE t == Rehang(tree, node, NULL)
<1>1. /\ pc = "remove" /\ Children(node) = {} /\ tree' = Forget(t, node) /\ _rb_free_node(node)
      /\ pc' = "idle" /\ key' = [key EXCEPT ![node] = NULL]
    BY DEF _rb_delete_leaf, Return, _rb_free_node
<1>2. /\ node \in used /\ node \in Nodes /\ tree \in Trees /\ tree.red \subseteq used
      /\ Fits(tree, key, Doomed, used) /\ Doomed \subseteq {node}
      /\ \A n \in used : key[n] \in Keys /\ n \in Nodes
      /\ key \in [Nodes -> Keys \cup {NULL}]
      /\ tree.root \notin tree.red
    BY <1>1, StructureIs DEF Structure, CursorOK, Doomed, ContentsOK
<1>3. t = Rehung(tree, node, NULL)
    <2>1. PICK sub : ShapeOf(tree, used, sub)
        BY <1>2 DEF Fits
    <2> QED BY <1>2, <2>1, RehangIs, Constants
<1> HIDE DEF t
<1>4. t \in Trees
    BY <1>2, <1>3 DEF Rehung, Trees
<1>5. /\ tree' \in Trees /\ tree'.red = t.red \ {node} /\ tree'.root = t.root
      /\ tree'.left = [t.left EXCEPT ![node] = NULL]
      /\ tree'.right = [t.right EXCEPT ![node] = NULL]
      /\ tree'.parent = [t.parent EXCEPT ![node] = NULL]
    BY <1>1, <1>2, <1>4, ForgetIs
<1>6. Spliced(tree, node, NULL, tree')
    <2>1. t.parent = tree.parent
        BY <1>3 DEF Rehung
    <2> QED BY <1>2, <1>3, <1>5, <2>1, SplicedIs, Constants
<1>7. tree.left[node] = NULL /\ tree.right[node] = NULL
    BY <1>1, ChildrenAre
<1>8. \A y \in used \ {node} : key'[y] = key[y]
    BY <1>1, <1>2
<1>9. Fits(tree', key', {}, used \ {node})
    BY <1>2, <1>6, <1>7, <1>8, SpliceFits
<1>10. tree'.red \subseteq used \ {node} /\ tree'.root \notin tree'.red
    <2>1. t.red = tree.red
        BY <1>3 DEF Rehung
    <2>2. tree'.root = IF node = tree.root THEN NULL ELSE tree.root
        BY <1>6 DEF Spliced
    <2> QED BY <1>2, <1>5, <2>1, <2>2, Constants
<1> QED BY <1>1, <1>5, <1>9, <1>10, Freed

\* DeleteReconnect keeps the structure: the only child takes the place of the node, and is black
\* when it becomes the root.
LEMMA DeleteReconnectKeeps == ASSUME Structure, DeleteReconnect PROVE Structure'
<1>1. PICK child \in Children(node) :
        LET t == [Rehang(tree, node, child) EXCEPT !.parent[child] = tree.parent[node]]
        IN  /\ Children(node) = {child}
            /\ tree' = Forget(IF _IS_RED(tree, node) THEN t ELSE _SET_BLACK(t, child), node)
            /\ IF _IS_RED(tree, node) \/ _IS_RED(tree, child) THEN Return
               ELSE Goto("delete", child)
    BY DEF DeleteReconnect
<1> DEFINE r == Rehang(tree, node, child)
           t == [r EXCEPT !.parent[child] = tree.parent[node]]
           u == IF _IS_RED(tree, node) THEN t ELSE _SET_BLACK(t, child)
<1>2. /\ pc = "remove" /\ _rb_free_node(node) /\ tree' = Forget(u, node)
      /\ pc' \in {"idle", "delete"} /\ (pc' # "idle" => node' = child)
      /\ key' = [key EXCEPT ![node] = NULL] /\ Children(node) = {child}
    BY <1>1 DEF DeleteReconnect, Return, Goto, _rb_free_node
<1>3. /\ node \in used /\ node \in Nodes /\ tree \in Trees /\ tree.red \subseteq used
      /\ Fits(tree, key, Doomed, used) /\ Doomed \subseteq {node}
      /\ \A n \in used : key[n] \in Keys /\ n \in Nodes
      /\ key \in [Nodes -> Keys \cup {NULL}]
      /\ tree.root \notin tree.red
    BY <1>2, StructureIs DEF Structure, CursorOK, Doomed, ContentsOK
<1>4. /\ child \in used /\ child # node /\ child # NULL /\ child \in Nodes
      /\ \/ tree.left[node] = NULL /\ child = tree.right[node]
         \/ tree.right[node] = NULL /\ child = tree.left[node]
    <2>1. child # NULL /\ (child = tree.left[node] \/ child = tree.right[node])
        BY <1>1 DEF Children
    <2>2. child \in used /\ tree.parent[child] = node
        BY <1>3, <2>1, LinksOf
    <2>3. child # node
        BY <1>3, <2>2, LinksOf
    <2>4. tree.left[node] = tree.right[node] => tree.left[node] = NULL
        BY <1>3, LinksOf
    <2>5. \/ tree.left[node] = NULL /\ tree.right[node] = child
          \/ tree.right[node] = NULL /\ tree.left[node] = child
          \/ tree.left[node] = child /\ tree.right[node] = child
        BY <1>2, ChildrenAre
    <2> QED BY <1>3, <2>1, <2>2, <2>3, <2>4, <2>5
<1>5. r = Rehung(tree, node, child)
    <2>1. PICK sub : ShapeOf(tree, used, sub)
        BY <1>3 DEF Fits
    <2> QED BY <1>3, <1>4, <2>1, RehangIs, Constants
<1> HIDE DEF r
<1>6. r \in Trees
    BY <1>3, <1>4, <1>5 DEF Rehung, Trees
<1>7. /\ t \in Trees /\ t.root = r.root /\ t.left = r.left /\ t.right = r.right /\ t.red = r.red
      /\ t.parent = [r.parent EXCEPT ![child] = tree.parent[node]]
    <2>1. tree.parent[node] \in Nodes \cup {NULL}
        BY <1>3 DEF Trees
    <2> QED BY <1>6, <2>1 DEF Trees
<1> HIDE DEF t
<1>8. /\ u \in Trees /\ SameLinks(t, u)
      /\ u.red = IF node \in tree.red THEN t.red ELSE t.red \ {child}
    BY <1>7, SetBlackIs DEF _IS_RED, SameLinks
<1> HIDE DEF u
<1>9. /\ tree' \in Trees /\ tree'.red = u.red \ {node} /\ r.red = tree.red
      /\ Spliced(tree, node, child, tree')
    <2>1. /\ r.red = tree.red /\ r.parent = tree.parent
        BY <1>5 DEF Rehung
    <2>2. /\ tree' \in Trees /\ tree'.root = u.root /\ tree'.red = u.red \ {node}
          /\ tree'.left = [u.left EXCEPT ![node] = NULL]
          /\ tree'.right = [u.right EXCEPT ![node] = NULL]
          /\ tree'.parent = [u.parent EXCEPT ![node] = NULL]
        BY <1>2, <1>3, <1>8, ForgetIs
    <2>3. /\ u.root = Rehung(tree, node, child).root /\ u.left = Rehung(tree, node, child).left
          /\ u.right = Rehung(tree, node, child).right
          /\ u.parent = [tree.parent EXCEPT ![child] = tree.parent[node]]
        BY <1>5, <1>7, <1>8, <2>1 DEF SameLinks
    <2>4. Spliced(tree, node, child, tree')
        BY <1>3, <1>4, <2>2, <2>3, SplicedIs
    <2> QED BY <2>1, <2>2, <2>4
<1>10. \A y \in used \ {node} : key'[y] = key[y]
    BY <1>2, <1>3
<1>11. Fits(tree', key', {}, used \ {node})
    BY <1>3, <1>4, <1>9, <1>10, SpliceFits
<1>12. tree'.red \subseteq used \ {node} /\ tree'.root \notin tree'.red
    <2>1. tree'.root = IF node = tree.root THEN child ELSE tree.root
        BY <1>9 DEF Spliced
    <2> QED BY <1>3, <1>4, <1>7, <1>8, <1>9, <2>1
<1> QED BY <1>2, <1>4, <1>9, <1>11, <1>12, Freed

\* Remove keeps the structure: it only looks for the node.
LEMMA RemoveKeeps ==
    ASSUME Structure, NEW k \in Keys, NEW free \in BOOLEAN, Remove(k, free)
    PROVE  Structure'
<1>1. /\ pc = "idle" /\ pc' = "remove" /\ node' = _rb_find_node(k) /\ _rb_find_node(k) # NULL
      /\ UNCHANGED <<tree, key, value, used, count>>
    BY DEF Remove, Idle, Goto
<1>2. /\ tree \in Trees /\ tree.red \subseteq used /\ used \subseteq Nodes
      /\ Fits(tree, key, {}, used) /\ \A n \in used : key[n] \in Keys
    BY <1>1, StructureIs
<1>3. node' \in used
    BY <1>1, <1>2, FindIs
<1>4. Fits(tree, key, Doomed', used)
    BY <1>2, FitsMore
<1>5. Fits(tree, key, Doomed, used)'
    BY <1>1, <1>4
<1>6. ContentsOK'
    BY <1>1 DEF Structure, ContentsOK
<1>7. CursorOK'
    BY <1>1, <1>3 DEF Structure, CursorOK
<1> QED BY <1>1, <1>2, <1>5, <1>6, <1>7 DEF Structure

\* The successor of a node with two children, and the order when the node takes its contents.
LEMMA SuccessorIs ==
    ASSUME Structure, pc = "remove", Cardinality(Children(node)) = 2, NEW s,
           s = _rb_find_min_leaf(tree.right[node]), NEW ky1, ky1 = [key EXCEPT ![node] = key[s]]
    PROVE  /\ s \in used /\ s # node /\ tree.left[s] = NULL /\ key[node] < key[s]
           /\ Fits(tree, key, {}, used) /\ Fits(tree, ky1, {s}, used)
<1>1. /\ tree \in Trees /\ tree.red \subseteq used /\ used \subseteq Nodes
      /\ \A n \in used : key[n] \in Keys /\ n \in Nodes
      /\ node \in used
      /\ key \in [Nodes -> Keys \cup {NULL}]
    BY StructureIs DEF Structure, CursorOK, ContentsOK
<1>2. tree.left[node] # NULL /\ tree.right[node] # NULL
    BY ChildrenAre
<1>3. Fits(tree, key, {}, used)
    BY <1>2 DEF Structure, Doomed
<1>4. PICK sub : ShapeOf(tree, used, sub) /\ SortedIn(tree, used, sub, KeyOrder(key, {}))
    BY <1>3 DEF Fits
<1>5. Shape(tree.root, tree.left, tree.right, tree.parent, used, sub)
    BY <1>4 DEF ShapeOf
<1> DEFINE r == tree.right[node]
<1>6. r \in used
    BY <1>1, <1>2, <1>3, LinksOf
<1>7. /\ s \in used /\ s \in sub[r] /\ tree.left[s] = NULL
      /\ \A m \in sub[r] : m # s => <<s, m>> \in KeyOrder(key, {})
    BY <1>1, <1>4, <1>6, MinLeafIs
<1>8. \A n \in used : /\ \A m \in sub[tree.left[n]] : m \in used /\ key[m] < key[n]
                      /\ \A m \in sub[tree.right[n]] : m \in used /\ key[n] < key[m]
    <2>1. \A x \in Nodes \cup {NULL} : sub[x] \subseteq used
        BY <1>5 DEF Shape, Spans
    <2>2. \A n \in used : tree.left[n] \in Nodes \cup {NULL} /\ tree.right[n] \in Nodes \cup {NULL}
        BY <1>1, <1>3, LinksOf
    <2> SUFFICES ASSUME NEW n \in used
                 PROVE  /\ \A m \in sub[tree.left[n]] : m \in used /\ key[m] < key[n]
                        /\ \A m \in sub[tree.right[n]] : m \in used /\ key[n] < key[m]
        OBVIOUS
    <2>3. ASSUME NEW m \in sub[tree.left[n]] PROVE m \in used /\ key[m] < key[n]
        <3>1. m \in used /\ <<m, n>> \in KeyOrder(key, {})
            BY <1>4, <2>1, <2>2 DEF SortedIn, Sorted
        <3> QED BY <1>1, <3>1, KeyOrderIs
    <2>4. ASSUME NEW m \in sub[tree.right[n]] PROVE m \in used /\ key[n] < key[m]
        <3>1. m \in used /\ <<n, m>> \in KeyOrder(key, {})
            BY <1>4, <2>1, <2>2 DEF SortedIn, Sorted
        <3> QED BY <1>1, <3>1, KeyOrderIs
    <2> QED BY <2>3, <2>4
<1>9. key[node] < key[s] /\ s # node
    <2>1. key[node] < key[s]
        BY <1>1, <1>7, <1>8
    <2>2. key[node] \in Int
        BY <1>1, Constants
    <2> QED BY <2>1, <2>2
<1>10. /\ ky1[node] = key[s] /\ ky1[s] = key[s]
       /\ \A n \in used : n # node => ky1[n] = key[n]
    BY <1>1, <1>7, <1>9
<1>11. \A n \in used : key[n] \in Int
    BY <1>1, Constants
<1>12. ASSUME NEW n \in used, node \in sub[n], n # node
       PROVE  /\ node \in sub[tree.left[n]] => key[s] < key[n]
              /\ node \in sub[tree.right[n]] => key[n] < key[s]
    <2>1. ASSUME NEW c \in used, node \in sub[c] PROVE s \in sub[c]
        <3>1. sub[node] \subseteq sub[c]
            BY <1>5, <2>1, SubTransitive, Constants
        <3>2. sub[r] \subseteq sub[node]
            BY <1>1, <1>5 DEF Shape, Spans
        <3> QED BY <1>7, <3>1, <3>2
    <2>2. /\ tree.left[n] \in used \cup {NULL} /\ tree.right[n] \in used \cup {NULL}
          /\ sub[NULL] = {}
        BY <1>1, <1>3, <1>5, LinksOf DEF Shape, Spans
    <2> QED BY <1>8, <2>1, <2>2
<1>13. ASSUME NEW n \in used, NEW m \in sub[tree.left[n]]
       PROVE  <<m, n>> \in KeyOrder(ky1, {s})
    <2>1. m \in used /\ key[m] < key[n]
        BY <1>8
    <2>2. m # n
        BY <1>11, <2>1
    <2>3. CASE m = node
        <3>1. key[s] < key[n]
            <4>1. node \in sub[n]
                BY <1>5, <2>3 DEF Shape, Spans
            <4> QED BY <1>12, <2>2, <2>3, <4>1
        <3> QED BY <1>1, <1>10, <2>1, <2>2, <2>3, <3>1, KeyOrderIs
    <2>4. CASE n = node
        <3>1. key[m] < key[s]
            BY <1>7, <1>9, <1>11, <2>1, <2>4
        <3> QED BY <1>1, <1>10, <2>1, <2>2, <2>4, <3>1, KeyOrderIs
    <2>5. CASE m # node /\ n # node
        BY <1>1, <1>10, <2>1, <2>5, KeyOrderIs
    <2> QED BY <2>3, <2>4, <2>5
<1>14. ASSUME NEW n \in used, NEW m \in sub[tree.right[n]]
       PROVE  <<n, m>> \in KeyOrder(ky1, {s})
    <2>1. m \in used /\ key[n] < key[m]
        BY <1>8
    <2>2. m # n
        BY <1>11, <2>1
    <2>3. CASE m = node
        <3>1. key[n] < key[s]
            <4>1. node \in sub[n]
                BY <1>5, <2>3 DEF Shape, Spans
            <4> QED BY <1>12, <2>2, <2>3, <4>1
        <3> QED BY <1>1, <1>10, <2>1, <2>2, <2>3, <3>1, KeyOrderIs
    <2>4. CASE n = node
        <3>1. m = s \/ key[s] < key[m]
            <4>1. m # s => <<s, m>> \in KeyOrder(key, {})
                BY <1>7, <2>4
            <4> QED BY <1>1, <1>7, <2>1, <4>1, KeyOrderIs
        <3> QED BY <1>1, <1>10, <2>1, <2>2, <2>4, <3>1, KeyOrderIs
    <2>5. CASE m # node /\ n # node
        BY <1>1, <1>10, <2>1, <2>5, KeyOrderIs
    <2> QED BY <2>3, <2>4, <2>5
<1>15. Fits(tree, ky1, {s}, used)
    BY <1>4, <1>13, <1>14 DEF Fits, SortedIn, Sorted
<1> QED BY <1>3, <1>7, <1>9, <1>15

\* DeleteInner keeps the structure: the node takes the contents of its successor, which is the
\* doomed one from here on.
LEMMA DeleteInnerKeeps == ASSUME Structure, DeleteInner PROVE Structure'
<1>1. PICK s : s = _rb_find_min_leaf(tree.right[node])
    OBVIOUS
<1>2. /\ pc = "remove" /\ Cardinality(Children(node)) = 2
      /\ key' = [key EXCEPT ![node] = key[s]] /\ value' = [value EXCEPT ![node] = value[s]]
      /\ pc' = "remove" /\ node' = s /\ UNCHANGED <<tree, used, count>>
    BY <1>1 DEF DeleteInner, Goto
<1>3. /\ s \in used /\ s # node /\ tree.left[s] = NULL /\ Fits(tree, key, {}, used)
      /\ Fits(tree, key', {s}, used)
    BY <1>1, <1>2, SuccessorIs
<1>4. Doomed' = {s}
    BY <1>2, <1>3 DEF Doomed
<1>5. Fits(tree, key, Doomed, used)'
    BY <1>2, <1>3, <1>4
<1>6. node \in used /\ node \in Nodes /\ tree.root \notin tree.red /\ used \subseteq Nodes
    BY <1>2, StructureIs DEF Structure, CursorOK
<1>7. ContentsOK'
    <2>1. /\ key \in [Nodes -> Keys \cup {NULL}] /\ value \in [Nodes -> Objects \cup {NULL}]
          /\ \A n \in used : key[n] \in Keys /\ value[n] \in ObjectsOf(key[n])
          /\ \A m, n \in used : key[m] = key[n] => value[m] = value[n]
        BY DEF Structure, ContentsOK
    <2>2. key[s] \in Keys /\ value[s] \in Objects \cup {NULL}
        BY <1>3, <1>6, <2>1
    <2>3. /\ key' \in [Nodes -> Keys \cup {NULL}] /\ value' \in [Nodes -> Objects \cup {NULL}]
        BY <1>2, <2>1, <2>2
    <2>4. /\ key'[node] = key[s] /\ value'[node] = value[s]
          /\ \A n \in used : n # node => key'[n] = key[n] /\ value'[n] = value[n]
        BY <1>2, <1>6, <2>1
    <2>5. /\ \A n \in used : key'[n] \in Keys /\ value'[n] \in ObjectsOf(key'[n])
          /\ \A m, n \in used : key'[m] = key'[n] => value'[m] = value'[n]
        BY <1>3, <2>1, <2>4
    <2> QED BY <1>2, <2>3, <2>5 DEF ContentsOK
<1>8. CursorOK'
    BY <1>2, <1>3, <1>6 DEF CursorOK
<1> QED BY <1>2, <1>5, <1>7, <1>8 DEF Structure

\* No tree at all, and a tree of one node.
LEMMA SmallTreesFit ==
    ASSUME NEW ky, NEW D
    PROVE  /\ Empty \in Trees /\ Fits(Empty, ky, D, {})
           /\ \A t, n : /\ n \in Nodes /\ t.root = n /\ t.left = Empty.left
                        /\ t.right = Empty.right /\ t.parent = Empty.parent
                        => Fits(t, ky, D, {n})
<1> DEFINE nothing == [n \in Nodes |-> NULL]
<1>1. Empty = [root |-> NULL, left |-> nothing, right |-> nothing, parent |-> nothing, red |-> {}]
    BY DEF Empty
<1>2. Empty \in Trees
    BY <1>1 DEF Trees
<1>3. Fits(Empty, ky, D, {})
    <2> DEFINE sub == [n \in Nodes \cup {NULL} |-> {}]
    <2>1. Shape(NULL, nothing, nothing, nothing, {}, sub)
        BY DEF Shape, Links, Spans
    <2>2. Sorted(nothing, nothing, {}, sub, KeyOrder(ky, D))
        BY DEF Sorted
    <2> QED BY <1>1, <2>1, <2>2 DEF Fits, ShapeOf, SortedIn
<1>4. ASSUME NEW t, NEW n \in Nodes, t.root = n, t.left = nothing, t.right = nothing,
             t.parent = nothing
      PROVE  Fits(t, ky, D, {n})
    <2> DEFINE sub == [m \in Nodes \cup {NULL} |-> IF m = n THEN {n} ELSE {}]
    <2>1. Shape(n, nothing, nothing, nothing, {n}, sub)
        BY Constants DEF Shape, Links, Spans
    <2>2. Sorted(nothing, nothing, {n}, sub, KeyOrder(ky, D))
        BY Constants DEF Sorted
    <2> QED BY <1>4, <2>1, <2>2 DEF Fits, ShapeOf, SortedIn
<1> QED BY <1>1, <1>2, <1>3, <1>4

\* The empty dictionary has the structure.
LEMMA InitStructure == ASSUME Init PROVE Structure
<1>1. Empty.root = NULL /\ Empty.red = {}
    BY DEF Empty
<1>2. ContentsOK
    BY DEF Init, ContentsOK
<1>3. CursorOK
    BY <1>1 DEF Init, CursorOK
<1>4. count = Cardinality(used)
    BY FS_EmptySet DEF Init
<1> QED BY <1>1, <1>2, <1>3, <1>4, SmallTreesFit DEF Init, Structure

\* AMCDictionary_Free keeps the structure: the tree is empty again.
LEMMA FreeKeeps == ASSUME Structure, AMCDictionary_Free PROVE Structure'
<1>1. /\ tree' = Empty /\ key' = [n \in Nodes |-> NULL] /\ value' = [n \in Nodes |-> NULL]
      /\ used' = {} /\ count' = 0 /\ pc' = "idle"
    BY DEF AMCDictionary_Free, Idle, call
<1>2. Empty.root = NULL /\ Empty.red = {}
    BY DEF Empty
<1>3. ContentsOK'
    BY <1>1 DEF ContentsOK
<1>4. CursorOK'
    BY <1>1, <1>2 DEF CursorOK
<1>5. count' = Cardinality(used')
    BY <1>1, FS_EmptySet
<1>6. Empty \in Trees /\ Fits(Empty, key', Doomed', {})
    BY SmallTreesFit
<1> QED BY <1>1, <1>2, <1>3, <1>4, <1>5, <1>6 DEF Structure

\* Outside of a removal the keys in the tree are different.
LEMMA KeysDiffer ==
    ASSUME NEW t, NEW ky, NEW U, Fits(t, ky, {}, U), \A n \in U : ky[n] \in Keys
    PROVE  \A m, n \in U : ky[m] = ky[n] => m = n
<1> SUFFICES ASSUME NEW m \in U, NEW n \in U, ky[m] = ky[n], m # n PROVE FALSE
    OBVIOUS
<1>1. PICK sub : ShapeOf(t, U, sub) /\ SortedIn(t, U, sub, KeyOrder(ky, {}))
    BY DEF Fits
<1>2. U \in SUBSET Nodes
    BY LinksOf
<1>3. Transitive(KeyOrder(ky, {}), U)
    BY <1>2, KeyOrderTransitive
<1>4. <<m, n>> \in KeyOrder(ky, {}) \/ <<n, m>> \in KeyOrder(ky, {})
    BY <1>1, <1>3, TotalOrder, Constants DEF ShapeOf, SortedIn
<1>5. ky[m] < ky[n] \/ ky[n] < ky[m]
    <2>1. /\ <<m, n>> \in KeyOrder(ky, {}) <=> ky[m] < ky[n]
          /\ <<n, m>> \in KeyOrder(ky, {}) <=> ky[n] < ky[m]
        <3>1. m \in Nodes /\ n \in Nodes
            BY <1>2
        <3> QED BY <3>1, KeyOrderPlain
    <2> QED BY <1>4, <2>1
<1>6. ky[m] \in Int /\ ky[n] \in Int
    BY Constants
<1> QED BY <1>5, <1>6

\* ReplaceObject keeps the structure: it stores an object of the key the node has.
LEMMA ReplaceKeeps == ASSUME Structure, NEW k \in Keys, ReplaceObject(k) PROVE Structure'
<1>1. PICK n, object : /\ n = _rb_find_node(k) /\ object \in ObjectsOf(k)
                       /\ value' = [value EXCEPT ![n] = object]
    BY DEF ReplaceObject
<1>2. /\ pc = "idle" /\ n # NULL
      /\ UNCHANGED <<tree, key, used, count, pc, node>>
    BY <1>1 DEF ReplaceObject, Idle, call
<1>3. /\ tree \in Trees /\ used \subseteq Nodes
      /\ Fits(tree, key, {}, used) /\ \A x \in used : key[x] \in Keys
    BY <1>2, StructureIs
<1>4. n \in used /\ key[n] = k /\ n \in Nodes
    BY <1>1, <1>2, <1>3, FindIs
<1>5. \A x, y \in used : key[x] = key[y] => x = y
    BY <1>3, KeysDiffer
<1>6. ContentsOK'
    <2>1. object \in Objects
        BY <1>1 DEF Objects
    <2>2. value' \in [Nodes -> Objects \cup {NULL}]
        BY <1>1, <2>1 DEF Structure, ContentsOK
    <2>3. value'[n] = object /\ \A x \in used : x # n => value'[x] = value[x]
        BY <1>1, <1>3, <1>4 DEF Structure, ContentsOK
    <2>4. /\ \A x \in used : key[x] \in Keys /\ value'[x] \in ObjectsOf(key[x])
          /\ \A x, y \in used : key[x] = key[y] => value'[x] = value'[y]
        BY <1>1, <1>4, <1>5, <2>3 DEF Structure, ContentsOK
    <2> QED BY <1>2, <2>2, <2>4 DEF Structure, ContentsOK
<1>7. Fits(tree, key, Doomed, used)'
    BY <1>2 DEF Structure, Doomed
<1>8. CursorOK'
    BY <1>2 DEF Structure, CursorOK
<1> QED BY <1>2, <1>6, <1>7, <1>8 DEF Structure

\* There is a free node for a key that is not stored: there are as many nodes as keys.
LEMMA NewNodeIs ==
    ASSUME NEW k \in Keys, used \subseteq Nodes, \A n \in used : key[n] \in Keys /\ key[n] # k,
           \A m, n \in used : key[m] = key[n] => m = n
    PROVE  NewNode(k) \in Nodes \ used
<1>1. Nodes \ used # {}
    <2> SUFFICES ASSUME used = Nodes PROVE FALSE
        OBVIOUS
    <2> DEFINE f == [n \in Nodes |-> key[n]]
               T == Keys \ {k}
    <2>1. f \in [Nodes -> T]
        OBVIOUS
    <2>2. IsFiniteSet(T) /\ Cardinality(T) = Cardinality(Keys) - 1
        BY FS_RemoveElement, Constants
    <2>3. Cardinality(Keys) \in Nat /\ IsFiniteSet(Nodes) /\ Nodes = Keys
        BY FS_CardinalityType, Constants
    <2>4. Cardinality(T) < Cardinality(Nodes)
        BY <2>2, <2>3
    <2>5. \E x, y \in Nodes : x # y /\ f[x] = f[y]
        <3> HIDE DEF f, T
        <3> QED BY <2>1, <2>2, <2>3, <2>4, FS_PigeonHole
    <2> QED BY <2>5
<1> QED BY <1>1, Constants DEF NewNode

\* The way from the root to where k belongs ends at p.
LeadsTo(t, ky, U, sub, k, p) ==
    /\ (IF k < ky[p] THEN t.left[p] ELSE t.right[p]) = NULL
    /\ \A a \in U : p \in sub[a] => \/ p = a
                                   \/ p \in sub[IF k < ky[a] THEN t.left[a] ELSE t.right[a]]

\* In u the leaf n, with key k, hangs under p.
LeafAdded(t, ky, n, p, k, u) ==
    /\ u.root = t.root /\ u.parent = [t.parent EXCEPT ![n] = p]
    /\ u.left = IF k < ky[p] THEN [t.left EXCEPT ![p] = n] ELSE t.left
    /\ u.right = IF k < ky[p] THEN t.right ELSE [t.right EXCEPT ![p] = n]

\* A new leaf under p, on the side of its key.
LEMMA LeafFits ==
    ASSUME NEW t \in Trees, NEW ky, NEW U, NEW sub, ShapeOf(t, U, sub),
           SortedIn(t, U, sub, KeyOrder(ky, {})), \A a \in U : ky[a] \in Keys,
           NEW n \in Nodes \ U, NEW p \in U, NEW k \in Keys, \A a \in U : ky[a] # k,
           NEW ky1, ky1[n] = k, \A a \in U : ky1[a] = ky[a],
           LeadsTo(t, ky, U, sub, k, p), NEW u, LeafAdded(t, ky, n, p, k, u)
    PROVE  Fits(u, ky1, {}, U \cup {n})
<1> DEFINE L == KeyOrder(ky, {})
           L1 == KeyOrder(ky1, {})
<1>1. Shape(t.root, t.left, t.right, t.parent, U, sub) /\ Sorted(t.left, t.right, U, sub, L)
    BY DEF ShapeOf, SortedIn
<1>2. U \subseteq Nodes /\ n \in Nodes /\ \A a \in U : a # n
    BY <1>1 DEF Shape, Links
<1>3. \A x, y \in U : <<x, y>> \in L => <<x, y>> \in L1
    <2> SUFFICES ASSUME NEW x \in U, NEW y \in U, <<x, y>> \in KeyOrder(ky, {})
                 PROVE  <<x, y>> \in KeyOrder(ky1, {})
        OBVIOUS
    <2>1. x \in Nodes /\ y \in Nodes /\ ky1[x] = ky[x] /\ ky1[y] = ky[y]
        BY <1>2
    <2>2. ky[x] < ky[y]
        BY <2>1, KeyOrderPlain
    <2> QED BY <2>1, <2>2, KeyOrderPlain
<1>4. k \in Int /\ \A a \in U : ky[a] \in Int /\ ky[a] # k
    BY Constants
<1>5. ASSUME NEW a \in U
      PROVE  /\ a = p \/ p \in sub[t.left[a]] => (k < ky[a] => <<n, a>> \in L1)
             /\ a = p \/ p \in sub[t.right[a]] => (~(k < ky[a]) => <<a, n>> \in L1)
             /\ p \in sub[t.left[a]] => k < ky[a]
             /\ p \in sub[t.right[a]] => ~(k < ky[a])
    <2>1. /\ sub[a] = {a} \cup sub[t.left[a]] \cup sub[t.right[a]]
          /\ a \notin sub[t.left[a]] /\ a \notin sub[t.right[a]]
          /\ sub[t.left[a]] \cap sub[t.right[a]] = {}
        BY <1>1 DEF Shape, Spans
    <2>2. /\ p \in sub[t.left[a]] => k < ky[a]
          /\ p \in sub[t.right[a]] => ~(k < ky[a])
        BY <2>1 DEF LeadsTo
    <2>3. (k < ky[a] => <<n, a>> \in L1) /\ (~(k < ky[a]) => <<a, n>> \in L1)
        <3>1. /\ <<n, a>> \in KeyOrder(ky1, {}) <=> k < ky[a]
              /\ <<a, n>> \in KeyOrder(ky1, {}) <=> ky[a] < k
            BY <1>2, KeyOrderPlain
        <3>2. ~(k < ky[a]) => ky[a] < k
            BY <1>4
        <3> QED BY <3>1, <3>2
    <2> QED BY <2>2, <2>3
<1>6. L1 \subseteq Nodes \X Nodes /\ L \subseteq Nodes \X Nodes
    BY DEF KeyOrder
<1> HIDE DEF L, L1
<1>7. CASE k < ky[p]
    <2>1. Shape(u.root, u.left, u.right, u.parent, U \cup {n}, SubWithLeaf(sub, p, n))
        BY <1>1, <1>7, LeafShape, Constants DEF LeadsTo, LeafAdded
    <2>2. \A a \in U : /\ p \in sub[t.left[a]] => <<n, a>> \in L1
                       /\ p \in sub[t.right[a]] => <<a, n>> \in L1
        BY <1>5
    <2>3. <<n, p>> \in L1
        BY <1>5, <1>7
    <2>4. Sorted(u.left, u.right, U \cup {n}, SubWithLeaf(sub, p, n), L1)
        BY <1>1, <1>3, <1>7, <2>2, <2>3, LeafSorted, Constants DEF LeadsTo, LeafAdded
    <2> QED BY <2>1, <2>4 DEF Fits, ShapeOf, SortedIn, L1
<1>8. CASE ~(k < ky[p])
    <2>1. /\ Shape(t.root, t.right, t.left, t.parent, U, sub)
          /\ Sorted(t.right, t.left, U, sub, Reversed(L))
        BY <1>1, <1>6, Mirror
    <2>2. Shape(u.root, u.right, u.left, u.parent, U \cup {n}, SubWithLeaf(sub, p, n))
        BY <1>8, <2>1, LeafShape, Constants DEF LeadsTo, LeafAdded
    <2>3. \A x, y : /\ <<x, y>> \in Reversed(L1) <=> <<y, x>> \in L1
                    /\ <<x, y>> \in Reversed(L) <=> <<y, x>> \in L
        BY <1>6 DEF Reversed
    <2>4. \A a \in U : /\ p \in sub[t.right[a]] => <<n, a>> \in Reversed(L1)
                       /\ p \in sub[t.left[a]] => <<a, n>> \in Reversed(L1)
        BY <1>5, <2>3
    <2>5. <<n, p>> \in Reversed(L1)
        BY <1>5, <1>8, <2>3
    <2>6. \A x, y \in U : <<x, y>> \in Reversed(L) => <<x, y>> \in Reversed(L1)
        BY <1>3, <2>3
    <2>7. Sorted(u.right, u.left, U \cup {n}, SubWithLeaf(sub, p, n), Reversed(L1))
        BY <1>8, <2>1, <2>4, <2>5, <2>6, LeafSorted, Constants DEF LeadsTo, LeafAdded
    <2>8. Shape(u.root, u.left, u.right, u.parent, U \cup {n}, SubWithLeaf(sub, p, n))
        BY <1>6, <2>2, Mirror
    <2>9. Sorted(u.left, u.right, U \cup {n}, SubWithLeaf(sub, p, n), L1)
        BY <1>6, <2>7, Mirror, ReversedTwice
    <2> QED BY <2>8, <2>9 DEF Fits, ShapeOf, SortedIn, L1
<1> QED BY <1>7, <1>8

\* A tree whose node n has just been set up below p, not linked from it yet.
Fresh(t, n, p) == [t EXCEPT !.parent[n] = p, !.left[n] = NULL, !.right[n] = NULL]

\* The new node before it is linked from its parent.
LEMMA FreshIs ==
    ASSUME NEW t \in Trees, NEW n \in Nodes, t.left[n] = NULL, t.right[n] = NULL,
           NEW p \in Nodes \cup {NULL},
           NEW f, f = Fresh(t, n, p)
    PROVE  /\ f \in Trees /\ f.root = t.root /\ f.left = t.left /\ f.right = t.right
           /\ f.parent = [t.parent EXCEPT ![n] = p] /\ f.red = t.red
<1>1. PICK u : u = [t EXCEPT !.parent[n] = p]
    OBVIOUS
<1>2. PICK v : v = [u EXCEPT !.left[n] = NULL]
    OBVIOUS
<1>3. PICK w : w = [v EXCEPT !.right[n] = NULL]
    OBVIOUS
<1>4. f = w
    BY <1>1, <1>2, <1>3 DEF Fresh
<1>5. /\ u \in Trees /\ u.root = t.root /\ u.left = t.left /\ u.right = t.right
      /\ u.parent = [t.parent EXCEPT ![n] = p] /\ u.red = t.red
    BY <1>1 DEF Trees
<1>6. /\ v \in Trees /\ v.root = u.root /\ v.left = [u.left EXCEPT ![n] = NULL]
      /\ v.right = u.right /\ v.parent = u.parent /\ v.red = u.red
    BY <1>2, <1>5 DEF Trees
<1>7. /\ w \in Trees /\ w.root = v.root /\ w.right = [v.right EXCEPT ![n] = NULL]
      /\ w.left = v.left /\ w.parent = v.parent /\ w.red = v.red
    BY <1>3, <1>6 DEF Trees
<1>8. [t.left EXCEPT ![n] = NULL] = t.left /\ [t.right EXCEPT ![n] = NULL] = t.right
    BY DEF Trees
<1> QED BY <1>4, <1>5, <1>6, <1>7, <1>8

\* What an insertion does to each variable and to each field of the tree.
LEMMA InsertIs ==
    ASSUME Structure, NEW k \in Keys, _rb_insert(k), NEW n, n = NewNode(k), NEW p, p = ParentFor(k)
    PROVE  /\ pc = "idle" /\ n \in Nodes \ used /\ \A a \in used : key[a] # k
           /\ used' = used \cup {n} /\ count' = count + 1
           /\ key' = [key EXCEPT ![n] = k] /\ value' = [value EXCEPT ![n] = <<k, 0>>]
           /\ tree' \in Trees
           /\ tree.left[n] = NULL /\ tree.right[n] = NULL /\ tree.parent[n] = NULL
           /\ IF used = {}
              THEN /\ pc' = "idle" /\ tree'.root = n /\ tree'.left = tree.left
                   /\ tree'.right = tree.right /\ tree'.parent = tree.parent /\ tree'.red = {}
              ELSE /\ pc' = "insert" /\ node' = n /\ p \in used
                   /\ tree'.root = tree.root /\ tree'.red = tree.red \cup {n}
                   /\ tree'.parent = [tree.parent EXCEPT ![n] = p]
                   /\ tree'.left = IF k < key[p] THEN [tree.left EXCEPT ![p] = n] ELSE tree.left
                   /\ tree'.right = IF k < key[p] THEN tree.right ELSE [tree.right EXCEPT ![p] = n]
<1> DEFINE t == [tree EXCEPT !.parent[n] = p, !.left[n] = NULL, !.right[n] = NULL]
<1>1. /\ pc = "idle" /\ _rb_find_node(k) = NULL
      /\ used' = used \cup {n} /\ count' = count + 1
      /\ key' = [key EXCEPT ![n] = k] /\ value' = [value EXCEPT ![n] = <<k, 0>>]
      /\ IF p = NULL
         THEN tree' = [t EXCEPT !.root = n] /\ Return
         ELSE /\ tree' = IF k < key[p] THEN [t EXCEPT !.left[p] = n, !.red = @ \cup {n}]
                         ELSE [t EXCEPT !.right[p] = n, !.red = @ \cup {n}]
              /\ Goto("insert", n)
    BY DEF _rb_insert, Idle
<1>2. /\ tree \in Trees /\ used \subseteq Nodes /\ tree.red \subseteq used
      /\ Fits(tree, key, {}, used) /\ \A x \in used : key[x] \in Keys
    BY <1>1, StructureIs
<1>3. \A a \in used : key[a] # k
    <2>1. ASSUME \E x \in used : key[x] = k PROVE _rb_find_node(k) \in used
        BY <1>2, <2>1, FindIs
    <2>2. NULL \notin used
        BY <1>2, LinksOf
    <2> QED BY <1>1, <2>1, <2>2
<1>4. n \in Nodes \ used
    BY <1>2, <1>3, KeysDiffer, NewNodeIs
<1>5. PICK sub : ShapeOf(tree, used, sub)
    BY <1>2 DEF Fits
<1>6. tree.left[n] = NULL /\ tree.right[n] = NULL /\ tree.parent[n] = NULL
    BY <1>4, <1>5 DEF ShapeOf, Shape, Links
<1>7. /\ used = {} => tree.root = NULL
      /\ used # {} => tree.root # NULL
    BY <1>2, LinksOf
<1>8. IF used = {} THEN p = NULL ELSE p \in used
    <2>1. CASE used = {}
        BY <1>7, <2>1 DEF ParentFor
    <2>2. CASE used # {}
        BY <1>2, <1>5, <1>7, <2>2, ParentForIs
    <2> QED BY <2>1, <2>2
<1>9. p \in Nodes \cup {NULL}
    BY <1>2, <1>8
<1>10. /\ t \in Trees /\ t.root = tree.root /\ t.left = tree.left /\ t.right = tree.right
       /\ t.parent = [tree.parent EXCEPT ![n] = p] /\ t.red = tree.red
    <2>1. PICK f : f = t /\ f = Fresh(tree, n, p)
        BY DEF Fresh
    <2> HIDE DEF t
    <2>2. /\ f \in Trees /\ f.root = tree.root /\ f.left = tree.left /\ f.right = tree.right
          /\ f.parent = [tree.parent EXCEPT ![n] = p] /\ f.red = tree.red
        BY <1>2, <1>4, <1>6, <1>9, <2>1, FreshIs
    <2> QED BY <2>1, <2>2
<1> HIDE DEF t
<1>11. CASE used = {}
    <2>1. tree' = [t EXCEPT !.root = n] /\ pc' = "idle" /\ tree.red = {} /\ p = NULL
        BY <1>1, <1>2, <1>8, <1>11 DEF Return
    <2>2. /\ tree' \in Trees /\ tree'.root = n /\ tree'.left = t.left /\ tree'.right = t.right
          /\ tree'.parent = t.parent /\ tree'.red = t.red
        BY <1>4, <1>10, <2>1 DEF Trees
    <2>3. t.parent = tree.parent
        BY <1>2, <1>6, <1>10, <2>1 DEF Trees
    <2> QED BY <1>1, <1>3, <1>4, <1>6, <1>10, <1>11, <2>1, <2>2, <2>3
<1>12. CASE used # {}
    <2>1. /\ p \in used /\ p \in Nodes /\ p # NULL
          /\ pc' = "insert" /\ node' = n
          /\ tree' = IF k < key[p] THEN [t EXCEPT !.left[p] = n, !.red = @ \cup {n}]
                     ELSE [t EXCEPT !.right[p] = n, !.red = @ \cup {n}]
        BY <1>1, <1>2, <1>8, <1>12, Constants DEF Goto
    <2>2. CASE k < key[p]
        <3>1. PICK u : u = [t EXCEPT !.left[p] = n]
            OBVIOUS
        <3>2. /\ u \in Trees /\ u.root = t.root /\ u.left = [t.left EXCEPT ![p] = n]
              /\ u.right = t.right /\ u.parent = t.parent /\ u.red = t.red
            BY <1>4, <1>10, <2>1, <3>1 DEF Trees
        <3>3. tree' = [u EXCEPT !.red = u.red \cup {n}]
            BY <2>1, <2>2, <3>1
        <3>4. /\ tree' \in Trees /\ tree'.root = u.root /\ tree'.left = u.left
              /\ tree'.right = u.right /\ tree'.parent = u.parent /\ tree'.red = u.red \cup {n}
            BY <1>4, <3>2, <3>3 DEF Trees
        <3> QED BY <1>1, <1>3, <1>4, <1>6, <1>10, <1>12, <2>1, <2>2, <3>2, <3>4
    <2>3. CASE ~(k < key[p])
        <3>1. PICK u : u = [t EXCEPT !.right[p] = n]
            OBVIOUS
        <3>2. /\ u \in Trees /\ u.root = t.root /\ u.right = [t.right EXCEPT ![p] = n]
              /\ u.left = t.left /\ u.parent = t.parent /\ u.red = t.red
            BY <1>4, <1>10, <2>1, <3>1 DEF Trees
        <3>3. tree' = [u EXCEPT !.red = u.red \cup {n}]
            BY <2>1, <2>3, <3>1
        <3>4. /\ tree' \in Trees /\ tree'.root = u.root /\ tree'.left = u.left
              /\ tree'.right = u.right /\ tree'.parent = u.parent /\ tree'.red = u.red \cup {n}
            BY <1>4, <3>2, <3>3 DEF Trees
        <3> QED BY <1>1, <1>3, <1>4, <1>6, <1>10, <1>12, <2>1, <2>3, <3>2, <3>4
    <2> QED BY <2>2, <2>3
<1> QED BY <1>11, <1>12

\* _rb_insert keeps the structure: the new leaf hangs where the search for its key ended.
LEMMA InsertKeeps == ASSUME Structure, NEW k \in Keys, _rb_insert(k) PROVE Structure'
<1>0. PICK n, p : n = NewNode(k) /\ p = ParentFor(k)
    OBVIOUS
<1>1. /\ pc = "idle" /\ n \in Nodes \ used /\ \A a \in used : key[a] # k
      /\ used' = used \cup {n} /\ count' = count + 1
      /\ key' = [key EXCEPT ![n] = k] /\ value' = [value EXCEPT ![n] = <<k, 0>>]
      /\ tree' \in Trees
      /\ tree.left[n] = NULL /\ tree.right[n] = NULL /\ tree.parent[n] = NULL
    BY <1>0, InsertIs
<1>2. IF used = {}
      THEN /\ pc' = "idle" /\ tree'.root = n /\ tree'.left = tree.left
           /\ tree'.right = tree.right /\ tree'.parent = tree.parent /\ tree'.red = {}
      ELSE /\ pc' = "insert" /\ node' = n /\ p \in used
           /\ tree'.root = tree.root /\ tree'.red = tree.red \cup {n}
           /\ tree'.parent = [tree.parent EXCEPT ![n] = p]
           /\ tree'.left = IF k < key[p] THEN [tree.left EXCEPT ![p] = n] ELSE tree.left
           /\ tree'.right = IF k < key[p] THEN tree.right ELSE [tree.right EXCEPT ![p] = n]
    BY <1>0, InsertIs
<1>3. /\ tree \in Trees /\ used \subseteq Nodes /\ tree.red \subseteq used /\ IsFiniteSet(used)
      /\ Fits(tree, key, {}, used) /\ \A x \in used : key[x] \in Keys
    BY <1>1, StructureIs
<1>4. PICK sub : ShapeOf(tree, used, sub) /\ SortedIn(tree, used, sub, KeyOrder(key, {}))
    BY <1>3 DEF Fits
<1>5. /\ key'[n] = k /\ \A a \in used : key'[a] = key[a]
      /\ value'[n] = <<k, 0>> /\ \A a \in used : value'[a] = value[a]
    BY <1>1, <1>3 DEF Structure, ContentsOK
<1>6. Fits(tree', key', {}, used')
    <2>1. CASE used = {}
        <3>1. /\ tree.left = Empty.left /\ tree.right = Empty.right /\ tree.parent = Empty.parent
            BY <1>3, <1>4, <2>1 DEF ShapeOf, Shape, Links, Empty
        <3>2. used' = {n}
            BY <1>1, <2>1
        <3>3. tree'.root = n /\ tree'.left = Empty.left /\ tree'.right = Empty.right
              /\ tree'.parent = Empty.parent
            BY <1>2, <2>1, <3>1
        <3>4. Fits(tree', key', {}, {n})
            BY <1>1, <3>3, SmallTreesFit
        <3> QED BY <3>2, <3>4
    <2>2. CASE used # {}
        <3>1. tree.root # NULL
            BY <1>3, <2>2, LinksOf
        <3>2. /\ p \in used /\ Towards(p, k) = NULL
              /\ \A a \in used : p \in sub[a] => p = a \/ p \in sub[Towards(a, k)]
            BY <1>0, <1>3, <1>4, <3>1, ParentForIs
        <3>3. LeadsTo(tree, key, used, sub, k, p)
            BY <3>2 DEF LeadsTo, Towards
        <3>4. PICK u, ky1 : u = tree' /\ ky1 = key'
            OBVIOUS
        <3>5. LeafAdded(tree, key, n, p, k, u)
            BY <1>2, <2>2, <3>4 DEF LeafAdded
        <3>6. ky1[n] = k /\ \A a \in used : ky1[a] = key[a]
            BY <1>5, <3>4
        <3>7. Fits(u, ky1, {}, used \cup {n})
            BY <1>1, <1>3, <1>4, <3>2, <3>3, <3>5, <3>6, LeafFits
        <3> QED BY <1>1, <3>4, <3>7
    <2> QED BY <2>1, <2>2
<1>7. Doomed' = {}
    BY <1>2 DEF Doomed
<1>8. count' = Cardinality(used')
    BY <1>1, <1>3, FS_AddElement DEF Structure
<1>9. ContentsOK'
    <2>1. <<k, 0>> \in ObjectsOf(k) /\ ObjectsOf(k) \subseteq Objects
        BY DEF ObjectsOf, Objects
    <2>2. key' \in [Nodes -> Keys \cup {NULL}] /\ value' \in [Nodes -> Objects \cup {NULL}]
        BY <1>1, <2>1 DEF Structure, ContentsOK
    <2>3. /\ \A a \in used' : key'[a] \in Keys /\ value'[a] \in ObjectsOf(key'[a])
          /\ \A a, b \in used' : key'[a] = key'[b] => value'[a] = value'[b]
        BY <1>1, <1>5, <2>1 DEF Structure, ContentsOK
    <2> QED BY <2>2, <2>3 DEF ContentsOK
<1>10. CursorOK'
    <2>1. tree.root \notin tree.red
        BY <1>1 DEF Structure, CursorOK
    <2>2. used # {} => tree.root \in used
        BY <1>3, LinksOf
    <2> QED BY <1>1, <1>2, <2>1, <2>2 DEF CursorOK
<1>11. tree'.red \subseteq used'
    BY <1>1, <1>2, <1>3
<1> QED BY <1>1, <1>6, <1>7, <1>8, <1>9, <1>10, <1>11 DEF Structure

\* Every step keeps the tree together, also with the reads of NULL after it went wrong.
LEMMA StructureKept == ASSUME Structure, [Next]_vars PROVE Structure'
<1>1. CASE Working
    <2>1. CASE NullSibling
        BY <2>1 DEF NullSibling, Structure, contents, call, Doomed, ContentsOK, CursorOK
    <2> QED BY <1>1, <2>1, InsertRootKeeps, InsertBlackParentKeeps, InsertRedUncleKeeps,
            InsertRotateKeeps, DeleteLeafKeeps, DeleteInnerKeeps, DeleteReconnectKeeps,
            DeleteCase1Keeps, DeleteCase2Keeps, DeleteCase3Keeps, DeleteCase4Keeps,
            DeleteCase6Keeps DEF Working
<1>2. CASE AMCDictionary_Free
    BY <1>2, FreeKeeps
<1>3. ASSUME NEW k \in Keys, _rb_insert(k) \/ ReplaceObject(k) \/ \E free \in BOOLEAN : Remove(k, free)
      PROVE  Structure'
    BY <1>3, InsertKeeps, ReplaceKeeps, RemoveKeeps
<1>4. CASE UNCHANGED vars
    BY <1>4 DEF vars, Structure, contents, call, Doomed, ContentsOK, CursorOK
<1> QED BY <1>1, <1>2, <1>3, <1>4 DEF Next

\* tree is at every step a search tree of the nodes that are handed out.
THEOREM StructureInv == Spec => []Structure
<1>1. Init => Structure
    BY InitStructure
<1>2. Structure /\ [Next]_vars => Structure'
    BY StructureKept
<1> QED BY <1>1, <1>2, PTL DEF Spec

-----------------------------------------------------------------------------
(* Types and the shape of the tree                                          *)

\* The types of what Structure does not speak of.
CallOK ==
    /\ pc \in {"idle", "insert", "remove", "delete", "sibling"} /\ node \in Nodes \cup {NULL}
    /\ freeObject \in BOOLEAN /\ removes \in 0 .. MaxRemoves /\ fault \in BOOLEAN
    /\ alive \subseteq Objects

\* With the structure they are the types of all.
LEMMA TypesOf == ASSUME Structure, CallOK PROVE TypeOK
<1>1. /\ tree \in Trees /\ tree.red \subseteq used /\ used \subseteq Nodes /\ IsFiniteSet(used)
    BY StructureIs
<1>2. count \in Nat
    BY <1>1, FS_CardinalityType DEF Structure
<1>3. /\ tree.root \in Nodes \cup {NULL}
      /\ \A links \in {tree.left, tree.right, tree.parent} : links \in [Nodes -> Nodes \cup {NULL}]
    BY <1>1 DEF Trees
<1> QED BY <1>1, <1>2, <1>3 DEF Structure, ContentsOK, CallOK, TypeOK

\* The pool hands out nodes.
LEMMA UsedAreNodes == Structure => used \subseteq Nodes
BY StructureIs

\* Every step keeps these types.
LEMMA CallKept == ASSUME Structure, Structure', CallOK, [Next]_vars PROVE CallOK'
<1>1. /\ \A k \in Keys, v \in {0, 1} : <<k, v>> \in ObjectsOf(k) => <<k, v>> \in Objects
      /\ \A k \in Keys : ObjectsOf(k) \subseteq Objects /\ <<k, 0>> \in ObjectsOf(k)
    BY DEF Objects, ObjectsOf
<1>2. pc' # "idle" => node' \in Nodes
    <2>1. used' \subseteq Nodes
        <3>1. (Structure => used \subseteq Nodes)'
            BY UsedAreNodes, PTL
        <3> QED BY <3>1
    <2> QED BY <2>1 DEF Structure, CursorOK
<1>3. CASE Working
    <2>1. \/ pc' \in {"insert", "remove", "delete", "sibling"} \/ Return \/ UNCHANGED call
        BY <1>3 DEF Working, InsertRoot, InsertBlackParent, InsertRedUncle, InsertRotate,
            _rb_delete_leaf, DeleteInner, DeleteReconnect, DeleteCase1, DeleteCase2, DeleteCase3,
            DeleteCase4, DeleteCase6, NullSibling, Goto
    <2>2. UNCHANGED <<freeObject, removes>> /\ (fault' = fault \/ fault' = TRUE)
        BY <1>3 DEF Working, InsertRoot, InsertBlackParent, InsertRedUncle, InsertRotate,
            _rb_delete_leaf, DeleteInner, DeleteReconnect, DeleteCase1, DeleteCase2, DeleteCase3,
            DeleteCase4, DeleteCase6, NullSibling, call
    <2>3. alive' \subseteq alive
        BY <1>3 DEF Working, InsertRoot, InsertBlackParent, InsertRedUncle, InsertRotate,
            _rb_delete_leaf, DeleteInner, DeleteReconnect, DeleteCase1, DeleteCase2, DeleteCase3,
            DeleteCase4, DeleteCase6, NullSibling, contents, _rb_free_node
    <2> QED BY <1>2, <2>1, <2>2, <2>3 DEF CallOK, Return, call
<1>4. CASE AMCDictionary_Free
    BY <1>4 DEF AMCDictionary_Free, call, CallOK
<1>5. ASSUME NEW k \in Keys, _rb_insert(k) PROVE CallOK'
    <2>1. /\ UNCHANGED <<freeObject, removes, fault>> /\ alive' = alive \cup {<<k, 0>>}
          /\ pc' = "insert" \/ (pc' = "idle" /\ node' = NULL)
        BY <1>5 DEF _rb_insert, Return, Goto
    <2> QED BY <1>1, <1>2, <2>1 DEF CallOK
<1>6. ASSUME NEW k \in Keys, ReplaceObject(k) PROVE CallOK'
    <2>1. UNCHANGED <<call, removes, fault>> /\ alive' \subseteq alive \cup Objects
        BY <1>1, <1>6 DEF ReplaceObject, AfterReplacing
    <2> QED BY <2>1 DEF CallOK, call
<1>7. ASSUME NEW k \in Keys, NEW free \in BOOLEAN, Remove(k, free) PROVE CallOK'
    <2>1. /\ removes < MaxRemoves /\ removes' = removes + 1 /\ freeObject' = free /\ fault' = fault
          /\ alive' \subseteq alive /\ pc' = "remove"
        BY <1>7 DEF Remove, Goto
    <2> QED BY <1>2, <2>1, DictAssumption DEF CallOK
<1>8. CASE UNCHANGED vars
    BY <1>8 DEF vars, contents, call, CallOK
<1> QED BY <1>3, <1>4, <1>5, <1>6, <1>7, <1>8 DEF Next

\* Structure together with the types of the call under way is inductive.
THEOREM CallTypes == Spec => [](Structure /\ CallOK)
<1>1. Init => CallOK
    <2>1. Init => freeObject \in BOOLEAN /\ fault \in BOOLEAN
        BY Zenon DEF Init
    <2>2. Init => removes \in 0 .. MaxRemoves
        BY DictAssumption DEF Init
    <2> QED BY <2>1, <2>2 DEF Init, CallOK
<1>2. Structure /\ Structure' /\ CallOK /\ [Next]_vars => CallOK'
    BY CallKept
<1> QED BY <1>1, <1>2, StructureInv, PTL DEF Spec

\* The variables of the dictionary keep their types: struct AMCDict, struct AMCDictNode and the
\* locals of the call under way.
THEOREM TypeCorrect == Spec => []TypeOK
<1>1. Structure /\ CallOK => TypeOK
    BY TypesOf
<1> QED BY <1>1, CallTypes, PTL

\* The tree holds together through every rotation and every removal: parents and children agree,
\* each node in use is found under its key when no call is under way, and count counts them.
THEOREM TreeHoldsTogether == Spec => []TreeShape
<1>1. ASSUME Structure PROVE TreeShape
    <2>1. /\ tree \in Trees /\ Fits(tree, key, Doomed, used)
          /\ \A n \in used : key[n] \in Keys
        BY <1>1, StructureIs DEF Structure
    <2>2. /\ \A n, m \in used : tree.parent[m] = n <=> m \in Children(n)
          /\ \A n \in used : tree.parent[n] = NULL <=> n = tree.root
          /\ \A n \in used : Children(n) \subseteq used \ {tree.root}
        BY <2>1, LinksOf DEF Children
    <2>3. ASSUME pc = "idle", NEW n \in used PROVE _rb_find_node(key[n]) = n
        <3>1. Fits(tree, key, {}, used)
            BY <1>1, <2>3, StructureIs
        <3>2. _rb_find_node(key[n]) \in used /\ key[_rb_find_node(key[n])] = key[n]
            BY <2>1, FindIs
        <3> QED BY <2>1, <3>1, <3>2, KeysDiffer
    <2> QED BY <1>1, <2>2, <2>3 DEF TreeShape, Structure
<1> QED BY <1>1, StructureInv, PTL

-----------------------------------------------------------------------------
(* The map the tree implements                                              *)

\* What a search returns: the object of each key in the tree, and NULL for the other keys.
StoredOK ==
    /\ Stored \in [Keys -> Objects \cup {NULL}]
    /\ \A k \in Keys : \A n \in used : key[n] = k => Stored[k] = value[n]
    /\ \A k \in Keys : (\A n \in used : key[n] # k) => Stored[k] = NULL

\* GetObject finds what is in the tree, also when two nodes have one key in the midst of a removal.
LEMMA StoredIs == Structure => StoredOK
<1> SUFFICES ASSUME Structure PROVE StoredOK
    OBVIOUS
<1>1. /\ tree \in Trees /\ Fits(tree, key, Doomed, used) /\ used \subseteq Nodes /\ NULL \notin used
      /\ \A n \in used : key[n] \in Keys /\ value[n] \in Objects
      /\ \A m, n \in used : key[m] = key[n] => value[m] = value[n]
    <2>1. \A k \in Keys : ObjectsOf(k) \subseteq Objects
        BY DEF Objects
    <2> QED BY <2>1, StructureIs, LinksOf DEF Structure, ContentsOK
<1>2. ASSUME NEW k \in Keys
      PROVE  /\ Stored[k] \in Objects \cup {NULL}
             /\ \A n \in used : key[n] = k => Stored[k] = value[n]
             /\ (\A n \in used : key[n] # k) => Stored[k] = NULL
    <2>1. Stored[k] = IF _rb_find_node(k) = NULL THEN NULL ELSE value[_rb_find_node(k)]
        BY DEF Stored
    <2>2. CASE \E x \in used : key[x] = k
        <3>1. _rb_find_node(k) \in used /\ key[_rb_find_node(k)] = k
            BY <1>1, <2>2, FindIs
        <3> QED BY <1>1, <2>1, <2>2, <3>1
    <2>3. CASE ~ \E x \in used : key[x] = k
        <3>1. _rb_find_node(k) = NULL
            BY <1>1, <2>3, FindIs
        <3> QED BY <2>1, <2>3, <3>1
    <2> QED BY <2>2, <2>3
<1>3. Stored = [k \in Keys |-> Stored[k]]
    BY DEF Stored
<1> QED BY <1>2, <1>3 DEF StoredOK

\* A step that changes what is stored under one key at most is a step of the map.
LEMMA OneKeyChanges ==
    ASSUME StoredOK, StoredOK', NEW k \in Keys, \A j \in Keys : j # k => Stored'[j] = Stored[j]
    PROVE  Map!Next \/ Stored' = Stored
<1>1. CASE Stored'[k] = Stored[k]
    BY <1>1 DEF StoredOK
<1>2. CASE Stored'[k] # Stored[k]
    <2>1. Map!changed = {k}
        BY <1>2 DEF Map!changed
    <2>2. Stored'[k] \in Objects \/ Stored'[k] = NULL
        BY DEF StoredOK
    <2>3. Map!Store(k) \/ Map!Remove(k)
        BY <2>1, <2>2 DEF Map!Store, Map!Remove
    <2> QED BY <2>1, <2>3 DEF Map!Next
<1> QED BY <1>1, <1>2

\* A step that leaves the contents alone does not change the map.
LEMMA ContentsStay ==
    ASSUME StoredOK, StoredOK', UNCHANGED <<key, value, used>>
    PROVE  Stored' = Stored
<1>1. ASSUME NEW k \in Keys PROVE Stored'[k] = Stored[k]
    <2>1. CASE \E n \in used : key[n] = k
        BY <2>1 DEF StoredOK
    <2>2. CASE \A n \in used : key[n] # k
        BY <2>2 DEF StoredOK
    <2> QED BY <2>1, <2>2
<1> QED BY <1>1 DEF StoredOK

\* The key of a node that is freed leaves the map, unless another node has it by then.
LEMMA FreedIsRemoved ==
    ASSUME Structure, StoredOK, StoredOK', pc = "remove", _rb_free_node(node)
    PROVE  Map!Next \/ Stored' = Stored
<1>1. /\ used' = used \ {node} /\ key' = [key EXCEPT ![node] = NULL]
      /\ value' = [value EXCEPT ![node] = NULL]
    BY DEF _rb_free_node
<1>2. node \in used /\ key[node] \in Keys /\ used \subseteq Nodes
    BY StructureIs DEF Structure, CursorOK
<1>3. \A n \in used' : n \in used /\ key'[n] = key[n] /\ value'[n] = value[n]
    BY <1>1, <1>2 DEF Structure, ContentsOK
<1>4. ASSUME NEW j \in Keys, j # key[node] PROVE Stored'[j] = Stored[j]
    <2>1. CASE \E n \in used : key[n] = j
        BY <1>1, <1>3, <1>4, <2>1 DEF StoredOK
    <2>2. CASE \A n \in used : key[n] # j
        BY <1>3, <2>2 DEF StoredOK
    <2> QED BY <2>1, <2>2
<1> QED BY <1>2, <1>4, OneKeyChanges

\* DeleteInner takes the key of the node out of the map; that of the successor stays.
LEMMA InnerIsRemoved ==
    ASSUME Structure, StoredOK, StoredOK', DeleteInner
    PROVE  Map!Next \/ Stored' = Stored
<1>1. PICK s : s = _rb_find_min_leaf(tree.right[node])
    OBVIOUS
<1>2. /\ pc = "remove" /\ Cardinality(Children(node)) = 2
      /\ key' = [key EXCEPT ![node] = key[s]] /\ value' = [value EXCEPT ![node] = value[s]]
      /\ UNCHANGED used
    BY <1>1 DEF DeleteInner
<1>3. s \in used /\ s # node
    BY <1>1, <1>2, SuccessorIs
<1>4. node \in used /\ key[node] \in Keys /\ used \subseteq Nodes
    BY <1>2, StructureIs DEF Structure, CursorOK
<1>5. /\ \A n \in used : n # node => key'[n] = key[n] /\ value'[n] = value[n]
      /\ key'[node] = key[s] /\ value'[node] = value[s]
    BY <1>2, <1>4 DEF Structure, ContentsOK
<1>6. ASSUME NEW j \in Keys, j # key[node] PROVE Stored'[j] = Stored[j]
    <2>1. CASE \E n \in used : key[n] = j
        <3>1. PICK n \in used : key[n] = j
            BY <2>1
        <3> QED BY <1>2, <1>5, <1>6, <3>1 DEF StoredOK
    <2>2. CASE \A n \in used : key[n] # j
        BY <1>2, <1>3, <1>5, <2>2 DEF StoredOK
    <2> QED BY <2>1, <2>2
<1> QED BY <1>4, <1>6, OneKeyChanges

\* Adding and replacing an object change the map under its key.
LEMMA StoreIsStored ==
    ASSUME Structure, StoredOK, StoredOK', NEW k \in Keys, _rb_insert(k) \/ ReplaceObject(k)
    PROVE  Map!Next \/ Stored' = Stored
<1>1. used \subseteq Nodes
    BY StructureIs
<1>2. \E n \in Nodes : /\ used' = used \cup {n}
                       /\ \A x \in used : x # n => key'[x] = key[x] /\ value'[x] = value[x]
                       /\ key'[n] = k /\ (n \in used => key[n] = k)
    <2>1. CASE _rb_insert(k)
        <3>1. PICK n, p : n = NewNode(k) /\ p = ParentFor(k)
            OBVIOUS
        <3>2. /\ n \in Nodes \ used /\ used' = used \cup {n}
              /\ key' = [key EXCEPT ![n] = k] /\ value' = [value EXCEPT ![n] = <<k, 0>>]
            BY <2>1, <3>1, InsertIs
        <3> QED BY <1>1, <3>2 DEF Structure, ContentsOK
    <2>2. CASE ReplaceObject(k)
        <3>1. PICK n, object : /\ n = _rb_find_node(k) /\ value' = [value EXCEPT ![n] = object]
                               /\ n # NULL /\ UNCHANGED <<key, used>> /\ pc = "idle"
            BY <2>2 DEF ReplaceObject, Idle
        <3>2. /\ tree \in Trees /\ Fits(tree, key, {}, used) /\ \A x \in used : key[x] \in Keys
            BY <3>1, StructureIs
        <3>3. n \in used /\ key[n] = k
            BY <3>1, <3>2, FindIs
        <3> QED BY <1>1, <3>1, <3>3 DEF Structure, ContentsOK
    <2> QED BY <2>1, <2>2
<1>3. PICK n \in Nodes : /\ used' = used \cup {n}
                         /\ \A x \in used : x # n => key'[x] = key[x] /\ value'[x] = value[x]
                         /\ key'[n] = k /\ (n \in used => key[n] = k)
    BY <1>2
<1>4. ASSUME NEW j \in Keys, j # k PROVE Stored'[j] = Stored[j]
    <2>1. CASE \E x \in used : key[x] = j
        <3>1. PICK x \in used : key[x] = j
            BY <2>1
        <3> QED BY <1>3, <1>4, <3>1 DEF StoredOK
    <2>2. CASE \A x \in used : key[x] # j
        BY <1>3, <1>4, <2>2 DEF StoredOK
    <2> QED BY <2>1, <2>2
<1> QED BY <1>4, OneKeyChanges

\* AMCDictionary_Free empties the map.
LEMMA FreeIsFree ==
    ASSUME StoredOK, StoredOK', AMCDictionary_Free
    PROVE  Map!Next \/ Stored' = Stored
<1>1. used' = {}
    BY DEF AMCDictionary_Free
<1>2. \A k \in Keys : Stored'[k] = NULL
    BY <1>1 DEF StoredOK
<1>3. CASE Map!changed = {}
    <2>1. \A k \in Keys : Stored'[k] = Stored[k]
        BY <1>3 DEF Map!changed
    <2> QED BY <2>1 DEF StoredOK
<1>4. CASE Map!changed # {}
    BY <1>2, <1>4 DEF Map!Next, Map!Free
<1> QED BY <1>3, <1>4

\* The dictionary is a map: each call changes what is stored under one key, or frees the map, in
\* one step, and no step of the rebalancing changes it.
THEOREM IsMap == Spec => ImplementsMap
<1>1. ASSUME Init PROVE Map!Init
    <2>1. StoredOK
        BY <1>1, InitStructure, StoredIs
    <2>2. \A k \in Keys : Stored[k] = NULL
        BY <1>1, <2>1 DEF Init, StoredOK
    <2> QED BY <2>1, <2>2 DEF Map!Init, StoredOK
<1>2. ASSUME Structure, Structure', [Next]_vars PROVE Map!Next \/ Stored' = Stored
    <2>1. StoredOK /\ StoredOK'
        <3>1. (Structure => StoredOK)'
            BY StoredIs, PTL
        <3> QED BY <1>2, <3>1, StoredIs
    <2>2. CASE Working
        <3>1. CASE _rb_delete_leaf \/ DeleteReconnect
            BY <1>2, <2>1, <3>1, FreedIsRemoved DEF _rb_delete_leaf, DeleteReconnect
        <3>2. CASE DeleteInner
            BY <1>2, <2>1, <3>2, InnerIsRemoved
        <3>3. CASE UNCHANGED <<key, value, used>>
            BY <2>1, <3>3, ContentsStay
        <3>4. \/ _rb_delete_leaf \/ DeleteReconnect \/ DeleteInner \/ UNCHANGED <<key, value, used>>
            BY <2>2 DEF Working, InsertRoot, InsertBlackParent, InsertRedUncle, InsertRotate,
                DeleteCase1, DeleteCase2, DeleteCase3, DeleteCase4, DeleteCase6, NullSibling, contents
        <3> QED BY <3>1, <3>2, <3>3, <3>4
    <2>3. CASE AMCDictionary_Free
        BY <2>1, <2>3, FreeIsFree
    <2>4. ASSUME NEW k \in Keys, _rb_insert(k) \/ ReplaceObject(k)
          PROVE  Map!Next \/ Stored' = Stored
        BY <1>2, <2>1, <2>4, StoreIsStored
    <2>5. ASSUME NEW k \in Keys, NEW free \in BOOLEAN, Remove(k, free)
          PROVE  Map!Next \/ Stored' = Stored
        BY <2>1, <2>5, ContentsStay DEF Remove
    <2>6. CASE UNCHANGED vars
        BY <2>1, <2>6, ContentsStay DEF vars, contents
    <2> QED BY <1>2, <2>2, <2>3, <2>4, <2>5, <2>6 DEF Next
<1>3. Init => Map!Init
    BY <1>1
<1>4. Structure /\ Structure' /\ [Next]_vars => [Map!Next]_Stored
    BY <1>2
<1> QED BY <1>3, <1>4, StructureInv, PTL DEF Spec, ImplementsMap, Map!Spec

-----------------------------------------------------------------------------
(* Who owns the objects                                                     *)

\* The node whose object the running removal has taken out.
Going == IF pc = "remove" THEN {node} ELSE {}

\* Also between the steps of a removal the dictionary owns the objects of the nodes that stay.
Owned == ~freeObject /\ alive = {value[n] : n \in used \ Going}

\* Different keys, different objects.
LEMMA ObjectsDiffer ==
    ASSUME Structure, pc # "remove", NEW m \in used, NEW n \in used, value[m] = value[n]
    PROVE  m = n
<1>1. \A j, k \in Keys : \A v : v \in ObjectsOf(j) /\ v \in ObjectsOf(k) => j = k
    BY DEF ObjectsOf
<1>2. key[m] = key[n]
    BY <1>1 DEF Structure, ContentsOK
<1> QED BY <1>2, StructureIs, KeysDiffer

\* What a call stores the dictionary owns, and what it takes out it owns no more.
LEMMA OwnedKept ==
    ASSUME ~RemoveFrees, Structure, Structure', Owned, [Next]_vars
    PROVE  Owned'
<1>1. used \subseteq Nodes /\ value \in [Nodes -> Objects \cup {NULL}]
      /\ (pc # "idle" => node \in used)
    BY StructureIs DEF Structure, ContentsOK, CursorOK
<1>2. CASE _rb_delete_leaf \/ DeleteReconnect
    <2>1. pc = "remove" /\ _rb_free_node(node) /\ pc' # "remove" /\ freeObject' = freeObject
        BY <1>2 DEF _rb_delete_leaf, DeleteReconnect, Return, Goto
    <2>2. used' = used \ {node} /\ value' = [value EXCEPT ![node] = NULL] /\ alive' = alive
        BY <2>1 DEF _rb_free_node, Owned
    <2>3. \A n \in used' : value'[n] = value[n]
        BY <1>1, <2>2
    <2> QED BY <2>1, <2>2, <2>3 DEF Owned, Going
<1>3. CASE DeleteInner
    <2>1. PICK s : s = _rb_find_min_leaf(tree.right[node])
        OBVIOUS
    <2>2. /\ pc = "remove" /\ Cardinality(Children(node)) = 2
          /\ value' = [value EXCEPT ![node] = value[s]]
          /\ UNCHANGED <<used, alive, freeObject>> /\ pc' = "remove" /\ node' = s
        BY <1>3, <2>1 DEF DeleteInner, Goto
    <2>3. s \in used /\ s # node /\ node \in used
        BY <1>1, <2>1, <2>2, SuccessorIs
    <2>4. value'[node] = value[s] /\ \A n \in used : n # node => value'[n] = value[n]
        BY <1>1, <2>2, <2>3
    <2>5. {value[n] : n \in used \ {node}} = {value'[n] : n \in used \ {s}}
        BY <2>3, <2>4
    <2> QED BY <2>2, <2>5 DEF Owned, Going
<1>4. CASE Working /\ ~(_rb_delete_leaf \/ DeleteReconnect \/ DeleteInner)
    <2>1. /\ UNCHANGED <<value, used, alive, freeObject>>
          /\ (pc' # "remove" /\ pc # "remove") \/ UNCHANGED <<pc, node>>
        BY <1>4 DEF Working, InsertRoot, InsertBlackParent, InsertRedUncle, InsertRotate, RedParent,
            SiblingIsBlack, DeleteCase1, DeleteCase2, DeleteCase3, DeleteCase4, DeleteCase6,
            NullSibling, contents, call, Return, Goto
    <2> QED BY <2>1 DEF Owned, Going
<1>5. CASE AMCDictionary_Free
    <2>1. /\ pc = "idle" /\ UNCHANGED <<pc, freeObject>> /\ used' = {}
          /\ alive' = alive \ {value[n] : n \in used}
        BY <1>5 DEF AMCDictionary_Free, Idle, call
    <2>2. alive = {value[n] : n \in used}
        BY <2>1 DEF Owned, Going
    <2>3. alive' = {}
        BY <2>1, <2>2
    <2> QED BY <2>1, <2>3 DEF Owned, Going
<1>6. ASSUME NEW k \in Keys, _rb_insert(k) PROVE Owned'
    <2>1. PICK n, p : n = NewNode(k) /\ p = ParentFor(k)
        OBVIOUS
    <2>2. /\ pc = "idle" /\ n \in Nodes \ used /\ used' = used \cup {n}
          /\ value' = [value EXCEPT ![n] = <<k, 0>>]
        BY <1>6, <2>1, InsertIs
    <2>3. alive' = alive \cup {<<k, 0>>} /\ freeObject' = freeObject /\ pc' # "remove"
        BY <1>6 DEF _rb_insert, Return, Goto
    <2>4. value'[n] = <<k, 0>> /\ \A x \in used : value'[x] = value[x]
        BY <1>1, <2>2
    <2>5. {value'[x] : x \in used'} = {value[x] : x \in used} \cup {<<k, 0>>}
        BY <2>2, <2>4
    <2> QED BY <2>2, <2>3, <2>5 DEF Owned, Going
<1>7. ASSUME NEW k \in Keys, ReplaceObject(k) PROVE Owned'
    <2>1. PICK n, object : /\ n = _rb_find_node(k) /\ value' = [value EXCEPT ![n] = object]
                           /\ alive' = AfterReplacing(value[n], object)
                           /\ n # NULL /\ UNCHANGED <<key, used, pc, freeObject>> /\ pc = "idle"
        BY <1>7 DEF ReplaceObject, Idle, call
    <2>2. /\ tree \in Trees /\ Fits(tree, key, {}, used) /\ \A x \in used : key[x] \in Keys
        BY <2>1, StructureIs
    <2>3. n \in used
        BY <2>1, <2>2, FindIs
    <2>4. value'[n] = object /\ \A x \in used : x # n => value'[x] = value[x] /\ value[x] # value[n]
        BY <1>1, <2>1, <2>3, ObjectsDiffer
    <2>5. alive = {value[x] : x \in used}
        BY <2>1 DEF Owned, Going
    <2>6. alive' = {value'[x] : x \in used}
        <3>1. CASE value[n] = object
            <4>1. value' = value
                BY <1>1, <2>1, <2>3, <3>1
            <4> QED BY <2>1, <2>5, <3>1, <4>1 DEF AfterReplacing
        <3>2. CASE value[n] # object
            <4>1. alive' = (alive \cup {object}) \ {value[n]}
                BY <2>1, <3>2 DEF AfterReplacing
            <4> QED BY <2>3, <2>4, <2>5, <3>2, <4>1
        <3> QED BY <3>1, <3>2
    <2> QED BY <2>1, <2>6 DEF Owned, Going
<1>8. ASSUME NEW k \in Keys, NEW free \in BOOLEAN, Remove(k, free) PROVE Owned'
    <2>1. PICK n : n = _rb_find_node(k)
        OBVIOUS
    <2>2. /\ pc = "idle" /\ n # NULL /\ (free => RemoveFrees) /\ freeObject' = free
          /\ alive' = IF free THEN alive ELSE alive \ {value[n]}
          /\ pc' = "remove" /\ node' = n /\ UNCHANGED <<value, used>>
        BY <1>8, <2>1 DEF Remove, Idle, Goto
    <2>3. /\ tree \in Trees /\ Fits(tree, key, {}, used) /\ \A x \in used : key[x] \in Keys
        BY <2>2, StructureIs
    <2>4. n \in used
        BY <2>1, <2>2, <2>3, FindIs
    <2>5. \A x \in used : x # n => value[x] # value[n]
        BY <2>2, <2>4, ObjectsDiffer
    <2>6. alive = {value[x] : x \in used}
        BY <2>2 DEF Owned, Going
    <2>7. {value[x] : x \in used} \ {value[n]} = {value[x] : x \in used \ {n}}
        BY <2>4, <2>5
    <2> QED BY <2>2, <2>6, <2>7 DEF Owned, Going
<1>9. CASE UNCHANGED vars
    BY <1>9 DEF vars, contents, call, Owned, Going
<1> QED BY <1>2, <1>3, <1>4, <1>5, <1>6, <1>7, <1>8, <1>9 DEF Next, Working

\* When the program does not ask RemoveObject to free the object, the dictionary owns, between
\* calls, exactly the objects it stores: nothing leaks and nothing that is stored is freed.
THEOREM Ownership == ASSUME ~RemoveFrees PROVE Spec => []ObjectsOwned
<1>1. Init => Owned
    <2>1. ASSUME Init PROVE Owned
        <3>1. ~freeObject
            BY <2>1, Zenon DEF Init
        <3>2. alive = {} /\ used \ Going = {}
            BY <2>1 DEF Init, Going
        <3> QED BY <3>1, <3>2 DEF Owned
    <2> QED BY <2>1
<1>2. Structure /\ Structure' /\ Owned /\ [Next]_vars => Owned'
    BY OwnedKept
<1>3. Owned => ObjectsOwned
    BY DEF Owned, Going, ObjectsOwned
<1> QED BY <1>1, <1>2, <1>3, StructureInv, PTL DEF Spec

-----------------------------------------------------------------------------
(* The colours                                                              *)

\* h[n] is the number of black nodes on every way down from n.
Even(A, B, red, U, h) ==
    /\ h \in [Nodes \cup {NULL} -> Nat] /\ h[NULL] = 0
    /\ \A n \in U : h[A[n]] = h[B[n]] /\ h[n] = h[A[n]] + (IF n \in red THEN 0 ELSE 1)

\* No red node but odd is the child of a red node.
Calm(A, B, red, U, odd) ==
    \A n \in U \cap red : (A[n] \in red => A[n] = odd) /\ (B[n] \in red => B[n] = odd)

\* The children after the left rotation at n.
Turned(A, B, n, A1, B1) ==
    LET r == B[n]
    IN  /\ A1 = [y \in Nodes |-> IF y = r THEN n ELSE IF A[y] = n THEN r ELSE A[y]]
        /\ B1 = [y \in Nodes |-> IF y = n THEN A[r] ELSE IF B[y] = n THEN r ELSE B[y]]

\* Who is whose child before and after the rotation.
LEMMA TurnIs ==
    ASSUME NEW root, NEW A, NEW B, NEW P, NEW U, NEW sub, Shape(root, A, B, P, U, sub),
           NULL \notin Nodes, NEW n \in U, NEW r, r = B[n], r # NULL,
           NEW A1, NEW B1, Turned(A, B, n, A1, B1)
    PROVE  /\ r \in U /\ r # n /\ n \in Nodes /\ r \in Nodes
           /\ A[n] \notin {n, r} /\ A[r] \notin {n, r} /\ B[r] \notin {n, r}
           /\ A[r] = B[r] => A[r] = NULL
           /\ A1[n] = A[n] /\ B1[n] = A[r] /\ A1[r] = n /\ B1[r] = B[r]
           /\ \A y \in U : y # n /\ y # r => /\ A[y] # r /\ B[y] # r
                                             /\ A1[y] = IF A[y] = n THEN r ELSE A[y]
                                             /\ B1[y] = IF B[y] = n THEN r ELSE B[y]
           /\ \A y \in U : A[y] \in Nodes \cup {NULL} /\ B[y] \in Nodes \cup {NULL}
<1>1. /\ r \in U /\ r # n /\ A[r] # n /\ A[r] # r /\ B[r] # r /\ B[r] # n /\ A[n] # r /\ A[n] # n
      /\ P[r] = n /\ n \in Nodes /\ r \in Nodes /\ (A[r] = B[r] => A[r] = NULL)
    <2>1. r \in U /\ n \in Nodes /\ r \in Nodes
        BY DEF Shape, Links
    <2>2. \A x \in U : x \in sub[x]
        BY DEF Shape, Spans
    <2>3. \A x \in U : A[x] = B[x] => A[x] = NULL
        BY <2>2 DEF Shape, Links, Spans
    <2> QED BY <2>1, <2>2, <2>3 DEF Shape, Links, Spans
<1>2. \A y \in U : y # n /\ y # r => A[y] # r /\ B[y] # r
    BY <1>1 DEF Shape, Links
<1>3. \A y \in U : y \in Nodes /\ A[y] \in Nodes \cup {NULL} /\ B[y] \in Nodes \cup {NULL}
    BY DEF Shape, Links
<1>4. /\ A1 = [y \in Nodes |-> IF y = r THEN n ELSE IF A[y] = n THEN r ELSE A[y]]
      /\ B1 = [y \in Nodes |-> IF y = n THEN A[r] ELSE IF B[y] = n THEN r ELSE B[y]]
    BY DEF Turned
<1>5. A1[n] = A[n] /\ B1[n] = A[r] /\ A1[r] = n /\ B1[r] = B[r]
    BY <1>1, <1>4
<1>6. \A y \in U : y # n /\ y # r => /\ A1[y] = IF A[y] = n THEN r ELSE A[y]
                                     /\ B1[y] = IF B[y] = n THEN r ELSE B[y]
    BY <1>1, <1>3, <1>4
<1> QED BY <1>1, <1>2, <1>3, <1>5, <1>6

\* The colours of n and its red child r after they have been exchanged.
Exchanged(red, n, r) == IF n \in red THEN red ELSE (red \ {r}) \cup {n}

\* Lifting a red node, with the colours of the two exchanged, keeps the black nodes even.
LEMMA TurnEven ==
    ASSUME NEW root, NEW A, NEW B, NEW P, NEW U, NEW sub, Shape(root, A, B, P, U, sub),
           NULL \notin Nodes, NEW n \in U, NEW r, r = B[n], r # NULL,
           NEW A1, NEW B1, Turned(A, B, n, A1, B1),
           NEW red, r \in red, NEW h, Even(A, B, red, U, h)
    PROVE  \E h1 : Even(A1, B1, Exchanged(red, n, r), U, h1)
<1> DEFINE red1 == Exchanged(red, n, r)
           h1 == [x \in Nodes \cup {NULL} |-> IF x = n THEN h[r] ELSE IF x = r THEN h[n] ELSE h[x]]
<1>1. /\ r \in U /\ r # n /\ n \in Nodes /\ r \in Nodes
      /\ A[n] \notin {n, r} /\ A[r] \notin {n, r} /\ B[r] \notin {n, r}
      /\ A1[n] = A[n] /\ B1[n] = A[r] /\ A1[r] = n /\ B1[r] = B[r]
      /\ \A y \in U : y # n /\ y # r => /\ A[y] # r /\ B[y] # r
                                        /\ A1[y] = IF A[y] = n THEN r ELSE A[y]
                                        /\ B1[y] = IF B[y] = n THEN r ELSE B[y]
      /\ \A y \in U : A[y] \in Nodes \cup {NULL} /\ B[y] \in Nodes \cup {NULL}
    BY TurnIs
<1>2. /\ h \in [Nodes \cup {NULL} -> Nat] /\ h[NULL] = 0
      /\ \A x \in U : h[A[x]] = h[B[x]] /\ h[x] = h[A[x]] + (IF x \in red THEN 0 ELSE 1)
      /\ \A x \in Nodes \cup {NULL} : h[x] \in Nat
    BY DEF Even
<1>3. /\ h1 \in [Nodes \cup {NULL} -> Nat] /\ h1[NULL] = 0 /\ h1[n] = h[r] /\ h1[r] = h[n]
      /\ \A x \in Nodes \cup {NULL} : x # n /\ x # r => h1[x] = h[x]
    BY <1>1, <1>2
<1> HIDE DEF h1
<1>4. /\ n \in red1 /\ (r \in red1 <=> n \in red)
      /\ \A y : y # n /\ y # r => (y \in red1 <=> y \in red)
    BY <1>1 DEF Exchanged
<1> HIDE DEF red1
<1>5. /\ h[A[n]] = h[r] /\ h[A[r]] = h[r] /\ h[B[r]] = h[r]
      /\ h[n] = h[r] + (IF n \in red THEN 0 ELSE 1)
    BY <1>1, <1>2
<1>6. ASSUME NEW y \in U
      PROVE  h1[A1[y]] = h1[B1[y]] /\ h1[y] = h1[A1[y]] + (IF y \in red1 THEN 0 ELSE 1)
    <2>1. CASE y = n
        <3>1. h1[A[n]] = h[r] /\ h1[A[r]] = h[r]
            BY <1>1, <1>3, <1>5
        <3> QED BY <1>1, <1>2, <1>3, <1>4, <2>1, <3>1
    <2>2. CASE y = r
        <3>1. h1[B[r]] = h[r]
            BY <1>1, <1>3, <1>5
        <3> QED BY <1>1, <1>3, <1>4, <1>5, <2>2, <3>1
    <2>3. CASE y # n /\ y # r
        <3>1. h1[A1[y]] = h[A[y]]
            BY <1>1, <1>3, <2>3
        <3>2. h1[B1[y]] = h[B[y]]
            BY <1>1, <1>3, <2>3
        <3>3. h1[y] = h[y] /\ (y \in red1 <=> y \in red)
            <4>1. y \in Nodes
                BY DEF Shape, Links
            <4> QED BY <1>3, <1>4, <2>3, <4>1
        <3> QED BY <1>2, <3>1, <3>2, <3>3
    <2> QED BY <2>1, <2>2, <2>3
<1>7. Even(A1, B1, red1, U, h1)
    BY <1>3, <1>6 DEF Even
<1> QED BY <1>7 DEF red1

\* Lifting the odd red node above its red parent makes the parent the odd one.
LEMMA TurnCalmInner ==
    ASSUME NEW root, NEW A, NEW B, NEW P, NEW U, NEW sub, Shape(root, A, B, P, U, sub),
           NULL \notin Nodes, NEW n \in U, NEW r, r = B[n], r # NULL,
           NEW A1, NEW B1, Turned(A, B, n, A1, B1),
           NEW red, red \subseteq U, r \in red, n \in red, Calm(A, B, red, U, r)
    PROVE  Calm(A1, B1, red, U, n)
<1>1. /\ r \in U /\ r # n
      /\ A[n] \notin {n, r} /\ A[r] \notin {n, r} /\ B[r] \notin {n, r}
      /\ A1[n] = A[n] /\ B1[n] = A[r] /\ A1[r] = n /\ B1[r] = B[r]
      /\ \A y \in U : y # n /\ y # r => /\ A[y] # r /\ B[y] # r
                                        /\ A1[y] = IF A[y] = n THEN r ELSE A[y]
                                        /\ B1[y] = IF B[y] = n THEN r ELSE B[y]
    BY TurnIs
<1>2. ASSUME NEW y \in U \cap red
      PROVE  (A1[y] \in red => A1[y] = n) /\ (B1[y] \in red => B1[y] = n)
    <2>1. CASE y = n
        BY <1>1, <2>1 DEF Calm
    <2>2. CASE y = r
        BY <1>1, <2>2 DEF Calm
    <2>3. CASE y # n /\ y # r
        BY <1>1, <2>3 DEF Calm
    <2> QED BY <2>1, <2>2, <2>3
<1> QED BY <1>2 DEF Calm

\* Lifting the red parent of the odd red node above a black node, with their colours exchanged,
\* leaves no odd node, when the odd one is on the outer side and the uncle is not red.
LEMMA TurnCalmOuter ==
    ASSUME NEW root, NEW A, NEW B, NEW P, NEW U, NEW sub, Shape(root, A, B, P, U, sub),
           NULL \notin Nodes, NEW n \in U, NEW r, r = B[n], r # NULL,
           NEW A1, NEW B1, Turned(A, B, n, A1, B1),
           NEW red, red \subseteq U, r \in red, n \notin red, A[n] \notin red,
           Calm(A, B, red, U, B[r])
    PROVE  Calm(A1, B1, Exchanged(red, n, r), U, NULL)
<1> DEFINE red1 == Exchanged(red, n, r)
<1>1. /\ r \in U /\ r # n
      /\ A[n] \notin {n, r} /\ A[r] \notin {n, r} /\ B[r] \notin {n, r}
      /\ A[r] = B[r] => A[r] = NULL
      /\ A1[n] = A[n] /\ B1[n] = A[r] /\ A1[r] = n /\ B1[r] = B[r]
      /\ \A y \in U : y # n /\ y # r => /\ A[y] # r /\ B[y] # r
                                        /\ A1[y] = IF A[y] = n THEN r ELSE A[y]
                                        /\ B1[y] = IF B[y] = n THEN r ELSE B[y]
    BY TurnIs
<1>2. NULL \notin U
    BY DEF Shape, Links
<1>3. red1 = (red \ {r}) \cup {n}
    BY DEF Exchanged
<1>4. \A y \in U : y # n /\ y # r => (B[r] \in U => A[y] # B[r] /\ B[y] # B[r])
    BY <1>1 DEF Shape, Links
<1> HIDE DEF red1
<1>5. ASSUME NEW y \in U \cap red1
      PROVE  A1[y] \notin red1 /\ B1[y] \notin red1
    <2>1. CASE y = n
        BY <1>1, <1>2, <1>3, <2>1 DEF Calm
    <2>2. CASE y = r
        BY <1>1, <1>3, <2>2
    <2>3. CASE y # n /\ y # r
        BY <1>1, <1>3, <1>4, <2>3 DEF Calm
    <2> QED BY <2>1, <2>2, <2>3
<1> QED BY <1>5 DEF Calm, red1

\* The definitions say the same of the mirror image.
LEMMA MirrorColours ==
    ASSUME NEW A, NEW B, NEW red, NEW U
    PROVE  /\ \A h : Even(A, B, red, U, h) <=> Even(B, A, red, U, h)
           /\ \A odd : Calm(A, B, red, U, odd) <=> Calm(B, A, red, U, odd)
<1>1. \A h : Even(A, B, red, U, h) <=> Even(B, A, red, U, h)
    <2> SUFFICES ASSUME NEW h PROVE Even(A, B, red, U, h) <=> Even(B, A, red, U, h)
        OBVIOUS
    <2> QED BY DEF Even
<1>2. \A odd : Calm(A, B, red, U, odd) <=> Calm(B, A, red, U, odd)
    BY DEF Calm
<1> QED BY <1>1, <1>2

\* The same of the tree t with the nodes U.
EvenIn(t, U) == \E h : Even(t.left, t.right, t.red, U, h)
\* No red node has a red parent, but for one the insertion is still at.
CalmIn(t, U, odd) == Calm(t.left, t.right, t.red, U, odd)

\* What Lift makes of the colours when u is t with the colours of n and its parent exchanged.
LEMMA LiftColours ==
    ASSUME NEW t \in Trees, NEW U, NEW sub, ShapeOf(t, U, sub), NEW n \in U,
           NEW p, p = t.parent[n], p # NULL, n \in t.red, t.red \subseteq U,
           NEW u \in Trees, SameLinks(t, u), u.red = Exchanged(t.red, p, n),
           NEW v, v = Lift(u, n)
    PROVE  /\ EvenIn(t, U) => EvenIn(v, U)
           /\ p \in t.red /\ CalmIn(t, U, n) => CalmIn(v, U, p)
           /\ p \notin t.red => IF n = t.left[p]
                 THEN t.right[p] \notin t.red /\ CalmIn(t, U, t.left[n]) => CalmIn(v, U, NULL)
                 ELSE t.left[p] \notin t.red /\ CalmIn(t, U, t.right[n]) => CalmIn(v, U, NULL)
<1>1. Shape(t.root, t.left, t.right, t.parent, U, sub) /\ ShapeOf(u, U, sub) /\ n # NULL
    BY Constants DEF ShapeOf, SameLinks, Shape, Links
<1>2. /\ p \in U
      /\ n = t.right[p] => n # t.left[p] /\ v = RotatedLeft(u, p)
      /\ n # t.right[p] => n = t.left[p] /\ v = RotatedRight(u, p)
    BY <1>1, LiftIs, Constants DEF SameLinks
<1>3. CASE n = t.right[p]
    <2>1. Turned(t.left, t.right, p, v.left, v.right) /\ v.red = Exchanged(t.red, p, n)
        <3>1. u.left = t.left /\ u.right = t.right
            BY DEF SameLinks
        <3>2. PICK w : w = RotatedLeft(u, p)
            OBVIOUS
        <3>3. Turned(u.left, u.right, p, w.left, w.right) /\ w.red = u.red
            BY <3>2 DEF RotatedLeft, Turned
        <3>4. v = w
            BY <1>2, <1>3, <3>2
        <3> QED BY <3>1, <3>3, <3>4
    <2>2. ASSUME EvenIn(t, U) PROVE EvenIn(v, U)
        <3>1. PICK h : Even(t.left, t.right, t.red, U, h)
            BY <2>2 DEF EvenIn
        <3>2. \E h1 : Even(v.left, v.right, Exchanged(t.red, p, n), U, h1)
            BY <1>1, <1>2, <1>3, <2>1, <3>1, TurnEven, Constants, ZenonT(30)
        <3> QED BY <2>1, <3>2 DEF EvenIn
    <2>3. p \in t.red /\ CalmIn(t, U, n) => CalmIn(v, U, p)
        <3> SUFFICES ASSUME p \in t.red, CalmIn(t, U, n) PROVE CalmIn(v, U, p)
            OBVIOUS
        <3>1. v.red = t.red
            BY <2>1 DEF Exchanged
        <3>2. PICK A, B, A1, B1, red :
                A = t.left /\ B = t.right /\ A1 = v.left /\ B1 = v.right /\ red = t.red
            OBVIOUS
        <3>3. /\ Shape(t.root, A, B, t.parent, U, sub) /\ n = B[p] /\ Turned(A, B, p, A1, B1)
              /\ red \subseteq U /\ n \in red /\ p \in red /\ Calm(A, B, red, U, n)
            BY <1>1, <1>3, <2>1, <3>2 DEF CalmIn
        <3>4. Calm(A1, B1, red, U, p)
            BY <1>1, <1>2, <3>3, TurnCalmInner, Constants
        <3> QED BY <3>1, <3>2, <3>4 DEF CalmIn
    <2>4. p \notin t.red /\ t.left[p] \notin t.red /\ CalmIn(t, U, t.right[n]) => CalmIn(v, U, NULL)
        BY <1>1, <1>2, <1>3, <2>1, TurnCalmOuter, Constants DEF CalmIn
    <2> QED BY <1>2, <1>3, <2>2, <2>3, <2>4
<1>4. CASE n # t.right[p]
    <2>1. Turned(t.right, t.left, p, v.right, v.left) /\ v.red = Exchanged(t.red, p, n)
        BY <1>2, <1>4 DEF Turned, RotatedRight, SameLinks
    <2>2. Shape(t.root, t.right, t.left, t.parent, U, sub)
        <3>1. {} \subseteq Nodes \X Nodes
            OBVIOUS
        <3> QED BY <1>1, <3>1, Mirror
    <2>3. n = t.left[p]
        BY <1>2, <1>4
    <2>4. ASSUME EvenIn(t, U) PROVE EvenIn(v, U)
        <3>1. PICK h : Even(t.right, t.left, t.red, U, h)
            BY <2>4, MirrorColours DEF EvenIn
        <3>2. \E h1 : Even(v.right, v.left, Exchanged(t.red, p, n), U, h1)
            BY <1>1, <1>2, <2>1, <2>2, <2>3, <3>1, TurnEven, Constants, ZenonT(30)
        <3> QED BY <2>1, <3>2, MirrorColours DEF EvenIn
    <2>5. p \in t.red /\ CalmIn(t, U, n) => CalmIn(v, U, p)
        <3> SUFFICES ASSUME p \in t.red, CalmIn(t, U, n) PROVE CalmIn(v, U, p)
            OBVIOUS
        <3>1. v.red = t.red
            BY <2>1 DEF Exchanged
        <3>2. PICK A, B, A1, B1, red :
                A = t.right /\ B = t.left /\ A1 = v.right /\ B1 = v.left /\ red = t.red
            OBVIOUS
        <3>3. Calm(A, B, red, U, n)
            BY <3>2, MirrorColours DEF CalmIn
        <3>4. /\ Shape(t.root, A, B, t.parent, U, sub) /\ n = B[p] /\ Turned(A, B, p, A1, B1)
              /\ red \subseteq U /\ n \in red /\ p \in red
            BY <2>1, <2>2, <2>3, <3>2
        <3>5. Calm(A1, B1, red, U, p)
            BY <1>1, <1>2, <3>3, <3>4, TurnCalmInner, Constants
        <3> QED BY <3>1, <3>2, <3>5, MirrorColours DEF CalmIn
    <2>6. p \notin t.red /\ t.right[p] \notin t.red /\ CalmIn(t, U, t.left[n]) => CalmIn(v, U, NULL)
        <3>1. p \notin t.red /\ t.right[p] \notin t.red /\ Calm(t.right, t.left, t.red, U, t.left[n])
                => Calm(v.right, v.left, v.red, U, NULL)
            BY <1>1, <1>2, <2>1, <2>2, <2>3, TurnCalmOuter, Constants, ZenonT(30)
        <3> QED BY <3>1, MirrorColours DEF CalmIn
    <2> QED BY <2>3, <2>4, <2>5, <2>6
<1> QED BY <1>3, <1>4

\* The tree is coloured as it should be until something is removed.  The first removal takes a
\* node of such a tree, and is over without any rebalancing; so the rebalancing after a removal,
\* and with it the read of NULL, belongs to a later removal.
Coloured ==
    /\ removes \in Nat
    /\ pc = "remove" => removes > 0
    /\ pc \in {"delete", "sibling"} \/ fault => removes > 1
    /\ removes = 0 \/ (removes = 1 /\ pc = "remove") =>
          /\ EvenIn(tree, used) /\ CalmIn(tree, used, IF pc = "insert" THEN node ELSE NULL)
          /\ pc = "insert" => node \in tree.red

\* InsertRoot paints the root black: all ways get longer by one.
LEMMA InsertRootColours == ASSUME Structure, Coloured, InsertRoot PROVE Coloured'
<1>1. /\ pc = "insert" /\ tree.parent[node] = NULL /\ tree' = _SET_BLACK(tree, node)
      /\ pc' = "idle" /\ UNCHANGED <<used, removes, fault>>
    BY DEF InsertRoot, Return
<1>2. /\ tree \in Trees /\ tree.red \subseteq used /\ Fits(tree, key, {}, used) /\ node \in used
      /\ used \subseteq Nodes
    BY <1>1, StructureIs DEF Structure, CursorOK
<1>3. SameLinks(tree, tree') /\ tree'.red = tree.red \ {node}
    BY <1>1, <1>2, SetBlackIs
<1>4. ASSUME removes = 0 PROVE EvenIn(tree', used) /\ CalmIn(tree', used, NULL)
    <2>1. PICK h : Even(tree.left, tree.right, tree.red, used, h)
        BY <1>4 DEF Coloured, EvenIn
    <2>2. CalmIn(tree, used, node) /\ node \in tree.red
        BY <1>1, <1>4 DEF Coloured
    <2>3. \A y \in used : /\ tree.left[y] # node /\ tree.right[y] # node
                          /\ tree.left[y] \in used \cup {NULL} /\ tree.right[y] \in used \cup {NULL}
        BY <1>1, <1>2, LinksOf
    <2> DEFINE h1 == [h EXCEPT ![node] = h[node] + 1]
    <2>4. /\ h \in [Nodes \cup {NULL} -> Nat] /\ h[NULL] = 0
          /\ \A x \in used : h[tree.left[x]] = h[tree.right[x]]
                             /\ h[x] = h[tree.left[x]] + (IF x \in tree.red THEN 0 ELSE 1)
        BY <2>1 DEF Even
    <2>5. /\ h1 \in [Nodes \cup {NULL} -> Nat] /\ h1[node] = h[node] + 1
          /\ \A x \in Nodes \cup {NULL} : x # node => h1[x] = h[x]
        BY <1>2, <2>4
    <2> HIDE DEF h1
    <2>6. h1[NULL] = 0
        BY <1>2, <2>4, <2>5, Constants
    <2>7. ASSUME NEW x \in used
          PROVE  /\ h1[tree'.left[x]] = h1[tree'.right[x]]
                 /\ h1[x] = h1[tree'.left[x]] + (IF x \in tree'.red THEN 0 ELSE 1)
        <3>1. tree'.left[x] = tree.left[x] /\ tree'.right[x] = tree.right[x] /\ x \in Nodes
            BY <1>2, <1>3 DEF SameLinks
        <3>2. h1[tree.left[x]] = h[tree.left[x]] /\ h1[tree.right[x]] = h[tree.right[x]]
            BY <1>2, <2>3, <2>5
        <3>3. h[tree.left[x]] \in Nat
            BY <1>2, <2>3, <2>4
        <3>4. CASE x = node
            BY <1>3, <2>2, <2>4, <2>5, <3>1, <3>2, <3>3, <3>4
        <3>5. CASE x # node
            BY <1>3, <2>4, <2>5, <3>1, <3>2, <3>5
        <3> QED BY <3>4, <3>5
    <2>8. EvenIn(tree', used)
        BY <2>5, <2>6, <2>7 DEF EvenIn, Even
    <2>9. CalmIn(tree', used, NULL)
        BY <1>3, <2>2, <2>3 DEF CalmIn, Calm, SameLinks
    <2> QED BY <2>8, <2>9
<1> QED BY <1>1, <1>4 DEF Coloured

\* The node's parent is black: nothing is odd about the node.
LEMMA InsertBlackParentColours == ASSUME Structure, Coloured, InsertBlackParent PROVE Coloured'
<1>1. /\ pc = "insert" /\ tree.parent[node] \notin tree.red
      /\ pc' = "idle" /\ UNCHANGED <<tree, used, removes, fault>>
    BY DEF InsertBlackParent, Return, contents, _IS_RED
<1>2. /\ Fits(tree, key, {}, used) /\ node \in used
    BY <1>1, StructureIs DEF Structure, CursorOK
<1>3. \A y \in used : tree.left[y] = node \/ tree.right[y] = node => y = tree.parent[node]
    BY <1>2, LinksOf
<1>4. CalmIn(tree, used, node) => CalmIn(tree, used, NULL)
    BY <1>1, <1>3 DEF CalmIn, Calm
<1>5. CalmIn(tree', used', NULL) <=> CalmIn(tree, used, NULL)
    BY <1>1
<1>6. EvenIn(tree', used') <=> EvenIn(tree, used)
    BY <1>1
<1> QED BY <1>1, <1>4, <1>5, <1>6 DEF Coloured

\* Red parent and uncle become black and their parent red: each way keeps its black nodes, and
\* the grandparent is the odd one.
LEMMA InsertRedUncleColours == ASSUME Structure, Coloured, InsertRedUncle PROVE Coloured'
<1> DEFINE A == tree.left
           B == tree.right
           red1 == (tree.red \ {tree.parent[node], Uncle}) \cup {GrandParent}
<1>0. PICK p, g, c : p = tree.parent[node] /\ g = tree.parent[p] /\ c = Uncle
    OBVIOUS
<1>1. /\ pc = "insert" /\ c \in tree.red /\ p \in tree.red /\ pc' = "insert" /\ node' = g
      /\ tree' = _SET_RED(_SET_BLACK(_SET_BLACK(tree, p), c), g)
      /\ UNCHANGED <<used, removes, fault>>
    BY <1>0 DEF InsertRedUncle, RedParent, _IS_RED, Goto, GrandParent
<1>2. /\ node \in used /\ p \in used /\ g \in used /\ node # p /\ p # g
      /\ c = (IF p = A[g] THEN B[g] ELSE A[g]) /\ (p = A[g] \/ p = B[g])
      /\ tree \in Trees /\ tree.red \subseteq used /\ Fits(tree, key, {}, used)
      /\ used \subseteq Nodes /\ NULL \notin used
    BY <1>0, RedParentIs, StructureIs, LinksOf DEF InsertRedUncle
<1>3. /\ \A y \in used : /\ A[y] \in used \cup {NULL} /\ B[y] \in used \cup {NULL}
                         /\ y # g => A[y] \notin {p, c} /\ B[y] \notin {p, c}
                         /\ y # p => A[y] # node /\ B[y] # node
      /\ c \in used /\ c # p /\ c # g
    <2>1. c \in used /\ tree.parent[c] = g /\ tree.parent[p] = g /\ c # g
        <3>1. c \in used
            BY <1>1, <1>2
        <3>2. /\ \A x, y \in used : tree.parent[y] = x <=> y = tree.left[x] \/ y = tree.right[x]
              /\ \A x \in used : tree.parent[x] # x
            BY <1>2, LinksOf
        <3>3. tree.parent[c] = g /\ tree.parent[p] = g
            BY <1>2, <3>1, <3>2
        <3> QED BY <1>2, <3>1, <3>2, <3>3
    <2>2. c # p
        BY <1>2, <2>1, LinksOf
    <2>3. \A x, y \in used : A[y] = x \/ B[y] = x => y = tree.parent[x]
        BY <1>2, LinksOf
    <2>4. \A y \in used : A[y] \in used \cup {NULL} /\ B[y] \in used \cup {NULL}
        BY <1>2, LinksOf
    <2> QED BY <1>0, <1>2, <2>1, <2>2, <2>3, <2>4
<1>4. SameLinks(tree, tree') /\ tree'.red = (tree.red \ {p, c}) \cup {g}
    <2>1. PICK t1 : t1 = _SET_BLACK(tree, p)
        OBVIOUS
    <2>2. t1 \in Trees /\ SameLinks(tree, t1) /\ t1.red = tree.red \ {p}
        BY <1>2, <2>1, SetBlackIs
    <2>3. PICK t2 : t2 = _SET_BLACK(t1, c)
        OBVIOUS
    <2>4. t2 \in Trees /\ SameLinks(t1, t2) /\ t2.red = t1.red \ {c}
        BY <2>2, <2>3, SetBlackIs
    <2>5. tree' = _SET_RED(t2, g)
        BY <1>1, <2>1, <2>3
    <2>6. SameLinks(t2, tree') /\ tree'.red = t2.red \cup ({g} \ {NULL})
        BY <1>2, <2>4, <2>5, SetRedIs
    <2> QED BY <1>2, <2>2, <2>4, <2>6 DEF SameLinks
<1>5. ASSUME removes = 0 PROVE EvenIn(tree', used) /\ CalmIn(tree', used, g) /\ g \in tree'.red
    <2>1. PICK h : Even(A, B, tree.red, used, h)
        BY <1>5 DEF Coloured, EvenIn
    <2>2. Calm(A, B, tree.red, used, node)
        BY <1>1, <1>5 DEF Coloured, CalmIn
    <2>3. g \notin tree.red
        BY <1>1, <1>2, <2>2 DEF Calm
    <2> DEFINE h1 == [x \in Nodes \cup {NULL} |-> IF x \in {p, c} THEN h[x] + 1 ELSE h[x]]
    <2>4. /\ h \in [Nodes \cup {NULL} -> Nat] /\ h[NULL] = 0
          /\ \A x \in used : h[A[x]] = h[B[x]] /\ h[x] = h[A[x]] + (IF x \in tree.red THEN 0 ELSE 1)
        BY <2>1 DEF Even
    <2>5. /\ h1 \in [Nodes \cup {NULL} -> Nat] /\ h1[p] = h[p] + 1 /\ h1[c] = h[c] + 1
          /\ \A x \in Nodes \cup {NULL} : x # p /\ x # c => h1[x] = h[x]
        BY <1>2, <1>3, <2>4
    <2> HIDE DEF h1
    <2>6. h1[NULL] = 0
        BY <1>2, <1>3, <2>4, <2>5
    <2>7. ASSUME NEW x \in used
          PROVE  h1[A[x]] = h1[B[x]] /\ h1[x] = h1[A[x]] + (IF x \in tree'.red THEN 0 ELSE 1)
        <3>1. x \in Nodes /\ h[A[x]] \in Nat /\ h[x] \in Nat
            BY <1>2, <1>3, <2>4
        <3>2. CASE x = g
            <4>1. h[p] = h[c] /\ h[A[g]] = h[p] /\ h[g] = h[p] + 1 /\ h[p] \in Nat
                BY <1>2, <1>3, <2>3, <2>4
            <4>2. h1[A[g]] = h[p] + 1 /\ h1[B[g]] = h[p] + 1 /\ h1[g] = h[g]
                BY <1>2, <1>3, <2>5, <4>1
            <4> QED BY <1>4, <3>2, <4>1, <4>2
        <3>3. CASE x # g
            <4>1. h1[A[x]] = h[A[x]] /\ h1[B[x]] = h[B[x]]
                BY <1>2, <1>3, <2>5, <3>3
            <4>2. CASE x = p \/ x = c
                BY <1>1, <1>3, <1>4, <2>4, <2>5, <3>1, <3>3, <4>1, <4>2
            <4>3. CASE x # p /\ x # c
                BY <1>4, <2>4, <2>5, <3>1, <3>3, <4>1, <4>3
            <4> QED BY <4>2, <4>3
        <3> QED BY <3>2, <3>3
    <2>8. EvenIn(tree', used)
        BY <1>4, <2>5, <2>6, <2>7 DEF EvenIn, Even, SameLinks
    <2>9. CalmIn(tree', used, g)
        <3>1. ASSUME NEW y \in used \cap tree'.red
              PROVE  (A[y] \in tree'.red => A[y] = g) /\ (B[y] \in tree'.red => B[y] = g)
            <4>1. CASE y = g
                BY <1>2, <1>3, <1>4, <4>1
            <4>2. CASE y # g
                BY <1>3, <1>4, <2>2, <4>2 DEF Calm
            <4> QED BY <4>1, <4>2
        <3> QED BY <1>4, <3>1 DEF CalmIn, Calm, SameLinks
    <2> QED BY <1>4, <2>8, <2>9
<1>6. EvenIn(tree', used') /\ CalmIn(tree', used', g) <=> EvenIn(tree', used) /\ CalmIn(tree', used, g)
    BY <1>1
<1> QED BY <1>1, <1>5, <1>6 DEF Coloured

\* Step 1 of InsertRotate leaves the odd node, and its red parent, on the outer side.
LEMMA OuterIs ==
    ASSUME Structure, RedParent, NEW p, p = tree.parent[node], NEW g, g = tree.parent[p],
           NEW inner, inner = ((node = tree.right[p]) <=> (p = tree.left[g])), inner \in BOOLEAN,
           NEW o, o = IF inner THEN Lift(tree, node) ELSE tree,
           NEW top, top = IF inner THEN node ELSE p,
           Uncle \notin tree.red, node \in tree.red,
           EvenIn(tree, used), CalmIn(tree, used, node)
    PROVE  /\ EvenIn(o, used)
           /\ IF top = o.left[g]
              THEN o.right[g] \notin o.red /\ CalmIn(o, used, o.left[top])
              ELSE o.left[g] \notin o.red /\ CalmIn(o, used, o.right[top])
<1>1. /\ node \in used /\ p \in used /\ g \in used /\ p \in tree.red /\ p # g /\ node # p
      /\ node = tree.left[p] \/ node = tree.right[p]
      /\ p = tree.left[g] \/ p = tree.right[g]
      /\ Uncle = IF p = tree.left[g] THEN tree.right[g] ELSE tree.left[g]
      /\ Fits(tree, key, {}, used) /\ used \subseteq Nodes /\ tree \in Trees /\ tree.red \subseteq used
      /\ NULL \notin used
    BY RedParentIs, StructureIs, LinksOf
<1>2. /\ p = tree.left[g] => p # tree.right[g]
      /\ node = tree.left[p] => node # tree.right[p]
      /\ tree.parent[p] = g /\ node # g
    BY <1>1, LinksOf
<1>3. CASE ~inner
    <2>1. p = tree.left[g] => node = tree.left[p]
        BY <1>1, <1>3
    <2>2. p # tree.left[g] => node = tree.right[p]
        BY <1>1, <1>3
    <2> QED BY <1>1, <1>3, <2>1, <2>2
<1>4. CASE inner
    <2>1. PICK sub : ShapeOf(tree, used, sub)
        BY <1>1 DEF Fits
    <2>2. SameLinks(tree, tree) /\ tree.red = Exchanged(tree.red, p, node)
        BY <1>1 DEF SameLinks, Exchanged
    <2>3. EvenIn(o, used) /\ CalmIn(o, used, p)
        BY <1>1, <1>4, <2>1, <2>2, LiftColours
    <2>4. CASE node = tree.right[p]
        <3>1. p = tree.left[g] /\ tree.right[g] # p
            BY <1>2, <1>4, <2>4
        <3>2. o = RotatedLeft(tree, p)
            <4>1. p # NULL /\ o = Lift(tree, node)
                BY <1>1, <1>4
            <4>2. /\ node = tree.right[p] => Lift(tree, node) = RotatedLeft(tree, p)
                  /\ node # tree.right[p] => Lift(tree, node) = RotatedRight(tree, p)
                BY <1>1, <2>1, <4>1, LiftIs, Constants
            <4> QED BY <2>4, <4>1, <4>2
        <3>3. PICK w : w = RotatedLeft(tree, p)
            OBVIOUS
        <3>4. /\ w.left = [y \in Nodes |-> IF y = tree.right[p] THEN p
                               ELSE IF tree.left[y] = p THEN tree.right[p] ELSE tree.left[y]]
              /\ w.right = [y \in Nodes |-> IF y = p THEN tree.left[tree.right[p]]
                               ELSE IF tree.right[y] = p THEN tree.right[p] ELSE tree.right[y]]
              /\ w.red = tree.red
            BY <3>3 DEF RotatedLeft
        <3>5. w.left[node] = p /\ w.left[g] = node /\ w.right[g] = tree.right[g]
            BY <1>1, <1>2, <2>4, <3>1, <3>4
        <3> QED BY <1>1, <1>4, <2>3, <3>1, <3>2, <3>3, <3>4, <3>5
    <2>5. CASE node # tree.right[p]
        <3>1. p # tree.left[g] /\ tree.right[g] = p /\ node = tree.left[p]
            BY <1>1, <1>4, <2>5
        <3>2. o = RotatedRight(tree, p)
            <4>1. p # NULL /\ o = Lift(tree, node)
                BY <1>1, <1>4
            <4>2. /\ node = tree.right[p] => Lift(tree, node) = RotatedLeft(tree, p)
                  /\ node # tree.right[p] => Lift(tree, node) = RotatedRight(tree, p)
                BY <1>1, <2>1, <4>1, LiftIs, Constants
            <4> QED BY <2>5, <4>1, <4>2
        <3>3. PICK w : w = RotatedRight(tree, p)
            OBVIOUS
        <3>4. /\ w.right = [y \in Nodes |-> IF y = tree.left[p] THEN p
                               ELSE IF tree.right[y] = p THEN tree.left[p] ELSE tree.right[y]]
              /\ w.left = [y \in Nodes |-> IF y = p THEN tree.right[tree.left[p]]
                               ELSE IF tree.left[y] = p THEN tree.left[p] ELSE tree.left[y]]
              /\ w.red = tree.red
            BY <3>3 DEF RotatedRight
        <3>5. w.right[node] = p /\ w.right[g] = node /\ w.left[g] = tree.left[g]
            BY <1>1, <1>2, <3>1, <3>4
        <3>6. w.left[g] # node
            BY <1>1, <1>2, <3>5, LinksOf
        <3> QED BY <1>1, <1>4, <2>3, <3>1, <3>2, <3>3, <3>4, <3>5, <3>6
    <2> QED BY <2>4, <2>5
<1> QED BY <1>3, <1>4

\* The rotations of an insertion leave no odd node and the black nodes even.
LEMMA InsertRotateColours == ASSUME Structure, Coloured, InsertRotate PROVE Coloured'
<1> DEFINE p0 == tree.parent[node]
           inner0 == (node = tree.right[p0]) <=> (p0 = tree.left[GrandParent])
           o0 == IF inner0 THEN Lift(tree, node) ELSE tree
           top0 == IF inner0 THEN node ELSE p0
<1>0. PICK p, g, inner, o, top : /\ p = p0 /\ g = GrandParent /\ inner = inner0 /\ inner \in BOOLEAN
                                 /\ o = o0 /\ top = top0
    OBVIOUS
<1>1. /\ pc = "insert" /\ Uncle \notin tree.red /\ RedParent
      /\ tree' = Lift(_SET_RED(_SET_BLACK(o, top), g), top)
      /\ pc' = "idle" /\ UNCHANGED <<used, removes, fault>>
    BY <1>0 DEF InsertRotate, RedParent, Return, _IS_RED
<1>2. /\ p = tree.parent[node] /\ g = tree.parent[p]
      /\ inner = ((node = tree.right[p]) <=> (p = tree.left[g]))
      /\ o = (IF inner THEN Lift(tree, node) ELSE tree)
      /\ top = (IF inner THEN node ELSE p)
    BY <1>0 DEF GrandParent
<1> HIDE DEF p0, inner0, o0, top0
<1>3. /\ node \in used /\ p \in used /\ g \in used /\ p \in tree.red /\ p # g /\ node # g /\ node # p
      /\ Fits(tree, key, {}, used) /\ used \subseteq Nodes /\ tree \in Trees /\ tree.red \subseteq used
      /\ \A n \in used : key[n] \in Keys
      /\ NULL \notin used /\ (p = tree.left[g] \/ p = tree.right[g])
    <2>1. /\ node \in used /\ p \in used /\ g \in used /\ p \in tree.red /\ p # g /\ node # p
          /\ (p = tree.left[g] \/ p = tree.right[g]) /\ Fits(tree, key, {}, used)
        BY <1>1, <1>2, RedParentIs
    <2>2. /\ used \subseteq Nodes /\ tree \in Trees /\ tree.red \subseteq used
          /\ \A n \in used : key[n] \in Keys
        BY StructureIs
    <2>3. NULL \notin used /\ node # g
        BY <1>2, <2>1, LinksOf
    <2> QED BY <2>1, <2>2, <2>3
<1>4. /\ o \in Trees /\ o.red = tree.red /\ Fits(o, key, {}, used) /\ o.parent[top] = g
      /\ top \in used /\ top # g
    <2>1. Lift(tree, node) \in Trees /\ Lift(tree, node).red = tree.red
          /\ Fits(Lift(tree, node), key, {}, used) /\ Lift(tree, node).parent[node] = g
        BY <1>2, <1>3, LiftFits
    <2> QED BY <1>2, <1>3, <2>1
<1>5. PICK t1 : t1 = _SET_BLACK(o, top)
    OBVIOUS
<1>6. t1 \in Trees /\ SameLinks(o, t1) /\ t1.red = o.red \ {top}
    BY <1>4, <1>5, SetBlackIs
<1>7. PICK t2 : t2 = _SET_RED(t1, g)
    OBVIOUS
<1>8. t2 \in Trees /\ SameLinks(t1, t2) /\ t2.red = t1.red \cup ({g} \ {NULL})
    BY <1>3, <1>6, <1>7, SetRedIs
<1>9. tree' = Lift(t2, top)
    BY <1>1, <1>5, <1>7
<1>10. ASSUME removes = 0 PROVE EvenIn(tree', used) /\ CalmIn(tree', used, NULL)
    <2>1. EvenIn(tree, used) /\ CalmIn(tree, used, node) /\ node \in tree.red
        BY <1>1, <1>10 DEF Coloured
    <2>2. /\ EvenIn(o, used)
          /\ IF top = o.left[g]
             THEN o.right[g] \notin o.red /\ CalmIn(o, used, o.left[top])
             ELSE o.left[g] \notin o.red /\ CalmIn(o, used, o.right[top])
        BY <1>0, <1>1, <1>2, <2>1, OuterIs, ZenonT(30)
    <2>3. g \notin o.red
        BY <1>3, <1>4, <2>1 DEF CalmIn, Calm
    <2>4. SameLinks(o, t2) /\ t2.red = Exchanged(o.red, g, top)
        BY <1>3, <1>6, <1>8, <2>3 DEF SameLinks, Exchanged
    <2>5. top \in o.red
        BY <1>2, <1>3, <1>4, <2>1
    <2>6. PICK sub : ShapeOf(o, used, sub)
        BY <1>4 DEF Fits
    <2>7. g # NULL
        BY <1>3
    <2> QED BY <1>3, <1>4, <1>8, <1>9, <2>2, <2>3, <2>4, <2>5, <2>6, <2>7, LiftColours
<1>11. EvenIn(tree', used') /\ CalmIn(tree', used', NULL)
        <=> EvenIn(tree', used) /\ CalmIn(tree', used, NULL)
    BY <1>1
<1> QED BY <1>1, <1>10, <1>11 DEF Coloured

\* A new red leaf adds no black node; it is the odd one until its parent is looked at.
LEMMA InsertColours ==
    ASSUME Structure, Coloured, NEW k \in Keys, _rb_insert(k)
    PROVE  Coloured'
<1> DEFINE A == tree.left
           B == tree.right
<1>0. PICK n, p : n = NewNode(k) /\ p = ParentFor(k)
    OBVIOUS
<1>1. /\ pc = "idle" /\ n \in Nodes \ used /\ used' = used \cup {n}
      /\ A[n] = NULL /\ B[n] = NULL
      /\ UNCHANGED <<removes, fault>>
    BY <1>0, InsertIs DEF _rb_insert
<1>2. IF used = {}
      THEN /\ pc' = "idle" /\ tree'.left = A /\ tree'.right = B /\ tree'.red = {}
      ELSE /\ pc' = "insert" /\ node' = n /\ p \in used /\ tree'.red = tree.red \cup {n}
           /\ tree'.left = IF k < key[p] THEN [A EXCEPT ![p] = n] ELSE A
           /\ tree'.right = IF k < key[p] THEN B ELSE [B EXCEPT ![p] = n]
    <2>1. IF used = {}
          THEN /\ pc' = "idle" /\ tree'.root = n /\ tree'.left = tree.left
               /\ tree'.right = tree.right /\ tree'.parent = tree.parent /\ tree'.red = {}
          ELSE /\ pc' = "insert" /\ node' = n /\ p \in used
               /\ tree'.root = tree.root /\ tree'.red = tree.red \cup {n}
               /\ tree'.parent = [tree.parent EXCEPT ![n] = p]
               /\ tree'.left = IF k < key[p] THEN [tree.left EXCEPT ![p] = n] ELSE tree.left
               /\ tree'.right = IF k < key[p] THEN tree.right ELSE [tree.right EXCEPT ![p] = n]
        BY <1>0, InsertIs
    <2>2. CASE used = {}
        BY <2>1, <2>2
    <2>3. CASE used # {}
        BY <2>1, <2>3
    <2> QED BY <2>2, <2>3
<1>3. /\ tree \in Trees /\ used \subseteq Nodes /\ tree.red \subseteq used
      /\ Fits(tree, key, {}, used) /\ NULL \notin used
    BY <1>1, StructureIs, LinksOf
<1>4. /\ \A y \in used : /\ A[y] \in used \cup {NULL} /\ B[y] \in used \cup {NULL}
                         /\ A[y] # n /\ B[y] # n
      /\ n # NULL
    BY <1>1, <1>3, LinksOf, Constants
<1>5. ASSUME removes = 0
      PROVE  /\ EvenIn(tree', used')
             /\ CalmIn(tree', used', IF used = {} THEN NULL ELSE n)
             /\ used # {} => n \in tree'.red
    <2>1. PICK h : Even(A, B, tree.red, used, h)
        BY <1>1, <1>5 DEF Coloured, EvenIn
    <2>2. Calm(A, B, tree.red, used, NULL)
        BY <1>1, <1>5 DEF Coloured, CalmIn
    <2>3. /\ h \in [Nodes \cup {NULL} -> Nat] /\ h[NULL] = 0
          /\ \A x \in used : h[A[x]] = h[B[x]] /\ h[x] = h[A[x]] + (IF x \in tree.red THEN 0 ELSE 1)
        BY <2>1 DEF Even
    <2> DEFINE h1 == [h EXCEPT ![n] = IF used = {} THEN 1 ELSE 0]
    <2>4. /\ h1 \in [Nodes \cup {NULL} -> Nat] /\ h1[n] = (IF used = {} THEN 1 ELSE 0)
          /\ \A x \in Nodes \cup {NULL} : x # n => h1[x] = h[x]
        BY <1>1, <2>3
    <2> HIDE DEF h1
    <2>5. h1[NULL] = 0
        BY <1>4, <2>3, <2>4
    <2>6. CASE used = {}
        <3>1. \A x \in used' : x = n
            BY <1>1, <2>6
        <3>2. EvenIn(tree', used')
            BY <1>1, <1>2, <2>4, <2>5, <2>6, <3>1 DEF EvenIn, Even
        <3> QED BY <1>2, <2>6, <3>2 DEF CalmIn, Calm
    <2>7. CASE used # {}
        <3>1. /\ p \in used /\ p # n /\ n \in Nodes /\ p \in Nodes /\ tree'.red = tree.red \cup {n}
              /\ tree'.left = (IF k < key[p] THEN [A EXCEPT ![p] = n] ELSE A)
              /\ tree'.right = (IF k < key[p] THEN B ELSE [B EXCEPT ![p] = n])
              /\ A \in [Nodes -> Nodes \cup {NULL}] /\ B \in [Nodes -> Nodes \cup {NULL}]
            BY <1>1, <1>2, <1>3, <2>7 DEF Trees
        <3>2. /\ \A y \in used \cup {n} : y # p => tree'.left[y] = A[y] /\ tree'.right[y] = B[y]
              /\ \/ tree'.left[p] = n /\ tree'.right[p] = B[p]
                 \/ tree'.left[p] = A[p] /\ tree'.right[p] = n
            BY <1>1, <1>3, <3>1
        <3>3. (IF k < key[p] THEN A[p] ELSE B[p]) = NULL
            <4>1. PICK sub : ShapeOf(tree, used, sub)
                BY <1>3 DEF Fits
            <4>2. tree.root # NULL
                BY <1>3, <2>7, LinksOf
            <4>3. Towards(p, k) = NULL
                BY <1>0, <1>3, <4>1, <4>2, ParentForIs
            <4> QED BY <4>3 DEF Towards
        <3>4. h[A[p]] = 0 /\ h[B[p]] = 0
            <4>1. A[p] = NULL \/ B[p] = NULL
                BY <3>3
            <4> QED BY <2>3, <3>1, <4>1
        <3>5. ASSUME NEW x \in used \cup {n}
              PROVE  /\ h1[tree'.left[x]] = h1[tree'.right[x]]
                     /\ h1[x] = h1[tree'.left[x]] + (IF x \in tree'.red THEN 0 ELSE 1)
            <4>1. CASE x = n
                BY <1>1, <1>4, <2>4, <2>5, <2>7, <3>1, <3>2, <4>1
            <4>2. CASE x = p
                <5>1. h1[n] = 0 /\ h1[A[p]] = 0 /\ h1[B[p]] = 0 /\ h1[p] = h[p]
                    BY <1>3, <1>4, <2>4, <2>7, <3>1, <3>4
                <5>2. /\ h[p] = 0 + (IF p \in tree.red THEN 0 ELSE 1)
                      /\ (p \in tree.red <=> p \in tree'.red)
                    BY <2>3, <3>1, <3>4
                <5> QED BY <3>2, <4>2, <5>1, <5>2
            <4>3. CASE x \in used /\ x # p
                <5>1. h1[A[x]] = h[A[x]] /\ h1[B[x]] = h[B[x]] /\ h1[x] = h[x]
                      /\ (x \in tree.red <=> x \in tree'.red)
                    BY <1>1, <1>3, <1>4, <2>4, <3>1, <4>3
                <5> QED BY <2>3, <3>2, <4>3, <5>1
            <4> QED BY <4>1, <4>2, <4>3
        <3>6. EvenIn(tree', used')
            BY <1>1, <2>4, <2>5, <3>5 DEF EvenIn, Even
        <3>7. ASSUME NEW y \in used' \cap tree'.red
              PROVE  /\ tree'.left[y] \in tree'.red => tree'.left[y] = n
                     /\ tree'.right[y] \in tree'.red => tree'.right[y] = n
            <4>1. CASE y = n
                BY <1>1, <1>3, <1>4, <3>1, <3>2, <4>1
            <4>2. CASE y # n
                <5>1. y \in used /\ y \in tree.red /\ A[y] \notin tree.red /\ B[y] \notin tree.red
                    BY <1>1, <1>3, <2>2, <3>1, <4>2 DEF Calm
                <5> QED BY <1>4, <3>1, <3>2, <5>1
            <4> QED BY <4>1, <4>2
        <3> QED BY <2>7, <3>1, <3>6, <3>7 DEF CalmIn, Calm
    <2> QED BY <2>6, <2>7
<1>6. pc' = (IF used = {} THEN "idle" ELSE "insert") /\ (used # {} => node' = n)
    BY <1>2
<1>7. CASE used = {}
    BY <1>1, <1>5, <1>6, <1>7 DEF Coloured
<1>8. CASE used # {}
    BY <1>1, <1>5, <1>6, <1>8 DEF Coloured
<1> QED BY <1>7, <1>8

\* In a balanced tree an only child is red, so the first removal needs no rebalancing.
LEMMA FirstReconnect ==
    ASSUME Structure, Coloured, DeleteReconnect, pc' # "idle"
    PROVE  removes > 1
<1> SUFFICES ASSUME ~(removes > 1) PROVE FALSE
    OBVIOUS
<1>1. PICK child \in Children(node) :
        /\ Children(node) = {child} /\ child \notin tree.red /\ pc = "remove"
    BY DEF DeleteReconnect, Return, _IS_RED
<1>2. removes = 1
    BY <1>1 DEF Coloured
<1>3. PICK h : Even(tree.left, tree.right, tree.red, used, h)
    BY <1>1, <1>2 DEF Coloured, EvenIn
<1>4. /\ node \in used /\ Fits(tree, key, Doomed, used)
    BY <1>1 DEF Structure, CursorOK
<1>5. child \in used /\ child # NULL /\ (child = tree.left[node] \/ child = tree.right[node])
    BY <1>4, LinksOf, Constants DEF Children
<1>6. \/ tree.left[node] = NULL /\ tree.right[node] = child
      \/ tree.right[node] = NULL /\ tree.left[node] = child
      \/ tree.left[node] = child /\ tree.right[node] = child
    BY <1>1, ChildrenAre
<1>7. tree.left[node] = tree.right[node] => tree.left[node] = NULL
    BY <1>4, LinksOf
<1>8. /\ h[tree.left[node]] = h[tree.right[node]] /\ h[NULL] = 0
      /\ h[child] = h[tree.left[child]] + 1
    BY <1>1, <1>3, <1>4, <1>5 DEF Even
<1>9. h[child] = 0
    BY <1>5, <1>6, <1>7, <1>8
<1>10. h[tree.left[child]] \in Nat
    <2>1. tree.left[child] \in Nodes \cup {NULL}
        BY <1>4, <1>5, LinksOf
    <2> QED BY <1>3, <2>1 DEF Even
<1> QED BY <1>8, <1>9, <1>10

\* Every step keeps the colours.
LEMMA ColouredKept == ASSUME Structure, Coloured, [Next]_vars PROVE Coloured'
<1>1. CASE InsertRoot \/ InsertBlackParent \/ InsertRedUncle \/ InsertRotate
    BY <1>1, InsertRootColours, InsertBlackParentColours, InsertRedUncleColours, InsertRotateColours
<1>2. CASE _rb_delete_leaf
    <2>1. pc = "remove" /\ pc' = "idle" /\ UNCHANGED <<removes, fault>>
        BY <1>2 DEF _rb_delete_leaf, Return
    <2> QED BY <2>1 DEF Coloured
<1>3. CASE DeleteInner
    <2>1. pc = "remove" /\ pc' = "remove" /\ UNCHANGED <<tree, used, removes, fault>>
        BY <1>3 DEF DeleteInner, Goto
    <2>2. /\ EvenIn(tree', used') <=> EvenIn(tree, used)
          /\ CalmIn(tree', used', NULL) <=> CalmIn(tree, used, NULL)
        BY <2>1
    <2> QED BY <2>1, <2>2 DEF Coloured
<1>4. CASE DeleteReconnect
    <2>1. pc = "remove" /\ pc' \in {"idle", "delete"} /\ UNCHANGED <<removes, fault>>
        BY <1>4 DEF DeleteReconnect, Return, Goto
    <2>2. pc' # "idle" => removes > 1
        BY <1>4, FirstReconnect
    <2> QED BY <2>1, <2>2 DEF Coloured
<1>5. CASE DeleteCase1 \/ DeleteCase2 \/ DeleteCase3 \/ DeleteCase4 \/ DeleteCase6
    <2>1. pc \in {"delete", "sibling"} /\ pc' \in {"idle", "delete", "sibling"}
          /\ UNCHANGED <<removes, fault>>
        BY <1>5 DEF DeleteCase1, DeleteCase2, DeleteCase3, DeleteCase4, DeleteCase6, SiblingIsBlack,
            Return, Goto
    <2> QED BY <2>1 DEF Coloured
<1>6. CASE NullSibling
    <2>1. pc \in {"delete", "sibling"} /\ UNCHANGED <<pc, removes>>
        BY <1>6 DEF NullSibling, call
    <2> QED BY <2>1 DEF Coloured
<1>7. CASE AMCDictionary_Free
    <2>1. /\ pc = "idle" /\ tree' = Empty /\ used' = {} /\ UNCHANGED <<pc, removes, fault>>
        BY <1>7 DEF AMCDictionary_Free, Idle, call
    <2>2. EvenIn(tree', used') /\ CalmIn(tree', used', NULL)
        <3>1. Even(tree'.left, tree'.right, tree'.red, {}, [x \in Nodes \cup {NULL} |-> 0])
            BY DEF Even
        <3> QED BY <2>1, <3>1 DEF EvenIn, CalmIn, Calm
    <2> QED BY <2>1, <2>2 DEF Coloured
<1>8. ASSUME NEW k \in Keys, _rb_insert(k) PROVE Coloured'
    BY <1>8, InsertColours
<1>9. ASSUME NEW k \in Keys, ReplaceObject(k) PROVE Coloured'
    <2>1. UNCHANGED <<tree, used, pc, node, removes, fault>>
        BY <1>9 DEF ReplaceObject, call
    <2>2. /\ EvenIn(tree', used') <=> EvenIn(tree, used)
          /\ \A odd : CalmIn(tree', used', odd) <=> CalmIn(tree, used, odd)
        BY <2>1
    <2> QED BY <2>1, <2>2 DEF Coloured
<1>10. ASSUME NEW k \in Keys, NEW free \in BOOLEAN, Remove(k, free) PROVE Coloured'
    <2>1. /\ pc = "idle" /\ ~fault /\ removes' = removes + 1 /\ pc' = "remove"
          /\ UNCHANGED <<tree, used, fault>>
        BY <1>10 DEF Remove, Idle, Goto
    <2>2. /\ EvenIn(tree', used') <=> EvenIn(tree, used)
          /\ \A odd : CalmIn(tree', used', odd) <=> CalmIn(tree, used, odd)
        BY <2>1
    <2> QED BY <2>1, <2>2 DEF Coloured
<1>11. CASE UNCHANGED vars
    <2>1. UNCHANGED <<tree, used, pc, node, removes, fault>>
        BY <1>11 DEF vars, contents, call
    <2>2. /\ EvenIn(tree', used') <=> EvenIn(tree, used)
          /\ \A odd : CalmIn(tree', used', odd) <=> CalmIn(tree, used, odd)
        BY <2>1
    <2> QED BY <2>1, <2>2 DEF Coloured
<1> QED BY <1>1, <1>2, <1>3, <1>4, <1>5, <1>6, <1>7, <1>8, <1>9, <1>10, <1>11 DEF Next, Working

\* Until something is removed the tree is coloured as a red-black tree has to be, also between the
\* steps of an insertion but for the one odd node.
THEOREM ColouredInv == Spec => []Coloured
<1>1. ASSUME Init PROVE Coloured
    <2>1. tree = Empty /\ used = {} /\ pc = "idle" /\ removes = 0 /\ ~fault
        BY <1>1, Zenon DEF Init
    <2>2. Even(tree.left, tree.right, tree.red, {}, [x \in Nodes \cup {NULL} |-> 0])
        BY DEF Even
    <2>3. EvenIn(tree, used) /\ CalmIn(tree, used, NULL)
        BY <2>1, <2>2 DEF EvenIn, CalmIn, Calm
    <2> QED BY <2>1, <2>3 DEF Coloured
<1>2. Init => Coloured
    BY <1>1
<1>3. Structure /\ Coloured /\ [Next]_vars => Coloured'
    BY ColouredKept
<1> QED BY <1>2, <1>3, StructureInv, PTL DEF Spec

\* A tree that insertions alone have built stands any one removal: a member of NULL is read in the
\* rebalancing after a later removal only.
THEOREM FirstRemoval == Spec => []FirstRemovalSafe
<1>1. Coloured => FirstRemovalSafe
    BY DEF Coloured, FirstRemovalSafe
<1> QED BY <1>1, ColouredInv, PTL

\* The nodes whose subtree n is in.
Up(n, U, sub) == {a \in U : n \in sub[a]}

\* A node is in the subtree of another exactly when its parent is.
LEMMA ParentWithin ==
    ASSUME NEW root, NEW A, NEW B, NEW P, NEW U, NEW sub, Shape(root, A, B, P, U, sub),
           NULL \notin Nodes, IsFiniteSet(Nodes), NEW n \in U
    PROVE  /\ P[n] = NULL => Up(n, U, sub) = {n}
           /\ P[n] # NULL => /\ P[n] \in U /\ n \notin Up(P[n], U, sub)
                             /\ Up(n, U, sub) = {n} \cup Up(P[n], U, sub)
<1> DEFINE G == {a \in U : \A m \in sub[a] : m # a => P[m] # NULL /\ P[m] \in sub[a]}
<1>1. ASSUME NEW a \in U, A[a] # NULL => A[a] \in G, B[a] # NULL => B[a] \in G PROVE a \in G
    <2>1. sub[a] = {a} \cup sub[A[a]] \cup sub[B[a]] /\ sub[NULL] = {} /\ sub[a] \subseteq U
        BY DEF Shape, Links, Spans
    <2>2. /\ A[a] # NULL => P[A[a]] = a
          /\ B[a] # NULL => P[B[a]] = a
          /\ a # NULL
        BY <1>1 DEF Shape, Links
    <2> QED BY <1>1, <2>1, <2>2
<1>2. U \subseteq G
    <2> HIDE DEF G
    <2> QED BY <1>1, TreeInduction
<1>3. n \in sub[n] /\ P[n] \in U \cup {NULL} /\ NULL \notin U /\ \A a \in U : sub[a] \subseteq U
    BY DEF Shape, Links, Spans
<1>4. CASE P[n] = NULL
    BY <1>2, <1>3, <1>4 DEF Up
<1>5. CASE P[n] # NULL
    <2>1. P[n] \in U /\ n \in sub[P[n]] /\ P[n] \notin sub[n]
        BY <1>3, <1>5 DEF Shape, Links, Spans
    <2>2. \A a \in U : P[n] \in sub[a] => n \in sub[a]
        BY <2>1, SubTransitive
    <2>3. \A a \in U : n \in sub[a] /\ n # a => P[n] \in sub[a]
        BY <1>2
    <2> QED BY <1>3, <1>5, <2>1, <2>2, <2>3 DEF Up
<1> QED BY <1>4, <1>5

\* Above walks up through exactly these nodes.
LEMMA AboveIs ==
    ASSUME tree \in Trees, NEW sub, ShapeOf(tree, used, sub), NEW n \in used
    PROVE  Above[n] = Up(n, used, sub)
<1> DEFINE All == Nodes \cup {NULL}
           Eq(f) == f = [x \in All |-> IF x = NULL THEN {} ELSE {x} \cup f[tree.parent[x]]]
           P == tree.parent
           f0 == [x \in All |-> IF x \in used THEN Up(x, used, sub) ELSE IF x = NULL THEN {} ELSE {x}]
<1>1. Shape(tree.root, tree.left, tree.right, P, used, sub)
    BY DEF ShapeOf
<1>2. used \subseteq Nodes /\ NULL \notin used /\ (\A x \in Nodes \ used : P[x] = NULL)
      /\ (\A x \in Nodes : P[x] \in used \cup {NULL})
    BY <1>1, Constants DEF Shape, Links
<1>3. \A x \in used : /\ P[x] = NULL => Up(x, used, sub) = {x}
                      /\ P[x] # NULL => P[x] \in used
                                        /\ Up(x, used, sub) = {x} \cup Up(P[x], used, sub)
    BY <1>1, ParentWithin, Constants
<1>4. Eq(f0)
    <2>1. ASSUME NEW x \in All
          PROVE  f0[x] = IF x = NULL THEN {} ELSE {x} \cup f0[P[x]]
        <3>1. CASE x = NULL
            BY <1>2, <3>1
        <3>2. CASE x \in used
            BY <1>2, <1>3, <3>2
        <3>3. CASE x # NULL /\ x \notin used
            BY <1>2, <3>3
        <3> QED BY <3>1, <3>2, <3>3
    <2> QED BY <2>1
<1>5. Eq(Above)
    <2>1. \E f : Eq(f)
        BY <1>4
    <2>2. Above = CHOOSE f : Eq(f)
        BY DEF Above
    <2> HIDE DEF Eq
    <2> QED BY <2>1, <2>2
<1>6. \A x \in used : Above[x] = {x} \cup Above[P[x]] /\ Above[NULL] = {}
    BY <1>2, <1>5
<1> DEFINE G == {x \in used : Above[x] = Up(x, used, sub) =>
                                 \A m \in sub[x] : Above[m] = Up(m, used, sub)}
<1> HIDE DEF f0
<1>7. ASSUME NEW x \in used, tree.left[x] # NULL => tree.left[x] \in G,
             tree.right[x] # NULL => tree.right[x] \in G
      PROVE  x \in G
    <2> SUFFICES ASSUME Above[x] = Up(x, used, sub), NEW m \in sub[x]
                 PROVE  Above[m] = Up(m, used, sub)
        OBVIOUS
    <2>1. /\ sub[x] = {x} \cup sub[tree.left[x]] \cup sub[tree.right[x]] /\ sub[NULL] = {}
        BY <1>1 DEF Shape, Spans
    <2>2. ASSUME NEW c \in {tree.left[x], tree.right[x]}, c # NULL
          PROVE  Above[c] = Up(c, used, sub)
        <3>1. c \in used /\ P[c] = x
            BY <1>1, <2>2 DEF Shape, Links
        <3> QED BY <1>2, <1>3, <1>6, <3>1
    <2> QED BY <1>7, <2>1, <2>2
<1>8. used \subseteq G
    <2> HIDE DEF G
    <2> QED BY <1>1, <1>7, TreeInduction, Constants
<1>9. tree.root \in used /\ n \in sub[tree.root] /\ P[tree.root] = NULL
    BY <1>1 DEF Shape, Links, Spans
<1>10. Above[tree.root] = Up(tree.root, used, sub)
    BY <1>3, <1>6, <1>9
<1> QED BY <1>8, <1>9, <1>10

\* The black nodes from n up and those on a way down from a child of n are, for every n, as many
\* as those on a way down from the root.
LEMMA BlackAbove ==
    ASSUME NEW root, NEW A, NEW B, NEW P, NEW U, NEW sub, Shape(root, A, B, P, U, sub),
           NULL \notin Nodes, IsFiniteSet(Nodes), NEW red, NEW h, Even(A, B, red, U, h), NEW n \in U
    PROVE  Cardinality(Up(n, U, sub) \ red) + h[A[n]] = h[root]
<1> DEFINE Black(x) == Cardinality(Up(x, U, sub) \ red)
           G == {x \in U : \A m \in sub[x] : Black(m) + h[A[m]] = Black(x) + h[A[x]]}
<1>1. /\ U \subseteq Nodes /\ IsFiniteSet(U) /\ NULL \notin U
      /\ \A x \in U : A[x] \in U \cup {NULL} /\ B[x] \in U \cup {NULL}
    BY FS_Subset DEF Shape, Links
<1>2. \A x \in U : IsFiniteSet(Up(x, U, sub) \ red) /\ Black(x) \in Nat
    <2>1. \A x \in U : Up(x, U, sub) \ red \subseteq U
        BY DEF Up
    <2> QED BY <1>1, <2>1, FS_Subset, FS_CardinalityType
<1> HIDE DEF Black
<1>3. /\ \A x \in Nodes \cup {NULL} : h[x] \in Nat
      /\ \A x \in U : h[A[x]] = h[B[x]] /\ h[x] = h[A[x]] + (IF x \in red THEN 0 ELSE 1)
      /\ \A x \in U : h[A[x]] \in Nat /\ h[x] \in Nat
    BY <1>1 DEF Even
<1>4. ASSUME NEW x \in U, NEW c \in {A[x], B[x]}, c # NULL
      PROVE  c \in U /\ Black(c) + h[A[c]] = Black(x) + h[A[x]]
    <2>1. c \in U /\ P[c] = x /\ x # NULL
        BY <1>1, <1>4 DEF Shape, Links
    <2>2. Up(c, U, sub) = {c} \cup Up(x, U, sub) /\ c \notin Up(x, U, sub)
        BY <2>1, ParentWithin
    <2>3. h[c] = h[A[x]]
        BY <1>3, <1>4
    <2>4. CASE c \in red
        <3>1. Up(c, U, sub) \ red = Up(x, U, sub) \ red
            BY <2>2, <2>4
        <3>2. Black(c) = Black(x)
            BY <3>1 DEF Black
        <3>3. h[c] = h[A[c]] + 0 /\ h[A[c]] \in Nat
            BY <1>3, <2>1, <2>4
        <3>4. h[A[c]] = h[A[x]]
            BY <2>3, <3>3
        <3> QED BY <2>1, <3>2, <3>4
    <2>5. CASE c \notin red
        <3>1. Up(c, U, sub) \ red = (Up(x, U, sub) \ red) \cup {c} /\ c \notin Up(x, U, sub) \ red
            BY <2>2, <2>5
        <3>2. Black(c) = Black(x) + 1
            BY <1>2, <3>1, FS_AddElement DEF Black
        <3>3. h[c] = h[A[c]] + 1
            BY <1>3, <2>1, <2>5
        <3>4. h[A[c]] \in Nat /\ h[A[x]] \in Nat /\ Black(x) \in Nat
            BY <1>2, <1>3, <2>1
        <3>5. h[A[x]] = h[A[c]] + 1
            BY <2>3, <3>3
        <3>6. PICK p, q, u, v : p = Black(c) /\ q = Black(x) /\ u = h[A[c]] /\ v = h[A[x]]
            OBVIOUS
        <3>7. p + u = q + v
            BY <3>2, <3>4, <3>5, <3>6
        <3> QED BY <2>1, <3>6, <3>7
    <2> QED BY <2>1, <2>4, <2>5
<1>5. ASSUME NEW x \in U, A[x] # NULL => A[x] \in G, B[x] # NULL => B[x] \in G PROVE x \in G
    <2>1. sub[x] = {x} \cup sub[A[x]] \cup sub[B[x]] /\ sub[NULL] = {}
        BY DEF Shape, Spans
    <2>2. ASSUME NEW m \in sub[x] PROVE Black(m) + h[A[m]] = Black(x) + h[A[x]]
        <3>1. CASE m = x
            BY <3>1
        <3>2. CASE m \in sub[A[x]]
            <4>1. A[x] # NULL
                BY <2>1, <3>2
            <4> QED BY <1>4, <1>5, <3>2, <4>1
        <3>3. CASE m \in sub[B[x]]
            <4>1. B[x] # NULL
                BY <2>1, <3>3
            <4> QED BY <1>4, <1>5, <3>3, <4>1
        <3> QED BY <2>1, <2>2, <3>1, <3>2, <3>3
    <2> QED BY <2>2
<1>6. U \subseteq G
    <2> HIDE DEF G
    <2> QED BY <1>5, TreeInduction
<1>7. root \in U /\ n \in sub[root] /\ P[root] = NULL
    BY DEF Shape, Links, Spans
<1>8. Black(root) + h[A[root]] = h[root]
    <2>1. Up(root, U, sub) = {root}
        BY <1>7, ParentWithin
    <2>2. CASE root \in red
        <3>1. Up(root, U, sub) \ red = {}
            BY <2>1, <2>2
        <3>2. Black(root) = 0
            BY <3>1, FS_EmptySet DEF Black
        <3> QED BY <1>3, <1>7, <2>2, <3>2
    <2>3. CASE root \notin red
        <3>1. Up(root, U, sub) \ red = {root}
            BY <2>1, <2>3
        <3>2. Black(root) = 1
            BY <3>1, FS_Singleton DEF Black
        <3> QED BY <1>3, <1>7, <2>3, <3>2
    <2> QED BY <2>2, <2>3
<1>9. Black(n) + h[A[n]] = Black(root) + h[A[root]]
    BY <1>6, <1>7
<1>10. Black(n) + h[A[n]] = h[root]
    BY <1>8, <1>9
<1> QED BY <1>10 DEF Black

\* Insertion keeps the tree red and black: the root is black, a red node has a black parent, and
\* the ways up from all nodes that miss a child pass the same number of black nodes.
THEOREM RedBlack == Spec => []RedBlackUntilRemoved
<1>1. ASSUME Structure, Coloured, pc = "idle", removes = 0
      PROVE  /\ tree.root \notin tree.red
             /\ \A n \in tree.red : tree.parent[n] \notin tree.red
             /\ \A n, m \in {x \in used : Cardinality(Children(x)) < 2} :
                  Cardinality(Above[n] \ tree.red) = Cardinality(Above[m] \ tree.red)
    <2>1. /\ tree \in Trees /\ Fits(tree, key, {}, used) /\ tree.red \subseteq used
          /\ used \subseteq Nodes /\ NULL \notin used
        BY <1>1, StructureIs, LinksOf
    <2>2. tree.root \notin tree.red
        BY <1>1 DEF Structure, CursorOK
    <2>3. ASSUME NEW n \in tree.red PROVE tree.parent[n] \notin tree.red
        <3>1. tree.parent[n] \in used =>
                 tree.left[tree.parent[n]] = n \/ tree.right[tree.parent[n]] = n
            BY <2>1, LinksOf
        <3>2. Calm(tree.left, tree.right, tree.red, used, NULL)
            BY <1>1 DEF Coloured, CalmIn
        <3> QED BY <2>1, <3>1, <3>2 DEF Calm
    <2>4. PICK sub : ShapeOf(tree, used, sub)
        BY <2>1 DEF Fits
    <2>5. PICK h : Even(tree.left, tree.right, tree.red, used, h)
        BY <1>1 DEF Coloured, EvenIn
    <2>6. ASSUME NEW n \in used, Cardinality(Children(n)) < 2
          PROVE  Cardinality(Above[n] \ tree.red) = h[tree.root]
        <3>1. Cardinality(Up(n, used, sub) \ tree.red) + h[tree.left[n]] = h[tree.root]
            <4>1. Shape(tree.root, tree.left, tree.right, tree.parent, used, sub)
                BY <2>4 DEF ShapeOf
            <4> QED BY <2>5, <4>1, BlackAbove, Constants
        <3>2. tree.left[n] = NULL \/ tree.right[n] = NULL
            <4> SUFFICES ASSUME tree.left[n] # NULL, tree.right[n] # NULL PROVE FALSE
                OBVIOUS
            <4>1. tree.left[n] # tree.right[n]
                BY <2>1, LinksOf
            <4>2. PICK S, b : S = {tree.left[n]} /\ b = tree.right[n]
                OBVIOUS
            <4>3. Cardinality(S) = 1 /\ IsFiniteSet(S) /\ b \notin S
                BY <4>1, <4>2, FS_Singleton
            <4>4. Cardinality(S \cup {b}) = 2
                <5>1. Cardinality(S \cup {b}) = Cardinality(S) + 1
                    BY <4>3, FS_AddElement
                <5> QED BY <4>3, <5>1
            <4>5. Children(n) = S \cup {b}
                BY <4>2 DEF Children
            <4> QED BY <2>6, <4>4, <4>5
        <3>3. h[tree.left[n]] = 0
            BY <2>5, <3>2 DEF Even
        <3>4. Above[n] = Up(n, used, sub)
            BY <2>1, <2>4, AboveIs
        <3>5. Cardinality(Up(n, used, sub) \ tree.red) \in Nat
            <4>1. Up(n, used, sub) \ tree.red \subseteq used /\ IsFiniteSet(used)
                BY <1>1, StructureIs DEF Up
            <4> QED BY <4>1, FS_Subset, FS_CardinalityType
        <3> QED BY <3>1, <3>3, <3>4, <3>5
    <2> QED BY <2>2, <2>3, <2>6
<1>2. Structure /\ Coloured => RedBlackUntilRemoved
    BY <1>1 DEF RedBlackUntilRemoved
<1> QED BY <1>2, StructureInv, ColouredInv, PTL
=============================================================================
