----------------------------- MODULE Dictionary -----------------------------
(***************************************************************************)
(* AMCDictionary.c: a map kept in a red-black tree with parent pointers.   *)
(* The write lock is held from the first step of a call to its last, so    *)
(* calls do not interleave; a step is one case of the rebalancing.         *)
(*                                                                         *)
(* Keys stand for strings in the order of strcmp.  An object is named by   *)
(* the key it is stored under and a version.  Nodes are named by numbers;  *)
(* addresses are never compared, so a new node takes the name of its key,  *)
(* or any free one.                                                        *)
(***************************************************************************)
EXTENDS Integers, FiniteSets

CONSTANTS
    Keys, NULL,
    AnyOrder,         \* bound: keys inserted in any order, while no other is stored;
                      \*        the others come in ascending order before any removal
    Twice,            \* bound: keys whose object is replaced, by a second one or itself,
                      \*        while only AnyOrder is stored
    MaxRemoves,       \* bound: calls of RemoveObject and DrainObject
    RemoveFrees       \* the program lets RemoveObject free the object

ASSUME DictAssumption ==
    /\ Keys \subseteq Nat /\ IsFiniteSet(Keys) /\ NULL \notin Keys
    /\ AnyOrder \subseteq Keys /\ Twice \subseteq Keys
    /\ MaxRemoves \in Nat /\ RemoveFrees \in BOOLEAN

Nodes == Keys
ObjectsOf(k) == {k} \X (IF k \in Twice THEN {0, 1} ELSE {0})
Objects == UNION {ObjectsOf(k) : k \in Keys}

VARIABLES
    tree,             \* root (dict->children) and left, right, parent, red of the nodes
    key, value,       \* the contents of the nodes
    used,             \* nodes handed out by the memory pool
    count,
    pc, node,         \* the next step of the call and the node it is at
    freeObject,       \* argument of _rb_delete_node
    alive,            \* objects that are allocated and not handed to the program
    removes,          \* history: removals so far
    fault             \* NULL was dereferenced, the process has ended

contents == <<tree, key, value, used, count, alive>>
call == <<pc, node, freeObject>>
vars == <<contents, call, removes, fault>>

Empty ==
    LET nothing == [n \in Nodes |-> NULL]
    IN  [root |-> NULL, left |-> nothing, right |-> nothing, parent |-> nothing, red |-> {}]

Init ==
    /\ tree = Empty
    /\ key = [n \in Nodes |-> NULL] /\ value = [n \in Nodes |-> NULL]
    /\ used = {} /\ count = 0 /\ alive = {}
    /\ pc = "idle" /\ node = NULL /\ freeObject = FALSE
    /\ removes = 0 /\ fault = FALSE

-----------------------------------------------------------------------------
(* The tree                                                                 *)

Towards(n, k) == IF k < key[n] THEN tree.left[n] ELSE tree.right[n]

_rb_find_node(k) ==
    LET Search[n \in Nodes \cup {NULL}] ==
            IF n = NULL THEN NULL ELSE IF key[n] = k THEN n ELSE Search[Towards(n, k)]
    IN  Search[tree.root]

\* Where _rb_insert finds a slot for a key that is not there.
ParentFor(k) ==
    LET Descend[n \in Nodes] == IF Towards(n, k) = NULL THEN n ELSE Descend[Towards(n, k)]
    IN  IF tree.root = NULL THEN NULL ELSE Descend[tree.root]

_rb_find_min_leaf(top) ==
    LET Descend[n \in Nodes] == IF tree.left[n] = NULL THEN n ELSE Descend[tree.left[n]]
    IN  Descend[top]

_IS_RED(t, n) == n \in t.red
_SET_RED(t, n) == [t EXCEPT !.red = @ \cup ({n} \ {NULL})]
_SET_BLACK(t, n) == [t EXCEPT !.red = @ \ {n}]

_rb_brother_node(t, n) ==
    IF t.parent[n] = NULL THEN NULL
    ELSE IF n = t.left[t.parent[n]] THEN t.right[t.parent[n]] ELSE t.left[t.parent[n]]

\* In the place where n hangs, hangs m.
Rehang(t, n, m) ==
    LET p == t.parent[n]
    IN  IF p = NULL THEN [t EXCEPT !.root = m]
        ELSE IF n = t.left[p] THEN [t EXCEPT !.left[p] = m] ELSE [t EXCEPT !.right[p] = m]

\* Faulty: the subtree that changes sides keeps its old parent pointer.
__rb_rotate_left_NoParent(t, n) ==
    LET r == t.right[n]
    IN  [Rehang(t, n, r) EXCEPT !.right[n] = t.left[r], !.left[r] = n,
                                !.parent[n] = r, !.parent[r] = t.parent[n]]

__rb_rotate_left(t, n) ==
    LET r == t.right[n]
        rl == t.left[r]
    IN  [Rehang(t, n, r) EXCEPT
            !.right[n] = rl, !.left[r] = n,
            !.parent = [x \in Nodes |-> CASE x = n -> r [] x = r -> t.parent[n]
                                          [] x = rl -> n [] OTHER -> t.parent[x]]]

__rb_rotate_right(t, n) ==
    LET l == t.left[n]
        lr == t.right[l]
    IN  [Rehang(t, n, l) EXCEPT
            !.left[n] = lr, !.right[l] = n,
            !.parent = [x \in Nodes |-> CASE x = n -> l [] x = l -> t.parent[n]
                                          [] x = lr -> n [] OTHER -> t.parent[x]]]

\* The rotation of n's parent that puts n in its place.
Lift(t, n) ==
    IF n = t.right[t.parent[n]] THEN __rb_rotate_left(t, t.parent[n])
    ELSE __rb_rotate_right(t, t.parent[n])

Goto(label, n) == pc' = label /\ node' = n
Return == pc' = "idle" /\ node' = NULL

-----------------------------------------------------------------------------
(* AMCDictionary_AddObject, _SetObject, _UpdateObject                       *)

Idle == pc = "idle" /\ ~fault

NewNode(k) == IF k \notin used THEN k ELSE CHOOSE n \in Nodes \ used : TRUE

\* _rb_alloc_node under the leaf the search ends at; the first node is black.
_rb_insert(k) ==
    LET n == NewNode(k)
        p == ParentFor(k)
        t == [tree EXCEPT !.parent[n] = p, !.left[n] = NULL, !.right[n] = NULL]
    IN  /\ Idle /\ _rb_find_node(k) = NULL
        /\ \/ k \in AnyOrder /\ used \subseteq AnyOrder
           \/ removes = 0 /\ {key[x] : x \in used} = {j \in Keys : j < k}
        /\ used' = used \cup {n} /\ count' = count + 1
        /\ key' = [key EXCEPT ![n] = k] /\ value' = [value EXCEPT ![n] = <<k, 0>>]
        /\ alive' = alive \cup {<<k, 0>>}
        /\ IF p = NULL
           THEN tree' = [t EXCEPT !.root = n] /\ Return
           ELSE /\ tree' = IF k < key[p] THEN [t EXCEPT !.left[p] = n, !.red = @ \cup {n}]
                           ELSE [t EXCEPT !.right[p] = n, !.red = @ \cup {n}]
                /\ Goto("insert", n)
        /\ UNCHANGED <<freeObject, removes, fault>>

\* Faulty: the object is freed although it is the one that is stored again.
AfterReplacing_Always(old, new) == (alive \cup {new}) \ {old}

\* The old object is freed, by the call or by the program that takes it back,
\* unless it is the new one.
AfterReplacing(old, new) == IF old = new THEN alive ELSE (alive \cup {new}) \ {old}

\* A key that exists gets another object, or the same once more.
ReplaceObject(k) ==
    LET n == _rb_find_node(k)
    IN  /\ Idle /\ k \in Twice /\ n # NULL /\ used \subseteq AnyOrder
        /\ \E object \in ObjectsOf(k) :
              /\ value' = [value EXCEPT ![n] = object]
              /\ alive' = AfterReplacing(value[n], object)
        /\ UNCHANGED <<tree, key, used, count, call, removes, fault>>

Uncle == _rb_brother_node(tree, tree.parent[node])
GrandParent == tree.parent[tree.parent[node]]

InsertRoot ==
    /\ pc = "insert" /\ tree.parent[node] = NULL
    /\ tree' = _SET_BLACK(tree, node)
    /\ Return
    /\ UNCHANGED <<key, value, used, count, alive, freeObject, removes, fault>>

InsertBlackParent ==
    /\ pc = "insert" /\ tree.parent[node] # NULL /\ ~_IS_RED(tree, tree.parent[node])
    /\ Return
    /\ UNCHANGED <<contents, freeObject, removes, fault>>

RedParent == pc = "insert" /\ tree.parent[node] # NULL /\ _IS_RED(tree, tree.parent[node])

\* Faulty: the recolouring is not followed upwards.
InsertRedUncle_Once ==
    /\ RedParent /\ _IS_RED(tree, Uncle)
    /\ tree' = _SET_RED(_SET_BLACK(_SET_BLACK(tree, tree.parent[node]), Uncle), GrandParent)
    /\ Return
    /\ UNCHANGED <<key, value, used, count, alive, freeObject, removes, fault>>

InsertRedUncle ==
    /\ RedParent /\ _IS_RED(tree, Uncle)
    /\ tree' = _SET_RED(_SET_BLACK(_SET_BLACK(tree, tree.parent[node]), Uncle), GrandParent)
    /\ Goto("insert", GrandParent)
    /\ UNCHANGED <<key, value, used, count, alive, freeObject, removes, fault>>

\* Step 1 brings the node to the outer side, step 2 recolours and rotates.
InsertRotate ==
    LET p == tree.parent[node]
        inner == (node = tree.right[p]) <=> (p = tree.left[GrandParent])
        outer == IF inner THEN Lift(tree, node) ELSE tree
        top == IF inner THEN node ELSE p
    IN  /\ RedParent /\ ~_IS_RED(tree, Uncle)
        /\ tree' = Lift(_SET_RED(_SET_BLACK(outer, top), GrandParent), top)
        /\ Return
        /\ UNCHANGED <<key, value, used, count, alive, freeObject, removes, fault>>

-----------------------------------------------------------------------------
(* AMCDictionary_RemoveObject, _DrainObject                                 *)

Remove(k, free) ==
    /\ Idle /\ removes < MaxRemoves /\ _rb_find_node(k) # NULL
    /\ free => RemoveFrees
    /\ removes' = removes + 1
    /\ freeObject' = free
    \* The program frees the object it gets back.
    /\ alive' = IF free THEN alive ELSE alive \ {value[_rb_find_node(k)]}
    /\ Goto("remove", _rb_find_node(k))
    /\ UNCHANGED <<tree, key, value, used, count, fault>>

Children(n) == {tree.left[n], tree.right[n]} \ {NULL}

\* Faulty: counts the node that goes once more.
_rb_free_node_CountTwice(n) ==
    /\ alive' = IF freeObject THEN alive \ {value[n]} ELSE alive
    /\ used' = used \ {n} /\ count' = count - 2
    /\ key' = [key EXCEPT ![n] = NULL] /\ value' = [value EXCEPT ![n] = NULL]

\* _rb_free_node, and the counting around it; the last node leaves 0.
_rb_free_node(n) ==
    /\ alive' = IF freeObject THEN alive \ {value[n]} ELSE alive
    /\ used' = used \ {n}
    /\ count' = IF n = tree.root /\ Children(n) = {} THEN 0 ELSE count - 1
    /\ key' = [key EXCEPT ![n] = NULL] /\ value' = [value EXCEPT ![n] = NULL]

Forget(t, n) ==
    [t EXCEPT !.left[n] = NULL, !.right[n] = NULL, !.parent[n] = NULL, !.red = @ \ {n}]

\* A leaf goes without any rebalancing.
_rb_delete_leaf ==
    /\ pc = "remove" /\ Children(node) = {}
    /\ tree' = Forget(Rehang(tree, node, NULL), node)
    /\ _rb_free_node(node)
    /\ Return
    /\ UNCHANGED <<freeObject, removes, fault>>

\* Faulty: takes the key of the successor but not its object.
DeleteInner_KeyOnly ==
    LET s == _rb_find_min_leaf(tree.right[node])
    IN  /\ pc = "remove" /\ Cardinality(Children(node)) = 2
        /\ key' = [key EXCEPT ![node] = key[s]]
        /\ Goto("remove", s)
        /\ UNCHANGED <<tree, value, used, count, alive, freeObject, removes, fault>>

\* The node takes the contents of its successor, which goes in its stead.
DeleteInner ==
    LET s == _rb_find_min_leaf(tree.right[node])
    IN  /\ pc = "remove" /\ Cardinality(Children(node)) = 2
        /\ key' = [key EXCEPT ![node] = key[s]]
        /\ value' = [value EXCEPT ![node] = value[s]]
        /\ Goto("remove", s)
        /\ UNCHANGED <<tree, used, count, alive, freeObject, removes, fault>>

\* Faulty: a black node is taken to be missing although the red child has become black.
DeleteReconnect_RedChild ==
    /\ pc = "remove"
    /\ \E child \in Children(node) :
        LET t == [Rehang(tree, node, child) EXCEPT !.parent[child] = tree.parent[node]]
        IN  /\ Children(node) = {child}
            /\ tree' = Forget(IF _IS_RED(tree, node) THEN t ELSE _SET_BLACK(t, child), node)
            /\ IF _IS_RED(tree, node) THEN Return ELSE Goto("delete", child)
    /\ _rb_free_node(node)
    /\ UNCHANGED <<freeObject, removes, fault>>

\* __rb_delete_node_and_reconnect_with: the only child takes the place.  When
\* one of the two is red the child ends up black or as it was, else the
\* black node that is missing has to be made up for.
DeleteReconnect ==
    /\ pc = "remove"
    /\ \E child \in Children(node) :
        LET t == [Rehang(tree, node, child) EXCEPT !.parent[child] = tree.parent[node]]
        IN  /\ Children(node) = {child}
            /\ tree' = Forget(IF _IS_RED(tree, node) THEN t ELSE _SET_BLACK(t, child), node)
            /\ IF _IS_RED(tree, node) \/ _IS_RED(tree, child) THEN Return
               ELSE Goto("delete", child)
    /\ _rb_free_node(node)
    /\ UNCHANGED <<freeObject, removes, fault>>

\* __rb_check_delete_node_case_1 and _2: the root ends it; a red brother is
\* lifted above the parent.
DeleteCase1 ==
    /\ pc = "delete" /\ tree.parent[node] = NULL
    /\ Return
    /\ UNCHANGED <<contents, freeObject, removes, fault>>

Brother == _rb_brother_node(tree, node)

\* Faulty: goes on with case 1, where it came from.
DeleteCase2_BackToCase1 ==
    /\ pc = "delete" /\ Brother # NULL
    /\ tree' = IF _IS_RED(tree, Brother)
               THEN Lift(_SET_BLACK(_SET_RED(tree, tree.parent[node]), Brother), Brother)
               ELSE tree
    /\ Goto("delete", node)
    /\ UNCHANGED <<key, value, used, count, alive, freeObject, removes, fault>>

DeleteCase2 ==
    /\ pc = "delete" /\ Brother # NULL
    /\ tree' = IF _IS_RED(tree, Brother)
               THEN Lift(_SET_BLACK(_SET_RED(tree, tree.parent[node]), Brother), Brother)
               ELSE tree
    /\ Goto("sibling", node)
    /\ UNCHANGED <<key, value, used, count, alive, freeObject, removes, fault>>

\* From here on the code takes the parent's brother for the sibling.
Sibling == Uncle
SiblingIsBlack ==
    /\ pc = "sibling" /\ Sibling # NULL
    /\ {Sibling, tree.left[Sibling], tree.right[Sibling]} \cap tree.red = {}

DeleteCase3 ==
    /\ SiblingIsBlack /\ ~_IS_RED(tree, tree.parent[node])
    /\ tree' = _SET_RED(tree, Sibling)
    /\ Goto("delete", tree.parent[node])
    /\ UNCHANGED <<key, value, used, count, alive, freeObject, removes, fault>>

DeleteCase4 ==
    /\ SiblingIsBlack /\ _IS_RED(tree, tree.parent[node])
    /\ tree' = _SET_BLACK(_SET_RED(tree, Sibling), tree.parent[node])
    /\ Return
    /\ UNCHANGED <<key, value, used, count, alive, freeObject, removes, fault>>

\* _5 turns the sibling's subtree when its inner child only is red.
AfterCase5 ==
    LET isLeft == node = tree.left[tree.parent[node]]
        near == IF isLeft THEN tree.left[Sibling] ELSE tree.right[Sibling]
        far == IF isLeft THEN tree.right[Sibling] ELSE tree.left[Sibling]
    IN  IF ~_IS_RED(tree, Sibling) /\ _IS_RED(tree, near) /\ ~_IS_RED(tree, far)
        THEN Lift(_SET_BLACK(_SET_RED(tree, Sibling), near), near)
        ELSE tree

\* _6 gives the sibling the parent's colour and lifts the brother.
DeleteCase6 ==
    LET t == AfterCase5
        p == tree.parent[node]
        s == _rb_brother_node(t, p)
        coloured == IF _IS_RED(t, p) THEN _SET_RED(t, s) ELSE _SET_BLACK(t, s)
        far == IF node = t.left[p] THEN t.right[s] ELSE t.left[s]
    IN  /\ pc = "sibling" /\ Sibling # NULL /\ ~SiblingIsBlack /\ Brother # NULL
        /\ tree' = Lift(_SET_BLACK(_SET_BLACK(coloured, p), far), Brother)
        /\ Return
        /\ UNCHANGED <<key, value, used, count, alive, freeObject, removes, fault>>

\* There is no brother, or no uncle: a member of NULL is read.
NullSibling ==
    /\ \/ pc = "delete" /\ tree.parent[node] # NULL /\ Brother = NULL
       \/ pc = "sibling" /\ Sibling = NULL
       \/ pc = "sibling" /\ Sibling # NULL /\ ~SiblingIsBlack /\ Brother = NULL
    /\ fault' = TRUE
    /\ UNCHANGED <<contents, call, removes>>

-----------------------------------------------------------------------------
\* AMCDictionary_Free: every node goes, with its object or after the program
\* took it.  The next call is made with a new dictionary.
AMCDictionary_Free ==
    /\ Idle
    /\ tree' = Empty
    /\ key' = [n \in Nodes |-> NULL] /\ value' = [n \in Nodes |-> NULL]
    /\ used' = {} /\ count' = 0
    /\ alive' = alive \ {value[n] : n \in used}
    /\ UNCHANGED <<call, removes, fault>>

Working ==
    /\ ~fault
    /\ \/ InsertRoot \/ InsertBlackParent \/ InsertRedUncle \/ InsertRotate
       \/ _rb_delete_leaf \/ DeleteInner \/ DeleteReconnect
       \/ DeleteCase1 \/ DeleteCase2 \/ DeleteCase3 \/ DeleteCase4 \/ DeleteCase6
       \/ NullSibling

Next ==
    \/ Working
    \/ AMCDictionary_Free
    \/ \E k \in Keys : _rb_insert(k) \/ ReplaceObject(k) \/ \E free \in BOOLEAN : Remove(k, free)

Spec == Init /\ [][Next]_vars
\* A call that has begun goes on.
FairSpec == Spec /\ WF_vars(Working)

-----------------------------------------------------------------------------
\* The state: struct AMCDict, struct AMCDictNode, and the call under way.
TypeOK ==
    /\ tree.root \in Nodes \cup {NULL} /\ tree.red \subseteq used
    /\ \A links \in {tree.left, tree.right, tree.parent} : links \in [Nodes -> Nodes \cup {NULL}]
    /\ key \in [Nodes -> Keys \cup {NULL}]
    /\ value \in [Nodes -> Objects \cup {NULL}]
    /\ used \subseteq Nodes /\ count \in Nat /\ alive \subseteq Objects
    /\ pc \in {"idle", "insert", "remove", "delete", "sibling"} /\ node \in Nodes \cup {NULL}
    /\ freeObject \in BOOLEAN /\ removes \in 0 .. MaxRemoves /\ fault \in BOOLEAN

\* The tree holds together through every rotation and removal: a node is its
\* parent's child and its children's parent, each node the pool handed out
\* hangs in the tree and is found under its key, and count counts them.
TreeShape ==
    /\ \A n, m \in used : tree.parent[m] = n <=> m \in Children(n)
    /\ \A n \in used : tree.parent[n] = NULL <=> n = tree.root
    /\ \A n \in used : Children(n) \subseteq used \ {tree.root}
    /\ pc = "idle" => \A n \in used : _rb_find_node(key[n]) = n
    /\ count = Cardinality(used)

\* The nodes from n up to the root.
Above[n \in Nodes \cup {NULL}] == IF n = NULL THEN {} ELSE {n} \cup Above[tree.parent[n]]

\* Insertion keeps the tree balanced: the root is black, no red node has a
\* red child, and every way down passes the same number of black nodes.
\* (_rb_delete_leaf gives this up.)
RedBlackUntilRemoved ==
    pc = "idle" /\ removes = 0 =>
        /\ tree.root \notin tree.red
        /\ \A n \in tree.red : tree.parent[n] \notin tree.red
        /\ \A n, m \in {x \in used : Cardinality(Children(x)) < 2} :
              Cardinality(Above[n] \ tree.red) = Cardinality(Above[m] \ tree.red)

\* A tree that insertions alone have built stands any one removal: the cases that read a
\* member of NULL are met only after an earlier removal has left it unbalanced.
FirstRemovalSafe == fault => removes > 1

\* Between calls the dictionary owns the objects it stores and no others:
\* what a call frees or hands back is what it took out of the tree, so no
\* stored object is freed and none that left is forgotten.
ObjectsOwned == pc = "idle" => alive = {value[n] : n \in used}

\* The value GetObject returns for each key.
Stored == [k \in Keys |-> IF _rb_find_node(k) = NULL THEN NULL ELSE value[_rb_find_node(k)]]

Map == INSTANCE KeyMap WITH
    Missing <- NULL, Objects <- Objects, object <- Stored

\* Add, Set, Update, Remove, Drain and Free each change the map once and in
\* one key, and the steps of the rebalancing never change it.
ImplementsMap == Map!Spec

\* A call returns: neither rebalancing runs for ever.
CallsReturn == (pc # "idle") ~> (pc = "idle" \/ fault)
=============================================================================
