--------------------------------- MODULE Bst ---------------------------------
(***************************************************************************)
(* The search tree of lib/bst.c, which the scheduler keeps its task queue  *)
(* in, with the nodes malloc gave for it.                                  *)
(*                                                                         *)
(* A tree is NULL or a node: the cell it occupies, its key, its data and   *)
(* two subtrees.  Scheduler takes the tree as a function from keys to data *)
(* that is visited in the order of the keys; this module justifies it.     *)
(***************************************************************************)
EXTENDS Integers, Sequences, FiniteSets

CONSTANTS
    Null,           \* the NULL pointer
    Keys,           \* task ids
    Data,           \* tasks
    Cells           \* heap cells for bst_node_t

Node(c, k, d, l, r) ==
    [cell |-> c, key |-> k, data |-> d, left |-> l, right |-> r]

\* The nodes over such subtrees, and the trees of at most n levels.  A tree of
\* the program has another key at each level of a path.
NodesOver(S) == [cell : Cells, key : Keys, data : Data, left : S, right : S]
Levels[n \in Nat] ==
    IF n = 0 THEN {Null} ELSE {Null} \cup NodesOver(Levels[n - 1])
Tree == Levels[Cardinality(Keys) + 1]

ASSUME BstAssumption ==
    /\ Keys \subseteq Int /\ IsFiniteSet(Keys) /\ IsFiniteSet(Cells)
    /\ Null \notin NodesOver(Tree)
    /\ Cardinality(Cells) > Cardinality(Keys)

VARIABLES
    root,           \* the tree
    cells           \* allocated cells

vars == <<root, cells>>

\* Mutant: a node with an equal key keeps its data.
InsertOnce(s, c, k, d) ==
    LET ins[t \in Tree] ==
            IF t = Null THEN Node(c, k, d, Null, Null)
            ELSE IF k < t.key THEN [t EXCEPT !.left = ins[t.left]]
            ELSE IF k > t.key THEN [t EXCEPT !.right = ins[t.right]]
            ELSE t
    IN  ins[s]

\* bst_insert; c is the cell malloc gives if the key is not in the tree.
Insert(s, c, k, d) ==
    LET ins[t \in Tree] ==
            IF t = Null THEN Node(c, k, d, Null, Null)
            ELSE IF k < t.key THEN [t EXCEPT !.left = ins[t.left]]
            ELSE IF k > t.key THEN [t EXCEPT !.right = ins[t.right]]
            ELSE [t EXCEPT !.data = d]
    IN  ins[s]

FindMin(s) ==
    LET min[t \in Tree] ==
            IF t = Null THEN Null ELSE IF t.left = Null THEN t ELSE min[t.left]
    IN  min[s]

Find(s, k) ==
    LET find[t \in Tree] ==
            IF t = Null THEN Null
            ELSE IF k < t.key THEN find[t.left]
            ELSE IF k > t.key THEN find[t.right]
            ELSE t
    IN  find[s]

\* bst_delete: the tree it returns.  A node with two children takes over the
\* key and the data of its successor, which is deleted below it.
Delete(s, x) ==
    LET del[t \in Tree] ==
            [k \in Keys |->
                IF t = Null THEN Null
                ELSE IF k < t.key THEN [t EXCEPT !.left = del[t.left][k]]
                ELSE IF k > t.key THEN [t EXCEPT !.right = del[t.right][k]]
                ELSE IF t.left = Null THEN t.right
                ELSE IF t.right = Null THEN t.left
                ELSE LET m == FindMin(t.right) IN
                     Node(t.cell, m.key, m.data, t.left, del[t.right][m.key])]
    IN  del[s][x]

\* Mutant: the node that held the key is freed, whatever its children.
FreedHere(s, x) == LET n == Find(s, x) IN IF n = Null THEN {} ELSE {n.cell}

\* bst_delete: the cells it frees.
Freed(s, x) ==
    LET freed[t \in Tree] ==
            [k \in Keys |->
                IF t = Null THEN {}
                ELSE IF k < t.key THEN freed[t.left][k]
                ELSE IF k > t.key THEN freed[t.right][k]
                ELSE IF Null \in {t.left, t.right} THEN {t.cell}
                ELSE freed[t.right][FindMin(t.right).key]]
    IN  freed[s][x]

\* Mutant: the node before its left subtree.
VisitedFirst(s) ==
    LET visited[t \in Tree] ==
            IF t = Null THEN <<>>
            ELSE <<t>> \o visited[t.left] \o visited[t.right]
    IN  visited[s]

\* bst_for_each: the nodes the callback is called on, in order.
Visited(s) ==
    LET visited[t \in Tree] ==
            IF t = Null THEN <<>> ELSE visited[t.left] \o <<t>> \o visited[t.right]
    IN  visited[s]

Init == root = Null /\ cells = {}

BstInsert(k, d) ==
    \E c \in Cells \ cells :
        /\ root' = Insert(root, c, k, d)
        /\ cells' = IF Find(root, k) = Null THEN cells \cup {c} ELSE cells

BstDelete(k) ==
    /\ root' = Delete(root, k)
    /\ cells' = cells \ Freed(root, k)

Next == \E k \in Keys : BstDelete(k) \/ \E d \in Data : BstInsert(k, d)

Spec == Init /\ [][Next]_vars

-----------------------------------------------------------------------------
(***************************************************************************)
(* Properties, in terms of the nodes that can be reached from the root.    *)
(***************************************************************************)

Nodes(s) ==
    LET nodes[t \in Tree] ==
            IF t = Null THEN {} ELSE {t} \cup nodes[t.left] \cup nodes[t.right]
    IN  nodes[s]

KeysIn(t) == {n.key : n \in Nodes(t)}
Contents(t) == [k \in KeysIn(t) |-> (CHOOSE n \in Nodes(t) : n.key = k).data]

\* An insertion replaces or adds one entry and a deletion removes one, or none
\* if the key is absent; every other entry keeps its data (bst_insert,
\* bst_delete: what Inserted and Removed of Scheduler say of task_queue).
UpdatesOneEntry ==
    \A k \in Keys :
        /\ Contents(Delete(root, k)) =
                [j \in KeysIn(root) \ {k} |-> Contents(root)[j]]
        /\ \A d \in Data, c \in Cells \ cells :
            Contents(Insert(root, c, k, d)) =
                [j \in KeysIn(root) \cup {k} |->
                    IF j = k THEN d ELSE Contents(root)[j]]

\* The two ways the code looks at a tree agree, whatever deletions moved: a
\* lookup, which follows one path from the root (bst_find), finds exactly the
\* entries there are, and bst_for_each visits each once, in the order of the keys.
ViewsAgree ==
    LET v == Visited(root) IN
    /\ \A k \in Keys :
        IF k \in KeysIn(root)
        THEN Find(root, k) # Null /\ Find(root, k).key = k
        ELSE Find(root, k) = Null
    /\ \A i, j \in DOMAIN v : i < j => v[i].key < v[j].key
    /\ {v[i].key : i \in DOMAIN v} = KeysIn(root)

\* Every allocated node is in the tree and no node of the tree is freed, also
\* when a deletion copies the successor and frees its node (bst_delete).
NoLeakNoDangling ==
    /\ cells = {n.cell : n \in Nodes(root)}
    /\ Cardinality(cells) = Cardinality(KeysIn(root))

=============================================================================
