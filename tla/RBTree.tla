------------------------------- MODULE RBTree -------------------------------
(***************************************************************************)
(* The red-black tree of cpp/tree/rbTree.cpp.  A node keeps its key for      *)
(* life (remove() relinks nodes, it never copies keys), so Key is a constant  *)
(* and equal keys are several nodes.  The mirrored halves of the source are   *)
(* one definition with a side: kid[n][s] is n->left or n->right.  insert()    *)
(* and remove() link the node in one step; every round of the loops of        *)
(* insertFixUp() and removeFixUp() is a step of its own, so that the loop     *)
(* invariants can be stated.                                                *)
(***************************************************************************)
EXTENDS Naturals, Sequences, FiniteSets

CONSTANTS Nodes,  \* addresses of RBTNodes
          Key,    \* Key[n]: the key that the node at n is created with
          NULL

VARIABLES tree,       \* [root, kid, parent, color]
          allocated,  \* nodes created and not deleted
          op          \* [pc, node, parent, victim]: the locals of the fix-up loops

vars == <<tree, allocated, op>>

Sides == {"left", "right"}
Other(s) == IF s = "left" THEN "right" ELSE "left"
NoKids == [s \in Sides |-> NULL]
Idle == [pc |-> "idle", node |-> NULL, parent |-> NULL, victim |-> NULL]

TypeOK ==
    LET Ptr == Nodes \cup {NULL} IN
    /\ tree \in [root : Ptr, kid : [Nodes -> [Sides -> Ptr]], parent : [Nodes -> Ptr],
                 color : [Nodes -> {"RED", "BLACK"}]]
    /\ allocated \subseteq Nodes
    /\ op \in [pc : {"idle", "insertFixUp", "removeFixUp", "destroyed"},
               node : Ptr, parent : Ptr, victim : Ptr]

Init ==
    /\ tree = [root |-> NULL, kid |-> [n \in Nodes |-> NoKids],
               parent |-> [n \in Nodes |-> NULL], color |-> [n \in Nodes |-> "BLACK"]]
    /\ allocated = {}
    /\ op = Idle

-----------------------------------------------------------------------------
\* The helpers on a tree value t.

rb_is_red(t, n) == n # NULL /\ t.color[n] = "RED"
SideOf(t, p, x) == IF t.kid[p].left = x THEN "left" ELSE "right"
SetColor(t, n, c) == [t EXCEPT !.color[n] = c]
SetParent(t, n, p) == IF n = NULL THEN t ELSE [t EXCEPT !.parent[n] = p]

\* new takes the place that old has under p (or at the root).
Relink(t, p, old, new) ==
    IF p = NULL THEN [t EXCEPT !.root = new]
    ELSE [t EXCEPT !.kid[p][SideOf(t, p, old)] = new]

\* Mutant: the moved subtree keeps its old parent pointer.
Rotate_StaleParent(t, x, s) ==
    LET y == t.kid[x][Other(s)]
        t1 == [t EXCEPT !.kid[x][Other(s)] = t.kid[y][s], !.parent[y] = t.parent[x]]
        t2 == Relink(t1, t.parent[x], x, y)
    IN [t2 EXCEPT !.kid[y][s] = x, !.parent[x] = y]

\* leftRotate (s = "left") and rightRotate (s = "right") at x.
Rotate(t, x, s) ==
    LET y == t.kid[x][Other(s)]
        b == t.kid[y][s]
        t1 == SetParent([t EXCEPT !.kid[x][Other(s)] = b, !.parent[y] = t.parent[x]], b, x)
        t2 == Relink(t1, t.parent[x], x, y)
    IN [t2 EXCEPT !.kid[y][s] = x, !.parent[x] = y]

\* search(x, key): the highest node with the key on the search path.
search(t, key) ==
    LET S[x \in Nodes \cup {NULL}] ==
            IF x = NULL THEN NULL
            ELSE IF Key[x] = key THEN x
            ELSE S[t.kid[x][IF key < Key[x] THEN "left" ELSE "right"]]
    IN S[t.root]

\* minimum(x) (s = "left") and maximum(x) (s = "right").
Extreme(t, x, s) ==
    LET E[y \in Nodes] == IF t.kid[y][s] = NULL THEN y ELSE E[t.kid[y][s]]
    IN IF x = NULL THEN NULL ELSE E[x]

\* Mutant: without a child on that side, the parent is taken as it is.
Neighbour_OneUp(t, x, s) ==
    IF t.kid[x][s] # NULL THEN Extreme(t, t.kid[x][s], Other(s)) ELSE t.parent[x]

\* successor(x) (s = "right") and predecessor(x) (s = "left").
Neighbour(t, x, s) ==
    LET Up[y \in Nodes] ==
            LET p == t.parent[y]
            IN IF p # NULL /\ y = t.kid[p][s] THEN Up[p] ELSE p
    IN IF t.kid[x][s] # NULL THEN Extreme(t, t.kid[x][s], Other(s)) ELSE Up[x]

-----------------------------------------------------------------------------
\* insert(key): new node, descent to a leaf, link, colour red.
Insert(n) ==
    LET SideFor(x) == IF Key[n] < Key[x] THEN "left" ELSE "right"
        D[x \in Nodes] ==
            LET c == tree.kid[x][SideFor(x)] IN IF c = NULL THEN x ELSE D[c]
        y == IF tree.root = NULL THEN NULL ELSE D[tree.root]
        t == [tree EXCEPT !.parent[n] = y, !.color[n] = "RED"]
    IN /\ op.pc = "idle"
       /\ n \notin allocated
       /\ allocated' = allocated \cup {n}
       /\ tree' = IF y = NULL THEN [t EXCEPT !.root = n]
                  ELSE [t EXCEPT !.kid[y][SideFor(y)] = n]
       /\ op' = [Idle EXCEPT !.pc = "insertFixUp", !.node = n]

Parent == tree.parent[op.node]
Gparent == tree.parent[Parent]
Uncle == tree.kid[Gparent][Other(SideOf(tree, Gparent, Parent))]

\* The loop of insertFixUp() ends; the root is made black.
InsertFixEnd ==
    /\ op.pc = "insertFixUp"
    /\ ~rb_is_red(tree, Parent)
    /\ tree' = SetColor(tree, tree.root, "BLACK")
    /\ op' = Idle
    /\ UNCHANGED allocated

\* Mutant: the loop is left after recolouring, instead of going on at the grandparent.
InsertRecolour_Once ==
    /\ op.pc = "insertFixUp"
    /\ rb_is_red(tree, Parent)
    /\ rb_is_red(tree, Uncle)
    /\ tree' = [tree EXCEPT !.color[Uncle] = "BLACK", !.color[Parent] = "BLACK",
                            !.color[Gparent] = IF Gparent = tree.root THEN "BLACK" ELSE "RED"]
    /\ op' = Idle
    /\ UNCHANGED allocated

\* Case 1: red uncle.
InsertRecolour ==
    /\ op.pc = "insertFixUp"
    /\ rb_is_red(tree, Parent)
    /\ rb_is_red(tree, Uncle)
    /\ tree' = [tree EXCEPT !.color[Uncle] = "BLACK", !.color[Parent] = "BLACK",
                            !.color[Gparent] = "RED"]
    /\ op' = [op EXCEPT !.node = Gparent]
    /\ UNCHANGED allocated

\* Case 2 (the node is an inner child: rotate it outwards first) and case 3.
InsertRotate ==
    LET s == SideOf(tree, Gparent, Parent)
        inner == tree.kid[Parent][Other(s)] = op.node
        t1 == IF inner THEN Rotate(tree, Parent, s) ELSE tree
        top == IF inner THEN op.node ELSE Parent
        t2 == [t1 EXCEPT !.color[top] = "BLACK", !.color[Gparent] = "RED"]
    IN /\ op.pc = "insertFixUp"
       /\ rb_is_red(tree, Parent)
       /\ ~rb_is_red(tree, Uncle)
       /\ tree' = Rotate(t2, Gparent, Other(s))
       /\ op' = [op EXCEPT !.node = IF inner THEN Parent ELSE op.node]
       /\ UNCHANGED allocated

-----------------------------------------------------------------------------
\* "delete node": its memory is no longer part of the tree.
Erased(t, n) ==
    [t EXCEPT !.kid[n] = NoKids, !.parent[n] = NULL, !.color[n] = "BLACK"]

\* The node n is unlinked, leaving t; removeFixUp() runs if a black node is gone.
Unlinked(t, n, color, child, parent) ==
    IF color = "BLACK"
    THEN /\ tree' = t
         /\ op' = [pc |-> "removeFixUp", node |-> child, parent |-> parent, victim |-> n]
         /\ UNCHANGED allocated
    ELSE /\ tree' = Erased(t, n)
         /\ allocated' = allocated \ {n}
         /\ UNCHANGED op

\* remove(node), at most one child: the child takes its place.
RemoveOne(n) ==
    LET child == IF tree.kid[n].left # NULL THEN tree.kid[n].left ELSE tree.kid[n].right
        parent == tree.parent[n]
    IN /\ op.pc = "idle"
       /\ \E s \in Sides : tree.kid[n][s] = NULL
       /\ Unlinked(Relink(SetParent(tree, child, parent), parent, n, child),
                   n, tree.color[n], child, parent)

\* The in-order successor r of n, with its parent rp, takes n's place and colour.
Replaced(t, n, r, rp) ==
    LET t1 == Relink(t, t.parent[n], n, r)
        t2 == IF rp = n THEN t1
              ELSE [SetParent(t1, t.kid[r].right, rp) EXCEPT
                      !.kid[rp].left = t.kid[r].right,
                      !.kid[r].right = t.kid[n].right,
                      !.parent[t.kid[n].right] = r]
    IN [t2 EXCEPT !.parent[r] = t.parent[n], !.color[r] = t.color[n],
                  !.kid[r].left = t.kid[n].left, !.parent[t.kid[n].left] = r]

\* Mutant: the colour tested for the fix-up is the removed node's, not its successor's.
RemoveTwo_Color(n) ==
    LET r == Extreme(tree, tree.kid[n].right, "left")
        rp == tree.parent[r]
    IN /\ op.pc = "idle"
       /\ \A s \in Sides : tree.kid[n][s] # NULL
       /\ Unlinked(Replaced(tree, n, r, rp), n, tree.color[n], tree.kid[r].right,
                   IF rp = n THEN r ELSE rp)

\* remove(node), two children.
RemoveTwo(n) ==
    LET r == Extreme(tree, tree.kid[n].right, "left")
        rp == tree.parent[r]
    IN /\ op.pc = "idle"
       /\ \A s \in Sides : tree.kid[n][s] # NULL
       /\ Unlinked(Replaced(tree, n, r, rp), n, tree.color[r], tree.kid[r].right,
                   IF rp = n THEN r ELSE rp)

\* The loop of removeFixUp() ends: "if (node) rb_set_black(node)", then "delete node".
RemoveFixEnd ==
    /\ op.pc = "removeFixUp"
    /\ rb_is_red(tree, op.node) \/ op.node = tree.root
    /\ tree' = Erased(IF op.node = NULL THEN tree ELSE SetColor(tree, op.node, "BLACK"),
                      op.victim)
    /\ allocated' = allocated \ {op.victim}
    /\ op' = Idle

FixSide == SideOf(tree, op.parent, op.node)

\* Case 1 (red sibling: rotate it above the parent), the start of every round.
BlackSibling ==
    LET other == tree.kid[op.parent][Other(FixSide)]
    IN IF rb_is_red(tree, other)
       THEN Rotate([tree EXCEPT !.color[other] = "BLACK", !.color[op.parent] = "RED"],
                   op.parent, FixSide)
       ELSE tree

InRemoveFix ==
    op.pc = "removeFixUp" /\ ~rb_is_red(tree, op.node) /\ op.node # tree.root

\* Case 2: both children of the sibling are black; go on one level up.
RemoveRecolour ==
    LET t == BlackSibling
        other == t.kid[op.parent][Other(FixSide)]
    IN /\ InRemoveFix
       /\ \A s \in Sides : ~rb_is_red(t, t.kid[other][s])
       /\ tree' = SetColor(t, other, "RED")
       /\ op' = [op EXCEPT !.node = op.parent, !.parent = t.parent[op.parent]]
       /\ UNCHANGED allocated

\* Cases 3 (the outer child is black: rotate the inner one up) and 4, which ends the
\* loop with node = root.
RemoveRotate ==
    LET s == FixSide
        o == Other(s)
        t == BlackSibling
        other == t.kid[op.parent][o]
        t3 == IF rb_is_red(t, t.kid[other][o]) THEN t
              ELSE Rotate([t EXCEPT !.color[t.kid[other][s]] = "BLACK",
                                    !.color[other] = "RED"], other, o)
        w == t3.kid[op.parent][o]
        t4 == Rotate([t3 EXCEPT !.color[w] = t3.color[op.parent],
                                !.color[op.parent] = "BLACK",
                                !.color[t3.kid[w][o]] = "BLACK"], op.parent, s)
    IN /\ InRemoveFix
       /\ \E side \in Sides : rb_is_red(t, t.kid[other][side])
       /\ tree' = t4
       /\ op' = [op EXCEPT !.node = t4.root]
       /\ UNCHANGED allocated

\* destroy(): the recursion follows left children (right ones where there is no left
\* one) to a leaf, deletes it and returns.
Destroy ==
    LET Leaf[x \in Nodes] ==
            IF tree.kid[x].left # NULL THEN Leaf[tree.kid[x].left]
            ELSE IF tree.kid[x].right # NULL THEN Leaf[tree.kid[x].right] ELSE x
        n == Leaf[tree.root]
    IN /\ op.pc = "idle"
       /\ op' = [Idle EXCEPT !.pc = "destroyed"]
       /\ IF tree.root = NULL THEN UNCHANGED <<tree, allocated>>
          ELSE /\ tree' = Erased(Relink(tree, tree.parent[n], n, NULL), n)
               /\ allocated' = allocated \ {n}

Terminated == op.pc = "destroyed" /\ UNCHANGED vars

FixUp ==
    InsertFixEnd \/ InsertRecolour \/ InsertRotate
    \/ RemoveFixEnd \/ RemoveRecolour \/ RemoveRotate

Next ==
    \/ \E n \in Nodes : Insert(n)
    \/ \E k \in {Key[n] : n \in Nodes} :
          LET n == search(tree, k) IN n # NULL /\ (RemoveOne(n) \/ RemoveTwo(n))
    \/ FixUp
    \/ Destroy
    \/ Terminated

Spec == Init /\ [][Next]_vars

-----------------------------------------------------------------------------
\* The nodes below n, n included (by levels, so that it is defined for any links).
Sub(t, n) ==
    LET Kids(S) == UNION {{t.kid[x][s] : s \in Sides} : x \in S} \ {NULL}
        L[d \in 0 .. Cardinality(Nodes)] ==
            IF d = 0 THEN {n} \ {NULL} ELSE LET S == L[d - 1] IN S \cup Kids(S)
    IN L[Cardinality(Nodes)]

Members == allocated \ {op.victim}

\* Links and order: every member is reached from the root, exactly by the links that
\* its parent pointer mirrors, and keys are in search-tree order.
Linked ==
    /\ Sub(tree, tree.root) = Members
    /\ tree.root # NULL => tree.parent[tree.root] = NULL
    /\ \A n \in Members, s \in Sides :
          LET c == tree.kid[n][s] IN
          c # NULL => /\ tree.parent[c] = n
                      /\ tree.kid[n][Other(s)] # c
                      /\ \A m \in Sub(tree, c) :
                            IF s = "left" THEN Key[m] <= Key[n] ELSE Key[n] <= Key[m]

\* The black nodes from the root to the empty place below n on side s, counting one
\* more where removeFixUp() still owes one: under its node.
BlackDepth(n, s) ==
    LET path == {m \in Members : n \in Sub(tree, m)}
        owed == /\ op.pc = "removeFixUp"
                /\ op.node \in path \/ (op.node = NULL /\ op.parent = n /\ FixSide = s)
    IN Cardinality({m \in path : tree.color[m] = "BLACK"}) + (IF owed THEN 1 ELSE 0)

\* All paths have the same number of black nodes, at every moment; a red node has a
\* red parent, or is the root, only where the loop that runs will put it right.
Balanced ==
    /\ LET ends == {e \in Members \X Sides : tree.kid[e[1]][e[2]] = NULL}
       IN Cardinality({BlackDepth(e[1], e[2]) : e \in ends}) <= 1
    /\ \A n \in Members :
          /\ rb_is_red(tree, n)
          /\ tree.parent[n] = NULL \/ rb_is_red(tree, tree.parent[n])
          => \/ op.pc # "idle" /\ op.node = n
             \/ op.pc = "removeFixUp" /\ op.node = tree.parent[n]

\* The rounds never follow a null pointer: a red parent has a parent, and a node that
\* lacks a black one has a sibling.
NoNullDereference ==
    /\ op.pc = "insertFixUp" /\ rb_is_red(tree, Parent) => Gparent # NULL
    /\ InRemoveFix => op.parent # NULL /\ tree.kid[op.parent][Other(FixSide)] # NULL

RedBlack == op.pc # "destroyed" => Linked /\ Balanced /\ NoNullDereference

InOrder(t) ==
    LET I[x \in Nodes \cup {NULL}] ==
            IF x = NULL THEN <<>> ELSE I[t.kid[x].left] \o <<x>> \o I[t.kid[x].right]
    IN I[t.root]
PreOrder(t) ==
    LET P[x \in Nodes \cup {NULL}] ==
            IF x = NULL THEN <<>> ELSE <<x>> \o P[t.kid[x].left] \o P[t.kid[x].right]
    IN P[t.root]
PostOrder(t) ==
    LET P[x \in Nodes \cup {NULL}] ==
            IF x = NULL THEN <<>> ELSE P[t.kid[x].left] \o P[t.kid[x].right] \o <<x>>
    IN P[t.root]

\* The lines of print(): a key, its colour, the key above and the side; the root's line
\* always says black.
Printed(t) ==
    LET Line(x, key, side) == <<Key[x], IF side = "root" THEN "BLACK" ELSE t.color[x], key, side>>
        P[x \in Nodes \cup {NULL}, key \in {Key[n] : n \in Nodes}, side \in {"root", "left", "right"}] ==
            IF x = NULL THEN <<>>
            ELSE <<Line(x, key, side)>> \o P[t.kid[x].left, Key[x], "left"] \o P[t.kid[x].right, Key[x], "right"]
    IN IF t.root = NULL THEN <<>> ELSE P[t.root, Key[t.root], "root"]

\* At rest, minimum, maximum, search, successor and predecessor agree with the sorted
\* sequence of the members; the other two orders put a node before or after its children;
\* print() shows every node once, with its own colour, its parent's key and its side.
QueriesExact ==
    LET order == InOrder(tree)
        Before(s, m, n) == \E i, j \in DOMAIN s : i < j /\ s[i] = m /\ s[j] = n
        Above(n) == tree.parent[n]
        lines == Printed(tree)
        At(i) == IF i \in DOMAIN order THEN order[i] ELSE NULL
    IN op.pc = "idle" =>
          /\ Extreme(tree, tree.root, "left") = At(1)
          /\ Extreme(tree, tree.root, "right") = At(Len(order))
          /\ \A i \in DOMAIN order : /\ Neighbour(tree, order[i], "right") = At(i + 1)
                                     /\ Neighbour(tree, order[i], "left") = At(i - 1)
          /\ \A n \in Nodes :
                LET f == search(tree, Key[n])
                IN IF \E m \in Members : Key[m] = Key[n]
                   THEN f \in Members /\ Key[f] = Key[n] ELSE f = NULL
          /\ \A n \in {Len(PreOrder(tree)), Len(PostOrder(tree)), Len(lines)} : n = Cardinality(Members)
          /\ \A n \in Members : Above(n) # NULL => /\ Before(PreOrder(tree), Above(n), n)
                                                /\ Before(PostOrder(tree), n, Above(n))
          /\ {lines[i] : i \in DOMAIN lines} =
                {<<Key[n], tree.color[n], Key[IF Above(n) = NULL THEN n ELSE Above(n)],
                   IF Above(n) = NULL THEN "root" ELSE SideOf(tree, Above(n), n)>> : n \in Members}

=============================================================================
