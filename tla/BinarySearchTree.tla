-------------------------- MODULE BinarySearchTree --------------------------
(***************************************************************************)
(* The binary search tree of cpp/tree/bst.cpp.  Equal values are refused and *)
(* a node keeps its value for life (deleteNode relinks nodes), so a node is    *)
(* named by its data.  There are no parent pointers: parent() searches.        *)
(***************************************************************************)
EXTENDS Naturals, Sequences, FiniteSets

CONSTANTS Data, NULL

VARIABLES Root, lchild, rchild, size,
          alive,  \* nodes created and not deleted
          q,      \* the destructor's queue
          pc      \* "running", "destroying", "done" or "crashed"

vars == <<Root, lchild, rchild, size, alive, q, pc>>

Ptr == Data \cup {NULL}
NoChild == [d \in Data |-> NULL]

TypeOK ==
    /\ Root \in Ptr /\ lchild \in [Data -> Ptr] /\ rchild \in [Data -> Ptr]
    /\ size \in Nat /\ alive \subseteq Data /\ q \in Seq(Data)
    /\ pc \in {"running", "destroying", "done", "crashed"}

Init ==
    /\ Root = NULL /\ lchild = NoChild /\ rchild = NoChild /\ size = 0
    /\ alive = {} /\ q = <<>> /\ pc = "running"

-----------------------------------------------------------------------------
Toward(d, x) == IF d < x THEN lchild[x] ELSE rchild[x]

search(d) ==
    LET S[x \in Ptr] == IF x = NULL THEN FALSE ELSE x = d \/ S[Toward(d, x)]
    IN S[Root]

\* The order in which the stack-based loops of traverse(), leaf(), predecessor() and
\* successor() visit the nodes.
InOrder ==
    LET I[x \in Ptr] == IF x = NULL THEN <<>> ELSE I[lchild[x]] \o <<x>> \o I[rchild[x]]
    IN I[Root]

\* parent(data): NULL for the root and for a value that is not in the tree.
parent(d) ==
    IF \E x \in alive : d \in {lchild[x], rchild[x]}
    THEN CHOOSE x \in alive : d \in {lchild[x], rchild[x]} ELSE NULL

\* The node visited before d; the last one if d is not there.
predecessor(d) ==
    LET before == SelectSeq(InOrder, LAMBDA x : ~search(d) \/ x < d)
    IN IF before = <<>> THEN NULL ELSE before[Len(before)]

leaf == Cardinality({x \in {InOrder[i] : i \in DOMAIN InOrder} :
                        lchild[x] = NULL /\ rchild[x] = NULL})

Extreme(child) ==
    LET E[x \in Data] == IF child[x] = NULL THEN x ELSE E[child[x]]
    IN IF Root = NULL THEN NULL ELSE E[Root]
minimum == Extreme(lchild)
maximum == Extreme(rchild)

-----------------------------------------------------------------------------
\* insertNode(data) for a value that is not there (otherwise it returns false).
InsertNode(d) ==
    LET D[x \in Data] == IF Toward(d, x) = NULL THEN x ELSE D[Toward(d, x)]
        p == D[Root]
    IN /\ pc = "running"
       /\ ~search(d)
       /\ IF Root = NULL THEN Root' = d /\ UNCHANGED <<lchild, rchild>>
          ELSE /\ IF d < p THEN lchild' = [lchild EXCEPT ![p] = d] /\ UNCHANGED rchild
                  ELSE rchild' = [rchild EXCEPT ![p] = d] /\ UNCHANGED lchild
               /\ UNCHANGED Root
       /\ alive' = alive \cup {d}
       /\ size' = size + 1
       /\ UNCHANGED <<q, pc>>

\* The replacement of p in deleteNode: the last node of its left subtree, unlinked from
\* its own parent tempp and given p's children, or else p's right child.
LastOf(p) ==
    LET E[x \in Data] == IF rchild[x] = NULL THEN x ELSE E[rchild[x]] IN E[lchild[p]]

\* Mutant: the replacement's left subtree is dropped.
Spliced_Drops(p, temp) ==
    IF lchild[p] = NULL THEN <<lchild, rchild>>
    ELSE LET tempp == IF temp = lchild[p] THEN p ELSE parent(temp)
             l == IF tempp = p THEN lchild[temp] ELSE lchild[p]
             r == IF tempp = p THEN rchild ELSE [rchild EXCEPT ![tempp] = NULL]
         IN <<[lchild EXCEPT ![temp] = l], [r EXCEPT ![temp] = rchild[p]]>>

\* The children after the replacement temp is unlinked and inherits p's children.
Spliced(p, temp) ==
    IF lchild[p] = NULL THEN <<lchild, rchild>>
    ELSE LET tempp == IF temp = lchild[p] THEN p ELSE parent(temp)
             l == IF tempp = p THEN lchild[temp] ELSE lchild[p]
             r == IF tempp = p THEN rchild ELSE [rchild EXCEPT ![tempp] = lchild[temp]]
         IN <<[lchild EXCEPT ![temp] = l], [r EXCEPT ![temp] = rchild[p]]>>

\* deleteNode(data), the value has a parent.
DeleteNode(p) ==
    LET Parent == parent(p)
        temp == IF lchild[p] = NULL THEN rchild[p] ELSE LastOf(p)
        l == Spliced(p, temp)[1]
        r == Spliced(p, temp)[2]
    IN /\ pc = "running"
       /\ search(p)
       /\ Parent # NULL
       /\ IF lchild[Parent] = p
          THEN /\ lchild' = [l EXCEPT ![Parent] = temp, ![p] = NULL]
               /\ rchild' = [r EXCEPT ![p] = NULL]
          ELSE /\ lchild' = [l EXCEPT ![p] = NULL]
               /\ rchild' = [r EXCEPT ![Parent] = temp, ![p] = NULL]
       /\ alive' = alive \ {p}
       /\ size' = size - 1
       /\ UNCHANGED <<Root, q, pc>>

\* deleteNode(data) of the root: Parent is NULL and Parent->lchild is read at once.
DeleteRoot(p) ==
    /\ pc = "running"
    /\ search(p)
    /\ parent(p) = NULL
    /\ pc' = "crashed"
    /\ UNCHANGED <<Root, lchild, rchild, size, alive, q>>

\* ~BinarySearchTree().
Destroy ==
    /\ pc = "running"
    /\ IF Root = NULL THEN pc' = "done" /\ UNCHANGED q
       ELSE pc' = "destroying" /\ q' = <<Root>>
    /\ UNCHANGED <<Root, lchild, rchild, size, alive>>

\* q.push() of a child that is there.
Pushed(s, c) == IF c = NULL THEN s ELSE Append(s, c)

\* Mutant: the left child is pushed only where there is no right one.
DestroyStep_One ==
    /\ pc = "destroying"
    /\ q # <<>>
    /\ LET p == Head(q)
       IN /\ q' = Pushed(Tail(q), IF rchild[p] = NULL THEN lchild[p] ELSE rchild[p])
          /\ alive' = alive \ {p}
    /\ UNCHANGED <<Root, lchild, rchild, size, pc>>

\* One round of its loop: both children are queued, the node is deleted.
DestroyStep ==
    /\ pc = "destroying"
    /\ q # <<>>
    /\ LET p == Head(q)
       IN /\ q' = Pushed(Pushed(Tail(q), lchild[p]), rchild[p])
          /\ alive' = alive \ {p}
    /\ UNCHANGED <<Root, lchild, rchild, size, pc>>

DestroyEnd ==
    /\ pc = "destroying"
    /\ q = <<>>
    /\ pc' = "done"
    /\ UNCHANGED <<Root, lchild, rchild, size, alive, q>>

Terminated == pc \in {"done", "crashed"} /\ UNCHANGED vars

Next ==
    \/ \E d \in Data : InsertNode(d) \/ DeleteNode(d) \/ DeleteRoot(d)
    \/ Destroy \/ DestroyStep \/ DestroyEnd
    \/ Terminated

Spec == Init /\ [][Next]_vars

-----------------------------------------------------------------------------
\* While it runs, the traversal visits exactly the inserted and not deleted values, in
\* strictly increasing order, size counts them, and every value is found by search().
Sorted ==
    pc = "running" =>
       /\ \A i, j \in DOMAIN InOrder : i < j => InOrder[i] < InOrder[j]
       /\ {InOrder[i] : i \in DOMAIN InOrder} = alive
       /\ size = Cardinality(alive)
       /\ \A d \in Data : search(d) <=> d \in alive

\* The destructor never reads a node it has deleted and leaves none behind.
DestroysAllOnce ==
    /\ pc = "destroying" => \A i \in DOMAIN q : q[i] \in alive
    /\ \A i, j \in DOMAIN q : i # j => q[i] # q[j]
    /\ pc = "done" => alive = {}

\* minimum, maximum and predecessor are those of the set of values, and a tree has one
\* leaf more than nodes with two children.
QueriesExact ==
    LET Least(S) == IF S = {} THEN NULL ELSE CHOOSE x \in S : \A y \in S : x <= y
        Greatest(S) == IF S = {} THEN NULL ELSE CHOOSE x \in S : \A y \in S : y <= x
    IN pc = "running" =>
         /\ minimum = Least(alive)
         /\ maximum = Greatest(alive)
         /\ \A d \in alive : predecessor(d) = Greatest({x \in alive : x < d})
         /\ alive # {} =>
              leaf = 1 + Cardinality({x \in alive : NULL \notin {lchild[x], rchild[x]}})

\* deleteNode() handles the root ("Parent == NULL  //the node to delete is the root").
DeleteReturns == pc # "crashed"

=============================================================================
