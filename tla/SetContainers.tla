--------------------------- MODULE SetContainers ----------------------------
(***************************************************************************)
(* Containers that stand for sets and bags and are built by recursion.     *)
(* Each section is one program; the variables are those of the program in  *)
(* use.                                                                    *)
(***************************************************************************)
EXTENDS Integers, Sequences, FiniteSets, CArrays, FiniteSetsExt

CONSTANTS HashKeys, hashsize    \* the keys used; the table sizes, in order
CONSTANTS TrieWords, TrieMax   \* words used; bound on the words in the trie
CONSTANTS AVLKeys     \* the keys are 1 .. AVLKeys

VARIABLES obj, held, ret

-----------------------------------------------------------------------------
\* The open-addressing table of src/cpp/stl/myHash.cpp: linear probing, a
\* tag per slot (0 never used, 1 a key, -1 deleted) and a larger table when a
\* key collides half the table long.
\*
\* As the code stands the key that triggers recreateHash() is not stored
\* itself, and SearchHash() does not return when no slot has tag 0 and the
\* key is absent: such a call is a call without a step here.
\*   obj: [rcd, tag, count, index]
\*   held: the set of keys stored
\*   ret: the status of the last call, beside the expected one

SUCCESS == 1
UNSUCCESS == 0

InitHashTable(size_, index) ==
    [rcd |-> [i \in 0 .. size_ - 1 |-> 0], tag |-> [i \in 0 .. size_ - 1 |-> 0],
     count |-> 0, index |-> index]
Size(H) == Cardinality(DOMAIN H.tag)

\* main() starts with the first size.
HashInit ==
    /\ obj = InitHashTable(hashsize[1], 1)
    /\ held = {}
    /\ ret = <<UNSUCCESS, UNSUCCESS>>

Hash(key, m) == (3 * key) % m
collision(p, m) == (p + 1) % m

\* The slot at which probing for a key stops, with the number of collisions c.
Stops(H, key, p) == H.tag[p] = 0 \/ (H.tag[p] = 1 /\ H.rcd[p] = key)
ProbesFrom(H, key) ==
    LET probe[c \in 0 .. Size(H) - 1] ==
            IF c = 0 THEN Hash(key, Size(H)) ELSE LET p == probe[c - 1] IN collision(p, Size(H))
    IN  probe
Returns(H, key) == \E p \in DOMAIN H.tag : Stops(H, key, p)
SearchHash(H, key) ==
    LET probe == ProbesFrom(H, key)
        c == CHOOSE c \in DOMAIN probe :
                /\ Stops(H, key, probe[c])
                /\ \A d \in 0 .. c - 1 : ~ Stops(H, key, probe[d])
    IN  [p |-> probe[c], c |-> c,
         status |-> IF H.tag[probe[c]] = 1 THEN SUCCESS ELSE UNSUCCESS]

\* InsertHash() and recreateHash() call each other.
RECURSIVE InsertHash(_, _)
recreateHash(H) ==
    For(InitHashTable(hashsize[H.index + 1], H.index + 1), Up(0, Size(H) - 1),
        LAMBDA new, i : IF H.tag[i] = 1 THEN InsertHash(new, H.rcd[i]).H ELSE new)
InsertHash(H, key) ==
    LET at == SearchHash(H, key)
    IN  CASE at.status = UNSUCCESS /\ 2 * at.c < Size(H) ->
                [H |-> [H EXCEPT !.rcd[at.p] = key, !.tag[at.p] = 1, !.count = @ + 1],
                 status |-> SUCCESS]
          [] at.status = UNSUCCESS /\ 2 * at.c >= Size(H) ->
                [H |-> recreateHash(H), status |-> UNSUCCESS]
          [] OTHER -> [H |-> H, status |-> UNSUCCESS]

DeleteHash_Frees(H, key) ==
    LET at == SearchHash(H, key)
    IN  IF at.status = SUCCESS
        THEN [H EXCEPT !.tag[at.p] = 0, !.count = @ - 1] ELSE H
DeleteHash(H, key) ==
    LET at == SearchHash(H, key)
    IN  IF at.status = SUCCESS
        THEN [H EXCEPT !.tag[at.p] = -1, !.count = @ - 1] ELSE H

HashInsert(key) ==
    LET r == InsertHash(obj, key)
    IN  /\ Returns(obj, key)
        /\ LET at == SearchHash(obj, key)          \* bound: a next table size exists
           IN  at.status = UNSUCCESS /\ 2 * at.c >= Size(obj) => obj.index < Len(hashsize)
        /\ obj' = r.H
        /\ held' = IF r.status = SUCCESS THEN held \cup {key} ELSE held
        /\ ret' = <<r.status, IF key \notin held /\ r.H.index = obj.index THEN SUCCESS
                                                                 ELSE UNSUCCESS>>
HashDelete(key) ==
    /\ Returns(obj, key)
    /\ obj' = DeleteHash(obj, key)
    /\ held' = held \ {key}
    /\ ret' = <<SearchHash(obj, key).status, IF key \in held THEN SUCCESS ELSE UNSUCCESS>>

HashNext == \E key \in HashKeys : HashInsert(key) \/ HashDelete(key)

\* After any insertions, deletions and growth every stored key is found where probing for
\* it stops and in no second slot, count is their number, and the statuses were right.
HashSound ==
    /\ \A key \in held : SearchHash(obj, key).status = SUCCESS
    /\ LET full == {p \in DOMAIN obj.tag : obj.tag[p] = 1}
       IN  /\ {obj.rcd[p] : p \in full} = held
           /\ Cardinality(full) = Cardinality(held) /\ obj.count = Cardinality(held)
    /\ ret[1] = ret[2]

-----------------------------------------------------------------------------
\* The trie of src/cpp/race/Trie.cpp.  A node is named by the path that leads
\* to it from the root; next[x] # NULL is the presence of the longer path.
\* cnt counts the words that pass through a node.
\*   obj: path -> cnt for the nodes reachable from the root
\*   held: word -> how often it was inserted and not deleted
\*   ret: the last Search(): number found, number expected

Root == <<>>
Prefixes(w) == {SubSeq(w, 1, k) : k \in 1 .. Len(w)}
IsPrefixOf(p, w) == Len(p) <= Len(w) /\ SubSeq(w, 1, Len(p)) = p

TrieInit ==
    /\ obj = [p \in {Root} |-> 0]
    /\ held = [w \in TrieWords |-> 0]
    /\ ret = <<0, 0>>

TrieInsert(word) ==
    /\ SumFunction(held) < TrieMax
    /\ obj' = [p \in DOMAIN obj \cup Prefixes(word) |->
                  (IF p \in DOMAIN obj THEN obj[p] ELSE 0)
                     + (IF p \in Prefixes(word) THEN 1 ELSE 0)]
    /\ held' = [held EXCEPT ![word] = @ + 1]
    /\ UNCHANGED ret

Search(word) == IF word \in DOMAIN obj THEN obj[word] ELSE 0
Expected(word) == SumFunction([w \in {w \in TrieWords : IsPrefixOf(word, w)} |-> held[w]])

Query(word) == ret' = <<Search(word), Expected(word)>> /\ UNCHANGED <<obj, held>>

\* t words less along the path, and the last node loses its children.
Cut_OneLess(word, t) ==
    [p \in {p \in DOMAIN obj : ~ IsPrefixOf(word, p) \/ p = word} |->
        IF p \in Prefixes(word) THEN obj[p] - 1 ELSE obj[p]]
Cut(word, t) ==
    [p \in {p \in DOMAIN obj : ~ IsPrefixOf(word, p) \/ p = word} |->
        IF p \in Prefixes(word) THEN obj[p] - t ELSE obj[p]]

\* main()'s deletion: of all words that start with the given one.
TrieDelete(word) ==
    /\ Search(word) # 0
    /\ obj' = Cut(word, Search(word))
    /\ held' = [w \in TrieWords |-> IF IsPrefixOf(word, w) THEN 0 ELSE held[w]]
    /\ UNCHANGED ret

TrieNext == \E word \in TrieWords : TrieInsert(word) \/ Query(word) \/ TrieDelete(word)

\* Search() counts the words with the given prefix, whatever was inserted and deleted
\* before, and no counter goes below zero.
TrieSound ==
    /\ \A w \in TrieWords : \A p \in Prefixes(w) : Search(p) = Expected(p)
    /\ \A p \in DOMAIN obj : obj[p] >= 0
    /\ ret[1] = ret[2]

-----------------------------------------------------------------------------
\* The AVL tree of cpp/tree/avl2.cpp.  insert_real and erase_real are
\* recursive functions that return the new root of a subtree; a subtree is a
\* value here, Nil (nullptr) or a record.  erase_real copies the successor's
\* key and erases the successor, so nodes have no identity of their own.
\*   obj: header->left
\*   held: the keys that were inserted and not erased

Nil == [height |-> 0]
IsNil(t) == t.height = 0
Node(k, h, l, r) == [key |-> k, height |-> h, left |-> l, right |-> r]

AvlInit == obj = Nil /\ held = {} /\ ret = 0

-----------------------------------------------------------------------------
get_height(t) == t.height
get_balance(t) == IF IsNil(t) THEN 0 ELSE get_height(t.left) - get_height(t.right)

\* Mutant: the height is that of the left subtree plus one.
Updated_Left(t) == [t EXCEPT !.height = get_height(t.left) + 1]

\* "node->height = max(...) + 1".
Updated(t) == [t EXCEPT !.height = Max({get_height(t.left), get_height(t.right)}) + 1]

ll_rotate(y) == Updated([y.left EXCEPT !.right = Updated([y EXCEPT !.left = y.left.right])])
rr_rotate(y) == Updated([y.right EXCEPT !.left = Updated([y EXCEPT !.right = y.right.left])])
lr_rotate(y) == ll_rotate([y EXCEPT !.left = rr_rotate(y.left)])
rl_rotate(y) == rr_rotate([y EXCEPT !.right = ll_rotate(y.right)])

\* The end of both functions; erase_real rotates once also where the higher child is
\* balanced (tie).
Rebalanced(t, tie) ==
    LET balance == get_balance(t)
        l == get_balance(t.left)
        r == get_balance(t.right)
    IN CASE balance > 1 /\ (l > 0 \/ (tie /\ l = 0)) -> ll_rotate(t)
         [] balance < -1 /\ (r < 0 \/ (tie /\ r = 0)) -> rr_rotate(t)
         [] balance > 1 /\ l < 0 -> lr_rotate(t)
         [] balance < -1 /\ r > 0 -> rl_rotate(t)
         [] OTHER -> t

RECURSIVE insert_real(_, _)
insert_real(k, t) ==
    IF IsNil(t) THEN Node(k, 1, Nil, Nil)
    ELSE IF k = t.key THEN t
    ELSE Rebalanced(Updated(IF k < t.key
                            THEN [t EXCEPT !.left = insert_real(k, t.left)]
                            ELSE [t EXCEPT !.right = insert_real(k, t.right)]), FALSE)

RECURSIVE Leftmost(_)
Leftmost(t) == IF IsNil(t.left) THEN t ELSE Leftmost(t.left)

\* Mutant: after an erasure the ties are treated as in insert_real.
RECURSIVE erase_real_NoTie(_, _)
erase_real_NoTie(k, t) ==
    IF IsNil(t) THEN t
    ELSE IF k = t.key /\ IsNil(t.left) /\ IsNil(t.right) THEN Nil
    ELSE Rebalanced(Updated(
            CASE k < t.key -> [t EXCEPT !.left = erase_real_NoTie(k, t.left)]
              [] k > t.key -> [t EXCEPT !.right = erase_real_NoTie(k, t.right)]
              [] k = t.key /\ IsNil(t.left) -> t.right
              [] k = t.key /\ IsNil(t.right) -> t.left
              [] OTHER -> LET x == Leftmost(t.right)
                          IN [t EXCEPT !.key = x.key,
                                       !.right = erase_real_NoTie(x.key, t.right)]), FALSE)

RECURSIVE erase_real(_, _)
erase_real(k, t) ==
    IF IsNil(t) THEN t
    ELSE IF k = t.key /\ IsNil(t.left) /\ IsNil(t.right) THEN Nil
    ELSE Rebalanced(Updated(
            CASE k < t.key -> [t EXCEPT !.left = erase_real(k, t.left)]
              [] k > t.key -> [t EXCEPT !.right = erase_real(k, t.right)]
              [] k = t.key /\ IsNil(t.left) -> t.right
              [] k = t.key /\ IsNil(t.right) -> t.left
              [] OTHER -> LET x == Leftmost(t.right)
                          IN [t EXCEPT !.key = x.key,
                                       !.right = erase_real(x.key, t.right)]), TRUE)

RECURSIVE loop_find(_, _)
loop_find(k, t) ==
    IF IsNil(t) THEN FALSE
    ELSE k = t.key \/ loop_find(k, IF k < t.key THEN t.left ELSE t.right)

-----------------------------------------------------------------------------
AvlInsert(k) == obj' = insert_real(k, obj) /\ held' = held \cup {k} /\ UNCHANGED ret
Erase(k) == obj' = erase_real(k, obj) /\ held' = held \ {k} /\ UNCHANGED ret

AvlNext == \E k \in 1 .. AVLKeys : AvlInsert(k) \/ Erase(k)

-----------------------------------------------------------------------------
\* Heights are exact and the two sides of every node differ by at most one.
RECURSIVE Balanced(_)
Balanced(t) ==
    IsNil(t) \/ /\ t = Updated(t)
                /\ get_balance(t) \in -1 .. 1
                /\ Balanced(t.left) /\ Balanced(t.right)

RECURSIVE InOrder(_)
InOrder(t) == IF IsNil(t) THEN <<>> ELSE InOrder(t.left) \o <<t.key>> \o InOrder(t.right)

\* The keys are in strictly increasing order and exactly those held, and loop_find
\* finds them.
Sorted ==
    LET order == InOrder(obj)
    IN /\ \A i, j \in DOMAIN order : i < j => order[i] < order[j]
       /\ {order[i] : i \in DOMAIN order} = held
       /\ \A k \in 1 .. AVLKeys : loop_find(k, obj) <=> k \in held
=============================================================================
