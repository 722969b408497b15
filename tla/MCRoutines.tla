----------------------------- MODULE MCRoutines -----------------------------
(***************************************************************************)
(* All sequential programs as one suite for TLC: those of MCSequential and  *)
(* beside them the balanced trees and what is defined by recursion.  A      *)
(* behaviour picks one of them.  A container gets any sequence of its       *)
(* calls, the red-black tree one key twice; a routine gets one argument and *)
(* returns.                                                                 *)
(***************************************************************************)
EXTENDS MCSequential

CONSTANTS RBKeys, Doubled,    \* keys 1 .. RBKeys of the red-black tree; the doubled key
          HashKeys, TrieMax, AVLKeys,
          SortLen, SortVals, IntMax, LongMax, mod, NumMax, Digits, NumeralLen, ScanLen, ScanVals,
          Cards, Bag, Side, TextLen, Letters, MemSize, ListLen, ListVals, TreeSize

RB == INSTANCE RBTree WITH
         Nodes <- 1 .. RBKeys + 1, NULL <- 0, tree <- obj, allocated <- held, op <- ret,
         Key <- [n \in 1 .. RBKeys + 1 |-> IF n = RBKeys + 1 THEN Doubled ELSE n]
Sets == INSTANCE SetContainers WITH
           hashsize <- <<3, 7>>,
           TrieWords <- {<<1>>, <<1, 2>>, <<1, 2, 1>>, <<2>>, <<1, 1>>}
Al == INSTANCE Algorithms
Te == INSTANCE TextsAndLists

-----------------------------------------------------------------------------
\* A routine that is about to be called: its name, its argument, no result yet.
Calls(Routines, Inputs(_)) ==
    /\ obj \in [routine : Routines, returned : {FALSE}]
    /\ held \in Inputs(obj.routine)
    /\ ret = <<>>
Return(Answer(_, _)) ==
    /\ ~obj.returned
    /\ obj' = [obj EXCEPT !.returned = TRUE]
    /\ ret' = Answer(obj.routine, held)
    /\ UNCHANGED held
Exact(Right(_, _, _)) == obj.returned => Right(obj.routine, held, ret)

RoutinesInit ==
    \/ which = "rbTree" /\ RB!Init
    \/ which = "avl" /\ Sets!AvlInit
    \/ which = "hash" /\ Sets!HashInit
    \/ which = "trie" /\ Sets!TrieInit
    \/ which = "sorting" /\ Calls(Al!SortRoutines, Al!SortInputs)
    \/ which = "numbers" /\ Calls(Al!NumRoutines, Al!NumInputs)
    \/ which = "arrays" /\ Calls(Al!Routines, Al!Inputs)
    \/ which = "texts" /\ Calls(Te!TextRoutines, Te!TextInputs)
    \/ which = "lists" /\ Calls(Te!ListRoutines, Te!ListInputs)
RoutinesNext ==
    \/ Only("rbTree") /\ RB!Next
    \/ Only("avl") /\ Sets!AvlNext
    \/ Only("hash") /\ Sets!HashNext
    \/ Only("trie") /\ Sets!TrieNext
    \/ Only("sorting") /\ Return(Al!SortAnswer)
    \/ Only("numbers") /\ Return(Al!NumAnswer)
    \/ Only("arrays") /\ Return(Al!Answer)
    \/ Only("texts") /\ Return(Te!TextAnswer)
    \/ Only("lists") /\ Return(Te!ListAnswer)

\* A behaviour that picks a program of MCSequential is a behaviour of its Spec, about which
\* SequentialProofs proves its theorems.
SuiteInit == Init \/ (BST!Init /\ RoutinesInit)
SuiteNext == Next \/ RoutinesNext
SuiteSpec == SuiteInit /\ [][SuiteNext]_allVars

-----------------------------------------------------------------------------
\* Links, order and balance: the red-black tree at rest and between the rounds of its
\* fix-up loops, the order and size of the plain tree.  search, minimum, maximum,
\* predecessor, successor (red-black tree) and leaf agree with the sorted contents.
TreesSound ==
    /\ which = "rbTree" => RB!TypeOK /\ RB!RedBlack /\ RB!QueriesExact
    /\ BST!TypeOK /\ BST!Sorted /\ BST!QueriesExact

\* After any sequence of insertions and deletions a container of keys holds, and its
\* queries return, what the set or bag it stands for does: across the growth of the hash
\* table and the tombstones of deleted keys, the cuts of the trie, the rotations of the
\* AVL tree, whose heights are exact.
SetsSound ==
    /\ which = "hash" => Sets!HashSound
    /\ which = "trie" => Sets!TrieSound
    /\ which = "avl" => Sets!Balanced(obj) /\ Sets!Sorted

\* Every routine returns, for every bounded argument, what its reference definition says:
\* sorts and selection, arithmetic at the limits of int, searches and dynamic programming
\* against enumeration, string and memory routines, lists and traversals.
RoutinesExact ==
    /\ which = "sorting" => Exact(Al!SortRight)
    /\ which = "numbers" => Exact(Al!NumRight)
    /\ which = "arrays" => Exact(Al!Right)
    /\ which = "texts" => Exact(Te!TextRight)
    /\ which = "lists" => Exact(Te!ListRight)
=============================================================================
