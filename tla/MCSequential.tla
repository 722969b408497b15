---------------------------- MODULE MCSequential ----------------------------
(***************************************************************************)
(* The plain search tree, the containers and the owners of memory as one    *)
(* suite: a behaviour picks one of them and gives it any sequence of its    *)
(* calls.  MCRoutines adds the balanced trees and the programs that are     *)
(* defined by recursion over data, for TLC.                                 *)
(***************************************************************************)
EXTENDS Integers, Sequences, FiniteSets

CONSTANTS BSTData,  \* the plain search tree holds values of 1 .. BSTData
          QueueSize, QueueItems, VectorMax, VectorItems, LruCap, LruKeys, LruValues,
          charSize, BitIndices, BitBytes, DsuSize, MedianNums, MedianMax, Colors, Points,
          NumofObjects, MaxBlocks, Handles, Pointees, Shares, Weaks, Counted, Objects,
          Chars, LiteralLens, LengthMax, StringVars, TextLens, STRING_INIT_SIZE, StringMax,
          Devices, Batch, WaitRounds, ShortMax, Pending

\* The sizes are positive, the variables finitely many, the marks for "nothing" are no
\* elements, and what a program is given lies within its arrays; no character is NUL.
ASSUME SequentialAssumption ==
    /\ QueueSize \in Nat \ {0} /\ VectorMax \in Nat /\ LruCap \in Nat \ {0}
    /\ charSize \in Nat /\ BitIndices \subseteq 0 .. 8 * charSize - 1 /\ BitBytes \subseteq 0 .. 255
    /\ DsuSize \in Nat /\ MedianNums \subseteq Int
    /\ IsFiniteSet(Handles) /\ Pointees \cap {-1, 0} = {}
    /\ IsFiniteSet(Shares) /\ IsFiniteSet(Weaks) /\ Counted \cap {-1, 0} = {}
ASSUME MemoryAssumption ==
    /\ NumofObjects \in Nat \ {0} /\ MaxBlocks \in Nat \ {0}
    /\ IsFiniteSet(Objects) /\ ShortMax \in Nat /\ Batch \in Nat
    /\ STRING_INIT_SIZE \in Nat \ {0} /\ StringMax \in Nat
    /\ Chars \subseteq Nat \ {0} /\ TextLens \subseteq Nat
\* Nodes of the search tree are told by their data, numbers from 1 on.
ASSUME TreeAssumption == BSTData \in Nat

VARIABLES which,                                     \* the program that is used
          Root, lchild, rchild, size, alive, q, pc,  \* BinarySearchTree
          obj, held, ret                             \* every other one

bstVars == <<Root, lchild, rchild, size, alive, q, pc>>
oneVars == <<obj, held, ret>>
allVars == <<which, bstVars, oneVars>>

BST == INSTANCE BinarySearchTree WITH Data <- 1 .. BSTData, NULL <- 0

Con == INSTANCE Containers
Own == INSTANCE Ownership
\* The texts of some lengths.
TextsOf(lens) == UNION {[1 .. n -> Chars] : n \in lens}
Strings == INSTANCE StringClasses WITH
              Literals <- TextsOf(LiteralLens), StringTexts <- TextsOf(TextLens)

-----------------------------------------------------------------------------
Init ==
    /\ BST!Init
    /\ \/ which = "bst" /\ obj = 0 /\ held = 0 /\ ret = 0
       \/ which = "queue" /\ Con!QueueInit
       \/ which = "vector" /\ Con!VectorInit
       \/ which = "lru" /\ Con!LruInit
       \/ which = "bitMap" /\ Con!BitsInit
       \/ which = "dsu" /\ Con!DsuInit
       \/ which = "median" /\ Con!MedianInit
       \/ which = "pieces" /\ Own!PieceInit
       \/ which = "memPool" /\ Own!PoolInit
       \/ which = "smart" /\ Own!SmartInit
       \/ which = "weak" /\ Own!WeakInit
       \/ which = "String" /\ Strings!StrInit
       \/ which = "my_string" /\ Strings!MyStrInit
       \/ which = "input" /\ Own!InputInit

Only(program) == which = program /\ UNCHANGED <<which, bstVars>>
Next ==
    \/ which = "bst" /\ BST!Next /\ UNCHANGED <<which, oneVars>>
    \/ Only("queue") /\ Con!QueueNext
    \/ Only("vector") /\ Con!VectorNext
    \/ Only("lru") /\ Con!LruNext
    \/ Only("bitMap") /\ Con!BitsNext
    \/ Only("dsu") /\ Con!DsuNext
    \/ Only("median") /\ Con!MedianNext
    \/ Only("pieces") /\ Own!PieceNext
    \/ Only("memPool") /\ Own!PoolNext
    \/ Only("smart") /\ Own!SmartNext
    \/ Only("weak") /\ Own!WeakNext
    \/ Only("String") /\ Strings!StrNext
    \/ Only("my_string") /\ Strings!MyStrNext
    \/ Only("input") /\ Own!InputNext

Spec == Init /\ [][Next]_allVars

-----------------------------------------------------------------------------
\* The destructor of the plain tree frees every node once and reads none it has freed.
DestroysAllOnce == BST!DestroysAllOnce

\* After any sequence of calls a container holds, and its queries return, what the queue,
\* sequence, recency order, set of bits, partition, sorted stream or board it stands for
\* does: across the wrap of the ring, the growth of the array, eviction, path compression
\* and shared pieces.
ContainersSound ==
    /\ which = "queue" => Con!QueueSound
    /\ which = "vector" => Con!VectorSound
    /\ which = "lru" => Con!LruSound
    /\ which = "bitMap" => Con!BitsSound
    /\ which = "dsu" => Con!DsuSound
    /\ which = "median" => Con!MedianSound
    /\ which = "pieces" => Own!PieceSound

\* After any sequence of constructions, copies, assignments and destructions the memory in
\* use has the owners the code counts: a pool node is free or in use but never both, an
\* object is deleted with its last owner and once, no buffer that a string uses is released
\* and none is shared unless the string was copied by its implicit copy constructor, a text
\* reads back as it was given, and a descriptor is open while it is watched.
OwnershipSound ==
    /\ which = "memPool" => Own!PoolSound
    /\ which = "smart" => Own!SmartSound
    /\ which = "weak" => Own!WeakSound
    /\ which = "String" => Strings!StrSound
    /\ which = "my_string" => Strings!MyStrSound
    /\ which = "input" => Own!InputSound

=============================================================================
