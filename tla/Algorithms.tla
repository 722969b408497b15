----------------------------- MODULE Algorithms -----------------------------
(***************************************************************************)
(* The pure routines on arrays and numbers: searches, scans and tables,    *)
(* sorts, arithmetic.  Each section has its own inputs and references.     *)
(***************************************************************************)
EXTENDS CArrays, TLC

CONSTANTS ScanLen, ScanVals,   \* arrays of up to ScanLen numbers below ScanVals
          Cards,               \* greatest card value of isStraight()
          Bag,                 \* capacity of the knapsack
          Side                 \* greatest side of a matrix
CONSTANTS SortLen, SortVals      \* arrays of up to SortLen numbers below SortVals
CONSTANTS IntMax,      \* INT_MAX, one less than a power of two
          LongMax,     \* the greatest long long, one less than a power of two
          mod,         \* the modulus 1e9 + 7 of the source
          NumMax,      \* arguments 0 .. NumMax of the numeric routines
          Digits,      \* the digits that numerals are made of
          NumeralLen   \* their greatest length

-----------------------------------------------------------------------------
\* Searches, scans and tables over arrays: cpp/search, cpp/algorithm,
\* cpp/dynamic_programming and the online-judge solutions, against
\* definitions by quantifiers.

\* binarySearch(); binarySearch3() and search() differ in the order of the tests only.
RECURSIVE binarySearch(_, _, _, _)
binarySearch(data, key, low, high) ==
    LET mid == (low + high) \div 2
    IN  IF low > high THEN -1
        ELSE IF data[mid] = key THEN mid
        ELSE IF data[mid] < key THEN binarySearch(data, key, mid + 1, high)
        ELSE binarySearch(data, key, low, mid - 1)
binarySearch3(data, key) == binarySearch(data, key, 0, size(data) - 1)
search(nums, target) == IF size(nums) = 0 THEN -1 ELSE binarySearch(nums, target, 0, size(nums) - 1)

RECURSIVE lower_bound(_, _, _, _)
lower_bound_Early(nums, target, left, right) ==
    LET mid == left + (right - left) \div 2
    IN  IF left >= right THEN left
        ELSE IF nums[mid] < target THEN lower_bound(nums, target, mid + 1, right)
        ELSE lower_bound(nums, target, left, mid - 1)
lower_bound(nums, target, left, right) ==
    LET mid == left + (right - left) \div 2
    IN  IF left > right THEN left
        ELSE IF nums[mid] < target THEN lower_bound(nums, target, mid + 1, right)
        ELSE lower_bound(nums, target, left, mid - 1)
searchRange(nums, target) ==
    LET idx1 == lower_bound(nums, target, 0, size(nums) - 1)
        idx2 == lower_bound(nums, target + 1, 0, size(nums) - 1) - 1
    IN  IF idx1 < size(nums) /\ nums[idx1] = target THEN <<idx1, idx2>> ELSE <<-1, -1>>

\* The k-th element of two sorted arrays from i and j on; half of k is dropped at a time.
RECURSIVE findKth(_, _, _, _, _)
findKth(nums1, i, nums2, j, k) ==
    LET half == k \div 2
        infinite == ScanVals
        mid1 == IF i + half - 1 < size(nums1) THEN nums1[i + half - 1] ELSE infinite
        mid2 == IF j + half - 1 < size(nums2) THEN nums2[j + half - 1] ELSE infinite
    IN  IF i >= size(nums1) THEN nums2[j + k - 1]
        ELSE IF j >= size(nums2) THEN nums1[i + k - 1]
        ELSE IF k = 1 THEN Least(nums1[i], nums2[j])
        ELSE IF mid1 < mid2 THEN findKth(nums1, i + half, nums2, j, k - half)
        ELSE findKth(nums1, i, nums2, j + half, k - half)
TwiceMedian(nums1, nums2) ==
    LET n == size(nums1) + size(nums2)
    IN  findKth(nums1, 0, nums2, 0, (n + 1) \div 2) + findKth(nums1, 0, nums2, 0, (n + 2) \div 2)

-----------------------------------------------------------------------------
sort(nums) == FromSeq(SortSeq(ToSeq(nums), <))

\* The skips test no bound: they read nums[n] and, while the memory behind the vector goes
\* on with its last element, what follows.  InMemory(a, more) is the vector with more such
\* elements and another one behind it; any of them may be there.
InMemory(a, more) ==
    LET n == size(a)
        last == IF n = 0 THEN 0 ELSE a[n - 1]
    IN  [i \in 0 .. n + more |-> IF i < n THEN a[i] ELSE IF i < n + more THEN last ELSE last + 1]
RECURSIVE SkipEqual(_, _), PairLoop(_, _, _, _), TripleLoop(_, _, _)
SkipEqual(nums, j) == IF nums[j + 1] = nums[j] THEN SkipEqual(nums, j + 1) ELSE j
PairLoop(nums, i, j, k) ==
    LET sum == nums[i] + nums[j] + nums[k]
    IN  IF j >= k THEN <<>>
        ELSE IF sum > 0 THEN PairLoop(nums, i, j, k - 1)
        ELSE IF sum < 0 THEN PairLoop(nums, i, j + 1, k)
        ELSE <<<<nums[i], nums[j], nums[k]>>>> \o PairLoop(nums, i, SkipEqual(nums, j) + 1, k)
TripleLoop(nums, n, i) ==
    IF i >= n - 2 THEN <<>>
    ELSE PairLoop(nums, i, i + 1, n - 1) \o TripleLoop(nums, n, SkipEqual(nums, i) + 1)
threeSum(nums, more) == TripleLoop(InMemory(sort(nums), more), size(nums), 0)

intersection(nums1, nums2) ==
    For([res |-> <<>>, open |-> {nums1[i] : i \in DOMAIN nums1}], Up(0, size(nums2) - 1),
        LAMBDA s, i : IF nums2[i] \in s.open
                      THEN [res |-> Append(s.res, nums2[i]), open |-> s.open \ {nums2[i]}] ELSE s).res

majorityElement(nums) ==
    For([cur |-> nums[0], cnt |-> 1], Up(1, size(nums) - 1),
        LAMBDA s, i : IF s.cur = nums[i] THEN [s EXCEPT !.cnt = @ + 1]
                      ELSE IF s.cnt = 0 THEN [cur |-> nums[i], cnt |-> 1]
                      ELSE [s EXCEPT !.cnt = @ - 1]).cur

findUnsortedSubarray(nums) ==
    LET len == size(nums)
        Step(s, i) ==
            LET j == len - 1 - i
                hi == Greatest(s.maxVal, nums[i])
                lo == Least(s.minVal, nums[j])
            IN  [maxVal |-> hi, minVal |-> lo,
                 right |-> IF nums[i] # hi THEN i ELSE s.right,
                 left |-> IF nums[j] # lo THEN j ELSE s.left]
        end == For([maxVal |-> nums[0], minVal |-> nums[len - 1], left |-> -1, right |-> -2], Up(0, len - 1), Step)
    IN  IF len = 0 THEN 0 ELSE end.right - end.left + 1

\* m maps the ends of every run seen so far to its length (and inner members to some
\* earlier length).
longestConsecutive(nums) ==
    LET Step(s, i) ==
            LET cur == nums[i]
                At(x) == IF x \in DOMAIN s.m THEN s.m[x] ELSE 0
                left == At(cur - 1)
                right == At(cur + 1)
                sum == left + right + 1
                ends == {cur, cur - left, cur + right}
            IN  IF cur \in DOMAIN s.m THEN s
                ELSE [m |-> [x \in DOMAIN s.m \cup ends |-> IF x \in ends THEN sum ELSE s.m[x]],
                      res |-> Greatest(s.res, sum)]
    IN  For([m |-> <<>>, res |-> 0], Up(0, size(nums) - 1), Step).res

\* dp holds the last place of every character.
lengthOfLongestSubstring(s) ==
    LET Step(t, i) ==
            LET len == i - t.dp[s[i]]
                cur == IF t.dp[s[i]] >= 0 /\ t.curLen >= len THEN len ELSE t.curLen + 1
            IN  [dp |-> [t.dp EXCEPT ![s[i]] = i], curLen |-> cur, maxLen |-> Greatest(t.maxLen, cur)]
    IN  For([dp |-> [c \in 0 .. ScanVals |-> -1], curLen |-> 0, maxLen |-> 0], Up(0, size(s) - 1), Step).maxLen

\* Five cards, 0 for a joker.
isStraight(cards) ==
    LET nums == sort(cards)
        dealt == {i \in DOMAIN nums : nums[i] # 0}
        maxVal == For(-1, Up(0, 4), LAMBDA m, i : IF i \in dealt THEN Greatest(nums[i], m) ELSE m)
        minVal == For(99, Up(0, 4), LAMBDA m, i : IF i \in dealt THEN Least(nums[i], m) ELSE m)
    IN  /\ size(nums) = 5
        /\ \A i \in dealt : i >= 1 => nums[i] # nums[i - 1]
        /\ maxVal - minVal <= 4

\* BT() puts every remaining number at place start, and puts it back afterwards.
RECURSIVE BT(_, _)
BT(nums, start) ==
    IF start = size(nums) THEN <<nums>>
    ELSE For(<<>>, Up(start, size(nums) - 1),
             LAMBDA res, i : res \o BT(SwapAt(nums, i, start), start + 1))
permute(nums) == BT(nums, 0)

RECURSIVE verify(_, _, _)
verify(data, left, right) ==
    LET mid == CHOOSE c \in left .. right : data[c] >= data[right] /\ \A i \in left .. c - 1 : data[i] < data[right]
    IN  \/ left >= right
        \/ /\ \A i \in mid + 1 .. right : data[i] >= data[right]
           /\ verify(data, left, mid - 1)
           /\ verify(data, mid, right - 1)
verifyPostorder(postorder) == size(postorder) = 0 \/ verify(postorder, 0, size(postorder) - 1)

-----------------------------------------------------------------------------
\* dp_bag1.cpp: the table is filled once with the path, then updated a second time without
\* it; the walk from the last item prints the path of the first pass.
Improved(s, w, v, i, j) ==
    IF s.dp[j] < s.dp[j - w[i]] + v[i]
    THEN [dp |-> [s.dp EXCEPT ![j] = s.dp[j - w[i]] + v[i]], path |-> s.path \cup {<<i, j>>}]
    ELSE s
Filled(s, w, v) ==
    For(s, Up(1, Len(w)), LAMBDA t, i : For(t, Down(Bag, w[i]), LAMBDA u, j : Improved(u, w, v, i, j)))
RECURSIVE Walk(_, _, _, _)
Walk(path, w, i, j) ==
    IF i = 0 \/ j = 0 THEN {}
    ELSE IF <<i, j>> \in path THEN {i} \cup Walk(path, w, i - 1, j - w[i])
    ELSE Walk(path, w, i - 1, j)
bag(w, v) ==
    LET first == Filled([dp |-> [j \in 0 .. Bag |-> 0], path |-> {}], w, v)
    IN  [items |-> Walk(first.path, w, Len(w), Bag), total |-> Filled(first, w, v).dp[Bag]]

\* lcsLength() fills c and the directions b; print_lcs() follows them back.
lcsLength(x, y) ==
    LET Cell(c, i, j) == IF x[i] = y[j] THEN <<c[i - 1, j - 1].len + 1, "c">>
                         ELSE IF c[i - 1, j].len >= c[i, j - 1].len THEN <<c[i - 1, j].len, "u">>
                         ELSE <<c[i, j - 1].len, "l">>
    IN  For([i \in 0 .. Len(x), j \in 0 .. Len(y) |-> [len |-> 0, b |-> "0"]], Up(1, Len(x)),
            LAMBDA t, i : For(t, Up(1, Len(y)),
                LAMBDA c, j : [c EXCEPT ![i, j] = [len |-> Cell(c, i, j)[1], b |-> Cell(c, i, j)[2]]]))
RECURSIVE print_lcs(_, _, _, _)
print_lcs(c, x, i, j) ==
    IF i = 0 \/ j = 0 THEN <<>>
    ELSE CASE c[i, j].b = "c" -> Append(print_lcs(c, x, i - 1, j - 1), x[i])
           [] c[i, j].b = "u" -> print_lcs(c, x, i - 1, j)
           [] OTHER -> print_lcs(c, x, i, j - 1)
lcs(x, y) == print_lcs(lcsLength(x, y), x, Len(x), Len(y))

\* The four sides of one ring of a matrix, as the cells they visit.
Ring(top, bot, left, right) ==
    LET Cells(order, cell(_)) == [k \in DOMAIN order |-> cell(order[k])]
    IN  Cells(Up(left, right), LAMBDA j : <<top, j>>)
        \o Cells(Up(top + 1, bot - 1), LAMBDA i : <<i, right>>)
        \o (IF top = bot THEN <<>> ELSE Cells(Down(right, left), LAMBDA j : <<bot, j>>))
        \o (IF left = right THEN <<>> ELSE Cells(Down(bot - 1, top + 1), LAMBDA i : <<i, left>>))
spiralOrder(row, col) ==
    For(<<>>, Up(0, ((Least(row, col) + 1) \div 2) - 1),
        LAMBDA res, r : res \o Ring(r, row - 1 - r, r, col - 1 - r))
\* The second solution has the same four loops, and returns early for a matrix without rows.
clockwiseOrder(row, col) == IF row = 0 THEN <<>> ELSE spiralOrder(row, col)

-----------------------------------------------------------------------------
\* References.
Some(n) == ArraysUpTo(n, 0 .. ScanVals - 1)
Sorted(n) == {a \in Some(n) : SortedArray(a)}
BestOf(S) == CHOOSE m \in S : \A x \in S : x <= m
TotalOf(f, v) == For(0, Up(1, Len(v)), LAMBDA t, i : t + f[i] * v[i])
BestBag(w, v, copies) ==
    BestOf({TotalOf(f, v) : f \in {g \in [1 .. Len(w) -> 0 .. copies] : TotalOf(g, w) <= Bag}})
Embeds(s, x) == \E f \in [DOMAIN s -> DOMAIN x] :
                   \A i, j \in DOMAIN s : (i < j => f[i] < f[j]) /\ s[i] = x[f[i]]
Below(a, c) == Cardinality({i \in DOMAIN a : a[i] < c})
UpTo(a, c) == Cardinality({i \in DOMAIN a : a[i] <= c})

Routines == {"search", "searchRange", "median", "threeSum", "intersection", "majority", "unsorted",
             "consecutive", "distinct", "isStraight", "permute", "postorder", "bag", "lcs", "spiral"}
Inputs(routine) ==
    CASE routine \in {"search", "searchRange"} -> Sorted(ScanLen) \X (0 .. ScanVals)
      [] routine = "median" -> {p \in Sorted(ScanLen - 2) \X Sorted(ScanLen - 1) : p # <<<<>>, <<>>>>}
      [] routine = "threeSum" -> {[i \in DOMAIN a |-> a[i] - 2] : a \in Some(ScanLen)}
      [] routine = "intersection" -> Some(ScanLen - 2) \X Some(ScanLen - 2)
      [] routine = "majority" -> Some(ScanLen) \ {<<>>}
      [] routine \in {"unsorted", "consecutive", "distinct"} -> Some(ScanLen)
      [] routine = "isStraight" -> Arrays(5, 0 .. Cards)
      [] routine \in {"permute", "postorder"} ->
            UNION {{a \in Arrays(n, 0 .. n - 1) : \A i, j \in DOMAIN a : a[i] = a[j] => i = j} : n \in 0 .. ScanLen}
      [] routine = "bag" -> [1 .. 3 -> 1 .. 3] \X [1 .. 3 -> 1 .. 3]
      [] routine = "lcs" -> LET S == UNION {[1 .. n -> 0 .. 2] : n \in 0 .. ScanLen - 1} IN S \X S
      [] routine = "spiral" -> (1 .. Side) \X (1 .. Side)

Answer(routine, x) ==
    CASE routine = "search" -> {search(x[1], x[2]), binarySearch3(x[1], x[2])}
      [] routine = "searchRange" -> searchRange(x[1], x[2])
      [] routine = "median" -> TwiceMedian(x[1], x[2])
      [] routine = "threeSum" -> {threeSum(x, more) : more \in 0 .. 2}
      [] routine = "intersection" -> intersection(x[1], x[2])
      [] routine = "majority" -> majorityElement(x)
      [] routine = "unsorted" -> findUnsortedSubarray(x)
      [] routine = "consecutive" -> longestConsecutive(x)
      [] routine = "distinct" -> lengthOfLongestSubstring(x)
      [] routine = "isStraight" -> isStraight(x)
      [] routine = "permute" -> permute(x)
      [] routine = "postorder" -> verifyPostorder(x)
      [] routine = "bag" -> bag(x[1], x[2])
      [] routine = "lcs" -> lcs(x[1], x[2])
      [] routine = "spiral" -> {spiralOrder(x[1], x[2]), clockwiseOrder(x[1], x[2])}

\* Searches return a place of the key, or its first and last, or -1; the middle elements of
\* both arrays together; every zero-sum triple once, whatever lies behind the vector; every
\* common number and permutation once; the number that has a majority if one has; the shortest part whose sorting sorts all; the
\* longest run of successive numbers and the longest part without repetition; whether
\* jokers complete a straight, and whether some search tree has the postorder.  The
\* knapsack prints a best choice of items, each at most once, next to the best total for
\* each at most twice.  The spiral visits every cell once, in neighbouring steps.
Right(routine, x, y) ==
    CASE routine = "search" ->
            \A at \in y : IF \E i \in DOMAIN x[1] : x[1][i] = x[2] THEN x[1][at] = x[2] ELSE at = -1
      [] routine = "searchRange" ->
            IF \E i \in DOMAIN x[1] : x[1][i] = x[2] THEN y = <<Below(x[1], x[2]), UpTo(x[1], x[2]) - 1>>
            ELSE y = <<-1, -1>>
      [] routine = "median" ->
            LET n == size(x[1]) + size(x[2])
                Kth(k, c) == Below(x[1], c) + Below(x[2], c) < k /\ UpTo(x[1], c) + UpTo(x[2], c) >= k
            IN  \E a, b \in 0 .. ScanVals - 1 : y = a + b /\ Kth((n + 1) \div 2, a) /\ Kth((n + 2) \div 2, b)
      [] routine = "threeSum" ->
            \A z \in y :
               /\ {z[t] : t \in DOMAIN z} =
                     {<<x[i], x[j], x[k]>> : <<i, j, k>> \in
                         {t \in (DOMAIN x) \X (DOMAIN x) \X (DOMAIN x) :
                             /\ Cardinality({t[1], t[2], t[3]}) = 3
                             /\ x[t[1]] <= x[t[2]] /\ x[t[2]] <= x[t[3]]
                             /\ x[t[1]] + x[t[2]] + x[t[3]] = 0}}
               /\ \A s, t \in DOMAIN z : z[s] = z[t] => s = t
      [] routine = "intersection" ->
            /\ {y[t] : t \in DOMAIN y} = {x[1][i] : i \in DOMAIN x[1]} \cap {x[2][i] : i \in DOMAIN x[2]}
            /\ \A s, t \in DOMAIN y : y[s] = y[t] => s = t
      [] routine = "majority" -> \A i \in DOMAIN x : 2 * Count(x, x[i]) > size(x) => y = x[i]
      [] routine = "unsorted" ->
            LET Outside(l, r) == \A i, j \in DOMAIN x : (i < j /\ (i < l \/ j > r)) => x[i] <= x[j]
            IN  IF SortedArray(x) THEN y = 0
                ELSE /\ \E l, r \in DOMAIN x : Outside(l, r) /\ r - l + 1 = y
                     /\ \A l, r \in DOMAIN x : (l <= r /\ Outside(l, r)) => y <= r - l + 1
      [] routine = "consecutive" ->
            LET V == {x[i] : i \in DOMAIN x}
            IN  y = BestOf({0} \cup {k \in 1 .. size(x) : \E v \in V : v .. v + k - 1 \subseteq V})
      [] routine = "distinct" ->
            y = BestOf({0} \cup {k \in 1 .. size(x) : \E l \in 0 .. size(x) - k :
                                    \A i, j \in l .. l + k - 1 : x[i] = x[j] => i = j})
      [] routine = "isStraight" ->
            y = \E lo \in 1 .. Cards : LET D == {i \in DOMAIN x : x[i] # 0}
                   IN  /\ \A i \in D : x[i] \in lo .. lo + 4
                       /\ \A i, j \in D : x[i] = x[j] => i = j
      [] routine = "permute" ->
            /\ \A i \in DOMAIN y : SameElements(x, y[i])
            /\ \A i, j \in DOMAIN y : y[i] = y[j] => i = j
            /\ Len(y) = For(1, Up(1, size(x)), LAMBDA f, n : f * n)
      [] routine = "postorder" ->
            y = ~\E i, j, k \in DOMAIN x : i < j /\ j < k /\ x[j] < x[k] /\ x[k] < x[i]
      [] routine = "bag" ->
            LET chosen == [i \in 1 .. 3 |-> IF i \in y.items THEN 1 ELSE 0]
            IN  /\ TotalOf(chosen, x[1]) <= Bag
                /\ TotalOf(chosen, x[2]) = BestBag(x[1], x[2], 1)
                /\ y.total = BestBag(x[1], x[2], 2)
      [] routine = "lcs" ->
            /\ Embeds(y, x[1]) /\ Embeds(y, x[2])
            /\ \A S \in SUBSET DOMAIN x[1] : Cardinality(S) > Len(y) =>
                  ~\E f \in [S -> DOMAIN x[2]] :
                      \A i, j \in S : (i < j => f[i] < f[j]) /\ x[1][i] = x[2][f[i]]
      [] routine = "spiral" ->
            \A res \in y :
                /\ Len(res) = x[1] * x[2]
                /\ {res[k] : k \in DOMAIN res} = (0 .. x[1] - 1) \X (0 .. x[2] - 1)
                /\ \A k \in 1 .. Len(res) - 1 :
                      LET dr == res[k + 1][1] - res[k][1]
                          dc == res[k + 1][2] - res[k][2]
                      IN  dr * dr + dc * dc = 1

-----------------------------------------------------------------------------
\* The sorting routines of cpp/sort and the selection by partition of the
\* online-judge solutions: each as the loops of its source, against one
\* statement of what a sort returns.

\* if (vec[i] > vec[j]) swap(vec[i], vec[j])
Ordered(a, i, j) == IF a[i] > a[j] THEN SwapAt(a, i, j) ELSE a

bubbleSort(vec, len) ==
    For(vec, Up(0, len - 2),
        LAMBDA a, i : For(a, Up(0, len - i - 2), LAMBDA b, j : Ordered(b, j, j + 1)))

RECURSIVE heapify(_, _, _)
heapify_FromIndex(vec, index, len) ==
    LET left == 2 * index + 1
        right == 2 * index + 2
        one == IF left < len /\ vec[left] > vec[index] THEN left ELSE index
        maxId == IF right < len /\ vec[right] > vec[index] THEN right ELSE one
    IN  IF maxId = index THEN vec ELSE heapify(SwapAt(vec, index, maxId), maxId, len)
heapify(vec, index, len) ==
    LET left == 2 * index + 1
        right == 2 * index + 2
        one == IF left < len /\ vec[left] > vec[index] THEN left ELSE index
        maxId == IF right < len /\ vec[right] > vec[one] THEN right ELSE one
    IN  IF maxId = index THEN vec ELSE heapify(SwapAt(vec, index, maxId), maxId, len)

heapSort(vec) ==
    LET len == size(vec)
        heap == For(vec, Down((len \div 2) - 1, 0), LAMBDA a, i : heapify(a, i, len))
    IN  For(heap, Down(len - 1, 1), LAMBDA a, i : heapify(SwapAt(a, 0, i), 0, i))

\* insertSort moves an element down until its left neighbour is no larger; insertSort2
\* compares all the way down.
RECURSIVE SinkFrom(_, _)
SinkFrom(a, j) ==
    IF j >= 0 /\ a[j + 1] < a[j] THEN SinkFrom(SwapAt(a, j, j + 1), j - 1) ELSE a
insertSort(data) == For(data, Up(1, size(data) - 1), LAMBDA a, i : SinkFrom(a, i - 1))
insertSort2(data) ==
    For(data, Up(1, size(data) - 1),
        LAMBDA a, i : For(a, Down(i, 1), LAMBDA b, j : Ordered(b, j - 1, j)))

\* temp, filled from the two sorted halves; ties take the right one.
RECURSIVE Merged(_, _, _, _, _)
Merged(data, left, m, right, r) ==
    IF left > m /\ right > r THEN <<>>
    ELSE IF right > r \/ (left <= m /\ data[left] < data[right])
         THEN <<data[left]>> \o Merged(data, left + 1, m, right, r)
         ELSE <<data[right]>> \o Merged(data, left, m, right + 1, r)
Merge(data, l, m, r) ==
    LET temp == Merged(data, l, m, m + 1, r)
    IN  [i \in DOMAIN data |-> IF i \in l .. r THEN temp[i - l + 1] ELSE data[i]]
RECURSIVE mergeSort2(_, _, _)
mergeSort2(data, left, right) ==
    IF left >= right THEN data
    ELSE LET mid == (left + right) \div 2
         IN  Merge(mergeSort2(mergeSort2(data, left, mid), mid + 1, right), left, mid, right)

\* The pivot is drawn at random: p is any index of l .. r.
partition(nums, l, r, p) ==
    LET a == SwapAt(nums, r, p)
        run == For([v |-> a, small |-> l - 1], Up(l, r - 1),
                   LAMBDA s, big : IF s.v[big] <= s.v[r]
                                   THEN [v |-> SwapAt(s.v, s.small + 1, big), small |-> s.small + 1]
                                   ELSE s)
    IN  [v |-> SwapAt(run.v, run.small + 1, r), pos |-> run.small + 1]
RECURSIVE sortArray(_, _, _)
sortArray(nums, l, r) ==       \* every outcome of the random choices
    IF l >= r THEN {nums}
    ELSE UNION {LET cut == partition(nums, l, r, p)
                IN  UNION {sortArray(left, cut.pos + 1, r) : left \in sortArray(cut.v, l, cut.pos - 1)}
                : p \in l .. r}

selectSort(vec) ==
    LET Smallest(a, i) == For(i, Up(i, size(vec) - 1), LAMBDA m, j : IF a[j] < a[m] THEN j ELSE m)
    IN  For(vec, Up(0, size(vec) - 1), LAMBDA a, i : SwapAt(a, i, Smallest(a, i)))
selectSort2(data) ==
    LET last == size(data) - 1
        Smallest(a, i) == For(last, Down(last, i + 1), LAMBDA m, j : IF a[m] >= a[j] THEN j ELSE m)
    IN  For(data, Up(0, last), LAMBDA a, i : SwapAt(a, i, Smallest(a, i)))

RECURSIVE shellSort1(_, _)
shellSort1(data, gap) ==
    LET Chain(i) == [k \in 1 .. i \div gap |-> i - k * gap]
    IN  IF gap = 0 THEN data
        ELSE shellSort1(For(data, Up(gap, size(data) - 1),
                            LAMBDA a, i : For(a, Chain(i), LAMBDA b, j : Ordered(b, j, j + gap))),
                        gap \div 2)

-----------------------------------------------------------------------------
\* Selection: partition() with a hole that moves between the two ends, then the loop of
\* findKthLargest(), which always restarts from the ends of the whole array.
RECURSIVE SortUpTo(_, _, _, _), DownTo(_, _, _, _), HoleLoop(_, _, _, _)
SortUpTo(a, l, r, val) == IF l < r /\ a[l] <= val THEN SortUpTo(a, l + 1, r, val) ELSE l
DownTo(a, l, r, val) == IF l < r /\ a[r] >= val THEN DownTo(a, l, r - 1, val) ELSE r
HoleLoop(a, l, r, val) ==
    IF l >= r THEN [v |-> [a EXCEPT ![l] = val], pos |-> l]
    ELSE LET l2 == SortUpTo(a, l, r, val)
             b == [a EXCEPT ![r] = a[l2]]
             r2 == DownTo(b, l2, r, val)
         IN  HoleLoop([b EXCEPT ![l2] = b[r2]], l2, r2, val)
PartitionHole(nums, left, right) == HoleLoop(nums, left, right, nums[right])
RECURSIVE SelectLoop(_, _)
SelectLoop(cut, k) ==
    IF cut.pos = k THEN cut.v[k]
    ELSE SelectLoop(IF cut.pos > k THEN PartitionHole(cut.v, 0, cut.pos - 1)
                    ELSE PartitionHole(cut.v, cut.pos + 1, size(cut.v) - 1), k)
findKthLargest(nums, k) ==
    IF size(nums) = 0 \/ size(nums) < k THEN -1
    ELSE SelectLoop(PartitionHole(nums, 0, size(nums) - 1), size(nums) - k)

-----------------------------------------------------------------------------
\* The outcomes of a routine on an array: a set, of one element but for quick sort.
Outcomes(routine, a) ==
    CASE routine = "bubbleSort" -> {bubbleSort(a, size(a))}
      [] routine = "heapSort" -> {heapSort(a)}
      [] routine = "insertSort" -> {insertSort(a), insertSort2(a)}
      [] routine = "mergeSort" -> {mergeSort2(a, 0, size(a) - 1)}
      [] routine = "quickSort" -> sortArray(a, 0, size(a) - 1)
      [] routine = "selectSort" -> {selectSort(a)}
      [] routine = "selectSort2" -> {selectSort2(a)}
      [] routine = "shellSort" -> {shellSort1(a, size(a) \div 2)}
      [] routine = "findKthLargest" -> {[k \in 1 .. size(a) |-> findKthLargest(a, k)]}

SortRoutines == {"bubbleSort", "heapSort", "insertSort", "mergeSort", "quickSort",
             "selectSort", "selectSort2", "shellSort", "findKthLargest"}
SortInputs(routine) == ArraysUpTo(SortLen, 0 .. SortVals - 1)
SortAnswer(routine, a) == Outcomes(routine, a)

\* A sort returns the elements it was given in order, whatever pivots are drawn; the k-th
\* largest element has at most k - 1 larger and at least k no smaller ones.  selectSort2()
\* never compares with the element it is about to replace: it moves the smallest of the
\* others down and keeps the elements, but does not sort <<0, 2>>.
SortRight(routine, a, outcomes) ==
    \A out \in outcomes :
        IF routine = "findKthLargest"
        THEN \A k \in 1 .. size(a) :
                /\ Cardinality({i \in DOMAIN a : a[i] > out[k]}) < k
                /\ Cardinality({i \in DOMAIN a : a[i] >= out[k]}) >= k
        ELSE /\ SameElements(a, out)
             /\ routine # "selectSort2" => SortedArray(out)

-----------------------------------------------------------------------------
\* The arithmetic routines of cpp/math, cpp/race, cpp/base/atoi.cpp and the
\* online-judge solutions, against what they should compute.  The width of
\* int and the prime modulus are parameters.

\* What wraps around in an int, in two's complement.
Wrap(x) == ((x + IntMax + 1) % (2 * (IntMax + 1))) - (IntMax + 1)

RECURSIVE PowLoop(_, _, _)
PowLoop(res, x, n) ==
    IF n = 0 THEN res
    ELSE PowLoop(IF n % 2 = 1 THEN (res * x) % mod ELSE res, (x * x) % mod, n \div 2)
quick_pow(x, n) == PowLoop(1, x, n)

RECURSIVE gcd(_, _)
gcd(big, small) ==
    LET b == Greatest(big, small)
        s == Least(big, small)
    IN  IF s = 0 THEN b ELSE gcd(s, b % s)

RECURSIVE RootLoop(_, _, _)
RootLoop(x, i, j) ==
    LET mid == (i + j) \div 2
    IN  IF i > j THEN j
        ELSE IF mid * mid = x THEN mid
        ELSE IF mid * mid < x THEN RootLoop(x, mid + 1, j) ELSE RootLoop(x, i, mid - 1)
sqrt(x) == RootLoop(x, 0, (x \div 2) + 1)

\* Trial division while t * t < val: the square of a prime passes for a prime.
is_prime(val) == val > 1 /\ \A t \in 2 .. val : t * t < val => val % t # 0

\* The linear sieve: crossed counts how often check[k] is set.
RECURSIVE CrossOut(_, _, _, _)
CrossOut(crossed, primes, i, maxV) ==
    IF primes = <<>> \/ Head(primes) * i > maxV THEN crossed
    ELSE LET next == [crossed EXCEPT ![Head(primes) * i] = @ + 1]
         IN  IF i % Head(primes) = 0 THEN next ELSE CrossOut(next, Tail(primes), i, maxV)
get_primes(maxV) ==
    For([primes |-> <<>>, crossed |-> [k \in 0 .. maxV |-> IF k < 2 THEN 1 ELSE 0]], Up(2, maxV),
        LAMBDA s, i : LET primes == IF s.crossed[i] = 0 THEN Append(s.primes, i) ELSE s.primes
                      IN  [primes |-> primes, crossed |-> CrossOut(s.crossed, primes, i, maxV)])

\* while (--n) { res = left + right; left = right; right = res; }
RECURSIVE SumLoop(_, _, _, _)
SumLoop(n, left, right, res) ==
    IF n = 1 THEN res % mod
    ELSE LET sum == (left + right) % mod IN SumLoop(n - 1, right, sum, sum)
fib(n) == IF n = 0 THEN 0 ELSE SumLoop(n, 0, 1, 1)
numWays(n) == IF n <= 1 THEN 1 ELSE SumLoop(n, 1, 1, 2)

minVal(a, b, c) == IF a > b THEN Least(b, c) ELSE Least(a, c)
nthUglyNumber(n) ==
    LET Step(s, i) ==
            LET d == s.dp
                x == minVal(d[s.c2] * 2, d[s.c3] * 3, d[s.c5] * 5)
                Moved(c, f) == IF x \div d[c] = f THEN c + 1 ELSE c
            IN  [dp |-> [d EXCEPT ![i] = x], c2 |-> Moved(s.c2, 2), c3 |-> Moved(s.c3, 3), c5 |-> Moved(s.c5, 5)]
    IN  For([dp |-> [i \in 0 .. n |-> 1], c2 |-> 0, c3 |-> 0, c5 |-> 0], Up(1, n - 1), Step).dp[n - 1]

-----------------------------------------------------------------------------
\* Numerals: big_add() and addBinary() on strings, most significant digit first;
\* addTwoNumbers() on lists, least significant digit first.
big_add(s1, s2) ==
    LET maxx == IF Len(s1) < Len(s2) THEN s2 ELSE s1
        minn == IF Len(s1) < Len(s2) THEN s1 ELSE s2
        shift == Len(maxx) - Len(minn)
        sums == [i \in 0 .. Len(maxx) - 1 |-> maxx[i + 1] + (IF i >= shift THEN minn[i + 1 - shift] ELSE 0)]
        carried == For(sums, Down(Len(maxx) - 1, 1),
                       LAMBDA s, i : IF s[i] > 9 THEN [s EXCEPT ![i] = @ - 10, ![i - 1] = @ + 1] ELSE s)
    IN  IF s1 = <<>> /\ s2 = <<>> THEN <<0>>
        ELSE IF s1 = <<>> THEN s2
        ELSE IF s2 = <<>> THEN s1
        ELSE IF carried[0] > 9 THEN <<1>> \o ToSeq([carried EXCEPT ![0] = @ - 10]) ELSE ToSeq(carried)

RECURSIVE BinaryLoop(_, _, _, _, _)
BinaryLoop(a, b, m, n, s) ==        \* s: the result so far and the carry
    LET k == (IF m >= 1 THEN a[m] ELSE 0) + (IF n >= 1 THEN b[n] ELSE 0) + s.carry
    IN  IF m < 1 /\ n < 1 THEN s
        ELSE BinaryLoop(a, b, m - 1, n - 1, [res |-> <<k % 2>> \o s.res, carry |-> k \div 2])
addBinary(a, b) ==
    LET s == BinaryLoop(a, b, Len(a), Len(b), [res |-> <<>>, carry |-> 0])
    IN  IF s.carry = 1 THEN <<1>> \o s.res ELSE s.res

\* The three loops of addTwoNumbers() (both lists, then the rest of either one) differ in
\* the digit that is missing; a last carry gets a node of its own.
RECURSIVE DigitLoop(_, _, _)
DigitLoop(cur1, cur2, flag) ==
    LET First(cur) == IF cur = <<>> THEN 0 ELSE Head(cur)
        Rest(cur) == IF cur = <<>> THEN <<>> ELSE Tail(cur)
        val == First(cur1) + First(cur2) + flag
        digit == IF val >= 10 THEN val % 10 ELSE val
    IN  IF cur1 = <<>> /\ cur2 = <<>> THEN IF flag = 0 THEN <<>> ELSE <<flag>>
        ELSE <<digit>> \o DigitLoop(Rest(cur1), Rest(cur2), IF val >= 10 THEN 1 ELSE 0)
addTwoNumbers(l1, l2) == IF l1 = <<>> \/ l2 = <<>> THEN <<>> ELSE DigitLoop(l1, l2, 0)

\* Text: digits are themselves, other characters and the terminator are negative.
Blank == -1
Plus == -2
Minus == -3
Other == -4
NUL == -5
At(str, i) == IF i > Len(str) THEN NUL ELSE str[i]
RECURSIVE SkipBlanks(_, _), IntLoop(_, _, _, _), AtoiLoop(_, _, _)
SkipBlanks(str, i) == IF At(str, i) = Blank THEN SkipBlanks(str, i + 1) ELSE i
AfterSign(str, i) == IF At(str, i) \in {Plus, Minus} THEN i + 1 ELSE i
Sign(str, i) == IF At(str, i) = Minus THEN -1 ELSE 1
\* res is a long long.
Long(v) == ((v + LongMax + 1) % (2 * (LongMax + 1))) - (LongMax + 1)
\* Mutant: the least int is one off.
IntLoop_Symmetric(str, i, flag, res) ==
    LET next == Long(res * 10 + str[i])
    IN  IF i > Len(str) \/ At(str, i) < 0 THEN res * flag
        ELSE IF next > IntMax THEN IntMax * flag
        ELSE IntLoop(str, i + 1, flag, next)
\* Mutant: the limits are tested behind the loop only.
IntLoop_AtEnd(str, i, flag, res) ==
    IF i > Len(str) \/ At(str, i) < 0
    THEN IF res * flag > IntMax THEN IntMax
         ELSE IF res * flag < -IntMax - 1 THEN -IntMax - 1 ELSE res * flag
    ELSE IntLoop(str, i + 1, flag, Long(res * 10 + str[i]))
IntLoop(str, i, flag, res) ==
    LET next == Long(res * 10 + str[i])
    IN  IF i > Len(str) \/ At(str, i) < 0 THEN res * flag
        ELSE IF next * flag > IntMax THEN IntMax
        ELSE IF next * flag < -IntMax - 1 THEN -IntMax - 1
        ELSE IntLoop(str, i + 1, flag, next)
strToInt(str) ==
    LET i == SkipBlanks(str, 1)
    IN  IF str = <<>> THEN 0 ELSE IntLoop(str, AfterSign(str, i), Sign(str, i), 0)

\* _atoi() computes in an int and takes a negative sum for an overflow.
AtoiLoop(str, i, res) ==
    LET next == Wrap(res * 10 + str[i])
    IN  IF At(str, i) < 0 THEN res
        ELSE IF next < 0 THEN IntMax ELSE AtoiLoop(str, i + 1, next)
_atoi(str) ==
    LET i == SkipBlanks(str, 1) IN AtoiLoop(str, AfterSign(str, i), 0) * Sign(str, i)

-----------------------------------------------------------------------------
\* References.
RECURSIVE Power(_, _), Value(_, _)
Power(x, n) == IF n = 0 THEN 1 ELSE x * Power(x, n - 1)
Value(s, base) == IF s = <<>> THEN 0 ELSE Value(SubSeq(s, 1, Len(s) - 1), base) * base + s[Len(s)]
Backwards(s) == [i \in DOMAIN s |-> s[Len(s) + 1 - i]]
Prime(v) == v > 1 /\ \A d \in 2 .. v - 1 : v % d # 0
Fib[n \in Nat] == IF n <= 1 THEN n ELSE Fib[n - 1] + Fib[n - 2]
Ugly(x) == \A p \in 2 .. x : (Prime(p) /\ x % p = 0) => p <= 5
Numerals(D) == UNION {[1 .. k -> D] : k \in 0 .. NumeralLen}

\* The number a text stands for, in any size: the longest run of digits after the blanks
\* and one sign.
TextValue(str) ==
    LET b == CHOOSE b \in 1 .. Len(str) + 1 : At(str, b) # Blank /\ \A i \in 1 .. b - 1 : str[i] = Blank
        d == AfterSign(str, b)
        e == CHOOSE e \in d .. Len(str) + 1 : At(str, e) < 0 /\ \A i \in d .. e - 1 : str[i] >= 0
    IN  Sign(str, b) * Value(SubSeq(str, d, e - 1), 10)

Unary == {"sqrt", "is_prime", "get_primes", "fib", "numWays", "nthUglyNumber"}
NumRoutines == Unary \cup {"quick_pow", "gcd", "big_add", "addBinary", "addTwoNumbers", "strToInt", "_atoi"}
NumInputs(routine) ==
    CASE routine \in {"get_primes", "nthUglyNumber"} -> 1 .. NumMax
      [] routine \in Unary -> 0 .. NumMax
      [] routine \in {"quick_pow", "gcd"} -> (0 .. NumMax \div 2) \X (0 .. NumMax \div 2)
      [] routine = "addBinary" -> Numerals({0, 1}) \X Numerals({0, 1})
      [] routine \in {"big_add", "addTwoNumbers"} -> Numerals(Digits) \X Numerals(Digits)
      [] OTHER -> UNION {[1 .. k -> Digits \cup {Blank, Plus, Minus, Other}] : k \in 0 .. NumeralLen + 1}

NumAnswer(routine, x) ==
    CASE routine = "sqrt" -> sqrt(x)
      [] routine = "is_prime" -> is_prime(x)
      [] routine = "get_primes" -> get_primes(x)
      [] routine = "fib" -> fib(x)
      [] routine = "numWays" -> numWays(x)
      [] routine = "nthUglyNumber" -> nthUglyNumber(x)
      [] routine = "quick_pow" -> quick_pow(x[1], x[2])
      [] routine = "gcd" -> gcd(x[1], x[2])
      [] routine = "big_add" -> big_add(x[1], x[2])
      [] routine = "addBinary" -> addBinary(x[1], x[2])
      [] routine = "addTwoNumbers" -> addTwoNumbers(x[1], x[2])
      [] routine = "strToInt" -> strToInt(x)
      [] routine = "_atoi" -> _atoi(x)

\* Every routine computes what its name says.  The sieve crosses each composite out exactly
\* once; is_prime() also accepts squares of primes; sums have the digits of the longer
\* numeral and perhaps one more; strToInt() saturates; _atoi() is exact for what an int
\* can hold.
NumRight(routine, x, y) ==
    CASE routine = "sqrt" -> y * y <= x /\ x < (y + 1) * (y + 1)
      [] routine = "is_prime" -> y = (Prime(x) \/ \E p \in 2 .. x : Prime(p) /\ x = p * p)
      [] routine = "get_primes" ->
            /\ {y.primes[i] : i \in DOMAIN y.primes} = {p \in 2 .. x : Prime(p)}
            /\ \A k \in 2 .. x : y.crossed[k] = IF Prime(k) THEN 0 ELSE 1
      [] routine = "fib" -> y = Fib[x] % mod
      [] routine = "numWays" -> y = Fib[x + 1] % mod
      [] routine = "nthUglyNumber" -> y > 0 /\ Ugly(y) /\ Cardinality({k \in 1 .. y : Ugly(k)}) = x
      [] routine = "quick_pow" ->
            y = For(1, Up(1, x[2]), LAMBDA r, k : (r * x[1]) % mod)
      [] routine = "gcd" ->
            LET Common(d) == x[1] % d = 0 /\ x[2] % d = 0
            IN  IF x = <<0, 0>> THEN y = 0
                ELSE Common(y) /\ \A d \in 1 .. Greatest(x[1], x[2]) : Common(d) => d <= y
      [] routine \in {"big_add", "addBinary"} ->
            LET base == IF routine = "addBinary" THEN 2 ELSE 10
                longer == Greatest(Len(x[1]), Len(x[2]))
            IN  /\ Value(y, base) = Value(x[1], base) + Value(x[2], base)
                /\ \A i \in DOMAIN y : y[i] \in 0 .. base - 1
                /\ Len(y) = longer \/ (Len(y) = longer + 1 /\ y[1] = (IF longer = 0 THEN 0 ELSE 1))
      [] routine = "addTwoNumbers" ->
            IF x[1] = <<>> \/ x[2] = <<>> THEN y = <<>>
            ELSE /\ Value(Backwards(y), 10) = Value(Backwards(x[1]), 10) + Value(Backwards(x[2]), 10)
                 /\ \A i \in DOMAIN y : y[i] \in 0 .. 9
      [] routine = "strToInt" -> y = Greatest(-IntMax - 1, Least(IntMax, TextValue(x)))
      [] routine = "_atoi" -> TextValue(x) \in -IntMax .. IntMax => y = TextValue(x)
=============================================================================
