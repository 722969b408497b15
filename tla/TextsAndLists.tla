---------------------------- MODULE TextsAndLists ----------------------------
(***************************************************************************)
(* Routines over texts, lists and binary trees.                            *)
(*                                                                         *)
(* Texts: the string and memory routines of cpp/string, cpp/math/           *)
(* co-occurrence_matrix.cpp and the online-judge solutions.  A character is *)
(* a number: NUL ends a C string, SP is the blank, NL the newline.  A C      *)
(* string is an array whose last element is NUL; memory is an array of bytes. *)
(*                                                                         *)
(* Lists and trees: cpp/link, cpp/tree and the online-judge solutions.  A    *)
(* list is its next pointers: next[p] for the nodes 1 .. n, Null after the    *)
(* last; a tree is Nil or a node with its subtrees.                          *)
(***************************************************************************)
EXTENDS CArrays

CONSTANTS TextLen,       \* greatest length of a text
          Letters,       \* its letters: numbers above 2
          MemSize        \* bytes of memory

NUL == 0
SP == 1
NL == 2
EOS == <<NL>>            \* the word "</s>" that stands for the end of a line
Percent20 == <<-1, -2, -3>>
Texts(C) == UNION {[1 .. n -> C] : n \in 0 .. TextLen}
\* The results of a call that an assertion ends, and of one that reads outside its text.
Aborts == "aborts"
Outside == "outside"
CString(s) == [i \in 0 .. Len(s) |-> IF i = Len(s) THEN NUL ELSE s[i + 1]]

\* next[i]: the longest proper prefix of T that ends before T[i].  (kmp.cpp also holds the
\* beginning of a second getNext(), which was not finished.)
RECURSIVE FallBack(_, _, _, _), KmpLoop(_, _, _, _, _)
FallBack(T, next, k, c) == IF k > 0 /\ c # T[k] THEN FallBack(T, next, next[k], c) ELSE k
getNext(T, len) ==
    LET Step(s, i) ==
            LET k == FallBack(T, s.next, s.k, T[i - 1])
                k2 == IF T[i - 1] = T[k] THEN k + 1 ELSE k
            IN  [next |-> [s.next EXCEPT ![i] = k2], k |-> k2]
    IN  For([next |-> [i \in 0 .. len - 1 |-> IF i = 0 THEN -1 ELSE 0], k |-> 0], Up(2, len - 1), Step).next
KmpLoop(s, t, next, i, j) ==
    IF t[j] = NUL THEN i - j
    ELSE IF s[i] = NUL THEN -1
    ELSE IF s[i] = t[j] THEN KmpLoop(s, t, next, i + 1, j + 1)
    ELSE IF next[j] = -1 THEN KmpLoop(s, t, next, i + 1, 0)
    ELSE KmpLoop(s, t, next, i, next[j])
kmp(s, t) == KmpLoop(s, t, getNext(t, size(t) - 1), 0, 0)

\* Both compare from place to place; the bound of violentMatch() leaves out the last place.
FirstOf(s, p, places) ==
    LET hits == {i \in places : \A j \in DOMAIN p : s[i + j] = p[j]}
    IN  IF hits = {} THEN -1 ELSE CHOOSE i \in hits : \A h \in hits : i <= h
violentMatch(s, p) == IF size(p) = 0 THEN -1 ELSE FirstOf(s, p, 0 .. size(s) - size(p) - 1)
\* The number of places is a size_t: for a needle that is longer by two or more it wraps, and
\* haystack[i] is read behind the terminator.
SizeRange == 64    \* the values of a size_t, more than there are places
strStr(haystack, needle) ==
    LET places == (size(haystack) - size(needle) + 1) % SizeRange
    IN  IF size(needle) = 0 THEN 0
        ELSE IF places > size(haystack) + 1 THEN Outside
        ELSE FirstOf(haystack, needle, 0 .. places - 1)

-----------------------------------------------------------------------------
\* Copies within one memory, byte by byte.
memcpy1(mem, dest, src, n) == For(mem, Up(0, n - 1), LAMBDA m, i : [m EXCEPT ![dest + i] = m[src + i]])
my_memcpy_Forward(mem, dest, src, n) == memcpy1(mem, dest, src, n)
my_memcpy(mem, dest, src, n) ==
    IF dest <= src \/ dest >= src + n THEN memcpy1(mem, dest, src, n)
    ELSE For(mem, Down(n - 1, 0), LAMBDA m, i : [m EXCEPT ![dest + i] = m[src + i]])
memSet(mem, dest, x, n) == For(mem, Up(0, n - 1), LAMBDA m, i : [m EXCEPT ![dest + i] = x])

RECURSIVE strlen2(_, _), CopyLoop(_, _, _), my_string(_, _, _)
strlen2(mem, p) == IF mem[p] = NUL THEN 0 ELSE 1 + strlen2(mem, p + 1)
CopyLoop(mem, dest, src) ==
    LET m == [mem EXCEPT ![dest] = mem[src]]
    IN  IF mem[src] = NUL THEN m ELSE CopyLoop(m, dest + 1, src + 1)
strcpy2(mem, dest, src) == IF dest = src THEN mem ELSE CopyLoop(mem, dest, src)
\* The copy includes the terminator; a second one is then written after it.
Mystrcat(mem, des, src) ==
    LET end == des + strlen2(mem, des)
    IN  [CopyLoop(mem, end, src) EXCEPT ![end + strlen2(mem, src) + 1] = NUL]
\* my_strcmp() asserts that neither text is empty, my_string() that none is missing.
my_string(str1, str2, i) ==
    IF str1[i] # NUL /\ str1[i] = str2[i] THEN my_string(str1, str2, i + 1)
    ELSE IF str1[i] > str2[i] THEN 1 ELSE IF str1[i] < str2[i] THEN -1 ELSE 0
my_strcmp(str1, str2) ==
    IF str1[0] = NUL \/ str2[0] = NUL THEN Aborts ELSE my_string(str1, str2, 0)

-----------------------------------------------------------------------------
RECURSIVE reverse(_, _, _), SkipSpaces(_, _), Squeeze(_, _)
reverse(s, left, right) ==
    IF left < 0 \/ left >= size(s) \/ right < 0 \/ right >= size(s) \/ left >= right THEN s
    ELSE reverse(SwapAt(s, left, right), left + 1, right - 1)
ReverseChars(beg) == reverse(beg, 0, size(beg) - 1)

\* Leading blanks are dropped, runs of blanks become one, a trailing one is dropped; then
\* each word is reversed, and at last the whole text.  Of a text of blanks nothing is left,
\* and the test for the trailing one reads in front of it.
SkipSpaces(s, i) == IF i < size(s) /\ s[i] = SP THEN SkipSpaces(s, i + 1) ELSE i
Squeeze(s, i) ==
    IF i >= size(s) THEN <<>>
    ELSE IF s[i] = SP /\ i + 1 < size(s) /\ s[i + 1] = SP THEN Squeeze(s, i + 1)
    ELSE <<s[i]>> \o Squeeze(s, i + 1)
Trimmed(rm) == IF rm[Len(rm)] = SP THEN SubSeq(rm, 1, Len(rm) - 1) ELSE rm
reverseWords(s) ==
    LET squeezed == Squeeze(s, SkipSpaces(s, 0))
        rm_s == FromSeq(Trimmed(squeezed))
        last == size(rm_s) - 1
        Step(t, i) ==
            LET cut == IF t.s[i] = SP THEN [s |-> reverse(t.s, t.left, i - 1), left |-> i + 1] ELSE t
            IN  IF i = last THEN [cut EXCEPT !.s = reverse(cut.s, cut.left, last)] ELSE cut
    IN  IF size(s) <= 1 /\ s # FromSeq(<<SP>>) THEN ToSeq(s)
        ELSE IF squeezed = <<>> THEN Outside
        ELSE ToSeq(reverse(For([s |-> rm_s, left |-> 0], Up(0, last), Step).s, 0, last))

\* The text grows by two characters for each blank and is then filled from its end.
replaceSpace(s) ==
    LET spaceLen == Count(s, SP)
        Step(t, i) ==
            LET index == t.plus + i
            IN  IF t.s[i] # SP THEN [t EXCEPT !.s[index] = t.s[i]]
                ELSE [s |-> [t.s EXCEPT ![index] = Percent20[3], ![index - 1] = Percent20[2], ![index - 2] = Percent20[1]],
                      plus |-> t.plus - 2]
    IN  For([s |-> Resized(s, size(s) + 2 * spaceLen, SP), plus |-> 2 * spaceLen], Down(size(s) - 1, 0), Step).s

RECURSIVE MatchLoop(_, _, _, _)
MatchLoop(s, t, i, cur) ==
    LET next == IF cur < size(s) /\ t[i] = s[cur] THEN cur + 1 ELSE cur
    IN  i < size(t) /\ (next = size(s) \/ MatchLoop(s, t, i + 1, next))
isSubsequence(s, t) == s = t \/ MatchLoop(s, t, 0, 0)

\* readWord() takes characters from a stream; a newline after a word is put back, so that
\* the next call returns it as EOS.  myFun() calls it until it returns false.
RECURSIVE readWord(_, _), ReadAll(_)
readWord(in, word) ==      \* the word read, what is left of the stream, and whether one was read
    IF in = <<>> THEN [word |-> word, in |-> in, ok |-> word # <<>>]
    ELSE IF Head(in) \notin {SP, NL} THEN readWord(Tail(in), Append(word, Head(in)))
    ELSE IF word # <<>> THEN [word |-> word, in |-> IF Head(in) = NL THEN in ELSE Tail(in), ok |-> TRUE]
    ELSE IF Head(in) = NL THEN [word |-> EOS, in |-> Tail(in), ok |-> TRUE]
    ELSE readWord(Tail(in), <<>>)
ReadAll(in) == LET r == readWord(in, <<>>) IN IF r.ok THEN <<r.word>> \o ReadAll(r.in) ELSE <<>>

\* coCoo(): the pairs printed for a text of lines, given by the number of words in each;
\* words are numbered through.  ids is the window of the words before center.
Window == 4
LastWords(lines) == {For(0, Up(1, k), LAMBDA t, i : t + lines[i]) : k \in 1 .. Len(lines) - 1}
RECURSIVE PairsFrom(_, _, _, _)
PairsFrom(center, n, lineEnds, ids) ==
    LET pairs == [i \in DOMAIN ids |-> <<ids[i], center>>]
        kept == IF Len(ids) > Window - 1 THEN Tail(ids) ELSE ids
    IN  IF center > n THEN <<>>
        ELSE IF center \in lineEnds THEN pairs \o PairsFrom(center + 2, n, lineEnds, <<center + 1>>)
        ELSE pairs \o PairsFrom(center + 1, n, lineEnds, Append(kept, center))
coCoo(lines) == PairsFrom(2, For(0, Up(1, Len(lines)), LAMBDA t, i : t + lines[i]), LastWords(lines), <<1>>)

-----------------------------------------------------------------------------
\* References.
Occurs(s, p, i) == i + size(p) <= size(s) /\ \A j \in DOMAIN p : s[i + j] = p[j]
StringAt(m, p) == [i \in 1 .. strlen2(m, p) |-> m[p + i - 1]]
RECURSIVE Words(_, _)
Words(s, word) ==
    LET done == IF word = <<>> THEN <<>> ELSE <<word>>
    IN  IF s = <<>> THEN done
        ELSE IF Head(s) = SP THEN done \o Words(Tail(s), <<>>)
        ELSE Words(Tail(s), Append(word, Head(s)))
Joined(ws) == For(<<>>, Up(1, Len(ws)), LAMBDA t, i : (IF i = 1 THEN <<>> ELSE Append(t, SP)) \o ws[i])
Backwards(s) == [i \in DOMAIN s |-> s[Len(s) + 1 - i]]
EndsWord(s, i) == s[i] \in Letters /\ (i = Len(s) \/ s[i + 1] \notin Letters)
WordAt(s, i) ==
    LET b == CHOOSE b \in 1 .. i : s[b] \in Letters /\ (\A k \in b .. i : s[k] \in Letters) /\ (b = 1 \/ s[b - 1] \notin Letters)
    IN  SubSeq(s, b, i)
\* A text of len letters x or y at place p of memory.
Placed(mem, p, s) == [i \in DOMAIN mem |-> IF i \in p .. p + Len(s) - 1 THEN s[i - p + 1]
                                           ELSE IF i = p + Len(s) THEN NUL ELSE mem[i]]
Noise == [i \in 0 .. MemSize - 1 |-> 10 + i]
Short == UNION {[1 .. n -> Letters] : n \in 0 .. 3}

TextRoutines == {"kmp", "violentMatch", "strStr", "memcpy", "memset", "strcpy", "strcat", "strcmp", "reverse",
             "reverseWords", "replaceSpace", "isSubsequence", "readWord", "coCoo"}
TextInputs(routine) ==
    CASE routine \in {"kmp", "violentMatch"} -> Texts(Letters) \X (Texts(Letters) \ {<<>>})
      [] routine \in {"memcpy", "memset"} ->
            {p \in (0 .. MemSize) \X (0 .. MemSize) \X (0 .. MemSize) : p[1] + p[3] <= MemSize /\ p[2] + p[3] <= MemSize}
      [] routine = "strcpy" ->    \* dest before, or behind the end of, the source
            {p \in (0 .. MemSize) \X (0 .. MemSize) \X Short :
                /\ p[1] <= p[2] \/ p[1] > p[2] + Len(p[3])
                /\ p[1] + Len(p[3]) < MemSize /\ p[2] + Len(p[3]) < MemSize}
      [] routine = "strcat" -> {p \in Short \X Short : Len(p[1]) + 2 * Len(p[2]) + 3 <= MemSize}
      [] routine \in {"strStr", "strcmp", "isSubsequence"} -> Texts(Letters) \X Texts(Letters)
      [] routine \in {"reverse", "reverseWords", "replaceSpace"} -> Texts(Letters \cup {SP})
      [] routine = "readWord" -> Texts(Letters \cup {SP, NL})
      [] routine = "coCoo" -> UNION {[1 .. n -> {1, 2, 3, 7}] : n \in 1 .. 3}

TextAnswer(routine, x) ==
    CASE routine = "kmp" -> kmp(CString(x[1]), CString(x[2]))
      [] routine = "violentMatch" -> violentMatch(FromSeq(x[1]), FromSeq(x[2]))
      [] routine = "strStr" -> strStr(FromSeq(x[1]), FromSeq(x[2]))
      [] routine = "memcpy" -> <<my_memcpy(Noise, x[1], x[2], x[3]), memcpy1(Noise, x[1], x[2], x[3])>>
      [] routine = "memset" -> memSet(Noise, x[1], x[2], x[3])
      [] routine = "strcpy" -> strcpy2(Placed(Noise, x[2], x[3]), x[1], x[2])
      [] routine = "strcat" -> Mystrcat(Placed(Placed(Noise, 0, x[1]), MemSize - Len(x[2]) - 1, x[2]), 0, MemSize - Len(x[2]) - 1)
      [] routine = "strcmp" -> LET a == CString(x[1])
                                    b == CString(x[2]) IN <<my_strcmp(a, b), my_string(a, b, 0)>>
      [] routine = "reverse" -> ReverseChars(FromSeq(x))
      [] routine = "reverseWords" -> reverseWords(FromSeq(x))
      [] routine = "replaceSpace" -> replaceSpace(FromSeq(x))
      [] routine = "isSubsequence" -> isSubsequence(FromSeq(x[1]), FromSeq(x[2]))
      [] routine = "readWord" -> ReadAll(x)
      [] routine = "coCoo" -> coCoo(x)

\* A search returns the first occurrence or -1, violentMatch() only one that does not end
\* the text; strStr() reads outside its text for a needle longer by two or more and only
\* then, reverseWords() for a text of blanks and only then.  my_memcpy() copies what was
\* there before whatever the overlap, memcpy1() unless the copy runs into its own source;
\* strcat writes nothing beyond one byte after the terminator; comparison is the order of
\* dictionaries, which my_strcmp() refuses to give when a text is empty; readWord() returns
\* every word and every line end in order; coCoo() pairs the words of a line that are at
\* most Window apart, when no line but the last has a single word.
TextRight(routine, x, y) ==
    CASE routine \in {"kmp", "violentMatch", "strStr"} ->
            LET s == FromSeq(x[1])
                p == FromSeq(x[2])
                places == IF routine = "violentMatch" THEN 0 .. size(s) - size(p) - 1 ELSE 0 .. size(s)
                hits == {i \in places : Occurs(s, p, i)}
                wraps == routine = "strStr" /\ size(p) > size(s) + 1
            IN  IF wraps THEN y = Outside
                ELSE (hits = {} /\ y = -1) \/ (y \in hits /\ \A h \in hits : y <= h)
      [] routine = "memcpy" ->
            LET moved == [i \in DOMAIN Noise |-> IF i \in x[1] .. x[1] + x[3] - 1 THEN Noise[x[2] + i - x[1]] ELSE Noise[i]]
            IN  y[1] = moved /\ (y[2] = moved \/ (x[2] < x[1] /\ x[1] < x[2] + x[3]))
      [] routine = "memset" -> \A i \in DOMAIN y : y[i] = IF i \in x[1] .. x[1] + x[3] - 1 THEN x[2] ELSE Noise[i]
      [] routine = "strcpy" ->
            /\ StringAt(y, x[1]) = x[3]
            /\ \A i \in DOMAIN y \ (x[1] .. x[1] + Len(x[3])) : y[i] = Placed(Noise, x[2], x[3])[i]
      [] routine = "strcat" ->
            LET end == Len(x[1]) + Len(x[2])
                src == MemSize - Len(x[2]) - 1
            IN  /\ StringAt(y, 0) = x[1] \o x[2] /\ y[end + 1] = NUL
                /\ \A i \in end + 2 .. MemSize - 1 : y[i] = Placed(Noise, src, x[2])[i]
      [] routine = "strcmp" ->
            LET a == CString(x[1])
                b == CString(x[2])
                Before(c, d) == \E i \in DOMAIN c \cap DOMAIN d : c[i] < d[i] /\ \A k \in 0 .. i - 1 : c[k] = d[k]
                order == IF Before(b, a) THEN 1 ELSE IF Before(a, b) THEN -1 ELSE 0
            IN  y = <<IF <<>> \in {x[1], x[2]} THEN Aborts ELSE order, order>>
      [] routine = "reverse" -> ToSeq(y) = Backwards(x)
      [] routine = "reverseWords" ->
            y = IF x # <<>> /\ Words(x, <<>>) = <<>> THEN Outside ELSE Joined(Backwards(Words(x, <<>>)))
      [] routine = "replaceSpace" -> ToSeq(y) = For(<<>>, Up(1, Len(x)), LAMBDA t, i : t \o (IF x[i] = SP THEN Percent20 ELSE <<x[i]>>))
      [] routine = "isSubsequence" ->
            y = \E f \in [DOMAIN x[1] -> DOMAIN x[2]] : \A i, j \in DOMAIN x[1] : (i < j => f[i] < f[j]) /\ x[1][i] = x[2][f[i]]
      [] routine = "readWord" ->
            y = For(<<>>, Up(1, Len(x)), LAMBDA t, i : IF x[i] = NL THEN Append(t, EOS)
                                                       ELSE IF EndsWord(x, i) THEN Append(t, WordAt(x, i)) ELSE t)
      [] routine = "coCoo" ->
            LET n == For(0, Up(1, Len(x)), LAMBDA t, i : t + x[i])
                SameLine(i, j) == ~\E e \in LastWords(x) : i <= e /\ e < j
            IN  (\A k \in 1 .. Len(x) - 1 : x[k] > 1) =>
                   /\ {y[k] : k \in DOMAIN y} =
                         {p \in (1 .. n) \X (1 .. n) : p[1] < p[2] /\ p[2] - p[1] <= Window /\ SameLine(p[1], p[2])}
                   /\ \A k, l \in DOMAIN y : y[k] = y[l] => k = l
-----------------------------------------------------------------------------
CONSTANTS ListLen, ListVals,    \* lists of up to ListLen nodes with values below ListVals
          TreeSize              \* trees of up to TreeSize nodes

Null == 0
Chain(n) == [p \in 1 .. n |-> IF p = n THEN Null ELSE p + 1]
RECURSIVE ValuesFrom(_, _, _)
ValuesFrom(next, val, p) == IF p = Null THEN <<>> ELSE <<val[p]>> \o ValuesFrom(next, val, next[p])

RECURSIVE ReverseLoop(_, _, _, _)
ReverseLoop(next, pNode, pPrev, res) ==
    LET pNext == next[pNode]
    IN  IF pNode = Null THEN [next |-> next, head |-> res]
        ELSE ReverseLoop([next EXCEPT ![pNode] = pPrev], pNext, pNode, IF pNext = Null THEN pNode ELSE res)
ReverseList(next, pHead) == ReverseLoop(next, pHead, Null, Null)

\* A slow and a fast pointer meet inside the cycle; a second walk meets at its entry.
RECURSIVE MeetLoop(_, _, _), EntryLoop(_, _, _)
MeetLoop(next, left, right) ==
    IF right = Null \/ next[right] = Null THEN Null
    ELSE LET l == next[left]
             r == next[next[right]]
         IN  IF l = r THEN l ELSE MeetLoop(next, l, r)
EntryLoop(next, left, right) == IF left = right THEN left ELSE EntryLoop(next, next[left], next[right])
detectCycle(next, head) ==
    LET met == MeetLoop(next, head, head)
    IN  IF head = Null THEN Null
        ELSE IF met = Null THEN Null ELSE EntryLoop(next, met, head)

\* Only neighbours with the same value are removed; the task in the file's header wants
\* every later node of a value gone.
RECURSIVE SkipSame(_, _, _, _), DuplicateLoop(_, _, _)
SkipSame_One(next, val, p, x) == IF p # Null /\ val[p] = x THEN next[p] ELSE p
SkipSame(next, val, p, x) == IF p # Null /\ val[p] = x THEN SkipSame(next, val, next[p], x) ELSE p
DuplicateLoop(next, val, cur) ==
    IF cur = Null THEN next
    ELSE LET nx == [next EXCEPT ![cur] = SkipSame(next, val, next[cur], val[cur])]
         IN  DuplicateLoop(nx, val, nx[cur])
removeDuplicateNodes(next, val, head) == DuplicateLoop(next, val, head)

RECURSIVE Length(_, _), StepsFrom(_, _, _)
Length(next, p) == IF p = Null THEN 0 ELSE 1 + Length(next, next[p])
StepsFrom(next, p, n) == IF n = 0 THEN p ELSE StepsFrom(next, next[p], n - 1)
kthToLast(next, val, head, k) ==
    LET len == Length(next, head)
    IN  IF head = Null \/ k < 0 THEN -1
        ELSE IF k >= len THEN val[head] ELSE val[StepsFrom(next, head, len - k)]

\* Merges by relinking; the lists are merged one after the other into the first.
RECURSIVE mergeTwoLists(_, _, _, _)
mergeTwoLists(next, val, l1, l2) ==
    LET first == IF val[l1] < val[l2] THEN l1 ELSE l2
        rest == IF first = l1 THEN mergeTwoLists(next, val, next[l1], l2)
                ELSE mergeTwoLists(next, val, l1, next[l2])
    IN  IF l1 = Null THEN [next |-> next, head |-> l2]
        ELSE IF l2 = Null THEN [next |-> next, head |-> l1]
        ELSE [next |-> [rest.next EXCEPT ![first] = rest.head], head |-> first]
mergeKLists(next, val, lists) ==
    For([next |-> next, head |-> Null], Up(1, Len(lists)),
        LAMBDA s, i : mergeTwoLists(s.next, val, s.head, lists[i]))

\* Separate chaining, f2() of cpp/stl/func.cpp: node i holds the i-th key; a chain grows at
\* its end.  The two search lengths are sums over the table.
RECURSIVE EndOf(_, _), ListLength(_, _)
EndOf(next, p) == IF next[p] = Null THEN p ELSE EndOf(next, next[p])
Insert(next, head, s) == [next EXCEPT ![EndOf(next, head)] = s]
ListLength(next, head) == IF head = Null THEN 0 ELSE 1 + ListLength(next, next[head])
f2(keys, len, M) ==
    LET Hashed(s, i) ==
            LET slot == keys[i] % M
                nx == Insert(s.next, s.p[slot], i)
            IN  IF s.p[slot] = Null THEN [s EXCEPT !.p[slot] = i, !.ASL = @ + 1]
                ELSE [s EXCEPT !.next = nx, !.ASL = @ + ListLength(nx, s.p[slot])]
        table == For([p |-> [m \in 0 .. len - 1 |-> Null], next |-> [i \in DOMAIN keys |-> Null], ASL |-> 0],
                     Up(1, Len(keys)), Hashed)
    IN  [chains |-> [m \in 0 .. len - 1 |-> ValuesFrom(table.next, keys, table.p[m])],
         ASL |-> table.ASL,
         ASL1 |-> For(0, Up(0, len - 1), LAMBDA t, m : t + ListLength(table.next, table.p[m]))]

\* The handlers of cpp/design_pattern/Chain_of_Responsibility.cpp, each with a successor.
Boss(days) == IF days <= 7 THEN "boss" ELSE "refused"
Manager(days) == IF days <= 3 THEN "manager" ELSE Boss(days)
Director(days) == IF days <= 1 THEN "director" ELSE Manager(days)

-----------------------------------------------------------------------------
Nil == <<>>
Node(l, v, r) == [left |-> l, val |-> v, right |-> r]

RECURSIVE PreLoop(_, _), InLoop(_, _, _), LeftSpine(_, _), InLoop2(_, _, _)
PreLoop(st, res) ==
    IF st = <<>> THEN res
    ELSE LET cur == Head(st)
             Pushed(t, s) == IF t = Nil THEN s ELSE <<t>> \o s
         IN  PreLoop(Pushed(cur.left, Pushed(cur.right, Tail(st))), Append(res, cur.val))
preorderTraversal(root) == IF root = Nil THEN <<>> ELSE PreLoop(<<root>>, <<>>)

InLoop(cur, st, res) ==
    IF cur = Nil /\ st = <<>> THEN res
    ELSE IF cur # Nil THEN InLoop(cur.left, <<cur>> \o st, res)
    ELSE InLoop(Head(st).right, Tail(st), Append(res, Head(st).val))
inorderTraversal(root) == InLoop(root, <<>>, <<>>)

\* The same with an inner loop down the left spine.
LeftSpine(cur, st) == IF cur = Nil THEN st ELSE LeftSpine(cur.left, <<cur>> \o st)
InLoop2(cur, st, res) ==
    LET s == LeftSpine(cur, st)
    IN  IF cur = Nil /\ st = <<>> THEN res
        ELSE InLoop2(Head(s).right, Tail(s), Append(res, Head(s).val))
inorderTraversal2(root) == IF root = Nil THEN <<>> ELSE InLoop2(root, <<>>, <<>>)

\* Nodes are told apart by their values.
RECURSIVE lowestCommonAncestor(_, _, _)
lowestCommonAncestor(root, p, q) ==
    IF root = Nil THEN Null
    ELSE IF root.val \in {p, q} THEN root.val
    ELSE LET left == lowestCommonAncestor(root.left, p, q)
             right == lowestCommonAncestor(root.right, p, q)
         IN  IF left = Null /\ right = Null THEN Null
             ELSE IF left # Null /\ right # Null THEN root.val
             ELSE IF left # Null THEN left ELSE right

RECURSIVE getHeight(_), isBalanced(_), helper(_, _)
getHeight(root) == IF root = Nil THEN 0 ELSE Greatest(getHeight(root.left), getHeight(root.right)) + 1
isBalanced(root) ==
    \/ root = Nil
    \/ /\ getHeight(root.left) - getHeight(root.right) \in -1 .. 1
       /\ isBalanced(root.left) /\ isBalanced(root.right)

\* convertBST(): the right subtree first, with the sum so far.
helper(root, sum) ==
    IF root = Nil THEN [tree |-> Nil, sum |-> sum]
    ELSE LET r == helper(root.right, sum)
             v == root.val + r.sum
             l == helper(root.left, v)
         IN  [tree |-> Node(l.tree, v, r.tree), sum |-> l.sum]
convertBST(root) == helper(root, 0).tree

-----------------------------------------------------------------------------
\* References: every tree shape whose inorder is lo .. hi, its subtrees, and its nodes.
RECURSIVE Shapes(_, _), Subtrees(_), Preorder(_), Inorder(_)
Shapes(lo, hi) ==
    IF lo > hi THEN {Nil}
    ELSE UNION {{Node(l, k, r) : l \in Shapes(lo, k - 1), r \in Shapes(k + 1, hi)} : k \in lo .. hi}
Subtrees(t) == IF t = Nil THEN {} ELSE {t} \cup Subtrees(t.left) \cup Subtrees(t.right)
Preorder(t) == IF t = Nil THEN <<>> ELSE <<t.val>> \o Preorder(t.left) \o Preorder(t.right)
Inorder(t) == IF t = Nil THEN <<>> ELSE Inorder(t.left) \o <<t.val>> \o Inorder(t.right)
ValuesIn(t) == {u.val : u \in Subtrees(t)}
DepthOf(t, v) == Cardinality({u \in Subtrees(t) : v \in ValuesIn(u)})
Trees == UNION {Shapes(1, n) : n \in 0 .. TreeSize}
Valued(n) == [1 .. n -> 0 .. ListVals - 1]
Sorted(s) == \A i \in 2 .. Len(s) : s[i - 1] <= s[i]
SortedLists(n) == {s \in UNION {Valued(k) : k \in 0 .. n} : Sorted(s)}
Occurrences(s, x) == Cardinality({i \in DOMAIN s : s[i] = x})

\* The first node of every value.
Distinct(s) ==
    For(<<>>, Up(1, Len(s)), LAMBDA t, i : IF \E k \in DOMAIN t : t[k] = s[i] THEN t ELSE Append(t, s[i]))

ListRoutines == {"ReverseList", "detectCycle", "removeDuplicates", "kthToLast", "mergeKLists", "traversals",
             "ancestor", "balanced", "convertBST", "chaining", "days"}
ListInputs(routine) ==
    CASE routine = "ReverseList" -> 1 .. ListLen
      [] routine = "detectCycle" -> {p \in (0 .. 2 * ListLen) \X (0 .. 2 * ListLen) : p[2] <= p[1]}
      [] routine = "removeDuplicates" -> UNION {Valued(n) : n \in 0 .. ListLen}
      [] routine = "kthToLast" -> (0 .. ListLen) \X (1 .. ListLen)
      [] routine = "mergeKLists" -> SortedLists(3) \X SortedLists(2) \X SortedLists(2)
      [] routine \in {"traversals", "balanced", "convertBST"} -> Trees
      [] routine = "chaining" -> (UNION {[1 .. n -> 0 .. 2 * ListVals - 1] : n \in 0 .. ListLen - 1}) \X (1 .. 3)
      [] routine = "days" -> 0 .. 10
      [] routine = "ancestor" -> UNION {{<<t, p, q>> : p \in ValuesIn(t), q \in ValuesIn(t)} : t \in Trees}

\* Three lists in one heap.
Heap(x) == x[1] \o x[2] \o x[3]
Firsts(x) == [k \in 1 .. 3 |-> IF x[k] = <<>> THEN Null ELSE 1 + (IF k > 1 THEN Len(x[1]) ELSE 0) + (IF k > 2 THEN Len(x[2]) ELSE 0)]
Linked(x) == [p \in DOMAIN Heap(x) |->
                 IF p \in {Len(x[1]), Len(x[1]) + Len(x[2]), Len(Heap(x))} THEN Null ELSE p + 1]

ListAnswer(routine, x) ==
    CASE routine = "ReverseList" -> ReverseList(Chain(x), 1)
      [] routine = "detectCycle" -> detectCycle([Chain(x[1]) EXCEPT ![x[1]] = x[2]], IF x[1] = 0 THEN Null ELSE 1)
      [] routine = "removeDuplicates" ->
            LET head == IF x = <<>> THEN Null ELSE 1
            IN  ValuesFrom(removeDuplicateNodes(Chain(Len(x)), x, head), x, head)
      [] routine = "kthToLast" -> kthToLast(Chain(x[1]), [p \in 1 .. x[1] |-> p], IF x[1] = 0 THEN Null ELSE 1, x[2])
      [] routine = "mergeKLists" ->
            LET m == mergeKLists(Linked(x), Heap(x), Firsts(x)) IN ValuesFrom(m.next, Heap(x), m.head)
      [] routine = "traversals" -> <<preorderTraversal(x), inorderTraversal(x), inorderTraversal2(x)>>
      [] routine = "ancestor" -> lowestCommonAncestor(x[1], x[2], x[3])
      [] routine = "balanced" -> isBalanced(x)
      [] routine = "convertBST" -> convertBST(x)
      [] routine = "chaining" -> f2(x[1], 4, x[2])
      [] routine = "days" -> Director(x)

\* The reversed list ends at the old head and visits all nodes; the cycle's entry is the
\* node the last one points to; removing duplicates loses no value, and leaves the first
\* node of each value when equal values are neighbours; the k-th node from the end; the
\* merge is sorted and keeps every element; the loops with a stack visit nodes in the order
\* of the recursion; the deepest node above both; every value of the search tree becomes
\* the sum of those not smaller; a chain has the keys of its slot in the order they came;
\* and the lowest handler whose limit suffices decides.
ListRight(routine, x, y) ==
    CASE routine = "ReverseList" -> ValuesFrom(y.next, [p \in 1 .. x |-> p], y.head) = [i \in 1 .. x |-> x + 1 - i]
      [] routine = "detectCycle" -> y = x[2]
      [] routine = "removeDuplicates" ->
            LET Neighbours == \A i, j \in DOMAIN x : x[i] = x[j] => \A k \in i .. j : x[k] = x[i]
            IN  Distinct(y) = Distinct(x) /\ (Neighbours => y = Distinct(x))
      [] routine = "kthToLast" -> y = IF x[1] = 0 THEN -1 ELSE Greatest(1, x[1] + 1 - x[2])
      [] routine = "mergeKLists" ->
            Sorted(y) /\ Len(y) = Len(Heap(x)) /\ \A i \in DOMAIN y : Occurrences(y, y[i]) = Occurrences(Heap(x), y[i])
      [] routine = "traversals" -> y = <<Preorder(x), Inorder(x), Inorder(x)>>
      [] routine = "ancestor" ->
            \A u \in Subtrees(x[1]) : {x[2], x[3]} \subseteq ValuesIn(u) =>
                /\ y \in ValuesIn(u)
                /\ DepthOf(x[1], y) >= DepthOf(x[1], u.val)
                /\ \E w \in Subtrees(x[1]) : w.val = y /\ {x[2], x[3]} \subseteq ValuesIn(w)
      [] routine = "balanced" ->
            y = \A u \in Subtrees(x) :
                   LET Deepest(t) == IF t = Nil THEN 0 ELSE CHOOSE d \in {DepthOf(t, v) : v \in ValuesIn(t)} :
                                                               \A v \in ValuesIn(t) : DepthOf(t, v) <= d
                   IN  Deepest(u.left) - Deepest(u.right) \in -1 .. 1
      [] routine = "chaining" ->
            /\ \A m \in 0 .. 3 : y.chains[m] = SelectSeq(x[1], LAMBDA k : k % x[2] = m)
            /\ y.ASL = Cardinality({<<i, j>> \in (DOMAIN x[1]) \X (DOMAIN x[1]) : i <= j /\ x[1][i] % x[2] = x[1][j] % x[2]})
            /\ y.ASL1 = Len(x[1])
      [] routine = "days" ->
            \A rank \in {<<"director", 0, 1>>, <<"manager", 2, 3>>, <<"boss", 4, 7>>, <<"refused", 8, 10>>} :
                (y = rank[1]) = (x \in rank[2] .. rank[3])
      [] routine = "convertBST" ->
            Inorder(y) = [i \in 1 .. Len(Inorder(x)) |->
                             For(0, Up(i, Len(Inorder(x))), LAMBDA t, k : t + Inorder(x)[k])]
=============================================================================
