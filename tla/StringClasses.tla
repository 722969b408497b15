--------------------------- MODULE StringClasses ----------------------------
(***************************************************************************)
(* The two string classes of src/cpp/string that own a buffer.  Each section *)
(* is one class; the variables are those of the class in use.              *)
(***************************************************************************)
EXTENDS Integers, Sequences, FiniteSets, CArrays

CONSTANTS Objects, Literals, LengthMax   \* String variables; char* arguments; bound
CONSTANTS StringVars, StringTexts,   \* the string variables and the literals used
          STRING_INIT_SIZE, StringMax  \* first capacity; bound on _end

VARIABLES obj, held, ret

-----------------------------------------------------------------------------
\* The class String of src/cpp/string/string_class.cpp: every object owns the
\* buffer data points to.  A buffer is an address with its text (the NUL is
\* implied by the length); addresses are reused after delete[].
\*   obj: [data, size, heap]: variable -> address, variable -> int, address -> text
\*   held: variable -> the value it should have
\*   ret: the last operator== : got, wanted

NULL == 0         \* no String in this variable
Alive == {v \in Objects : obj.data[v] # NULL}

StrInit ==
    /\ obj = [data |-> [v \in Objects |-> NULL], size |-> [v \in Objects |-> 0],
              heap |-> [a \in {} |-> <<>>]]
    /\ held = [v \in Objects |-> <<>>]
    /\ ret = <<FALSE, FALSE>>

\* delete[] and new char[n + 1] with strcpy().
Freed(h, a) == [b \in DOMAIN h \ {a} |-> h[b]]
NewBuffer(h) == CHOOSE a \in 1 .. Cardinality(DOMAIN h) + 1 : a \notin DOMAIN h
Stored(h, a, text) == [b \in DOMAIN h \cup {a} |-> IF b = a THEN text ELSE h[b]]

Owns(v, h, text) ==
    LET a == NewBuffer(h)
    IN  /\ Len(text) <= LengthMax
        /\ obj' = [data |-> [obj.data EXCEPT ![v] = a],
                   size |-> [obj.size EXCEPT ![v] = Len(text)], heap |-> Stored(h, a, text)]
        /\ UNCHANGED ret

Construct(v, str) == v \notin Alive /\ Owns(v, obj.heap, str) /\ held' = [held EXCEPT ![v] = str]
Copy_Shares(v, w) ==
    /\ v \notin Alive /\ w \in Alive
    /\ obj' = [obj EXCEPT !.data[v] = obj.data[w], !.size[v] = obj.size[w]]
    /\ held' = [held EXCEPT ![v] = held[w]]
    /\ UNCHANGED ret
Copy(v, w) ==
    /\ v \notin Alive /\ w \in Alive
    /\ Owns(v, obj.heap, obj.heap[obj.data[w]])
    /\ held' = [held EXCEPT ![v] = held[w]]
StrDestroy(v) ==
    /\ v \in Alive
    /\ obj' = [obj EXCEPT !.data[v] = NULL, !.size[v] = 0, !.heap = Freed(@, obj.data[v])]
    /\ held' = [held EXCEPT ![v] = <<>>]
    /\ UNCHANGED ret

\* v is the result of w + x, of w.substr(start, n) (start + n within the text).
StrPlus(v, w, x) ==
    /\ v \notin Alive /\ {w, x} \subseteq Alive
    /\ Owns(v, obj.heap, obj.heap[obj.data[w]] \o obj.heap[obj.data[x]])
    /\ held' = [held EXCEPT ![v] = held[w] \o held[x]]
StrSubstr(v, w, start, n) ==
    /\ v \notin Alive /\ w \in Alive /\ start + n <= obj.size[w]
    /\ Owns(v, obj.heap, SubSeq(obj.heap[obj.data[w]], start + 1, start + n))
    /\ held' = [held EXCEPT ![v] = SubSeq(held[w], start + 1, start + n)]

StrAssign_NoTest(v, w) ==
    /\ {v, w} \subseteq Alive
    /\ LET h == Freed(obj.heap, obj.data[v])
       IN  Owns(v, h, IF obj.data[w] \in DOMAIN h THEN h[obj.data[w]] ELSE <<>>)
    /\ held' = [held EXCEPT ![v] = held[w]]
StrAssign(v, w) ==
    /\ {v, w} \subseteq Alive
    /\ IF obj.data[v] = obj.data[w] THEN UNCHANGED <<obj, ret>>
       ELSE LET h == Freed(obj.heap, obj.data[v]) IN Owns(v, h, h[obj.data[w]])
    /\ held' = [held EXCEPT ![v] = held[w]]
AssignText(v, str) ==
    /\ v \in Alive
    /\ Owns(v, Freed(obj.heap, obj.data[v]), str)
    /\ held' = [held EXCEPT ![v] = str]

Equals(v, w) ==
    /\ {v, w} \subseteq Alive
    /\ ret' = <<obj.heap[obj.data[v]] = obj.heap[obj.data[w]], held[v] = held[w]>>
    /\ UNCHANGED <<obj, held>>

StrNext ==
    \E v \in Objects :
       \/ StrDestroy(v)
       \/ \E str \in Literals : Construct(v, str) \/ AssignText(v, str)
       \/ \E w \in Objects :
             \/ Copy(v, w) \/ StrAssign(v, w) \/ Equals(v, w)
             \/ \E x \in Objects : StrPlus(v, w, x)
             \/ \E start, n \in 0 .. 1 : StrSubstr(v, w, start, n)

\* Every object owns a buffer of its own that is still allocated, none is leaked, and its
\* text and size are the value of the object, whatever was copied, assigned (to itself
\* too) and destroyed.
StrSound ==
    /\ \A v, w \in Alive : v # w => obj.data[v] # obj.data[w]
    /\ {obj.data[v] : v \in Alive} = DOMAIN obj.heap
    /\ \A v \in Alive : obj.heap[obj.data[v]] = held[v] /\ obj.size[v] = Len(held[v])
    /\ ret[1] = ret[2]

-----------------------------------------------------------------------------
\* basic_string of src/cpp/string/my_string.cpp.  A string points to a buffer of _capacity
\* characters; _end is one past the NUL that append_data() writes.  The copy constructor is
\* the implicit one: it shares the buffer, which the first of the two to be destroyed or
\* assigned releases and the other still points to.  What follows then is undefined (its
\* destructor releases the buffer again), so a behaviour ends there.  The calls follow what
\* the code can take: a text must end in a NUL that was written, so that strlen() stops, and
\* a string is neither assigned nor added to itself or to a copy that shares its buffer (which
\* is released before it is read).  Buffers that nobody points to are not kept (realloc() and
\* append_data() lose the one that deallocate() has just allocated).
\*   obj: [begin, end, heap]: variable -> address, variable -> offset in the buffer,
\*        address -> characters
\*   held: [text, copied]: variable -> the text it stands for, or NoText where the
\*        specification does not say; the variables copied from or to
\*   ret: the last find(): got, wanted

NUL == 0
Unset == -1       \* a character of a fresh buffer
NoText == <<NUL>>

Live(v) == obj.begin[v] # NULL
Dangles(v) == Live(v) /\ obj.begin[v] \notin DOMAIN obj.heap
Str(v) == [data |-> obj.heap[obj.begin[v]], _end |-> obj.end[v]]

capacity(s) == size(s.data)
Fresh(n) == [data |-> [i \in 0 .. n - 1 |-> Unset], _end |-> 0]
get_realloc_size(len) ==
    LET doubled[res \in Nat \ {0}] == IF res <= len THEN doubled[2 * res] ELSE res
    IN  doubled[STRING_INIT_SIZE]
realloc(len) == Fresh(get_realloc_size(len))

Written(data, start, text) ==
    [i \in DOMAIN data |-> IF i \in start .. start + Len(text) - 1 THEN text[i - start + 1]
                           ELSE IF i = start + Len(text) THEN NUL ELSE data[i]]
\* Mutant: no room for the NUL.
append_data_NoNul(s, text, start) ==
    IF start + Len(text) > capacity(s)
    THEN [data |-> Written(realloc(start + Len(text) + 1).data, 0, text),
          _end |-> Len(text) + 1]
    ELSE [data |-> Written(s.data, start, text), _end |-> start + Len(text) + 1]
append_data(s, text, start) ==
    LET need_size == start + Len(text) + 1
    IN  IF need_size > capacity(s)
        THEN [data |-> Written(Fresh(get_realloc_size(need_size)).data, 0, text),
              _end |-> Len(text) + 1]
        ELSE [data |-> Written(s.data, start, text), _end |-> need_size]

Size(s) == IF s._end = 0 THEN 0 ELSE s._end - 1
\* What strlen() and c_str() see, for a string whose buffer holds a NUL.
Terminated(s) == \E i \in DOMAIN s.data : s.data[i] = NUL /\ \A j \in 0 .. i : s.data[j] # Unset
CText(s) ==
    LET n == CHOOSE n \in DOMAIN s.data : s.data[n] = NUL /\ \A j \in 0 .. n - 1 : s.data[j] # NUL
    IN  [i \in 1 .. n |-> s.data[i - 1]]

\* operator[] and at(): the assertion is a TLC error.
at(s, index) == CASE index < Size(s) -> s.data[index]
\* Mutant: the sizes are not compared.
Equal_Prefix(a, b) == \A i \in 0 .. Size(a) - 1 : i < Size(b) => at(a, i) = at(b, i)
Equal(a, b) == Size(a) = Size(b) /\ \A i \in 0 .. Size(a) - 1 : at(a, i) = at(b, i)
\* operator<< goes from begin() to end(), which lies behind the NUL.
Insertion(s) == [i \in 1 .. s._end |-> s.data[i - 1]]

\* v has what s has at address a, and the buffer it had elsewhere is released.  Strings that
\* share the buffer it writes stand for no text any more.
Becomes(v, a, s, text) ==
    /\ s._end <= StringMax
    /\ obj' = [begin |-> [obj.begin EXCEPT ![v] = a], end |-> [obj.end EXCEPT ![v] = s._end],
               heap |-> Stored(Freed(obj.heap, obj.begin[v]), a, s.data)]
    /\ held' = [text |-> [u \in StringVars |->
                             IF u = v THEN text
                             ELSE IF obj.begin[u] = a THEN NoText ELSE held.text[u]],
                copied |-> held.copied]
    /\ UNCHANGED ret
\* The buffer is a new one.
Gets(v, s, text) == Becomes(v, NewBuffer(obj.heap), s, text)

MyStrInit ==
    /\ obj = [begin |-> [v \in StringVars |-> NULL], end |-> [v \in StringVars |-> 0],
              heap |-> [a \in {} |-> <<>>]]
    /\ held = [text |-> [v \in StringVars |-> <<>>], copied |-> {}]
    /\ ret = <<0, 0>>

Default(v) == ~ Live(v) /\ Gets(v, realloc(STRING_INIT_SIZE), <<>>)
\* basic_string(t, n) makes room for n characters and stores none.
Repeated(v, n) == ~ Live(v) /\ Gets(v, realloc(n), NoText)
FromText(v, text) ==
    ~ Live(v) /\ Gets(v, append_data(realloc(STRING_INIT_SIZE), text, 0), text)
\* The implicit copy constructor.
CopyString(v, w) ==
    /\ ~ Live(v) /\ Live(w)
    /\ obj' = [obj EXCEPT !.begin[v] = obj.begin[w], !.end[v] = obj.end[w]]
    /\ held' = [text |-> [held.text EXCEPT ![v] = held.text[w]],
                copied |-> held.copied \cup {v, w}]
    /\ UNCHANGED ret
\* Mutant: operator= is the implicit one too.
MyStrAssign_Memberwise(v, w) ==
    /\ obj.begin[v] # obj.begin[w] /\ Live(v) /\ Live(w) /\ Terminated(Str(w))
    /\ obj' = [obj EXCEPT !.begin[v] = obj.begin[w], !.end[v] = obj.end[w]]
    /\ held' = [held EXCEPT !.text[v] = held.text[w]]
    /\ UNCHANGED ret
MyStrAssign(v, w) ==
    /\ obj.begin[v] # obj.begin[w] /\ Live(v) /\ Live(w) /\ Terminated(Str(w))
    /\ Gets(v, append_data(realloc(STRING_INIT_SIZE), CText(Str(w)), 0), held.text[w])
\* operator+ writes behind the NUL of its left operand, or over it in a buffer that is new
\* because the text did not fit: its result is no concatenation.
MyStrPlus(v, w) ==
    /\ obj.begin[v] # obj.begin[w] /\ Live(v) /\ Live(w) /\ Terminated(Str(w))
    /\ LET s == append_data(Str(v), CText(Str(w)), obj.end[v])
           a == IF capacity(s) = capacity(Str(v)) THEN obj.begin[v] ELSE NewBuffer(obj.heap)
       IN  Becomes(v, a, s, NoText)
MyStrSubstr(v, w, pos, len) ==
    /\ ~ Live(v) /\ Live(w) /\ pos + len <= Size(Str(w))
    /\ LET part == [i \in 1 .. len |-> Str(w).data[pos + i - 1]]
       IN  Gets(v, append_data(realloc(len + 1), part, 0),
                IF held.text[w] = NoText THEN NoText
                ELSE SubSeq(held.text[w], pos + 1, pos + len))
\* operator>>: deallocate() leaves a buffer of the first size.
Extract(v, text) == Live(v) /\ Gets(v, append_data(Fresh(STRING_INIT_SIZE), text, 0), text)
MyStrDestroy(v) ==
    /\ Live(v)
    /\ obj' = [begin |-> [obj.begin EXCEPT ![v] = NULL], end |-> [obj.end EXCEPT ![v] = 0],
               heap |-> Freed(obj.heap, obj.begin[v])]
    /\ held' = [held EXCEPT !.text[v] = <<>>]
    /\ UNCHANGED ret

\* A string with a text to be compared with.
Shown(v) == Live(v) /\ ~ Dangles(v) /\ held.text[v] # NoText

\* Number of places tried: size() - input.size() + 1, a size_t.  A text that is longer by two
\* or more wraps it and fails the assertion of at(); the empty text is never found.
find(v, w) ==
    LET n == Size(Str(v))
        m == Size(Str(w))
        s == held.text[v]
        t == held.text[w]
        Occurs(i) == \A j \in 0 .. m - 1 : Str(v).data[i + j] = Str(w).data[j]
        hits == {i \in 0 .. n - m : m > 0 /\ Occurs(i)}
        texts == {i \in 0 .. Len(s) - Len(t) : SubSeq(s, i + 1, i + Len(t)) = t}
        First(S) == IF S = {} THEN -1 ELSE CHOOSE i \in S : \A k \in S : i <= k
    IN  /\ Shown(v) /\ Shown(w) /\ n + 1 >= m /\ t # <<>>
        /\ ret' = <<First(hits), First(texts)>>
        /\ UNCHANGED <<obj, held>>

MyStrNext ==
    /\ \A v \in StringVars : ~ Dangles(v)
    /\ \E v \in StringVars :
          \/ MyStrDestroy(v) \/ Default(v) \/ \E n \in {1, STRING_INIT_SIZE} : Repeated(v, n)
          \/ \E text \in StringTexts : FromText(v, text) \/ Extract(v, text)
          \/ \E w \in StringVars :
                \/ CopyString(v, w) \/ MyStrAssign(v, w) \/ MyStrPlus(v, w) \/ find(v, w)
                \/ \E pos, len \in 0 .. 2 : MyStrSubstr(v, w, pos, len)

\* Only strings that were copied share a buffer or point to one that is released.  A string
\* ends within its buffer and, unless it was copied, in a NUL, also when its text fills the
\* buffer.  A string that stands for a text has its size, c_str() shows it, operator<< writes
\* it with its NUL, operator== tells it from other texts and find() returns the first place.
MyStrSound ==
    /\ \A v, w \in StringVars : v # w /\ Live(v) /\ obj.begin[v] = obj.begin[w] =>
          v \in held.copied
    /\ \A v \in StringVars : Dangles(v) => v \in held.copied
    /\ \A v \in StringVars : Live(v) /\ ~ Dangles(v) =>
          /\ obj.end[v] <= capacity(Str(v))
          /\ obj.end[v] > 0 /\ v \notin held.copied => Str(v).data[obj.end[v] - 1] = NUL
    /\ \A v \in StringVars : Shown(v) =>
          /\ Size(Str(v)) = Len(held.text[v])
          /\ obj.end[v] > 0 => /\ Terminated(Str(v)) /\ CText(Str(v)) = held.text[v]
                               /\ Insertion(Str(v)) = Append(held.text[v], NUL)
    /\ \A v, w \in StringVars : Shown(v) /\ Shown(w) =>
          Equal(Str(v), Str(w)) = (held.text[v] = held.text[w])
    /\ ret[1] = ret[2]
=============================================================================
