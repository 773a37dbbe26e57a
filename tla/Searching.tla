----------------------------- MODULE Searching -----------------------------
(* The searches whose course depends on what is known of the lengths       *)
(* (algorithm/lower_bound.hpp, upper_bound.hpp, equal_range.hpp,           *)
(* binary_search.hpp, search.hpp, search_n.hpp, find_end.hpp,              *)
(* permutation.hpp's is_permutation), as operators on sequences of values. *)
(* sized says whether the iterators know their distance.  An answer is the *)
(* iterator, or the pair of iterators, that is returned.  Then the         *)
(* algorithms that make a new range out of one or two                      *)
(* (algorithm/set_algorithm.hpp, unique_copy.hpp, partial_sort_copy.hpp,   *)
(* sample.hpp, aux_/sort_n_with_buffer.hpp, ...) or answer about two, as   *)
(* operators on sequences of elements e, compared by their e.key.          *)
EXTENDS Sorting

(***************************************************************************)
(* Binary searches in a sorted v                                           *)
(***************************************************************************)
Below(v, x) == {k \in DOMAIN v : v[k] < x}
NotAbove(v, x) == {k \in DOMAIN v : ~(x < v[k])}

LowerBound(v, x, sized) == PartitionPoint(1, Len(v) + 1, Below(v, x), sized)
UpperBound(v, x, sized) == PartitionPoint(1, Len(v) + 1, NotAbove(v, x), sized)

BinarySearch(v, x, sized) ==
    LET i == LowerBound(v, x, sized) IN i # Len(v) + 1 /\ ~(x < v[i])

EqualRangeN(v, f, n, x) ==
    LET States == {w \in [f : Nat, n : 0..n] : w.f \in f..(f + n) /\ w.f + w.n <= f + n}
        Middle(w) == w.f + w.n \div 2
        halve == Loop(States, [w \in {u \in States : u.n > 0 /\ v[Middle(u)] # x} |->
                    IF v[Middle(w)] < x
                    THEN [f |-> Middle(w) + 1, n |-> w.n - (w.n \div 2 + 1)]
                    ELSE [f |-> w.f, n |-> w.n \div 2]])
        last == halve[[f |-> f, n |-> n]]
        half == last.n \div 2 IN
    IF last.n <= 0 THEN <<last.f, last.f>>
    ELSE <<PartitionPointN(last.f, half, Below(v, x)),
           PartitionPointN(Middle(last) + 1, last.n - (half + 1), NotAbove(v, x))>>

EqualRangeProbe(v, x) ==
    LET l == Len(v) + 1
        States == [f : 1..l, n : Nat \ {0}]
        Middle(w) == Min({w.f + w.n, l})
        probe == Loop(States, [w \in {u \in States : Middle(u) # l /\ v[Middle(u)] < x} |->
                                   [f |-> Middle(w) + 1, n |-> 2 * w.n]])
        last == probe[[f |-> 1, n |-> 1]]
        middle == Middle(last) IN
    IF middle = l THEN EqualRangeN(v, last.f, middle - last.f, x)
    ELSE IF x < v[middle] THEN EqualRangeN(v, last.f, last.n, x)
    ELSE <<PartitionPointN(last.f, last.n, Below(v, x)),
           PartitionPoint(middle, l, NotAbove(v, x), FALSE)>>

EqualRange(v, x, sized) ==
    IF sized THEN EqualRangeN(v, 1, Len(v), x) ELSE EqualRangeProbe(v, x)

(***************************************************************************)
(* search, search_n, find_end: the place of a pattern p in v               *)
(***************************************************************************)
\* How much of p is found from i on before a mismatch or the end of v.
Matched(v, i, p) ==
    Min({n \in 0..Len(p) : n = Len(p) \/ i + n > Len(v) \/ v[i + n] # p[n + 1]})

Nowhere(v) == <<Len(v) + 1, Len(v) + 1>>

\* Where it goes on when n elements from i on were found, and no more.
NextPlace_BehindTheMismatch(i, n) == i + n + 1
NextPlace(i, n) == i + 1

Search(v, p, sized) ==
    LET States == 1..(Len(v) + 1)
        Goes(i) == /\ IF sized THEN Len(v) + 1 - i >= Len(p)
                      ELSE i # Len(v) + 1 /\ i + Matched(v, i, p) # Len(v) + 1
                   /\ Matched(v, i, p) # Len(p)
        search == Loop(States, [i \in {j \in States : Goes(j)} |->
                                    NextPlace(i, Matched(v, i, p))])
        at == search[1] IN
    IF p = <<>> THEN <<1, 1>>
    ELSE IF Matched(v, at, p) = Len(p) THEN <<at, at + Len(p)>> ELSE Nowhere(v)

\* search_n for n times x: after a mismatch it goes on behind it.
SearchN(v, n, x, sized) ==
    LET States == 1..(Len(v) + 1)
        Found(i) == Matched(v, i, [k \in 1..n |-> x])
        Goes(i) == /\ IF sized THEN Len(v) + 1 - i >= n
                      ELSE i # Len(v) + 1 /\ i + Found(i) # Len(v) + 1
                   /\ Found(i) # n
        search == Loop(States, [i \in {j \in States : Goes(j)} |-> i + Found(i) + 1])
        at == search[1] IN
    IF n <= 0 THEN <<1, 1>> ELSE IF Found(at) = n THEN <<at, at + n>> ELSE Nowhere(v)

\* find_end for forward iterators: the last match so far is remembered.
FindEndForward(v, p) ==
    LET States == [i : 1..(Len(v) + 1), found : Nat \X Nat]
        Goes(w) == /\ w.i # Len(v) + 1
                   /\ Matched(v, w.i, p) = Len(p) \/ w.i + Matched(v, w.i, p) # Len(v) + 1
        search == Loop(States, [w \in {u \in States : Goes(u)} |->
                    [i |-> w.i + 1, found |-> IF Matched(v, w.i, p) = Len(p)
                                              THEN <<w.i, w.i + Len(p)>> ELSE w.found]]) IN
    search[[i |-> 1, found |-> Nowhere(v)]].found

\* For bidirectional ones it goes backwards from l, and for random access
\* stops where the pattern no longer fits.
MatchedBackward(v, l, p) ==
    Min({n \in 0..Len(p) : n = Len(p) \/ l - 1 - n < 1 \/ v[l - 1 - n] # p[Len(p) - n]})

FindEndBackward(v, p, start) ==
    LET States == start..(Len(v) + 1)
        Goes(l) == LET n == MatchedBackward(v, l, p) IN
                   l # start /\ n # Len(p) /\ (n = 0 \/ l - n # 1)
        search == Loop(States, [l \in {k \in States : Goes(k)} |-> l - 1])
        at == search[Len(v) + 1] IN
    IF at # start /\ MatchedBackward(v, at, p) = Len(p) THEN <<at - Len(p), at>> ELSE Nowhere(v)

FindEnd(v, p, tag) ==
    IF p = <<>> THEN Nowhere(v)
    ELSE IF tag = "forward" THEN FindEndForward(v, p)
    ELSE IF tag = "bidirectional" THEN FindEndBackward(v, p, 1)
    ELSE IF Len(v) < Len(p) THEN Nowhere(v)
    ELSE FindEndBackward(v, p, Len(p))

(***************************************************************************)
(* is_permutation of two ranges                                            *)
(***************************************************************************)
Count(v, f, x) == Cardinality({k \in f..Len(v) : v[k] = x})

IsPermutationImpl(v, u) ==
    LET same == {k \in 1..Len(v) : k <= Len(u) /\ v[k] = u[k]}
        d == Min({k \in 1..(Len(v) + 1) : k \notin same}) IN
    IF d = Len(v) + 1 \/ d = Len(u) + 1 THEN Len(v) = Len(u)
    ELSE /\ Len(v) = Len(u)
         /\ \A i \in d..Len(v) :
                \/ \E j \in d..(i - 1) : v[j] = v[i]
                \/ Count(u, d, v[i]) # 0 /\ Count(v, i, v[i]) = Count(u, d, v[i])

\* With sized ranges of equal length the call operator calls itself, with the
\* same arguments, and never comes to the comparison.
CallsItself(v, u, sized) == sized /\ Len(v) = Len(u)

IsPermutation(v, u, sized) == ~sized /\ IsPermutationImpl(v, u)

Elems == [key : Nat, name : Nat]
Lesser(e, f) == e.key < f.key

(***************************************************************************)
(* The set algorithms, on sorted x and y                                   *)
(***************************************************************************)
Includes(x, y) ==
    LET States == [i : 1..(Len(x) + 1), j : 1..(Len(y) + 1)]
        Goes(w) == w.i <= Len(x) /\ w.j <= Len(y) /\ ~Lesser(y[w.j], x[w.i])
        walk == Loop(States, [w \in {u \in States : Goes(u)} |->
                    [i |-> w.i + 1, j |-> IF Lesser(x[w.i], y[w.j]) THEN w.j ELSE w.j + 1]]) IN
    walk[[i |-> 1, j |-> 1]].j > Len(y)

\* The loop of the others, which put out, as they are told, what is in the
\* first only, in the second only, and in both.
Joined(x, y, first, second, both) ==
    LET States == [i : 1..(Len(x) + 1), j : 1..(Len(y) + 1), out : Seq(Elems)]
        Put(out, e, told) == IF told THEN Append(out, e) ELSE out
        walk == Loop(States, [w \in {u \in States : u.i <= Len(x) /\ u.j <= Len(y)} |->
                    IF Lesser(x[w.i], y[w.j])
                    THEN [i |-> w.i + 1, j |-> w.j, out |-> Put(w.out, x[w.i], first)]
                    ELSE IF Lesser(y[w.j], x[w.i])
                    THEN [i |-> w.i, j |-> w.j + 1, out |-> Put(w.out, y[w.j], second)]
                    ELSE [i |-> w.i + 1, j |-> w.j + 1, out |-> Put(w.out, x[w.i], both)]])
        last == walk[[i |-> 1, j |-> 1, out |-> <<>>]]
        Rest(s, i, told) == IF told THEN SubSeq(s, i, Len(s)) ELSE <<>> IN
    last.out \o Rest(x, last.i, first) \o Rest(y, last.j, second)

SetUnion(x, y) == Joined(x, y, TRUE, TRUE, TRUE)
SetIntersection(x, y) == Joined(x, y, FALSE, FALSE, TRUE)
SetDifference(x, y) == Joined(x, y, TRUE, FALSE, FALSE)
SetSymmetricDifference(x, y) == Joined(x, y, TRUE, TRUE, FALSE)

(***************************************************************************)
(* unique_copy: each variant compares with the element it wrote last,      *)
(* which it keeps in a local, behind a second iterator, or in the output.  *)
(***************************************************************************)
UniqueCopy(x) ==
    LET States == [i : 1..(Len(x) + 1), out : Seq(Elems)]
        copy == Loop(States, [w \in {u \in States : u.i <= Len(x)} |->
                    [i |-> w.i + 1,
                     out |-> IF w.out # <<>> /\ w.out[Len(w.out)].key = x[w.i].key THEN w.out
                             ELSE Append(w.out, x[w.i])]]) IN
    copy[[i |-> 1, out |-> <<>>]].out

(***************************************************************************)
(* minmax_element (and minmax): after the first two elements, two at a     *)
(* time, which are compared with each other first.  Positions.             *)
(***************************************************************************)
Lower(x, i, j) == IF Lesser(x[i], x[j]) THEN i ELSE j
NotLower(x, i, j) == IF Lesser(x[i], x[j]) THEN j ELSE i

\* of a pair, the lesser is compared with the least so far, the other with
\* the greatest
Pair(x, r) ==
    LET swapped == Lesser(x[r.i + 1], x[r.i])
        small == IF swapped THEN r.i + 1 ELSE r.i
        great == IF swapped THEN r.i ELSE r.i + 1 IN
    [i |-> r.i + 2, min |-> Lower(x, small, r.min), max |-> NotLower(x, great, r.max)]

\* the last, alone, is the greatest only if it is not the least
Single(x, r) ==
    IF Lesser(x[r.i], x[r.min]) THEN [r EXCEPT !.i = r.i + 1, !.min = r.i]
    ELSE [r EXCEPT !.i = r.i + 1, !.max = NotLower(x, r.i, r.max)]

MinMaxElement(x) ==
    LET States == [i : Nat \ {0}, min : DOMAIN x, max : DOMAIN x]
        walk == Loop(States, [w \in {u \in States : u.i <= Len(x)} |->
                    IF w.i = Len(x) THEN Single(x, w) ELSE Pair(x, w)])
        swapped == Len(x) >= 2 /\ Lesser(x[2], x[1])
        last == walk[[i |-> 3, min |-> IF swapped THEN 2 ELSE 1,
                      max |-> IF swapped \/ Len(x) < 2 THEN 1 ELSE 2]] IN
    [min |-> last.min, max |-> last.max]

(***************************************************************************)
(* partial_sort_copy: h is a heap of the least seen so far                 *)
(***************************************************************************)
\* sift_down_n on the first n elements of h; of equal children the left one.
Heaps(h) == [DOMAIN h -> Elems]

SiftDown(h, n, p) ==
    LET States == [range : Heaps(h), p : 1..Len(h)]
        Child(w) == LET left == 2 * w.p IN
                    IF left < n /\ Lesser(w.range[left], w.range[left + 1]) THEN left + 1 ELSE left
        Goes(w) == 2 * w.p <= n /\ ~Lesser(w.range[Child(w)], w.range[w.p])
        sift == Loop(States, [w \in {u \in States : Goes(u)} |->
                                  [range |-> Swap(w.range, w.p, Child(w)), p |-> Child(w)]]) IN
    sift[[range |-> h, p |-> p]].range

MakeHeap(h) ==
    LET States == [range : Heaps(h), p : 0..Len(h)]
        make == Loop(States, [w \in {u \in States : u.p > 0} |->
                                  [range |-> SiftDown(w.range, Len(h), w.p), p |-> w.p - 1]]) IN
    make[[range |-> h, p |-> Len(h) \div 2]].range

SortHeap(h) ==
    LET States == [range : Heaps(h), n : 1..Len(h)]
        sort == Loop(States, [w \in {u \in States : u.n > 1} |->
                    [range |-> SiftDown(Swap(w.range, 1, w.n), w.n - 1, 1), n |-> w.n - 1]]) IN
    sort[[range |-> h, n |-> Len(h)]].range

PartialSortCopy(x, room) ==
    LET len == Min({Len(x), room})
        h == SubSeq(x, 1, len)
        States == [range : Heaps(h), i : 1..(Len(x) + 1)]
        copy == Loop(States, [w \in {u \in States : u.i <= Len(x)} |->
                    [range |-> IF Lesser(x[w.i], w.range[1])
                               THEN SiftDown([w.range EXCEPT ![1] = x[w.i]], len, 1) ELSE w.range,
                     i |-> w.i + 1]]) IN
    IF len = 0 THEN <<>> ELSE SortHeap(copy[[range |-> MakeHeap(h), i |-> len + 1]].range)

\* is_heap_until, parent by parent
IsHeapUntil(x) ==
    LET States == 1..(Len(x) + 1)
        Goes(p) == 2 * p < Len(x) /\ ~Lesser(x[p], x[2 * p]) /\ ~Lesser(x[p], x[2 * p + 1])
        walk == Loop(States, [p \in {q \in States : Goes(q)} |-> p + 1])
        c == 2 * walk[1] IN
    IF c > Len(x) THEN Len(x) + 1 ELSE IF Lesser(x[walk[1]], x[c]) THEN c ELSE c + 1

(***************************************************************************)
(* sort_n_with_buffer, on a memory as in Sorting: the first half of what   *)
(* is to be merged is in the buffer at buf.                                *)
(***************************************************************************)
SortNWithBuffer(m, buf, w) ==
    LET sort[v \in Parts(m)] ==
            LET n == v.l - v.f
                half == n \div 2
                middle == v.f + half
                fore == sort[[v EXCEPT !.l = middle]]
                halves == sort[[range |-> fore, f |-> middle, l |-> v.l]] IN
            IF half = 0 THEN v.range
            ELSE Merge(MoveAll(halves, v.f, half, buf, 1, w), buf, half, middle, n - half, v.f, 1, w)
    IN sort

(***************************************************************************)
(* What the random numbers decide: the one drawn for k is less than k      *)
(***************************************************************************)
Draws(n) == {draws \in [1..n -> 0..(n - 1)] : \A k \in 1..n : draws[k] < k}

\* sample_sized_impl: size of the pop elements from i on are still to come.
SampleSized(x, n, draws) ==
    LET States == [i : 1..(Len(x) + 1), size : 0..n, out : Seq(Nat)]
        Pop(w) == Len(x) + 1 - w.i
        sample == Loop(States, [w \in {u \in States : 0 < u.size /\ u.size < Pop(u)} |->
                    IF draws[Pop(w)] < w.size
                    THEN [i |-> w.i + 1, size |-> w.size - 1, out |-> Append(w.out, x[w.i])]
                    ELSE [w EXCEPT !.i = w.i + 1]])
        last == sample[[i |-> 1, size |-> n, out |-> <<>>]] IN
    IF last.size = 0 THEN last.out ELSE last.out \o SubSeq(x, last.i, Len(x))

\* Without a known length: the first n, and each later element in place of
\* one of them, or not.
SampleReservoir(x, n, draws) ==
    LET States == [k : 0..Len(x), out : [1..n -> Nat]]
        offer == Loop(States, [w \in {u \in States : u.k < Len(x)} |->
                    [k |-> w.k + 1,
                     out |-> IF draws[w.k + 1] < n
                             THEN [w.out EXCEPT ![draws[w.k + 1] + 1] = x[w.k + 1]] ELSE w.out]]) IN
    IF n = 0 THEN <<>>
    ELSE IF Len(x) < n THEN x
    ELSE offer[[k |-> n, out |-> SubSeq(x, 1, n)]].out

\* shuffle: each element changes places with one before it, or stays.
Shuffled(s, draws) ==
    LET States == [range : Ranges(s), k : 1..(Len(s) + 1)]
        shuffle == Loop(States, [w \in {u \in States : u.k < Len(s)} |->
                    [range |-> Swap(w.range, w.k + 1 - draws[w.k + 1], w.k + 1), k |-> w.k + 1]]) IN
    shuffle[[range |-> s, k |-> 1]].range

(***************************************************************************)
(* Answers about two ranges of values, and the striding action             *)
(***************************************************************************)
\* mismatch finds the second range used up
StartsWith(v, p) == Matched(v, 1, p) = Len(p)

\* the lengths are compared, and then as many values as there are
EndsWith(v, p) ==
    LET drop == Len(v) - Len(p) IN
    drop >= 0 /\ SubSeq(v, drop + 1, Len(v)) = p

ContainsSubrange(v, p, sized) ==
    \/ p = <<>>
    \/ LET r == Search(v, p, sized) IN r[1] # r[2]

\* actions::stride: i stops at the end, however many steps are left
Stride(s, step) ==
    LET Next(i) == Min({i + step, Len(s) + 1})
        States == {w \in [range : Ranges(s), first : 2..(Len(s) + 1), i : 2..(Len(s) + 1)] :
                       w.first <= w.i}
        move == Loop(States, [w \in {u \in States : u.i <= Len(s)} |->
                    [range |-> Move(w.range, w.first, w.i), first |-> w.first + 1, i |-> Next(w.i)]])
        last == move[[range |-> s, first |-> 2, i |-> Next(1)]] IN
    IF step = 1 \/ s = <<>> THEN s ELSE SubSeq(last.range, 1, last.first - 1)
=============================================================================
