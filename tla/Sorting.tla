------------------------------ MODULE Sorting ------------------------------
(* The sorts and merges that work in place or with a temporary buffer      *)
(* (algorithm/nth_element.hpp, inplace_merge.hpp, merge.hpp,               *)
(* stable_sort.hpp), as operators on a memory m: the positions of the      *)
(* range, and after them those of the buffer.  The record w says how the   *)
(* elements are compared (w.key), what iterators and values they have      *)
(* (w.kind, see Rearranging), and whether a value that is moved onto       *)
(* itself is still there afterwards (w.keeps).                             *)
EXTENDS Rearranging

Less(m, i, j, w) == w.key[m[i]] < w.key[m[j]]

(***************************************************************************)
(* nth_element                                                             *)
(***************************************************************************)
\* sort3, with the number of swaps it reports.
Sort3(m, x, y, z, w) ==
    LET yz == Swap(m, y, z)
        xy == Swap(m, x, y) IN
    IF ~Less(m, y, x, w) THEN
        IF ~Less(m, z, y, w) THEN [range |-> m, swaps |-> 0]
        ELSE IF Less(yz, y, x, w) THEN [range |-> Swap(yz, x, y), swaps |-> 2]
        ELSE [range |-> yz, swaps |-> 1]
    ELSE IF Less(m, z, y, w) THEN [range |-> Swap(m, x, z), swaps |-> 1]
    ELSE IF Less(xy, z, y, w) THEN [range |-> Swap(xy, y, z), swaps |-> 2]
    ELSE [range |-> xy, swaps |-> 1]

SelectionSort(m, f, l, w) ==
    LET States == [range : Ranges(m), f : f..l]
        Least(v) == Min({k \in v.f..(l - 1) : \A j \in v.f..(l - 1) : ~Less(v.range, j, k, w)})
        select == Loop(States, [v \in {u \in States : u.f < l - 1} |->
                                    [range |-> Swap(v.range, v.f, Least(v)), f |-> v.f + 1]]) IN
    select[[range |-> m, f |-> f]].range

\* The unguarded scans: the first position from i on, in the whole range if
\* need be, whose element is not less (or greater) than the one at p, and the
\* last one before j whose element is less (or not greater).
UpToNotLess(m, i, p, w) == Min({k \in i..Len(m) : ~Less(m, k, p, w)})
DownToLess(m, j, p, w) == Max({k \in 1..(j - 1) : Less(m, k, p, w)})
UpToGreater(m, i, p, w) == Min({k \in i..Len(m) : Less(m, p, k, w)})
DownToNotGreater(m, j, p, w) == Max({k \in 1..(j - 1) : ~Less(m, p, k, w)})

\* [i, j) of [f, l) is put below and above the median, which stands at p and is
\* followed when it moves; an element on either side guards the scans.
AroundMedian(m, f, l, i, j, p, swaps, w) ==
    LET States == {v \in [range : Ranges(m), i : f..l, j : f..l, p : f..(l - 1), swaps : Nat] :
                       /\ \E k \in v.i..(l - 1) : ~Less(v.range, k, v.p, w)
                       /\ \E k \in f..(v.j - 1) : Less(v.range, k, v.p, w)}
        Up(v) == UpToNotLess(v.range, v.i, v.p, w)
        Down(v) == DownToLess(v.range, v.j, v.p, w)
        exchange == Loop(States, [v \in {u \in States : Up(u) < Down(u)} |->
                        [range |-> Swap(v.range, Up(v), Down(v)), i |-> Up(v) + 1, j |-> Down(v),
                         p |-> IF v.p = Up(v) THEN Down(v) ELSE v.p, swaps |-> v.swaps + 1]])
        placed == [v \in States |-> [range |-> v.range, at |-> Up(v), median |-> v.p,
                                     swaps |-> v.swaps]] IN
    placed[exchange[[range |-> m, i |-> i, j |-> j, p |-> p, swaps |-> swaps]]]

\* [i, j) of [f, l) is put into what equals m[f] and what is greater.
AroundFirst(m, f, l, i, j, w) ==
    LET States == {v \in [range : Ranges(m), i : (f + 1)..l, j : (f + 1)..l] :
                       \E k \in v.i..(l - 1) : Less(v.range, f, k, w)}
        Up(v) == UpToGreater(v.range, v.i, f, w)
        Down(v) == DownToNotGreater(v.range, v.j, f, w)
        exchange == Loop(States, [v \in {u \in States : Up(u) < Down(u)} |->
                        [range |-> Swap(v.range, Up(v), Down(v)), i |-> Up(v) + 1, j |-> Down(v)]])
        placed == [v \in States |-> Result(v.range, Up(v))] IN
    placed[exchange[[range |-> m, i |-> i, j |-> j]]]

\* What is left to do: nothing, or to go on in [f, l).
Settled(m, f, l) == [range |-> m, f |-> f, l |-> l, done |-> TRUE]
GoOn(m, f, l) == [range |-> m, f |-> f, l |-> l, done |-> FALSE]

\* No element is less than the first, which is the median too: those that
\* equal it go in front and the search goes on behind them.
BehindTheEqual(m, f, nth, l, w) ==
    LET later == {k \in (f + 1)..(l - 2) : Less(m, f, k, w)}
        guarded == Less(m, f, l - 1, w)
        i == IF guarded THEN f + 1 ELSE Min(later) + 1
        parted == [t \in Ranges(m) |->
                      LET v == AroundFirst(t, f, l, i, l - 1, w) IN
                      IF i = l - 1 THEN Settled(t, f, l)
                      ELSE IF nth < v.at THEN Settled(v.range, f, l) ELSE GoOn(v.range, v.at, l)] IN
    IF ~guarded /\ later = {} THEN Settled(m, f, l)
    ELSE parted[IF guarded THEN m ELSE Swap(m, Min(later), l - 1)]

IsSortedFrom(m, f, l, w) == \A k \in (f + 1)..(l - 1) : ~Less(m, k, k - 1, w)

\* The partition around the median at p is done up to i..j and counted.
AroundTheMedian(m, f, nth, l, i, j, p, swaps, w) ==
    LET Partitions == [range : Ranges(m), at : f..l, median : f..l, swaps : Nat]
        goes == [v \in Partitions |->
            LET moves == v.at # v.median /\ Less(v.range, v.median, v.at, w)
                t == IF moves THEN Swap(v.range, v.at, v.median) ELSE v.range
                unmoved == v.swaps = 0 /\ ~moves IN
            IF nth = v.at THEN Settled(t, f, l)
            ELSE IF nth < v.at
            THEN IF unmoved /\ IsSortedFrom(t, f, v.at, w) THEN Settled(t, f, l) ELSE GoOn(t, f, v.at)
            ELSE IF unmoved /\ IsSortedFrom(t, v.at, l, w) THEN Settled(t, f, l)
                 ELSE GoOn(t, v.at + 1, l)] IN
    goes[IF i < j THEN AroundMedian(m, f, l, i, j, p, swaps, w)
         ELSE [range |-> m, at |-> i, median |-> p, swaps |-> swaps]]

Narrowed(m, f, nth, l, limit, w) ==
    LET p == f + (l - f) \div 2
        around == [s3 \in [range : Ranges(m), swaps : Nat] |->
            LET below == {k \in (f + 1)..(l - 2) : Less(s3.range, k, p, w)} IN
            IF Less(s3.range, f, p, w)
            THEN AroundTheMedian(s3.range, f, nth, l, f + 1, l - 1, p, s3.swaps, w)
            ELSE IF below = {} THEN BehindTheEqual(s3.range, f, nth, l, w)
            ELSE AroundTheMedian(Swap(s3.range, f, Max(below)), f, nth, l, f + 1, Max(below), p,
                                 s3.swaps + 1, w)] IN
    IF nth = l \/ l - f <= 1 THEN Settled(m, f, l)
    ELSE IF l - f = 2
    THEN Settled(IF Less(m, l - 1, f, w) THEN Swap(m, f, l - 1) ELSE m, f, l)
    ELSE IF l - f = 3 THEN Settled(Sort3(m, f, f + 1, l - 1, w).range, f, l)
    ELSE IF l - f <= limit THEN Settled(SelectionSort(m, f, l, w), f, l)
    ELSE around[Sort3(m, f, p, l - 1, w)]

NthElement(m, f, nth, l, limit, w) ==
    LET States == {v \in [range : Ranges(m), f : f..l, l : f..l, done : BOOLEAN] : v.f <= v.l}
        narrow == Loop(States, [v \in {u \in States : ~u.done} |->
                                    Narrowed(v.range, v.f, nth, v.l, limit, w)]) IN
    narrow[GoOn(m, f, l)].range

(***************************************************************************)
(* merge, moving from the nx elements at x and the ny at y to out; d is -1 *)
(* for reverse iterators.                                                  *)
(***************************************************************************)
MoveOnto(m, to, from, w) == IF to = from /\ w.keeps THEN m ELSE Move(m, to, from)

MoveAll(m, from, n, to, d, w) ==
    LET States == [range : Ranges(m), k : 0..n]
        move == Loop(States, [v \in {u \in States : u.k < n} |->
                    [range |-> MoveOnto(v.range, to + d * v.k, from + d * v.k, w), k |-> v.k + 1]]) IN
    move[[range |-> m, k |-> 0]].range

\* merge takes from the second range what is less than the first of the
\* first; backwards, under not_fn(pred), what is not.
TakesSecond_BothWays(m, x, y, d, w) == Less(m, y, x, w)
TakesSecond(m, x, y, d, w) == IF d = 1 THEN Less(m, y, x, w) ELSE ~Less(m, y, x, w)

\* The n positions from p on.
Along(p, n, d) == {p + d * k : k \in 0..(n - 1)}

Merge(m, x, nx, y, ny, out, d, w) ==
    LET States == {v \in [range : Ranges(m), x : Int, nx : 0..nx, y : Int, ny : 0..ny, out : Int] :
                       Along(v.x, v.nx, d) \cup Along(v.y, v.ny, d)
                           \cup Along(v.out, v.nx + v.ny, d) \subseteq DOMAIN m}
        merge == Loop(States, [v \in {u \in States : u.nx # 0 /\ u.ny # 0} |->
                    IF TakesSecond(v.range, v.x, v.y, d, w)
                    THEN [v EXCEPT !.range = MoveOnto(v.range, v.out, v.y, w), !.y = v.y + d,
                                   !.ny = v.ny - 1, !.out = v.out + d]
                    ELSE [v EXCEPT !.range = MoveOnto(v.range, v.out, v.x, w), !.x = v.x + d,
                                   !.nx = v.nx - 1, !.out = v.out + d]])
        rest == [v \in States |-> MoveAll(MoveAll(v.range, v.x, v.nx, v.out, d, w),
                                         v.y, v.ny, v.out + d * v.nx, d, w)] IN
    rest[merge[[range |-> m, x |-> x, nx |-> nx, y |-> y, ny |-> ny, out |-> out]]]

(***************************************************************************)
(* partition_point over [f, f + n), of which the positions in P satisfy    *)
(* the predicate: by halves, or, when the length is not known, by probes   *)
(* that double their step first.                                           *)
(***************************************************************************)
PartitionPointN(f, n, P) ==
    LET States == {v \in [f : Nat, n : 0..n] : v.f \in f..(f + n) /\ v.f + v.n <= f + n}
        halve == Loop(States, [v \in {u \in States : u.n > 0} |->
                    LET half == v.n \div 2 IN
                    IF v.f + half \in P THEN [f |-> v.f + half + 1, n |-> v.n - (half + 1)]
                    ELSE [f |-> v.f, n |-> half]]) IN
    halve[[f |-> f, n |-> n]].f

Probe(f, n, l, P) ==
    LET States == [f : f..l, n : Nat \ {0}]
        Middle(v) == Min({v.f + v.n, l})
        probe == Loop(States, [v \in {u \in States : Middle(u) # l /\ Middle(u) \in P} |->
                                   [f |-> Middle(v), n |-> 2 * v.n]])
        last == probe[[f |-> f, n |-> n]] IN
    PartitionPointN(last.f, Middle(last) - last.f, P)

PartitionPoint(f, l, P, sized) == IF sized THEN PartitionPointN(f, l - f, P) ELSE Probe(f, 1, l, P)

(***************************************************************************)
(* merge_adaptive: [f, middle) and [middle, l), both sorted, are merged    *)
(* with the size places of the buffer at buf.                              *)
(***************************************************************************)
MergeWithBuffer(m, f, middle, l, n1, n2, buf, w) ==
    LET upward == [t \in Ranges(m) |-> Merge(t, buf, n1, middle, n2, f, 1, w)]
        downward == [t \in Ranges(m) |->
                        Merge(t, middle - 1, n1, buf + n2 - 1, n2, l - 1, -1, w)] IN
    IF n1 <= n2 THEN upward[MoveAll(m, f, n1, buf, 1, w)]
    ELSE downward[MoveAll(m, middle, n2, buf, 1, w)]

\* Where the two halves are cut: the longer one at its middle, the other at
\* the bound of the element found there.
Cut(m, f, middle, l, n1, n2, w) ==
    LET sized == w.kind.tag = "random" IN
    IF n1 < n2
    THEN LET m2 == middle + n2 \div 2 IN
         <<PartitionPoint(f, middle, {k \in f..(middle - 1) : ~Less(m, m2, k, w)}, sized), m2>>
    ELSE LET m1 == f + n1 \div 2 IN
         <<m1, PartitionPoint(middle, l, {k \in middle..(l - 1) : Less(m, k, m1, w)}, sized)>>

\* Two neighbours [f, middle) and [middle, l), n1 and n2 long.
Neighbours(m) ==
    {v \in [range : Ranges(m), f : Nat \ {0}, middle : Nat, l : 1..(Len(m) + 1), n1 : Nat, n2 : Nat] :
        v.n1 = v.middle - v.f /\ v.n2 = v.l - v.middle}

MergeAdaptive(m, buf, size, w) ==
    LET merge[v \in Neighbours(m)] ==
            LET greater == {k \in v.f..(v.f + v.n1 - 1) : Less(v.range, v.middle, k, w)}
                first == Min(greater)
                n1 == v.n1 - (first - v.f)
                n2 == v.n2
                cuts == [c \in Nat \X Nat |->
                    LET n11 == c[1] - first
                        n21 == c[2] - v.middle
                        r == Rotate(v.range, c[1], v.middle, c[2], w.kind)
                        Fore(t) == [range |-> t, f |-> first, middle |-> c[1], l |-> r.at,
                                    n1 |-> n11, n2 |-> n21]
                        Back(t) == [range |-> t, f |-> r.at, middle |-> c[2], l |-> v.l,
                                    n1 |-> n1 - n11, n2 |-> n2 - n21] IN
                    IF n11 + n21 < (n1 - n11) + (n2 - n21) THEN merge[Back(merge[Fore(r.range)])]
                    ELSE merge[Fore(merge[Back(r.range)])]] IN
            IF n2 = 0 \/ greater = {} THEN v.range
            ELSE IF n1 <= size \/ n2 <= size
            THEN MergeWithBuffer(v.range, first, v.middle, v.l, n1, n2, buf, w)
            ELSE IF n1 >= n2 /\ n1 = 1 THEN Swap(v.range, first, v.middle)
            ELSE cuts[Cut(v.range, first, v.middle, v.l, n1, n2, w)] IN
    merge

\* The two in [f, l), of which merge is what merge_adaptive makes.
MergeHalves(merge, m, f, middle, l) ==
    merge[[range |-> m, f |-> f, middle |-> middle, l |-> l,
           n1 |-> middle - f, n2 |-> l - middle]]

(***************************************************************************)
(* stable_sort                                                             *)
(***************************************************************************)
\* linear_insert: the element at l goes to the front when it is less than the
\* first, else behind the last that is not greater.
LinearInsert(m, f, l, w) ==
    LET q == IF Less(m, l, f, w) THEN f
             ELSE Max({k \in 1..(l - 1) : ~Less(m, l, k, w)}) + 1 IN
    Overwrite(m, q, <<m[l]>> \o SubSeq(m, q, l - 1))

InsertionSort(m, f, l, w) ==
    LET States == [range : Ranges(m), i : (f + 1)..(l + 1)]
        insert == Loop(States, [v \in {u \in States : u.i < l} |->
                    [range |-> LinearInsert(v.range, f, v.i, w), i |-> v.i + 1]]) IN
    insert[[range |-> m, i |-> f + 1]].range

\* The parts [f, l) of a memory.
Parts(m) == {v \in [range : Ranges(m), f : 1..(Len(m) + 1), l : 1..(Len(m) + 1)] : v.f <= v.l}

InplaceStableSort(m, limit, w) ==
    LET sort[v \in Parts(m)] ==
            LET middle == v.f + (v.l - v.f) \div 2
                Half(t, from, to) == sort[[range |-> t, f |-> from, l |-> to]] IN
            IF v.l - v.f < limit THEN InsertionSort(v.range, v.f, v.l, w)
            ELSE MergeHalves(MergeAdaptive(m, 0, 0, w),
                             Half(Half(v.range, v.f, middle), middle, v.l), v.f, middle, v.l) IN
    sort

\* chunk_insertion_sort
SortChunks(m, f, l, chunk, w) ==
    LET States == [range : Ranges(m), f : f..l]
        sort == Loop(States, [v \in {u \in States : l - u.f >= chunk} |->
                    [range |-> InsertionSort(v.range, v.f, v.f + chunk, w), f |-> v.f + chunk]])
        rest == [v \in States |-> InsertionSort(v.range, v.f, l, w)] IN
    rest[sort[[range |-> m, f |-> f]]]

\* Neighbouring chunks of length step are merged from [f, f + n) to `to`.
MergeSortLoop(m, f, n, to, step, w) ==
    LET States == [range : Ranges(m), k : 0..n]
        merge == Loop(States, [v \in {u \in States : n - u.k >= 2 * step} |->
                    [range |-> Merge(v.range, f + v.k, step, f + v.k + step, step, to + v.k, 1, w),
                     k |-> v.k + 2 * step]])
        rest == [v \in States |->
                    LET short == Min({n - v.k, step}) IN
                    Merge(v.range, f + v.k, short, f + v.k + short, n - v.k - short,
                          to + v.k, 1, w)] IN
    rest[merge[[range |-> m, k |-> 0]]]

\* To the buffer and back, until the chunks are as long as the range.
ToAndFro(m, f, n, buf, chunk, w) ==
    LET States == [range : Ranges(m), step : Nat \ {0}]
        there == [v \in States |-> [range |-> MergeSortLoop(v.range, f, n, buf, v.step, w),
                                    step |-> 2 * v.step]]
        back == [v \in States |-> [range |-> MergeSortLoop(v.range, buf, n, f, v.step, w),
                                   step |-> 2 * v.step]]
        merge == Loop(States, [v \in {u \in States : u.step < n} |-> back[there[v]]]) IN
    merge[[range |-> m, step |-> chunk]].range

MergeSortWithBuffer(m, f, l, buf, chunk, w) ==
    ToAndFro(SortChunks(m, f, l, chunk, w), f, l - f, buf, chunk, w)

StableSortAdaptive(m, buf, size, chunk, w) ==
    LET sort[v \in Parts(m)] ==
            LET n == (v.l - v.f + 1) \div 2
                middle == v.f + n
                half == [u \in Parts(m) |-> IF n > size THEN sort[u]
                                            ELSE MergeSortWithBuffer(u.range, u.f, u.l, buf, chunk, w)]
                fore == half[[v EXCEPT !.l = middle]] IN
            MergeHalves(MergeAdaptive(m, buf, size, w),
                        half[[range |-> fore, f |-> middle, l |-> v.l]], v.f, middle, v.l) IN
    sort
=============================================================================
