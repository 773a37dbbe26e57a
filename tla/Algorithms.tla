----------------------------- MODULE Algorithms -----------------------------
(* One call of an algorithm on a range.  The elements are named by the     *)
(* places they have before the call, and key gives the value by which they *)
(* are compared; every call the library offers on every range within the   *)
(* bounds is made, with every temporary buffer it may be given.            *)
EXTENDS Searching, FiniteSets

CONSTANTS
    Short, Keys,      \* ranges up to this length, with keys 1..Keys,
    Long,             \* and up to this length, with two keys
    PatternLength,    \* the second range of a call, at most
    limit,            \* of nth_element: up to it a range is sorted (7)
    insertion_limit,  \* below it inplace_stable_sort inserts (15)
    ChunkSizes,       \* of chunk_insertion_sort (7)
    BufferFrom,       \* stable_sort and inplace_merge ask for a buffer above (256, 8)
    Known             \* the defects a run leaves in

ASSUME BoundsAssumption ==
    /\ {Short, Long, PatternLength, BufferFrom} \subseteq Nat
    /\ Keys \in Nat \ 0..1
    /\ limit \in Nat \ 0..2 /\ insertion_limit \in Nat \ 0..1
    /\ ChunkSizes \subseteq Nat \ {0}
    /\ Known \subseteq {"is_permutation", "no_place", "self_move"}

VARIABLES key, a, call

vars == <<key, a, call>>

Size == Len(key)
End == Size + 1
Chosen == {i \in 1..Size : key[i] = 1}
Before(x, y) == key[x] < key[y]
Precedes == {p \in (1..Size) \X (1..Size) : Before(p[1], p[2])}
Values == [i \in 1..Size |-> key[a[i]]]
Sorted(v) == \A i \in 1..(Len(v) - 1) : v[i] <= v[i + 1]

Tags == {"forward", "bidirectional", "random"}
Kinds(tags) == [tag : tags, trivial : BOOLEAN]
Patterns == UNION {[1..n -> 1..2] : n \in 0..PatternLength}

\* The elements of the range, and of a second one, to which a call gives the
\* names behind them.
Elements == [i \in 1..Size |-> [key |-> key[i], name |-> i]]
Second(p) == [j \in DOMAIN p |-> [key |-> p[j], name |-> Size + j]]
Names(s) == [i \in DOMAIN s |-> s[i].name]

Init ==
    /\ key \in (UNION {[1..n -> 1..Keys] : n \in 0..Short})
                  \cup (UNION {[1..n -> 1..2] : n \in 0..Long})
    /\ a = [i \in 1..Size |-> i]
    /\ call = [op |-> "none"]

\* The call op with what it returned.
Returning(op, x) == [f \in DOMAIN op \cup {"at"} |-> IF f = "at" THEN x ELSE op[f]]

\* What a call leaves, and what it was and returned.
Returns(op, r) ==
    /\ call.op = "none"
    /\ a' = r.range
    /\ call' = Returning(op, r.at)
    /\ UNCHANGED key

\* A call that recurses on its own arguments.
NeverReturns(op) ==
    /\ call.op = "none"
    /\ call' = [op |-> "never", by |-> op]
    /\ UNCHANGED <<key, a>>

(***************************************************************************)
(* The calls that rearrange                                                *)
(***************************************************************************)
CallRotate ==
    \E m \in 1..End, kind \in Kinds(Tags) :
        Returns([op |-> "rotate", middle |-> m], Rotate(a, 1, m, End, kind))

CallReverse ==
    \E tag \in {"bidirectional", "random"} :
        Returns([op |-> "reverse"], Result(Reversed(a, 1, End, tag), End))

CallPartition ==
    \E tag \in Tags : Returns([op |-> "partition"], Partition(a, 1, End, Chosen, tag))

CallStablePartition ==
    \E buffer \in StablePartitionBuffers(a, Chosen), kind \in Kinds(Tags \ {"forward"}) :
        Returns([op |-> "stable_partition"], StablePartition(a, Chosen, buffer, kind))

CallRemoveIf == Returns([op |-> "remove_if"], RemoveIf(a, 1, End, Chosen))

CallUnstableRemoveIf ==
    Returns([op |-> "unstable_remove_if"], UnstableRemoveIf(a, 1, End, Chosen))

CallAdjacentRemoveIf ==
    Returns([op |-> "adjacent_remove_if"], AdjacentRemoveIf(a, 1, End, Precedes))

CallNextPermutation == Returns([op |-> "next_permutation"], NextPermutation(a, Precedes))

\* prev_permutation is next_permutation with the arguments of pred exchanged.
CallPrevPermutation ==
    Returns([op |-> "prev_permutation"], NextPermutation(a, {<<p[2], p[1]>> : p \in Precedes}))

(***************************************************************************)
(* The calls that sort                                                     *)
(***************************************************************************)
Compare(kinds, keeps) == [key : {key}, kind : kinds, keeps : keeps]
WithBuffer(size) == a \o [k \in 1..size |-> Hole]
All(m) == [range |-> m, f |-> 1, l |-> End]
Trivial == [tag |-> "random", trivial |-> TRUE]
NotTrivial == [tag |-> "random", trivial |-> FALSE]

\* Values that a move onto themselves empties: only where stable_sort makes
\* one, and only in a run that leaves them in.
MayKeep == IF "self_move" \in Known THEN BOOLEAN ELSE {TRUE}

CallNthElement ==
    \E nth \in 1..End, w \in Compare({Trivial}, {TRUE}) :
        Returns([op |-> "nth_element", nth |-> nth],
                Result(NthElement(a, 1, nth, End, limit, w), End))

\* When it asks for no buffer, or is given none at all, it sorts in place; a
\* buffer of which it is told that it has no place it uses like any other.
CallStableSortInPlace ==
    \E w \in Compare({Trivial, NotTrivial}, {TRUE}) :
        Returns([op |-> "stable_sort"],
                Result(InplaceStableSort(a, insertion_limit, w)[All(a)], End))

CallStableSortWithBuffer ==
    /\ Size > BufferFrom
    /\ \E size \in TemporaryBuffers(Size), chunk \in ChunkSizes,
          w \in Compare({Trivial, NotTrivial}, MayKeep) :
        IF size = 0
        THEN /\ "no_place" \in Known
             /\ NeverReturns("stable_sort")
        ELSE /\ w.kind.trivial => w.keeps
             /\ \E m \in {WithBuffer(size)} :
                    LET t == StableSortAdaptive(m, End, size, chunk, w)[All(m)] IN
                    Returns([op |-> "stable_sort", buffer |-> size],
                            Result(SubSeq(t, 1, Size), End))

\* The buffer is asked for only when values are assigned trivially.
CallInplaceMerge ==
    \E middle \in 1..End, w \in Compare(Kinds(Tags \ {"forward"}), {TRUE}) :
        /\ Sorted(SubSeq(key, 1, middle - 1))
        /\ Sorted(SubSeq(key, middle, Size))
        /\ LET n == Min({middle - 1, End - middle}) IN
           \E size \in IF w.kind.trivial /\ n > BufferFrom
                       THEN TemporaryBuffers(n) ELSE {0} :
           \E m \in {WithBuffer(size)} :
               LET t == MergeHalves(MergeAdaptive(m, End, size, w), m, 1, middle, End) IN
               Returns([op |-> "inplace_merge"], Result(SubSeq(t, 1, Size), End))

(***************************************************************************)
(* The calls that look                                                     *)
(***************************************************************************)
Answers(op, x) == Returns(op, Result(a, x))

CallBinarySearches ==
    /\ Sorted(key)
    /\ \E x \in 0..(Keys + 1), sized \in BOOLEAN :
        \/ Answers([op |-> "lower_bound", value |-> x], LowerBound(key, x, sized))
        \/ Answers([op |-> "upper_bound", value |-> x], UpperBound(key, x, sized))
        \/ Answers([op |-> "equal_range", value |-> x], EqualRange(key, x, sized))
        \/ Answers([op |-> "binary_search", value |-> x], BinarySearch(key, x, sized))

CallSearch ==
    \E p \in Patterns, sized \in BOOLEAN :
        Answers([op |-> "search", pattern |-> p], Search(key, p, sized))

CallSearchN ==
    \E n \in 0..PatternLength, sized \in BOOLEAN :
        Answers([op |-> "search", pattern |-> [k \in 1..n |-> 1]], SearchN(key, n, 1, sized))

CallFindEnd ==
    \E p \in Patterns, tag \in Tags :
        Answers([op |-> "find_end", pattern |-> p], FindEnd(key, p, tag))

CallIsPermutation ==
    \E p \in Patterns, sized \in IF "is_permutation" \in Known THEN BOOLEAN ELSE {FALSE} :
        IF CallsItself(key, p, sized) THEN NeverReturns("is_permutation")
        ELSE Answers([op |-> "is_permutation", pattern |-> p], IsPermutation(key, p, sized))

(***************************************************************************)
(* The calls that make a new range, or answer about two                    *)
(***************************************************************************)
CallBothSorted ==
    /\ Sorted(key)
    /\ \E p \in Patterns :
        LET x == Elements
            y == Second(p)
            Gives(op, s) == Answers([op |-> op, second |-> p], Names(s)) IN
        /\ Sorted(p)
        /\ \/ Gives("set_union", SetUnion(x, y))
           \/ Gives("set_intersection", SetIntersection(x, y))
           \/ Gives("set_difference", SetDifference(x, y))
           \/ Gives("set_symmetric_difference", SetSymmetricDifference(x, y))
           \/ Answers([op |-> "includes", second |-> p], Includes(x, y))

\* The output is behind the two ranges.
CallMerge ==
    /\ Sorted(key)
    /\ \E p \in Patterns :
        LET n == Size + Len(p)
            w == [key |-> key \o p, kind |-> Trivial, keeps |-> TRUE]
            m == [i \in 1..n |-> i] \o [i \in 1..n |-> Hole] IN
        /\ Sorted(p)
        /\ Answers([op |-> "merge", second |-> p],
                   SubSeq(Merge(m, 1, Size, End, Len(p), n + 1, 1, w), n + 1, 2 * n))

CallSortNWithBuffer ==
    \E m \in {WithBuffer(Size \div 2)}, w \in Compare({Trivial}, {TRUE}) :
        Returns([op |-> "sort_n_with_buffer"],
                Result(SubSeq(SortNWithBuffer(m, End, w)[All(m)], 1, Size), End))

CallPartialSortCopy ==
    \E room \in 0..(Size + 1) :
        Answers([op |-> "partial_sort_copy", room |-> room],
                Names(PartialSortCopy(Elements, room)))

CallUniqueCopy == Answers([op |-> "unique_copy"], Names(UniqueCopy(Elements)))

CallStride ==
    \E step \in 1..End : Answers([op |-> "stride", step |-> step], Stride(a, step))

\* The choices multiply: only from ranges of up to Short elements, whose keys
\* do not matter.
CallRandomly ==
    /\ Size <= Short /\ key = [i \in 1..Size |-> 1]
    /\ \E draws \in Draws(Size) :
       \/ \E n \in 0..(Size + 1) :
             Answers([op |-> "sample", room |-> n], SampleSized(a, n, draws))
       \/ \E n \in 0..(Size + 1) :
             Answers([op |-> "sample_input", room |-> n], SampleReservoir(a, n, draws))
       \/ Returns([op |-> "shuffle"], Result(Shuffled(a, draws), End))

CallMinMaxElement ==
    /\ Size > 0
    /\ Answers([op |-> "minmax_element"], MinMaxElement(Elements))

CallIsHeapUntil == Answers([op |-> "is_heap_until"], IsHeapUntil(Elements))

CallStartsEndsContains ==
    \E p \in Patterns, sized \in BOOLEAN :
        \/ Answers([op |-> "starts_with", pattern |-> p], StartsWith(key, p))
        \/ Answers([op |-> "ends_with", pattern |-> p], EndsWith(key, p))
        \/ Answers([op |-> "contains", pattern |-> p], ContainsSubrange(key, p, sized))

Next ==
    \/ CallRotate \/ CallReverse \/ CallPartition \/ CallStablePartition
    \/ CallRemoveIf \/ CallUnstableRemoveIf \/ CallAdjacentRemoveIf
    \/ CallNextPermutation \/ CallPrevPermutation
    \/ CallNthElement \/ CallStableSortInPlace \/ CallStableSortWithBuffer \/ CallInplaceMerge
    \/ CallSortNWithBuffer \/ CallBinarySearches
    \/ CallSearch \/ CallSearchN \/ CallFindEnd \/ CallIsPermutation
    \/ CallBothSorted \/ CallMerge \/ CallPartialSortCopy \/ CallUniqueCopy \/ CallStride
    \/ CallRandomly \/ CallMinMaxElement \/ CallIsHeapUntil \/ CallStartsEndsContains

Spec == Init /\ [][Next]_vars

-----------------------------------------------------------------------------
(***************************************************************************)
(* What the calls promise                                                  *)
(***************************************************************************)
\* What the removals keep.
Kept ==
    IF call.op = "adjacent_remove_if"
    THEN {i \in 1..Size : i = Size \/ ~Before(i, i + 1)}
    ELSE 1..Size \ Chosen

\* What an answer has taken of the range.
Copied == {call.at[i] : i \in DOMAIN call.at}

\* No algorithm loses or doubles an element, in whatever order it moves them
\* and through whatever buffer; a removal keeps, in front of the iterator it
\* returns, each element it was not asked to remove, once; a sample has as many
\* different elements as it was asked for, or as there are.
NothingIsLost ==
    /\ a \in [1..Size -> 0..Size]
    /\ call.op \in {"sample", "sample_input", "partial_sort_copy"} =>
           /\ Copied \subseteq 1..Size
           /\ Cardinality(Copied) = Len(call.at)
           /\ Len(call.at) = Min({call.room, Size})
    /\ IF call.op \in {"remove_if", "unstable_remove_if", "adjacent_remove_if"}
       THEN /\ call.at - 1 = Cardinality(Kept)
            /\ {a[i] : i \in 1..(call.at - 1)} = Kept
       ELSE {a[i] : i \in 1..Size} = 1..Size

Stable(s) == \A i, j \in 1..Len(s) : i < j /\ key[s[i]] = key[s[j]] => s[i] < s[j]

CountOf(v, x) == Cardinality({i \in DOMAIN v : v[i] = x})

\* Of the elements equal to it, how many come in v up to the place i.
Rank(v, i) == CountOf(SubSeq(v, 1, i), v[i])

\* Of the two ranges, what the set algorithm or merge is to put out: where a
\* value comes n times in the one and k times in the other, each takes so
\* many from the one, and the last so many from the other.
CalledFor(p) ==
    LET first == 1..Size
        only1 == {i \in first : Rank(key, i) > CountOf(p, key[i])}
        only2 == {Size + j : j \in {k \in DOMAIN p : Rank(p, k) > CountOf(key, p[k])}} IN
    CASE call.op = "merge" -> 1..(Size + Len(p))
      [] call.op = "set_union" -> first \cup only2
      [] call.op = "set_intersection" -> first \ only1
      [] call.op = "set_difference" -> only1
      [] call.op = "set_symmetric_difference" -> only1 \cup only2

\* s has the elements of S by value, equal ones in the order of their names.
Lists(s, S, k) ==
    /\ Len(s) = Cardinality(S) /\ {s[i] : i \in DOMAIN s} = S
    /\ \A i \in 1..(Len(s) - 1) :
           k[s[i]] < k[s[i + 1]] \/ (k[s[i]] = k[s[i + 1]] /\ s[i] < s[i + 1])

\* nth_element puts the nth element where it would stand if all were sorted,
\* with none greater before it and none less behind it; stable_sort,
\* inplace_merge and sort_n_with_buffer sort and keep the order of equal
\* elements, with a buffer of any size or none; merge and the set algorithms put
\* out, sorted and stably, how many of each value the two ranges call for;
\* partial_sort_copy the least, sorted.
SortsAreSorted ==
    /\ call.op = "nth_element" /\ call.nth # End =>
           \A i \in 1..Size : /\ i < call.nth => ~Before(a[call.nth], a[i])
                              /\ i > call.nth => ~Before(a[i], a[call.nth])
    /\ call.op \in {"stable_sort", "inplace_merge", "sort_n_with_buffer"} =>
           Sorted(Values) /\ Stable(a)
    /\ call.op \in {"merge", "set_union", "set_intersection", "set_difference",
                    "set_symmetric_difference"} =>
           Lists(call.at, CalledFor(call.second), key \o call.second)
    /\ call.op = "partial_sort_copy" =>
           /\ Sorted([i \in DOMAIN call.at |-> key[call.at[i]]])
           /\ \A i \in Copied, j \in 1..Size \ Copied : ~Before(j, i)

Ascending(s) == \A i \in 1..(Len(s) - 1) : s[i] < s[i + 1]

\* rotate and reverse, partition and the removals put every element where
\* their contracts say and return the iterator between the two parts;
\* stable_partition, remove_if, adjacent_remove_if and sample keep the order;
\* unique_copy takes the first of each run of equals, stride every step-th.
PlacesAreRight ==
    LET front == SubSeq(a, 1, call.at - 1)
        back == SubSeq(a, call.at, Size) IN
    CASE call.op = "rotate" -> a = [i \in 1..Size |-> 1 + ((i + call.middle - 2) % Size)]
                               /\ call.at = 1 + (End - call.middle)
      [] call.op = "reverse" -> a = [i \in 1..Size |-> End - i]
      [] call.op = "partition" -> {front[i] : i \in DOMAIN front} = Chosen
      [] call.op = "stable_partition" ->
             {front[i] : i \in DOMAIN front} = Chosen /\ Ascending(front) /\ Ascending(back)
      [] call.op \in {"remove_if", "adjacent_remove_if"} -> Ascending(front)
      [] call.op = "sample" -> Ascending(call.at)
      [] call.op = "unique_copy" ->
             Ascending(call.at) /\ Copied = {i \in 1..Size : i = 1 \/ key[i] # key[i - 1]}
      [] call.op = "stride" ->
             Ascending(call.at) /\ Copied = {i \in 1..Size : (i - 1) % call.step = 0}
      [] OTHER -> TRUE

\* v comes right before u in the order of sequences of the same values that
\* Lt gives: they part at some i, where u has the least of what v has after i
\* and is greater, and v has nothing greater behind, u nothing less.
Follows(u, v, Lt(_, _)) ==
    \E i \in DOMAIN v :
        /\ \A k \in 1..(i - 1) : u[k] = v[k]
        /\ Lt(v[i], u[i])
        /\ \A k \in (i + 1)..Len(v) : Lt(v[i], v[k]) => ~Lt(v[k], u[i])
        /\ \A k \in (i + 1)..(Len(v) - 1) : ~Lt(v[k], v[k + 1]) /\ ~Lt(u[k + 1], u[k])

\* After the last arrangement comes, with FALSE, the first.
StartsAgain(u, v, Lt(_, _)) ==
    \A k \in 1..(Len(v) - 1) : ~Lt(v[k], v[k + 1]) /\ ~Lt(u[k + 1], u[k])

Occurrences(p) ==
    {i \in 1..(End - Len(p)) : \A k \in 1..Len(p) : key[i + k - 1] = p[k]}

\* Every call returns, and answers what the definition of the search, the
\* order of the arrangements or the equality of bags says, the first least and
\* the last greatest element, or the first out of heap order, whether or not the
\* lengths are known to it.
AnswersAreRight ==
    LET Up(x, y) == x < y
        Down(x, y) == y < x
        below == Cardinality({i \in 1..Size : key[i] < call.value})
        through == Cardinality({i \in 1..Size : key[i] <= call.value})
        Place(Best(_)) == IF Occurrences(call.pattern) = {} THEN <<End, End>>
                          ELSE LET i == Best(Occurrences(call.pattern)) IN
                               <<i, i + Len(call.pattern)>> IN
    CASE call.op = "next_permutation" ->
             IF call.at THEN Follows(Values, key, Up) ELSE StartsAgain(Values, key, Up)
      [] call.op = "prev_permutation" ->
             IF call.at THEN Follows(Values, key, Down) ELSE StartsAgain(Values, key, Down)
      [] call.op = "lower_bound" -> call.at = 1 + below
      [] call.op = "upper_bound" -> call.at = 1 + through
      [] call.op = "equal_range" -> call.at = <<1 + below, 1 + through>>
      [] call.op = "binary_search" -> call.at = (below # through)
      [] call.op = "search" -> call.at = Place(Min)
      [] call.op = "find_end" -> call.at = Place(Max)
      [] call.op = "is_permutation" ->
             call.at = (Len(call.pattern) = Size
                        /\ \A x \in 1..Keys : CountOf(call.pattern, x) = CountOf(key, x))
      [] call.op = "includes" ->
             call.at = (\A x \in 1..Keys : CountOf(call.second, x) <= CountOf(key, x))
      [] call.op = "minmax_element" ->
             LET least == {i \in 1..Size : \A j \in 1..Size : key[i] <= key[j]}
                 most == {i \in 1..Size : \A j \in 1..Size : key[j] <= key[i]} IN
             call.at = [min |-> Min(least), max |-> Max(most)]
      [] call.op = "is_heap_until" ->
             call.at = Min({End} \cup {i \in 2..Size : key[i \div 2] < key[i]})
      [] call.op = "starts_with" -> call.at = (1 \in Occurrences(call.pattern))
      [] call.op = "ends_with" ->
             call.at = (End - Len(call.pattern) \in Occurrences(call.pattern))
      [] call.op = "contains" -> call.at = (Occurrences(call.pattern) # {})
      [] call.op = "never" -> FALSE
      [] OTHER -> TRUE
=============================================================================
