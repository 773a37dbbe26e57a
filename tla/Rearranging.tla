---------------------------- MODULE Rearranging ----------------------------
(* The algorithms that permute a range in place (algorithm/rotate.hpp,     *)
(* reverse.hpp, partition.hpp, stable_partition.hpp, the remove family,    *)
(* permutation.hpp), as operators on a sequence s whose entries name the   *)
(* elements.  A position i is the iterator to s[i], and l the iterator one *)
(* past the last of the positions f..l-1.  A result is the range and the   *)
(* iterator that is returned.                                              *)
EXTENDS Integers, Sequences, SequencesExt, FiniteSetsExt

\* What a move leaves behind.
Hole == 0

Result(s, p) == [range |-> s, at |-> p]
Ranges(s) == [DOMAIN s -> Nat]

\* What a loop leaves: from a state in S, step is made as long as it says how.
Loop(S, step) == LET after[w \in S] == IF w \in DOMAIN step THEN after[step[w]] ELSE w IN after

Swap(s, i, j) == [s EXCEPT ![i] = s[j], ![j] = s[i]]
Move(s, to, from) == [[s EXCEPT ![to] = s[from]] EXCEPT ![from] = Hole]

\* s with the elements of seg at f and after it.
Overwrite(s, f, seg) == SubSeq(s, 1, f - 1) \o seg \o SubSeq(s, f + Len(seg), Len(s))

\* find_if and find_if_not, forwards (l when there is none) and backwards
\* (f - 1 when there is none), T being the elements the predicate holds of.
FirstIn(s, f, l, T) == Min({l} \cup {i \in f..(l - 1) : s[i] \in T})
FirstOut(s, f, l, T) == Min({l} \cup {i \in f..(l - 1) : s[i] \notin T})
LastIn(s, f, l, T) == Max({f - 1} \cup {i \in f..(l - 1) : s[i] \in T})
LastOut(s, f, l, T) == Max({f - 1} \cup {i \in f..(l - 1) : s[i] \notin T})

(***************************************************************************)
(* rotate: [f, m) and [m, l) change places.  kind is the category of the   *)
(* iterators and whether their values are moved trivially.                 *)
(***************************************************************************)
RotateLeft(s, f, l) ==
    Result(Overwrite(s, f, SubSeq(s, f + 1, l - 1) \o <<s[f]>>), l - 1)

RotateRight(s, f, l) ==
    Result(Overwrite(s, f, <<s[l - 1]>> \o SubSeq(s, f, l - 2)), f + 1)

\* The first sweep ends when i has reached the end; the others start again from
\* the middle, until they meet it.
RotateForward(s, f, m, l) ==
    LET States == {w \in [range : Ranges(s), at : f..l, i : m..l, middle : m..(l - 1)] :
                       w.at < w.i /\ (w.at < w.middle \/ (w.at = w.middle /\ w.i = l))}
        Step(w) == [range |-> Swap(w.range, w.at, w.i), at |-> w.at + 1, i |-> w.i + 1,
                    middle |-> IF w.at + 1 = w.middle /\ w.i + 1 # l THEN w.i + 1 ELSE w.middle]
        sweep == Loop(States, [w \in {v \in States : v.i # l} |-> Step(w)])
        resweep == Loop(States, [w \in {v \in States : v.i # l \/ v.at # v.middle} |->
                                     IF w.i # l THEN Step(w) ELSE [w EXCEPT !.i = w.middle]])
        first == sweep[[range |-> s, at |-> f, i |-> m, middle |-> m]] IN
    Result(resweep[first].range, first.at)

Gcd_One(x, y) == 1
Gcd(x, y) ==
    LET Pairs == [x : Nat \ {0}, y : Nat]
        euclid == Loop(Pairs, [w \in {v \in Pairs : v.y # 0} |-> [x |-> w.y, y |-> w.x % w.y]]) IN
    euclid[[x |-> x, y |-> y]].x

\* One cycle of rotate_gcd: each hole is filled from m - f further on, the last
\* one with what stood at p.
Cycle(s, p, f, m, l) ==
    LET Source(i) == IF m - f < l - i THEN i + (m - f) ELSE f + (m - f - (l - i))
        States == [range : Ranges(s), hole : f..(l - 1)]
        fill == Loop(States, [w \in {v \in States : Source(v.hole) # p} |->
                                  [range |-> Move(w.range, w.hole, Source(w.hole)),
                                   hole |-> Source(w.hole)]])
        last == fill[[range |-> [s EXCEPT ![p] = Hole], hole |-> p]] IN
    [last.range EXCEPT ![last.hole] = s[p]]

RotateGcd(s, f, m, l) ==
    LET g == Gcd(m - f, l - m)
        States == [range : Ranges(s), p : f..(f + g)]
        cycles == Loop(States, [w \in {v \in States : v.p # f} |->
                                    [range |-> Cycle(w.range, w.p - 1, f, m, l), p |-> w.p - 1]]) IN
    IF m - f = l - m
    THEN Result(Overwrite(s, f, SubSeq(s, m, l - 1) \o SubSeq(s, f, m - 1)), m)
    ELSE Result(cycles[[range |-> s, p |-> f + g]].range, f + (l - m))

Rotate(s, f, m, l, kind) ==
    IF f = m THEN Result(s, l)
    ELSE IF m = l THEN Result(s, f)
    ELSE IF kind.trivial /\ f + 1 = m THEN RotateLeft(s, f, l)
    ELSE IF kind.trivial /\ kind.tag # "forward" /\ m + 1 = l THEN RotateRight(s, f, l)
    ELSE IF kind.trivial /\ kind.tag = "random" THEN RotateGcd(s, f, m, l)
    ELSE RotateForward(s, f, m, l)

(***************************************************************************)
(* reverse                                                                 *)
(***************************************************************************)
Reversed(s, f, l, tag) ==
    LET States == {w \in [range : Ranges(s), f : f..l, l : f..l] : w.f <= w.l}
        Goes(w) == IF tag = "random" THEN w.f < w.l - 1 ELSE w.f # w.l /\ w.f # w.l - 1
        exchange == Loop(States, [w \in {v \in States : Goes(v)} |->
                                      [range |-> Swap(w.range, w.f, w.l - 1),
                                       f |-> w.f + 1, l |-> w.l - 1]]) IN
    exchange[[range |-> s, f |-> f, l |-> l]].range

(***************************************************************************)
(* partition, stable_partition                                             *)
(***************************************************************************)
\* The loop partition and remove_if share: the elements of T found from p on
\* are put where `at` stands: the one exchanges, the other moves.
Gather(s, at, p, l, T, how) ==
    LET States == {w \in [range : Ranges(s), at : Nat, i : Nat] : w.at \in at..(w.i - 1)}
        Taken(w) == IF how = "swap" THEN Swap(w.range, w.at, w.i) ELSE Move(w.range, w.at, w.i)
        gather == Loop(States, [w \in {v \in States : v.i < l} |->
                                    IF w.range[w.i] \in T
                                    THEN [range |-> Taken(w), at |-> w.at + 1, i |-> w.i + 1]
                                    ELSE [w EXCEPT !.i = w.i + 1]])
        last == gather[[range |-> s, at |-> at, i |-> p]] IN
    Result(last.range, last.at)

PartitionForward(s, f, l, T) ==
    LET i == FirstOut(s, f, l, T) IN
    IF i = l THEN Result(s, l) ELSE Gather(s, i, i + 1, l, T, "swap")

\* What is on the wrong side is found from both ends and exchanged.
PartitionBothWays(s, f, l, T) ==
    LET States == {w \in [range : Ranges(s), f : f..l, l : f..l] : w.f <= w.l}
        Out(w) == FirstOut(w.range, w.f, w.l, T)
        In(w) == LastIn(w.range, Out(w) + 1, w.l, T)
        exchange == Loop(States, [w \in {v \in States : Out(v) # v.l /\ In(v) # Out(v)} |->
                                      [range |-> Swap(w.range, Out(w), In(w)),
                                       f |-> Out(w) + 1, l |-> In(w)]])
        last == exchange[[range |-> s, f |-> f, l |-> l]] IN
    Result(last.range, Out(last))

Partition(s, f, l, T, tag) ==
    IF tag = "forward" THEN PartitionForward(s, f, l, T) ELSE PartitionBothWays(s, f, l, T)

\* The elements of seg that are in T, and the others, each in their order.
Parted(seg, T) ==
    LET States == [trues : Seq(Nat), falses : Seq(Nat), i : 1..(Len(seg) + 1)]
        copy == Loop(States, [w \in {v \in States : v.i <= Len(seg)} |->
                                  IF seg[w.i] \in T
                                  THEN [w EXCEPT !.trues = Append(w.trues, seg[w.i]), !.i = w.i + 1]
                                  ELSE [w EXCEPT !.falses = Append(w.falses, seg[w.i]),
                                                 !.i = w.i + 1]]) IN
    copy[[trues |-> <<>>, falses |-> <<>>, i |-> 1]]

\* stable_partition_impl for bidirectional iterators: s[f] is not in T, s[l]
\* is (l is the last element here, not the end), and n = l - f + 1.
Unparted(s, T) ==
    {w \in [range : Ranges(s), f : DOMAIN s, l : DOMAIN s, n : Nat] :
        w.f < w.l /\ w.n = w.l - w.f + 1 /\ w.range[w.f] \notin T /\ w.range[w.l] \in T}

StablePart(part, w, T, buffer, kind) ==
    LET f == w.f
        l == w.l
        parted == Parted(SubSeq(w.range, f + 1, l - 1), T)
        half == w.n \div 2
        middle == f + half
        m1 == LastIn(w.range, f, middle, T)
        left == IF m1 < f THEN Result(w.range, f)
                ELSE part[[range |-> w.range, f |-> f, l |-> m1, n |-> half - (middle - 1 - m1)]]
        m2 == FirstOut(left.range, middle, l, T)
        right == part[[range |-> left.range, f |-> m2, l |-> l, n |-> w.n - half - (m2 - middle)]]
    IN
    IF w.n = 2 THEN Result(Swap(w.range, f, l), l)
    ELSE IF w.n = 3 THEN
        IF w.range[f + 1] \in T
        THEN Result(Swap(Swap(w.range, f, f + 1), f + 1, l), l)
        ELSE Result(Swap(Swap(w.range, f + 1, l), f, f + 1), f + 1)
    ELSE IF w.n <= buffer THEN
        Result(Overwrite(w.range, f, parted.trues \o <<w.range[l], w.range[f]>> \o parted.falses),
               f + Len(parted.trues) + 1)
    ELSE IF m2 = l THEN Rotate(left.range, left.at, middle, l + 1, kind)
    ELSE Rotate(right.range, left.at, middle, right.at, kind)

StablyPartition(s, T, buffer, kind) ==
    LET part[w \in Unparted(s, T)] == StablePart(part, w, T, buffer, kind) IN part

\* The sizes get_temporary_buffer(n) may report: it asks for n, n/2, n/4, ...
\* until it is given that much, and then halves once more.
TemporaryBuffers(n) == {n \div 2^k : k \in 1..(n + 1)}

\* What is left to partition once the trues in front and the falses behind
\* are passed over, [first, last] inclusive; empty when all is in place.
Unpartitioned(s, T) ==
    LET first == FirstOut(s, 1, Len(s) + 1, T)
        last == LastIn(s, first + 1, Len(s) + 1, T) IN
    [first |-> first, last |-> last, length |-> IF first > Len(s) THEN 0 ELSE last - first + 1]

StablePartitionBuffers(s, T) ==
    LET n == Unpartitioned(s, T).length IN IF n >= 4 THEN TemporaryBuffers(n) ELSE {0}

StablePartition(s, T, buffer, kind) ==
    LET u == Unpartitioned(s, T) IN
    IF u.length <= 1 THEN Result(s, u.first)
    ELSE StablyPartition(s, T, buffer, kind)[[range |-> s, f |-> u.first, l |-> u.last,
                                              n |-> u.length]]

(***************************************************************************)
(* remove_if, unstable_remove_if, adjacent_remove_if                       *)
(***************************************************************************)
RemoveIf_OneSkipped(s, f, l, T) ==
    LET i == FirstIn(s, f, l, T) IN
    IF i = l THEN Result(s, l) ELSE Gather(s, i, i + 2, l, 1..Len(s) \ T, "move")

RemoveIf(s, f, l, T) ==
    LET i == FirstIn(s, f, l, T) IN
    IF i = l THEN Result(s, l) ELSE Gather(s, i, i + 1, l, 1..Len(s) \ T, "move")

\* The last that stays is put where the first was that goes.
UnstableRemoveIf(s, f, l, T) ==
    LET States == {w \in [range : Ranges(s), f : f..l, l : f..l] : w.f <= w.l}
        In(w) == FirstIn(w.range, w.f, w.l, T)
        Out(w) == LastOut(w.range, In(w) + 1, w.l, T)
        fill == Loop(States, [w \in {v \in States : In(v) # v.l /\ Out(v) # In(v)} |->
                                  [range |-> Move(w.range, In(w), Out(w)),
                                   f |-> In(w) + 1, l |-> Out(w)]])
        last == fill[[range |-> s, f |-> f, l |-> l]] IN
    Result(last.range, In(last))

\* An element goes when it and the one after it are related: of each run of
\* related neighbours the last stays.
AdjacentRemoveIf(s, f, l, related) ==
    LET i == Min({l} \cup {k \in f..(l - 2) : <<s[k], s[k + 1]>> \in related})
        States == {w \in [range : Ranges(s), at : Nat, j : (i + 2)..l] : w.at \in i..(w.j - 2)}
        keep == Loop(States, [w \in {v \in States : v.j < l} |->
                    IF <<w.range[w.j - 1], w.range[w.j]>> \in related THEN [w EXCEPT !.j = w.j + 1]
                    ELSE [range |-> Move(w.range, w.at, w.j - 1), at |-> w.at + 1, j |-> w.j + 1]])
        last == keep[[range |-> s, at |-> i, j |-> i + 2]] IN
    IF i = l THEN Result(s, l) ELSE Result(Move(last.range, last.at, l - 1), last.at + 1)

(***************************************************************************)
(* next_permutation, prev_permutation: at tells whether there was one.     *)
(***************************************************************************)
NextPermutation(s, before) ==
    LET n == Len(s)
        i == Max({0} \cup {k \in 1..(n - 1) : <<s[k], s[k + 1]>> \in before})
        j == Max({k \in (i + 1)..n : <<s[i], s[k]>> \in before}) IN
    IF n <= 1 THEN Result(s, FALSE)
    ELSE IF i = 0 THEN Result(Reversed(s, 1, n + 1, "random"), FALSE)
    ELSE Result(Reversed(Swap(s, i, j), i + 1, n + 1, "random"), TRUE)
=============================================================================
