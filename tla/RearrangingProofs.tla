-------------------------- MODULE RearrangingProofs --------------------------
(***************************************************************************)
(* What the algorithms of Rearranging and Sorting do to any range.         *)
(*                                                                         *)
(* Their loops are instances of Loop, a recursive function on the states   *)
(* of the locals.  LoopLeaves says that one whose steps keep an invariant  *)
(* and lower a rank ends outside of its condition, with the invariant      *)
(* kept; RecursionSolved the same of the algorithms that call themselves.  *)
(* Each algorithm then has a lemma named for it, <algorithm>Is.            *)
(***************************************************************************)
EXTENDS Sorting, FiniteSetTheorems, WellFoundedInduction, NaturalsInduction, TLAPS

-----------------------------------------------------------------------------
(* Loops that end, and what holds when they do *)

\* Of the members of S that are not in P one has the least rank.
LEMMA RankInduction ==
    ASSUME NEW S, NEW P, NEW rank \in [S -> Nat],
           \A x \in S : (\A y \in S : rank[y] < rank[x] => y \in P) => x \in P
    PROVE  S \subseteq P
<1> SUFFICES ASSUME NEW z \in S, z \notin P PROVE FALSE
    OBVIOUS
<1> DEFINE left == {rank[x] : x \in S \ P}
<1>1. left \subseteq Nat /\ left # {}
    OBVIOUS
<1>2. PICK n \in left : \A m \in left : <<m, n>> \notin OpToRel(<, Nat)
    <2> HIDE DEF left
    <2> QED
    BY <1>1, NatLessThanWellFounded, WFMin
<1>3. PICK x \in S \ P : n = rank[x]
    BY <1>2
<1>4. PICK y \in S : rank[y] < rank[x] /\ y \notin P
    OBVIOUS
<1>5. <<rank[y], n>> \in OpToRel(<, Nat)
    BY <1>3, <1>4 DEF OpToRel
<1>6. rank[y] \in left
    BY <1>4
<1> HIDE DEF left
<1> QED
    BY <1>2, <1>5, <1>6

\* There is a function that does what a loop does: where the loop does not end,
\* it may be anything.
LEMMA LoopExists ==
    ASSUME NEW S, NEW step, DOMAIN step \subseteq S, \A w \in DOMAIN step : step[w] \in S
    PROVE  \E f : f = [w \in S |-> IF w \in DOMAIN step THEN f[step[w]] ELSE w]
<1> DEFINE Closed(X) == /\ \A w \in S \ DOMAIN step : <<w, w>> \in X
                        /\ \A w \in DOMAIN step : \A t \in S : <<step[w], t>> \in X => <<w, t>> \in X
           R == {p \in S \X S : \A X \in SUBSET (S \X S) : Closed(X) => p \in X}
           Ends(w) == {t \in S : <<w, t>> \in R}
           Some(w) == CHOOSE t : t \in Ends(w)
           f == [w \in S |-> Some(w)]
<1>1. R \in SUBSET (S \X S)
    OBVIOUS
<1>2. Closed(R)
    <2>1. ASSUME NEW w \in S \ DOMAIN step PROVE <<w, w>> \in R
        OBVIOUS
    <2>2. ASSUME NEW w \in DOMAIN step, NEW t \in S, <<step[w], t>> \in R PROVE <<w, t>> \in R
        <3>1. <<w, t>> \in S \X S
            OBVIOUS
        <3>2. ASSUME NEW X \in SUBSET (S \X S), Closed(X) PROVE <<w, t>> \in X
            <4>1. <<step[w], t>> \in X
                BY <2>2, <3>2
            <4> QED
                BY <4>1, <3>2
        <3> QED
            BY <3>1, <3>2
    <2> QED
        BY <2>1, <2>2
<1>3. ASSUME NEW X \in SUBSET (S \X S), Closed(X) PROVE R \subseteq X
    BY <1>3
<1>4. ASSUME NEW w \in DOMAIN step, NEW t \in S, <<w, t>> \in R PROVE <<step[w], t>> \in R
    <2> DEFINE X == {p \in R : p[1] \in DOMAIN step => <<step[p[1]], p[2]>> \in R}
    <2>1. X \in SUBSET (S \X S)
        BY <1>1
    <2>2. ASSUME NEW v \in S \ DOMAIN step PROVE <<v, v>> \in X
        <3>1. <<v, v>> \in R
            BY <1>2
        <3> QED
            BY <3>1
    <2>3. ASSUME NEW v \in DOMAIN step, NEW u \in S, <<step[v], u>> \in X PROVE <<v, u>> \in X
        <3>1. <<step[v], u>> \in R
            BY <2>3
        <3>2. <<v, u>> \in R
            BY <3>1, <1>2
        <3> QED
            BY <3>1, <3>2
    <2>4. R \subseteq X
        <3>1. Closed(X)
            <4> HIDE DEF X
            <4> QED
            BY <2>2, <2>3
        <3> HIDE DEF X, R, Closed
        <3> QED
            BY <2>1, <3>1, <1>3
    <2>5. <<w, t>> \in X
        BY <1>4, <2>4
    <2> QED
        BY <2>5
<1>5. ASSUME NEW w \in S \ DOMAIN step, NEW t \in S, <<w, t>> \in R PROVE t = w
    <2> DEFINE X == {p \in R : p[1] \notin DOMAIN step => p[2] = p[1]}
    <2>1. X \in SUBSET (S \X S)
        BY <1>1
    <2>2. ASSUME NEW v \in S \ DOMAIN step PROVE <<v, v>> \in X
        <3>1. <<v, v>> \in R
            BY <1>2
        <3> QED
            BY <3>1
    <2>3. ASSUME NEW v \in DOMAIN step, NEW u \in S, <<step[v], u>> \in X PROVE <<v, u>> \in X
        <3>1. <<v, u>> \in R
            BY <2>3, <1>2
        <3> QED
            BY <3>1
    <2>4. R \subseteq X
        <3>1. Closed(X)
            <4> HIDE DEF X
            <4> QED
            BY <2>2, <2>3
        <3> HIDE DEF X, R, Closed
        <3> QED
            BY <2>1, <3>1, <1>3
    <2>5. <<w, t>> \in X
        BY <1>5, <2>4
    <2> QED
        BY <2>5
<1> HIDE DEF R
<1>6. ASSUME NEW w \in DOMAIN step PROVE Ends(w) = Ends(step[w])
    <2> USE <1>6
    <2> QED
    BY <1>2, <1>4
<1>7. ASSUME NEW w \in S \ DOMAIN step PROVE Ends(w) = {w}
    BY <1>2, <1>5, <1>7
<1>8. ASSUME NEW w \in S PROVE f[w] = IF w \in DOMAIN step THEN f[step[w]] ELSE w
    <2>1. CASE w \in DOMAIN step
        <3>1. Ends(w) = Ends(step[w]) /\ step[w] \in S
            BY <1>6, <2>1
        <3> HIDE DEF Ends
        <3> QED
            BY <3>1, <2>1
    <2>2. CASE w \notin DOMAIN step
        <3>1. Ends(w) = {w}
            BY <1>7, <2>2
        <3>2. f[w] = CHOOSE t : t \in {w}
            <4> HIDE DEF Ends
            <4> QED
                BY <3>1
        <3> QED
            BY <3>2, <2>2
    <2> QED
        BY <2>1, <2>2
<1>9. f = [w \in S |-> IF w \in DOMAIN step THEN f[step[w]] ELSE w]
    <2>1. f = [w \in S |-> f[w]]
        <3> HIDE DEF Some
        <3> QED
            OBVIOUS
    <2> HIDE DEF f
    <2> QED
        BY <1>8, <2>1
<1> QED
    BY <1>9

\* A loop whose steps stay in P and lower the rank ends in P, where it has no
\* step to make.
LEMMA LoopEnds ==
    ASSUME NEW S, NEW step, DOMAIN step \subseteq S, \A w \in DOMAIN step : step[w] \in S,
           NEW P \in SUBSET S, NEW rank \in [P -> Nat],
           \A w \in P \cap DOMAIN step : step[w] \in P /\ rank[step[w]] < rank[w]
    PROVE  \A w \in P : Loop(S, step)[w] \in P \ DOMAIN step
<1> DEFINE f == Loop(S, step)
<1>1. f = [w \in S |-> IF w \in DOMAIN step THEN f[step[w]] ELSE w]
    BY LoopExists DEF Loop
<1> HIDE DEF f
<1> DEFINE Q == {w \in P : f[w] \in P \ DOMAIN step}
<1>2. ASSUME NEW w \in P, \A v \in P : rank[v] < rank[w] => v \in Q PROVE w \in Q
    <2>1. CASE w \in DOMAIN step
        <3>1. f[w] = f[step[w]] /\ step[w] \in Q
            BY <1>1, <1>2, <2>1
        <3> QED
            BY <3>1
    <2>2. CASE w \notin DOMAIN step
        BY <1>1, <2>2
    <2> QED
        BY <2>1, <2>2
<1>3. P \subseteq Q
    <2> HIDE DEF Q
    <2> QED
    BY <1>2, RankInduction
<1> QED
    BY <1>3 DEF f

\* The steps, which are made from G, stay in P and lower the rank.
Descends(S, G, step, P, rank) ==
    /\ G \subseteq S /\ step \in [G -> S]
    /\ P \subseteq S /\ rank \in [P -> Nat]
    /\ \A w \in P \cap G : step[w] \in P /\ rank[step[w]] < rank[w]

\* The same, of a loop whose steps are given from G into S.
LEMMA LoopLeaves ==
    ASSUME NEW S, NEW G, NEW step, NEW P, NEW rank, Descends(S, G, step, P, rank), NEW w \in P
    PROVE  Loop(S, step)[w] \in P /\ Loop(S, step)[w] \notin G
<1>1. /\ DOMAIN step = G /\ \A v \in DOMAIN step : step[v] \in S
      /\ G \subseteq S /\ P \in SUBSET S /\ rank \in [P -> Nat]
    BY DEF Descends
<1>2. \A v \in P \cap DOMAIN step : step[v] \in P /\ rank[step[v]] < rank[v]
    BY <1>1 DEF Descends
<1> QED
    BY <1>1, <1>2, LoopEnds

-----------------------------------------------------------------------------
(* rotate: forward, and by moves of blocks *)

\* Where rotate puts every element.
Rotated(s, f, m, l) ==
    [i \in DOMAIN s |-> IF i < f \/ i >= l THEN s[i]
                        ELSE IF i < f + (l - m) THEN s[i + (m - f)] ELSE s[i - (l - m)]]

\* What is at j once [i, l), [middle, i) and [at, middle) are put one after
\* another from at on.
Unrotated(r, at, i, middle, l, j) ==
    IF j < at \/ j >= l THEN r[j]
    ELSE IF j - at < l - i THEN r[i + (j - at)]
    ELSE IF j - at < l - middle THEN r[middle + (j - at) - (l - i)]
    ELSE r[j - (l - middle)]

\* The ranges of n elements.
Rows(n) == [1..n -> Nat]

\* Two elements have changed places, and nothing else.
LEMMA SwapType ==
    ASSUME NEW n \in Nat, NEW s \in Rows(n), NEW i \in 1..n, NEW j \in 1..n
    PROVE  /\ Swap(s, i, j) \in Rows(n)
           /\ Swap(s, i, j)[i] = s[j] /\ Swap(s, i, j)[j] = s[i]
           /\ \A k \in 1..n : k # i /\ k # j => Swap(s, i, j)[k] = s[k]
    BY DEF Swap, Rows

\* rotate_forward, whose second loop fills what the first has left behind, rotates.
LEMMA RotateForwardIs ==
    ASSUME NEW n \in Nat, NEW s \in Rows(n),
           NEW f \in 1..n, NEW m \in 1..n, NEW l \in 1..(n + 1), f < m, m < l
    PROVE  RotateForward(s, f, m, l) = Result(Rotated(s, f, m, l), f + (l - m))
<1> DEFINE States == {w \in [range : Ranges(s), at : f..l, i : m..l, middle : m..(l - 1)] :
                       w.at < w.i /\ (w.at < w.middle \/ (w.at = w.middle /\ w.i = l))}
           Step(w) == [range |-> Swap(w.range, w.at, w.i), at |-> w.at + 1, i |-> w.i + 1,
                    middle |-> IF w.at + 1 = w.middle /\ w.i + 1 # l THEN w.i + 1 ELSE w.middle]
           Goes1(w) == w.i # l
           Step1(w) == Step(w)
           step1 == [w \in {v \in States : v.i # l} |-> Step(w)]
           Step2(w) == IF w.i # l THEN Step(w) ELSE [w EXCEPT !.i = w.middle]
           step2 == [w \in {v \in States : v.i # l \/ v.at # v.middle} |-> IF w.i # l THEN Step(w) ELSE [w EXCEPT !.i = w.middle]]
           start == [range |-> s, at |-> f, i |-> m, middle |-> m]
           Left(w, j) == Unrotated(w.range, w.at, w.i, w.middle, l, j)
           target == Rotated(s, f, m, l)
           P2 == {w \in States : w.middle <= w.i /\ \A j \in 1..n : Left(w, j) = target[j]}
           P1 == {w \in P2 : w.at - f = w.i - m}
           G1 == {v \in States : v.i # l}
           G2 == {v \in States : v.i # l \/ v.at # v.middle}
           rank1 == [w \in P1 |-> l - w.i]
           rank2 == [w \in P2 |-> 2 * (l - w.at) + (IF w.i = l THEN 1 ELSE 0)]
<1>0. DOMAIN s = 1..n /\ Ranges(s) = Rows(n)
    BY DEF Ranges, Rows
<1>e. ASSUME NEW w \in States
      PROVE  /\ w.range \in Rows(n) /\ w.at \in f..l /\ w.i \in m..l /\ w.middle \in m..(l - 1)
             /\ w.at < w.i /\ (w.at < w.middle \/ (w.at = w.middle /\ w.i = l))
             /\ w = [range |-> w.range, at |-> w.at, i |-> w.i, middle |-> w.middle]
    BY <1>0
<1>t. ASSUME NEW r \in Rows(n), NEW at \in f..l, NEW i \in m..l, NEW middle \in m..(l - 1),
             at < i, at < middle \/ (at = middle /\ i = l)
      PROVE  [range |-> r, at |-> at, i |-> i, middle |-> middle] \in States
    BY <1>0, <1>t
<1>1. start \in P1
    BY <1>0 DEF Rotated, Unrotated
<1>s. start \in States /\ P1 \subseteq P2 /\ P2 \subseteq States
    BY <1>1
<1>p. \A w : /\ w \in P2 <=> w \in States /\ w.middle <= w.i /\ \A j \in 1..n : Left(w, j) = target[j]
             /\ w \in P1 <=> w \in P2 /\ w.at - f = w.i - m
             /\ w \in G1 <=> w \in States /\ w.i # l
             /\ w \in G2 <=> w \in States /\ (w.i # l \/ w.at # w.middle)
    OBVIOUS
<1> HIDE DEF States, P1, P2, G1, G2
<1>2. ASSUME NEW w \in G1
      PROVE  /\ Step(w) \in States /\ (Step(w).at = w.at + 1 /\ Step(w).i = w.i + 1)
             /\ w \in P2 => Step(w) \in P2
    <2> DEFINE r == w.range
               at == w.at
               i == w.i
               middle == w.middle
               mid == IF at + 1 = middle /\ i + 1 # l THEN i + 1 ELSE middle
               q == Swap(r, at, i)
               v == [range |-> q, at |-> at + 1, i |-> i + 1, middle |-> mid]
    <2>1. /\ r \in Rows(n) /\ at \in f..(l - 1) /\ i \in m..(l - 1) /\ middle \in m..(l - 1)
          /\ at < i /\ at < middle /\ w \in States
        BY <1>e, <1>p
    <2>a. v = Step(w)
        OBVIOUS
    <2>b. w.range = r /\ w.at = at /\ w.i = i /\ w.middle = middle
        OBVIOUS
    <2> HIDE DEF r, at, i, middle
    <2>2. /\ q \in Rows(n) /\ q[at] = r[i] /\ q[i] = r[at]
          /\ \A k \in 1..n : k # at /\ k # i => q[k] = r[k]
        <3>1. at \in 1..n /\ i \in 1..n
            BY <2>1
        <3> QED
            BY <3>1, <2>1, SwapType
    <2> HIDE DEF q
    <2>3. v \in States
        <3>1. /\ at + 1 \in f..l /\ i + 1 \in m..l /\ mid \in m..(l - 1)
              /\ at + 1 < i + 1 /\ (at + 1 < mid \/ (at + 1 = mid /\ i + 1 = l))
            BY <2>1
        <3> HIDE DEF mid
        <3> QED
            BY <3>1, <2>2, <1>t
    <2>c. v.range = q /\ v.at = at + 1 /\ v.i = i + 1 /\ v.middle = mid
        OBVIOUS
    <2> HIDE DEF v, Step
    <2>5. ASSUME NEW j \in 1..n, middle <= i PROVE Left(v, j) = Left(w, j)
        <3>1. Unrotated(q, at + 1, i + 1, mid, l, j) = Unrotated(r, at, i, middle, l, j)
            <4>1. CASE j <= at \/ j >= l
                BY <4>1, <2>1, <2>2 DEF Unrotated
            <4>2. CASE at < j /\ j < l /\ mid = middle
                <5>0. /\ j \in Int /\ at \in Int /\ i \in Int /\ middle \in Int /\ middle <= i /\ j > at
                      /\ j - at < l - i <=> j - (at + 1) < l - (i + 1)
                      /\ i + 1 + (j - (at + 1)) = i + (j - at)
                      /\ middle + (j - (at + 1)) - (l - (i + 1)) = middle + (j - at) - (l - i)
                    BY <4>2, <2>1, <2>5
                <5>1. CASE j - at < l - i
                    <6>1. /\ i + (j - at) \in 1..n /\ i + (j - at) # at /\ i + (j - at) # i
                          /\ q[i + (j - at)] = r[i + (j - at)]
                        BY <5>0, <5>1, <2>1, <2>2
                    <6> QED
                        BY <5>0, <5>1, <6>1, <4>2 DEF Unrotated
                <5>2. CASE l - i <= j - at /\ j - at < l - middle
                    <6> DEFINE x == middle + (j - at) - (l - i)
                    <6>1. x \in 1..n /\ x # at /\ x # i
                        BY <5>0, <5>2, <2>1
                    <6>2. q[x] = r[x]
                        BY <6>1, <2>2
                    <6> QED
                        BY <5>0, <5>2, <6>2, <4>2 DEF Unrotated
                <5>3. CASE j - at = l - middle
                    <6>1. Unrotated(q, at + 1, i + 1, mid, l, j) = q[i]
                        <7>1. middle + (j - (at + 1)) - (l - (i + 1)) = i
                            BY <5>0, <5>3
                        <7> QED
                            BY <5>0, <5>3, <4>2, <7>1 DEF Unrotated
                    <6>2. Unrotated(r, at, i, middle, l, j) = r[at]
                        BY <5>0, <5>3, <4>2 DEF Unrotated
                    <6> QED
                        BY <6>1, <6>2, <2>2
                <5>4. CASE j - at > l - middle
                    <6> DEFINE x == j - (l - middle)
                    <6>1. x \in 1..n /\ x # at /\ x # i
                        BY <5>0, <5>4, <4>2, <2>1
                    <6>2. q[x] = r[x]
                        BY <6>1, <2>2
                    <6> QED
                        BY <5>0, <5>4, <6>2, <4>2 DEF Unrotated
                <5> QED
                    BY <5>0, <5>1, <5>2, <5>3, <5>4
            <4>3. CASE at < j /\ j < l /\ mid = i + 1 /\ at + 1 = middle
                BY <4>3, <2>1, <2>2 DEF Unrotated
            <4> QED
                BY <4>1, <4>2, <4>3, <2>1
        <3> QED
            BY <2>b, <2>c, <3>1
    <2>6. w \in P2 => v \in P2
        <3>1. middle <= i => mid <= i + 1
            BY <2>1
        <3> HIDE DEF Left, mid
        <3> QED
            BY <2>3, <2>5, <2>b, <2>c, <3>1, <1>p
    <2> QED
        BY <2>3, <2>6, <2>a, <2>c, <2>b
<1>3. ASSUME NEW w \in G2, w.i = l
      PROVE  /\ [w EXCEPT !.i = w.middle] \in States /\ [w EXCEPT !.i = w.middle].i # l
             /\ [w EXCEPT !.i = w.middle].at = w.at
             /\ w \in P2 => [w EXCEPT !.i = w.middle] \in P2
    <2> DEFINE v == [w EXCEPT !.i = w.middle]
    <2>1. w \in States /\ w.at # w.middle
        BY <1>3, <1>p
    <2>2. v = [range |-> w.range, at |-> w.at, i |-> w.middle, middle |-> w.middle]
        BY <2>1, <1>e
    <2> HIDE DEF v
    <2>3. v \in States /\ v.range = w.range /\ v.at = w.at /\ v.middle = w.middle /\ v.i = w.middle
        <3>1. /\ w.range \in Rows(n) /\ w.at \in f..l /\ w.middle \in m..(l - 1)
              /\ w.middle \in m..l /\ w.at < w.middle
            BY <2>1, <1>e
        <3>2. [range |-> w.range, at |-> w.at, i |-> w.middle, middle |-> w.middle] \in States
            BY <3>1, <1>t
        <3> QED
            BY <3>2, <2>2
    <2>4. ASSUME NEW j \in 1..n PROVE Left(v, j) = Left(w, j)
        <3>1. /\ w.range \in Rows(n) /\ w.at \in f..l /\ w.middle \in m..(l - 1)
            BY <2>1, <1>e
        <3> QED
            BY <2>3, <3>1, <1>3 DEF Unrotated
    <2>5. w \in P2 => v \in P2
        <3> HIDE DEF Left
        <3> QED
            BY <2>3, <2>4, <1>p, <1>e
    <2>6. v.i # l
        BY <2>3, <2>1, <1>e
    <2> QED
        BY <2>3, <2>5, <2>6 DEF v
<1> HIDE DEF Step
<1>4. Descends(States, G1, step1, P1, rank1)
    <2>1. /\ G1 \subseteq States /\ P1 \subseteq States /\ step1 \in [G1 -> States]
          /\ rank1 \in [P1 -> Nat]
        BY <1>2, <1>p, <1>e DEF G1
    <2>2. ASSUME NEW v \in P1 \cap G1 PROVE step1[v] \in P1 /\ rank1[step1[v]] < rank1[v]
        <3> DEFINE u == Step(v)
        <3>1. step1[v] = u
            BY DEF G1
        <3>2. v.at \in Int /\ v.i \in Int /\ v.at - f = v.i - m /\ v \in P2
            BY <1>e, <1>p
        <3>3. u \in P2 /\ u.at = v.at + 1 /\ u.i = v.i + 1
            BY <1>2, <3>2
        <3> HIDE DEF u
        <3>4. u \in P1
            <4>1. u.at - f = u.i - m
                BY <3>2, <3>3
            <4> QED
                BY <3>3, <4>1, <1>p
        <3>5. rank1[u] = l - u.i /\ rank1[v] = l - v.i
            BY <3>4
        <3> HIDE DEF step1, rank1
        <3> QED
            BY <3>1, <3>2, <3>3, <3>4, <3>5
    <2> HIDE DEF step1, rank1
    <2> QED
        BY <2>1, <2>2 DEF Descends
<1>5. Descends(States, G2, step2, P2, rank2)
    <2>1. /\ G2 \subseteq States /\ P2 \subseteq States /\ step2 \in [G2 -> States]
          /\ rank2 \in [P2 -> Nat]
        <3>1. ASSUME NEW w \in G2 PROVE Step2(w) \in States
            BY <1>2, <1>3, <1>p
        <3>2. step2 \in [G2 -> States]
            BY <3>1 DEF G2
        <3> QED
            BY <3>2, <1>p, <1>e
    <2>2. ASSUME NEW v \in P2 \cap G2 PROVE step2[v] \in P2 /\ rank2[step2[v]] < rank2[v]
        <3> DEFINE u == Step2(v)
        <3>0. v.at \in Int /\ v.i \in Int /\ v \in States /\ step2[v] = u
            BY <1>e, <1>p DEF G2
        <3>1. CASE v.i # l
            <4>1. v \in G1 /\ u = Step(v)
                BY <3>0, <3>1, <1>p
            <4>2. u \in P2 /\ u.at = v.at + 1
                BY <1>2, <4>1
            <4> HIDE DEF u
            <4>3. rank2[u] = 2 * (l - u.at) + (IF u.i = l THEN 1 ELSE 0)
                  /\ rank2[v] = 2 * (l - v.at) + 0
                BY <4>2, <3>1
            <4> HIDE DEF step2, rank2
            <4> QED
                BY <3>0, <4>2, <4>3
        <3>2. CASE v.i = l
            <4>2. u \in P2 /\ u.at = v.at /\ u.i # l
                BY <1>3, <3>2
            <4> HIDE DEF u
            <4>3. rank2[u] = 2 * (l - u.at) + 0 /\ rank2[v] = 2 * (l - v.at) + 1
                BY <4>2, <3>2
            <4> HIDE DEF step2, rank2
            <4> QED
                BY <3>0, <4>2, <4>3
        <3> QED
            BY <3>1, <3>2
    <2> HIDE DEF step2, rank2
    <2> QED
        BY <2>1, <2>2 DEF Descends
<1> DEFINE first == Loop(States, step1)[start]
           last == Loop(States, step2)[first]
<1>6. RotateForward(s, f, m, l) = Result(last.range, first.at)
    BY DEF RotateForward, Step, States
<1>7. first \in P1 /\ first.i = l
    <2> HIDE DEF start, step1, rank1
    <2> QED
        BY <1>1, <1>4, LoopLeaves, <1>p
<1>8. last \in P2 /\ last.i = l /\ last.at = last.middle
    <2> HIDE DEF first, step2, rank2
    <2> QED
        BY <1>7, <1>5, LoopLeaves, <1>p
<1> HIDE DEF first, last
<1>9. first.at = f + (l - m)
    BY <1>7, <1>e, <1>p
<1>10. last.range = target
    <2>1. \A j \in 1..n : last.range[j] = target[j]
        BY <1>8, <1>e, <1>p DEF Unrotated
    <2>2. target = [j \in 1..n |-> target[j]]
        BY <1>0 DEF Rotated
    <2>3. last.range \in Rows(n)
        BY <1>8, <1>e, <1>p
    <2> HIDE DEF target
    <2> QED
        BY <2>1, <2>2, <2>3 DEF Rows
<1> QED
    BY <1>6, <1>9, <1>10

\* A range is a sequence, and a sequence a range.
LEMMA RowIsSeq ==
    ASSUME NEW n \in Nat, NEW s \in Rows(n)
    PROVE  s \in Seq(Nat) /\ Len(s) = n /\ DOMAIN s = 1..n /\ \A i \in 1..n : s[i] \in Nat
    BY DEF Rows

\* A sequence of names is a range.
LEMMA SeqIsRow ==
    ASSUME NEW s \in Seq(Nat)
    PROVE  s \in Rows(Len(s))
    BY DEF Rows

\* Ranges with the same elements are the same.
LEMMA RowsEqual ==
    ASSUME NEW n \in Nat, NEW s \in Rows(n), NEW t \in Rows(n), \A i \in 1..n : s[i] = t[i]
    PROVE  s = t
    BY DEF Rows

\* Up to the element before a, SubSeq is empty.
LEMMA SubSeqIs ==
    ASSUME NEW s \in Seq(Nat), NEW a \in 1..(Len(s) + 1), NEW b \in 0..Len(s), a <= b + 1
    PROVE  /\ SubSeq(s, a, b) \in Seq(Nat)
           /\ Len(SubSeq(s, a, b)) = b - a + 1
           /\ \A i \in 1..(b - a + 1) : SubSeq(s, a, b)[i] = s[a + i - 1]
    OBVIOUS

\* One sequence behind another.
LEMMA ConcatIs ==
    ASSUME NEW s \in Seq(Nat), NEW t \in Seq(Nat)
    PROVE  /\ s \o t \in Seq(Nat)
           /\ Len(s \o t) = Len(s) + Len(t)
           /\ \A i \in 1..Len(s) : (s \o t)[i] = s[i]
           /\ \A i \in 1..Len(t) : (s \o t)[Len(s) + i] = t[i]
    OBVIOUS

\* What is written over takes the places it is written to, and no others.
LEMMA OverwriteIs ==
    ASSUME NEW n \in Nat, NEW s \in Rows(n), NEW seg \in Seq(Nat), NEW f \in 1..(n + 1),
           f + Len(seg) <= n + 1
    PROVE  /\ Overwrite(s, f, seg) \in Rows(n)
           /\ \A i \in 1..n : Overwrite(s, f, seg)[i] =
                  IF i < f \/ i >= f + Len(seg) THEN s[i] ELSE seg[i - f + 1]
<1> DEFINE k == Len(seg)
           x == SubSeq(s, 1, f - 1)
           y == SubSeq(s, f + k, Len(s))
<1>1. s \in Seq(Nat) /\ Len(s) = n
    BY RowIsSeq
<1>2. k \in Nat /\ k = Len(seg)
    OBVIOUS
<1> HIDE DEF k
<1>3. x \in Seq(Nat) /\ Len(x) = f - 1 /\ \A i \in 1..(f - 1) : x[i] = s[i]
    <2>1. 1 \in 1..(Len(s) + 1) /\ f - 1 \in 0..Len(s) /\ 1 <= (f - 1) + 1
        BY <1>1
    <2>2. (f - 1) - 1 + 1 = f - 1
        OBVIOUS
    <2>3. x \in Seq(Nat) /\ Len(x) = f - 1 /\ \A i \in 1..(f - 1) : x[i] = s[1 + i - 1]
        BY <2>1, <2>2, <1>1, SubSeqIs
    <2> QED
        BY <2>3
<1>4. y \in Seq(Nat) /\ Len(y) = n - (f + k) + 1
      /\ \A i \in 1..(n - (f + k) + 1) : y[i] = s[(f + k) + i - 1]
    <2>1. f + k \in 1..(Len(s) + 1) /\ n \in 0..Len(s) /\ f + k <= n + 1
        BY <1>1, <1>2 DEF k
    <2> QED
        BY <2>1, <1>1, SubSeqIs
<1> HIDE DEF x, y
<1>5. /\ x \o seg \in Seq(Nat) /\ Len(x \o seg) = (f - 1) + k
      /\ \A i \in 1..(f - 1) : (x \o seg)[i] = s[i]
      /\ \A i \in 1..k : (x \o seg)[(f - 1) + i] = seg[i]
    <2>1. /\ x \o seg \in Seq(Nat) /\ Len(x \o seg) = Len(x) + Len(seg)
          /\ \A i \in 1..Len(x) : (x \o seg)[i] = x[i]
          /\ \A i \in 1..Len(seg) : (x \o seg)[Len(x) + i] = seg[i]
        BY <1>3, ConcatIs
    <2> QED
        BY <2>1, <1>2, <1>3
<1> DEFINE xs == x \o seg
<1>6. xs \in Seq(Nat) /\ Len(xs) = (f - 1) + k
    BY <1>5
<1>7. ASSUME NEW i \in 1..n PROVE (xs \o y)[i] = IF i < f \/ i >= f + k THEN s[i] ELSE seg[i - f + 1]
    <2>1. CASE i < f
        <3>1. i \in 1..Len(xs) /\ i \in 1..(f - 1)
            BY <1>6, <2>1, <1>2
        <3>2. xs[i] = s[i]
            BY <3>1, <1>5
        <3> HIDE DEF xs
        <3>3. (xs \o y)[i] = xs[i]
            BY <3>1, <1>4, <1>6, ConcatIs
        <3> QED
            BY <3>2, <3>3, <2>1
    <2>2. CASE f <= i /\ i < f + k
        <3> DEFINE j == i - f + 1
        <3>1. i \in 1..Len(xs) /\ j \in 1..k /\ (f - 1) + j = i
            BY <1>6, <2>2, <1>2
        <3> HIDE DEF j
        <3>2. xs[i] = seg[j]
            BY <3>1, <1>5
        <3> HIDE DEF xs
        <3>3. (xs \o y)[i] = xs[i]
            BY <3>1, <1>4, <1>6, ConcatIs
        <3> QED
            BY <3>2, <3>3, <2>2, <1>2 DEF j
    <2>3. CASE i >= f + k
        <3> DEFINE j == i - (f + k) + 1
        <3>1. j \in 1..Len(y) /\ j \in 1..(n - (f + k) + 1) /\ Len(xs) + j = i /\ (f + k) + j - 1 = i
            BY <1>6, <2>3, <1>2, <1>4
        <3> HIDE DEF j, xs
        <3>2. (xs \o y)[Len(xs) + j] = y[j] /\ y[j] = s[(f + k) + j - 1]
            BY <3>1, <1>4, <1>6, ConcatIs
        <3> QED
            BY <3>2, <3>1, <2>3, <1>2
    <2> QED
        <3> HIDE DEF xs
        <3>1. i < f \/ (f <= i /\ i < f + k) \/ i >= f + k
            BY <1>2
        <3> QED
            BY <2>1, <2>2, <2>3, <3>1
<1>8. xs \o y \in Seq(Nat) /\ Len(xs \o y) = n
    <2> HIDE DEF xs
    <2>1. xs \o y \in Seq(Nat) /\ Len(xs \o y) = Len(xs) + Len(y)
        BY <1>4, <1>6, ConcatIs
    <2> QED
        BY <2>1, <1>4, <1>6, <1>2
<1>9. Overwrite(s, f, seg) = xs \o y
    BY DEF Overwrite, x, y, k
<1> HIDE DEF xs
<1> QED
    BY <1>7, <1>8, <1>9, SeqIsRow DEF k

\* A rotated range, place by place.
LEMMA RotatedIsRow ==
    ASSUME NEW n \in Nat, NEW s \in Rows(n),
           NEW f \in 1..(n + 1), NEW m \in 1..(n + 1), NEW l \in 1..(n + 1), f <= m, m <= l
    PROVE  /\ Rotated(s, f, m, l) \in Rows(n)
           /\ \A i \in 1..n : Rotated(s, f, m, l)[i] =
                  IF i < f \/ i >= l THEN s[i]
                  ELSE IF i < f + (l - m) THEN s[i + (m - f)] ELSE s[i - (l - m)]
<1>1. DOMAIN s = 1..n /\ \A i \in 1..n : s[i] \in Nat
    BY RowIsSeq
<1>2. ASSUME NEW i \in 1..n
      PROVE  (IF i < f \/ i >= l THEN s[i]
              ELSE IF i < f + (l - m) THEN s[i + (m - f)] ELSE s[i - (l - m)]) \in Nat
    BY <1>1
<1> QED
    BY <1>1, <1>2 DEF Rotated, Rows

\* To write the two parts the other way round is to rotate.
LEMMA PartsExchanged ==
    ASSUME NEW n \in Nat, NEW s \in Rows(n),
           NEW f \in 1..(n + 1), NEW m \in 1..(n + 1), NEW l \in 1..(n + 1), f <= m, m <= l
    PROVE  Overwrite(s, f, SubSeq(s, m, l - 1) \o SubSeq(s, f, m - 1)) = Rotated(s, f, m, l)
<1> DEFINE x == SubSeq(s, m, l - 1)
           y == SubSeq(s, f, m - 1)
           seg == x \o y
<1>1. s \in Seq(Nat) /\ Len(s) = n
    BY RowIsSeq
<1>2. x \in Seq(Nat) /\ Len(x) = l - m /\ \A i \in 1..(l - m) : x[i] = s[m + i - 1]
    <2>1. m \in 1..(Len(s) + 1) /\ l - 1 \in 0..Len(s) /\ m <= (l - 1) + 1 /\ (l - 1) - m + 1 = l - m
        BY <1>1
    <2> QED
        BY <2>1, <1>1, SubSeqIs
<1>3. y \in Seq(Nat) /\ Len(y) = m - f /\ \A i \in 1..(m - f) : y[i] = s[f + i - 1]
    <2>1. f \in 1..(Len(s) + 1) /\ m - 1 \in 0..Len(s) /\ f <= (m - 1) + 1 /\ (m - 1) - f + 1 = m - f
        BY <1>1
    <2> QED
        BY <2>1, <1>1, SubSeqIs
<1> HIDE DEF x, y
<1>4. /\ seg \in Seq(Nat) /\ Len(seg) = l - f
      /\ \A i \in 1..(l - m) : seg[i] = s[m + i - 1]
      /\ \A i \in 1..(m - f) : seg[(l - m) + i] = s[f + i - 1]
    <2>1. /\ seg \in Seq(Nat) /\ Len(seg) = Len(x) + Len(y)
          /\ \A i \in 1..Len(x) : seg[i] = x[i]
          /\ \A i \in 1..Len(y) : seg[Len(x) + i] = y[i]
        BY <1>2, <1>3, ConcatIs
    <2>2. Len(x) + Len(y) = l - f
        BY <1>2, <1>3
    <2> QED
        BY <2>1, <2>2, <1>2, <1>3
<1> HIDE DEF seg
<1>5. /\ Overwrite(s, f, seg) \in Rows(n)
      /\ \A i \in 1..n : Overwrite(s, f, seg)[i] =
             IF i < f \/ i >= f + Len(seg) THEN s[i] ELSE seg[i - f + 1]
    <2>1. f + Len(seg) <= n + 1
        BY <1>4
    <2> QED
        BY <2>1, <1>4, OverwriteIs
<1>6. ASSUME NEW i \in 1..n PROVE Overwrite(s, f, seg)[i] = Rotated(s, f, m, l)[i]
    <2>1. CASE i < f \/ i >= l
        BY <2>1, <1>4, <1>5, RotatedIsRow, SMTT(40)
    <2>2. CASE f <= i /\ i < f + (l - m)
        <3>1. i - f + 1 \in 1..(l - m) /\ m + (i - f + 1) - 1 = i + (m - f)
              /\ ~(i < f \/ i >= f + Len(seg)) /\ ~(i < f \/ i >= l)
            BY <2>2, <1>4
        <3>2. Overwrite(s, f, seg)[i] = seg[i - f + 1] /\ seg[i - f + 1] = s[m + (i - f + 1) - 1]
            BY <3>1, <1>5, <1>4
        <3>3. Rotated(s, f, m, l)[i] = s[i + (m - f)]
            BY <3>1, <2>2, RotatedIsRow
        <3> QED
            BY <3>1, <3>2, <3>3
    <2>3. CASE f + (l - m) <= i /\ i < l
        <3> DEFINE j == i - (f + (l - m)) + 1
        <3>1. j \in 1..(m - f) /\ i - f + 1 = (l - m) + j /\ f + j - 1 = i - (l - m)
              /\ ~(i < f \/ i >= f + Len(seg)) /\ ~(i < f \/ i >= l)
            BY <2>3, <1>4
        <3> HIDE DEF j
        <3>2. Overwrite(s, f, seg)[i] = seg[(l - m) + j] /\ seg[(l - m) + j] = s[f + j - 1]
            BY <3>1, <1>5, <1>4
        <3>3. Rotated(s, f, m, l)[i] = s[i - (l - m)]
            BY <3>1, <2>3, RotatedIsRow
        <3> QED
            BY <3>1, <3>2, <3>3
    <2> QED
        BY <2>1, <2>2, <2>3
<1> QED
    BY <1>5, <1>6, RotatedIsRow, RowsEqual DEF seg, x, y

\* The part of a sequence that is one element.
LEMMA SubSeqOfOne ==
    ASSUME NEW s \in Seq(Nat), NEW i \in 1..Len(s)
    PROVE  SubSeq(s, i, i) = <<s[i]>>
<1>1. i \in 1..(Len(s) + 1) /\ i \in 0..Len(s) /\ i <= i + 1 /\ i - i + 1 = 1 /\ i + 1 - 1 = i
    OBVIOUS
<1>2. SubSeq(s, i, i) \in Seq(Nat) /\ Len(SubSeq(s, i, i)) = 1
      /\ \A k \in 1..1 : SubSeq(s, i, i)[k] = s[i + k - 1]
    BY <1>1, SubSeqIs
<1>3. SubSeq(s, i, i)[1] = s[i]
    BY <1>1, <1>2
<1>4. <<s[i]>> \in Seq(Nat) /\ Len(<<s[i]>>) = 1 /\ <<s[i]>>[1] = s[i]
    OBVIOUS
<1> DEFINE x == SubSeq(s, i, i)
           y == <<s[i]>>
<1>5. x \in Rows(1) /\ y \in Rows(1) /\ \A k \in 1..1 : x[k] = y[k]
    <2> HIDE DEF x, y
    <2>1. x \in Rows(Len(x)) /\ y \in Rows(Len(y))
        BY <1>2, <1>4, SeqIsRow DEF x, y
    <2> QED
        BY <2>1, <1>2, <1>3, <1>4 DEF x, y
<1> HIDE DEF x, y
<1>6. x = y
    BY <1>5, RowsEqual
<1> QED
    BY <1>6 DEF x, y

\* rotate_left, for one element in front.
LEMMA RotateLeftIs ==
    ASSUME NEW n \in Nat, NEW s \in Rows(n), NEW f \in 1..n, NEW l \in 1..(n + 1), f + 1 < l
    PROVE  RotateLeft(s, f, l) = Result(Rotated(s, f, f + 1, l), f + (l - (f + 1)))
<1>1. s \in Seq(Nat) /\ Len(s) = n
    BY RowIsSeq
<1>2. SubSeq(s, f, (f + 1) - 1) = <<s[f]>>
    <2>1. f \in 1..Len(s) /\ (f + 1) - 1 = f
        BY <1>1
    <2> QED
        BY <2>1, <1>1, SubSeqOfOne
<1>3. f + (l - (f + 1)) = l - 1 /\ f \in 1..(n + 1) /\ f + 1 \in 1..(n + 1) /\ f <= f + 1 /\ f + 1 <= l
    OBVIOUS
<1>4. Overwrite(s, f, SubSeq(s, f + 1, l - 1) \o SubSeq(s, f, (f + 1) - 1)) = Rotated(s, f, f + 1, l)
    BY <1>3, PartsExchanged
<1> QED
    BY <1>2, <1>3, <1>4 DEF RotateLeft

\* rotate_right, for one element behind.
LEMMA RotateRightIs ==
    ASSUME NEW n \in Nat, NEW s \in Rows(n), NEW f \in 1..n, NEW l \in 1..(n + 1), f < l - 1
    PROVE  RotateRight(s, f, l) = Result(Rotated(s, f, l - 1, l), f + (l - (l - 1)))
<1>1. s \in Seq(Nat) /\ Len(s) = n
    BY RowIsSeq
<1>2. SubSeq(s, l - 1, l - 1) = <<s[l - 1]>> /\ (l - 1) - 1 = l - 2
    <2>1. l - 1 \in 1..Len(s)
        BY <1>1
    <2> QED
        BY <2>1, <1>1, SubSeqOfOne
<1>3. f + (l - (l - 1)) = f + 1 /\ f \in 1..(n + 1) /\ l - 1 \in 1..(n + 1) /\ f <= l - 1 /\ l - 1 <= l
    OBVIOUS
<1>4. Overwrite(s, f, SubSeq(s, l - 1, l - 1) \o SubSeq(s, f, (l - 1) - 1)) = Rotated(s, f, l - 1, l)
    BY <1>3, PartsExchanged
<1> QED
    BY <1>2, <1>3, <1>4 DEF RotateRight

-----------------------------------------------------------------------------
(* rotate_gcd: cycles *)

\* A and b are a multiple of k apart.
Congruent(a, b, k) == \E z \in Int : a = b + z * k

\* What is congruent modulo k: every number to itself,
LEMMA CongruentSelf ==
    ASSUME NEW a \in Int, NEW k \in Int
    PROVE  Congruent(a, a, k)
<1>1. a = a + 0 * k
    OBVIOUS
<1> QED
    BY <1>1 DEF Congruent

\* to what is a multiple of k away,
LEMMA CongruentBy ==
    ASSUME NEW a \in Int, NEW b \in Int, NEW k \in Int, NEW z \in Int, a = b + z * k
    PROVE  Congruent(a, b, k)
    BY DEF Congruent

\* each of two to the other,
LEMMA CongruentSym ==
    ASSUME NEW a \in Int, NEW b \in Int, NEW k \in Int, Congruent(a, b, k)
    PROVE  Congruent(b, a, k)
<1>1. PICK z \in Int : a = b + z * k
    BY DEF Congruent
<1>2. b = a + (-z) * k /\ -z \in Int
    BY <1>1
<1> QED
    BY <1>2 DEF Congruent

\* sums to sums,
LEMMA CongruentAdd ==
    ASSUME NEW a \in Int, NEW b \in Int, NEW c \in Int, NEW d \in Int, NEW k \in Int,
           Congruent(a, b, k), Congruent(c, d, k),
           NEW x \in Int, NEW y \in Int, x = a + c, y = b + d
    PROVE  Congruent(x, y, k)
<1>1. PICK u \in Int : a = b + u * k
    BY DEF Congruent
<1>2. PICK v \in Int : c = d + v * k
    BY DEF Congruent
<1>3. x = y + (u + v) * k /\ u + v \in Int
    BY <1>1, <1>2
<1> QED
    BY <1>3 DEF Congruent

\* and what is congruent to the same.
LEMMA CongruentTrans ==
    ASSUME NEW a \in Int, NEW b \in Int, NEW c \in Int, NEW k \in Int,
           Congruent(a, b, k), Congruent(b, c, k)
    PROVE  Congruent(a, c, k)
<1>1. PICK y \in Int : a = b + y * k
    BY DEF Congruent
<1>2. PICK z \in Int : b = c + z * k
    BY DEF Congruent
<1>3. a = c + (y + z) * k /\ y + z \in Int
    BY <1>1, <1>2
<1> QED
    BY <1>3 DEF Congruent

\* Less than k apart, congruent numbers are equal.
LEMMA CongruentNear ==
    ASSUME NEW a \in Int, NEW b \in Int, NEW k \in Int, Congruent(a, b, k), a - b < k, b - a < k
    PROVE  a = b
<1>1. PICK z \in Int : a = b + z * k
    BY DEF Congruent
<1>2. k > 0
    OBVIOUS
<1>3. CASE z >= 1
    <2>1. z * k >= k
        BY <1>2, <1>3
    <2> QED
        BY <1>1, <2>1
<1>4. CASE z <= -1
    <2>1. z * k <= -k
        BY <1>2, <1>4
    <2> QED
        BY <1>1, <2>1
<1>5. CASE z = 0
    BY <1>1, <1>5
<1> QED
    BY <1>3, <1>4, <1>5

\* There is one congruent to a among the k numbers from f on.
LEMMA CongruentFrom ==
    ASSUME NEW a \in Int, NEW k \in Nat \ {0}, NEW f \in Int
    PROVE  \E c \in f..(f + k - 1) : Congruent(a, c, k)
<1> DEFINE r == (a - f) % k
           q == (a - f) \div k
<1>1. r \in 0..(k - 1) /\ q \in Int /\ a - f = k * q + r
    <2> DEFINE x == a - f
    <2>1. x \in Int
        OBVIOUS
    <2> HIDE DEF x
    <2>2. x % k \in 0..(k - 1) /\ x \div k \in Int
        BY <2>1
    <2>3. x = k * (x \div k) + (x % k)
        BY <2>1, Z3
    <2> QED
        BY <2>2, <2>3 DEF x
<1> HIDE DEF r, q
<1>2. f + r \in f..(f + k - 1) /\ a = (f + r) + q * k
    BY <1>1
<1> QED
    BY <1>1, <1>2 DEF Congruent

\* Of a multiple of k.
LEMMA CongruentMultiple ==
    ASSUME NEW a \in Int, NEW b \in Int, NEW k \in Int, NEW N \in Int, NEW c \in Int,
           Congruent(a, b, N), N = c * k
    PROVE  Congruent(a, b, k)
<1>1. PICK z \in Int : a = b + z * N
    BY DEF Congruent
<1>2. z * N = (z * c) * k /\ z * c \in Int
    OBVIOUS
<1> QED
    BY <1>1, <1>2 DEF Congruent

(***************************************************************************)
(* Euclid's algorithm                                                      *)
(***************************************************************************)
\* Z is a combination of x and y.
Combines(z, x, y) == \E u, v \in Int : z = u * x + v * y
\* Z is a multiple of d.
Divides(d, z) == \E k \in Int : z = k * d

\* Combinations of x and y are closed under one step of Euclid,
LEMMA CombinesLess ==
    ASSUME NEW x \in Int, NEW y \in Int, NEW a \in Int, NEW b \in Int, NEW q \in Int,
           NEW c \in Int, c = a - q * b, Combines(a, x, y), Combines(b, x, y)
    PROVE  Combines(c, x, y)
<1>1. PICK u \in Int, v \in Int : a = u * x + v * y
    BY DEF Combines
<1>2. PICK s \in Int, t \in Int : b = s * x + t * y
    BY DEF Combines
<1>3. q * b = (q * s) * x + (q * t) * y
    BY <1>2
<1>4. a - q * b = (u - q * s) * x + (v - q * t) * y /\ u - q * s \in Int /\ v - q * t \in Int
    BY <1>1, <1>3
<1> QED
    BY <1>4 DEF Combines

\* and what divides its remainder and its divisor divides its dividend.
LEMMA DividesLess ==
    ASSUME NEW d \in Int, NEW a \in Int, NEW b \in Int, NEW q \in Int,
           NEW c \in Int, c = a - q * b, Divides(d, c), Divides(d, b)
    PROVE  Divides(d, a)
<1>1. PICK u \in Int : c = u * d
    BY DEF Divides
<1>2. PICK v \in Int : b = v * d
    BY DEF Divides
<1>3. q * b = (q * v) * d
    BY <1>2
<1>4. a = (u + q * v) * d /\ u + q * v \in Int
    BY <1>1, <1>3
<1> QED
    BY <1>4 DEF Divides

\* What % computes.
LEMMA Remainder ==
    ASSUME NEW a \in Nat, NEW b \in Nat \ {0}
    PROVE  a % b \in 0..(b - 1) /\ \E q \in Int : a % b = a - q * b
<1>1. a % b \in 0..(b - 1) /\ a \div b \in Int
    OBVIOUS
<1>2. a % b = a - (a \div b) * b
    BY Z3
<1> QED
    BY <1>1, <1>2

\* gcd computes a divisor of both that is a combination of both: the greatest.
LEMMA GcdIs ==
    ASSUME NEW x \in Nat \ {0}, NEW y \in Nat
    PROVE  /\ Gcd(x, y) \in Nat \ {0} /\ Combines(Gcd(x, y), x, y)
           /\ Divides(Gcd(x, y), x) /\ Divides(Gcd(x, y), y)
<1> DEFINE Pairs == [x : Nat \ {0}, y : Nat]
           G == {v \in Pairs : v.y # 0}
           step == [w \in {v \in Pairs : v.y # 0} |-> [x |-> w.y, y |-> w.x % w.y]]
           Common(w) == \A d \in Nat \ {0} : Divides(d, w.x) /\ Divides(d, w.y)
                                             => Divides(d, x) /\ Divides(d, y)
           P == {w \in Pairs : Combines(w.x, x, y) /\ Combines(w.y, x, y) /\ Common(w)}
           rank == [w \in P |-> w.y]
           start == [x |-> x, y |-> y]
           last == Loop(Pairs, step)[start]
<1>e. ASSUME NEW w \in Pairs PROVE w.x \in Nat \ {0} /\ w.y \in Nat
    OBVIOUS
<1>t. ASSUME NEW u \in Nat \ {0}, NEW v \in Nat PROVE [x |-> u, y |-> v] \in Pairs
    OBVIOUS
<1>p. \A w : /\ w \in G <=> w \in Pairs /\ w.y # 0
             /\ w \in P <=> w \in Pairs /\ Combines(w.x, x, y) /\ Combines(w.y, x, y) /\ Common(w)
    OBVIOUS
<1> HIDE DEF Pairs, G, P, Common
<1>1. start \in P
    <2>1. x = 1 * x + 0 * y /\ y = 0 * x + 1 * y
        OBVIOUS
    <2>2. Combines(x, x, y) /\ Combines(y, x, y)
        BY <2>1 DEF Combines
    <2> QED
        BY <2>2, <1>p, <1>t DEF Common
<1>2. ASSUME NEW w \in G PROVE [x |-> w.y, y |-> w.x % w.y] \in Pairs /\ w.x % w.y < w.y
    <2>1. w.x \in Nat /\ w.y \in Nat \ {0}
        BY <1>p, <1>e
    <2>2. w.x % w.y \in 0..(w.y - 1)
        BY <2>1, Remainder
    <2> QED
        BY <2>1, <2>2, <1>t
<1>3. Descends(Pairs, G, step, P, rank)
    <2>1. G \subseteq Pairs /\ P \subseteq Pairs /\ step \in [G -> Pairs] /\ rank \in [P -> Nat]
        BY <1>2, <1>p, <1>e DEF G
    <2>2. ASSUME NEW v \in P \cap G PROVE step[v] \in P /\ rank[step[v]] < rank[v]
        <3> DEFINE a == v.x
                   b == v.y
                   c == a % b
                   u == [x |-> b, y |-> c]
        <3>1. step[v] = u /\ u \in Pairs /\ c < b
            BY <1>2 DEF G
        <3>2. a \in Nat /\ b \in Nat \ {0} /\ Combines(a, x, y) /\ Combines(b, x, y) /\ Common(v)
            BY <1>p, <1>e
        <3>3. u.x = b /\ u.y = c /\ v.x = a /\ v.y = b
            OBVIOUS
        <3> HIDE DEF a, b
        <3>4. PICK q \in Int : c = a - q * b
            BY <3>2, Remainder
        <3>5. c \in Nat
            BY <3>2, Remainder
        <3> HIDE DEF c, u
        <3>6. Combines(c, x, y)
            <4>1. a \in Int /\ b \in Int /\ c \in Int /\ x \in Int /\ y \in Int
                BY <3>2, <3>5
            <4> QED
                BY <4>1, <3>2, <3>4, CombinesLess
        <3>7. Common(u)
            <4> SUFFICES ASSUME NEW d \in Nat \ {0}, Divides(d, b), Divides(d, c)
                         PROVE  Divides(d, x) /\ Divides(d, y)
                BY <3>3 DEF Common
            <4>1. Divides(d, a)
                <5>1. a \in Int /\ b \in Int /\ c \in Int /\ d \in Int
                    BY <3>2, <3>5
                <5> QED
                    BY <5>1, <3>2, <3>4, DividesLess
            <4> QED
                BY <4>1, <3>2, <3>3 DEF Common
        <3>8. u \in P
            BY <3>1, <3>2, <3>3, <3>6, <3>7, <1>p
        <3>9. rank[u] = c /\ rank[v] = b
            BY <3>8, <3>3
        <3> HIDE DEF step, rank
        <3> QED
            BY <3>1, <3>8, <3>9
    <2> HIDE DEF step, rank
    <2> QED
        BY <2>1, <2>2 DEF Descends
<1>4. last \in P /\ last \notin G
    <2> HIDE DEF start, step, rank
    <2> QED
        BY <1>1, <1>3, LoopLeaves
<1>5. Gcd(x, y) = last.x
    BY DEF Gcd, Pairs
<1> HIDE DEF last
<1>6. last.x \in Nat \ {0} /\ last.y = 0 /\ Combines(last.x, x, y) /\ Common(last)
    BY <1>4, <1>p, <1>e
<1>7. Divides(last.x, last.x) /\ Divides(last.x, last.y)
    <2> DEFINE g == last.x
    <2>1. g \in Nat
        BY <1>6
    <2> HIDE DEF g
    <2>2. g = 1 * g /\ 0 = 0 * g
        BY <2>1
    <2>3. Divides(g, g) /\ Divides(g, 0)
        BY <2>2 DEF Divides
    <2> QED
        BY <2>3, <1>6 DEF g
<1> QED
    BY <1>5, <1>6, <1>7 DEF Common

(***************************************************************************)
(* rotate_gcd                                                              *)
(***************************************************************************)
\* From where the hole at i is filled.
Source(i, f, m, l) == IF m - f < l - i THEN i + (m - f) ELSE f + (m - f - (l - i))

\* What fills a hole comes from a place of the range, a part of it further on, and
\* every place is the source of one.
LEMMA SourceIs ==
    ASSUME NEW f \in Int, NEW m \in Int, NEW l \in Int, f < m, m < l, NEW i \in f..(l - 1)
    PROVE  /\ Source(i, f, m, l) \in f..(l - 1) /\ Source(i, f, m, l) # i
           /\ Congruent(Source(i, f, m, l), i + (m - f), l - f)
           /\ \E j \in f..(l - 1) : Source(j, f, m, l) = i
<1>1. Source(i, f, m, l) \in f..(l - 1) /\ Source(i, f, m, l) # i
    BY DEF Source
<1> DEFINE N == l - f
           q == m - f
           x == Source(i, f, m, l)
           y == i + q
<1>2. x = y \/ x = y - N
    BY DEF Source
<1>3. x \in Int /\ y \in Int /\ N \in Int
    BY <1>1
<1> HIDE DEF x, y, N
<1>4. Congruent(x, y, N)
    <2>1. CASE x = y
        BY <2>1, <1>3, CongruentSelf
    <2>2. CASE x = y - N
        <3>1. x = y + (-1) * N
            BY <2>2, <1>3
        <3> QED
            BY <3>1, <1>3 DEF Congruent
    <2> QED
        BY <1>2, <2>1, <2>2
<1>5. \E j \in f..(l - 1) : Source(j, f, m, l) = i
    <2>1. CASE i - q >= f
        <3>1. i - q \in f..(l - 1) /\ Source(i - q, f, m, l) = i
            BY <2>1 DEF Source
        <3> QED
            BY <3>1
    <2>2. CASE i - q < f
        <3> DEFINE j == i - q + (l - f)
        <3>1. j \in f..(l - 1) /\ Source(j, f, m, l) = i
            BY <2>2 DEF Source
        <3> QED
            BY <3>1
    <2> QED
        BY <2>1, <2>2
<1> QED
    BY <1>1, <1>4, <1>5 DEF x, y, N

\* No place fills two holes.
LEMMA SourceIsOneToOne ==
    ASSUME NEW f \in Int, NEW m \in Int, NEW l \in Int, f < m, m < l,
           NEW i \in f..(l - 1), NEW j \in f..(l - 1), Source(i, f, m, l) = Source(j, f, m, l)
    PROVE  i = j
    BY DEF Source

\* The places D, but for the hole, are filled from the places behind them.
Filled(r, s, p, hole, D, f, m, l, g) ==
    /\ D \subseteq f..(l - 1) /\ hole \in f..(l - 1) /\ hole \notin D
    /\ p \in D \cup {hole}
    /\ \A j \in D : r[j] = s[Source(j, f, m, l)] /\ Source(j, f, m, l) \in D \cup {hole}
    /\ \A j \in D \cup {hole} : /\ j = p \/ \E i \in D : Source(i, f, m, l) = j
                                /\ Congruent(j, p, g)
    /\ \A j \in DOMAIN s : j \notin D /\ j # hole => r[j] = s[j]

\* One move of the cycle: the hole goes to where it was filled from.
LEMMA FilledOn ==
    ASSUME NEW n \in Nat, NEW s \in Rows(n), NEW f \in 1..n, NEW m \in 1..n, NEW l \in 1..(n + 1),
           f < m, m < l, NEW p \in f..(l - 1), NEW g \in Nat, Divides(g, m - f), Divides(g, l - f),
           NEW r \in Rows(n), NEW hole, NEW D, Filled(r, s, p, hole, D, f, m, l, g),
           Source(hole, f, m, l) # p
    PROVE  LET h == Source(hole, f, m, l) IN
           /\ Move(r, hole, h) \in Rows(n)
           /\ Filled(Move(r, hole, h), s, p, h, D \cup {hole}, f, m, l, g)
<1> DEFINE h == Source(hole, f, m, l)
           S(i) == Source(i, f, m, l)
           r2 == Move(r, hole, h)
           E == D \cup {hole}
<1>0. f \in Int /\ m \in Int /\ l \in Int /\ p \in Int
    OBVIOUS
<1>1. hole \in f..(l - 1) /\ hole \notin D /\ D \subseteq f..(l - 1) /\ p \in E
    BY DEF Filled
<1>2. h \in f..(l - 1) /\ h # hole /\ Congruent(h, hole + (m - f), l - f)
    BY <1>0, <1>1, SourceIs
<1>3. h \notin E
    <2> SUFFICES ASSUME h \in D PROVE FALSE
        BY <1>2
    <2>1. PICK i \in D : S(i) = h
        BY DEF Filled
    <2>2. i \in f..(l - 1) /\ S(i) = S(hole)
        BY <2>1, <1>1
    <2>3. i = hole
        BY <2>2, <1>0, <1>1, SourceIsOneToOne
    <2> QED
        BY <2>3, <1>1
<1>4. Congruent(h, p, g)
    <2>1. Congruent(hole, p, g)
        BY DEF Filled
    <2>2. PICK k \in Int : m - f = k * g
        BY DEF Divides
    <2>3. PICK c \in Int : l - f = c * g
        BY DEF Divides
    <2> DEFINE q == m - f
               N == l - f
               y == hole + q
    <2>4. q \in Int /\ N \in Int /\ y \in Int /\ h \in Int /\ hole \in Int
        BY <1>1, <1>2
    <2>5. Congruent(h, y, N) /\ q = k * g /\ N = c * g /\ y = hole + q
        BY <1>2, <2>2, <2>3
    <2> HIDE DEF q, N, y, h
    <2>9. g \in Int
        OBVIOUS
    <2>6. Congruent(h, y, g)
        BY <2>4, <2>5, <2>9, CongruentMultiple
    <2>7. y = hole + k * g
        BY <2>5
    <2>8. Congruent(y, hole, g)
        BY <2>4, <2>7, <2>9, CongruentBy
    <2>10. Congruent(h, hole, g)
        BY <2>4, <2>6, <2>8, <2>9, CongruentTrans
    <2> QED
        BY <2>4, <2>1, <2>9, <2>10, <1>0, CongruentTrans
<1>5. /\ r2 \in Rows(n) /\ r2[hole] = r[h]
      /\ \A j \in 1..n : j # hole /\ j # h => r2[j] = r[j]
    <2>1. hole \in 1..n /\ h \in 1..n /\ h # hole
        BY <1>1, <1>2
    <2> HIDE DEF h
    <2> QED
        BY <2>1 DEF Move, Hole, Rows
<1>6. r[h] = s[h]
    <2>1. h \in DOMAIN s
        BY <1>2, RowIsSeq
    <2> QED
        BY <2>1, <1>3 DEF Filled
<1>7. ASSUME NEW j \in E PROVE r2[j] = s[S(j)] /\ S(j) \in E \cup {h}
    <2>1. CASE j = hole
        BY <2>1, <1>5, <1>6
    <2>2. CASE j # hole
        <3>1. j \in D /\ j \in 1..n /\ j # h
            BY <2>2, <1>1, <1>3
        <3> QED
            BY <3>1, <2>2, <1>5 DEF Filled
    <2> QED
        BY <2>1, <2>2
<1>8. ASSUME NEW j \in E \cup {h}
      PROVE  (j = p \/ \E i \in E : S(i) = j) /\ Congruent(j, p, g)
    <2>1. CASE j = h
        BY <2>1, <1>4
    <2>2. CASE j \in E
        BY <2>2 DEF Filled
    <2> QED
        BY <2>1, <2>2
<1>9. ASSUME NEW j \in DOMAIN s, j \notin E, j # h PROVE r2[j] = s[j]
    <2>1. j \in 1..n /\ j # hole /\ j \notin D
        BY <1>9, RowIsSeq
    <2> QED
        BY <2>1, <1>9, <1>5 DEF Filled
<1>10. E \subseteq f..(l - 1) /\ p \in E \cup {h}
    BY <1>1
<1> HIDE DEF h, r2, E
<1>11. Filled(r2, s, p, h, E, f, m, l, g)
    BY <1>2, <1>3, <1>7, <1>8, <1>9, <1>10 DEF Filled
<1> QED
    BY <1>5, <1>11 DEF h, r2, E

\* Steps(i, t) : t steps from i lead to p.
LEMMA CycleIs ==
    ASSUME NEW n \in Nat, NEW s \in Rows(n), NEW f \in 1..n, NEW m \in 1..n, NEW l \in 1..(n + 1),
           f < m, m < l, NEW p \in f..(l - 1), NEW g \in Nat, Divides(g, m - f), Divides(g, l - f)
    PROVE  /\ Cycle(s, p, f, m, l) \in Rows(n)
           /\ \E D \in SUBSET (f..(l - 1)) :
                  /\ p \in D
                  /\ \A j \in D : /\ Source(j, f, m, l) \in D /\ Congruent(j, p, g)
                                  /\ Cycle(s, p, f, m, l)[j] = s[Source(j, f, m, l)]
                  /\ \A j \in 1..n : j \notin D => Cycle(s, p, f, m, l)[j] = s[j]
<1> DEFINE S(i) == Source(i, f, m, l)
           States == [range : Ranges(s), hole : f..(l - 1)]
           G == {v \in States : S(v.hole) # p}
           Step(w) == [range |-> Move(w.range, w.hole, S(w.hole)), hole |-> S(w.hole)]
           step == [w \in G |-> Step(w)]
           Ahead(i) == {t \in Nat \ {0} : Congruent(i + t * (m - f), p, l - f)}
           P == {w \in States : /\ Ahead(w.hole) # {}
                                /\ \E D : Filled(w.range, s, p, w.hole, D, f, m, l, g)}
           Nearest(w) == CHOOSE t \in Ahead(w.hole) : \A u \in Ahead(w.hole) : t <= u
           rank == [w \in P |-> Nearest(w)]
           start == [range |-> [s EXCEPT ![p] = Hole], hole |-> p]
           last == Loop(States, step)[start]
<1>0. DOMAIN s = 1..n /\ Ranges(s) = Rows(n) /\ Rows(n) = [1..n -> Nat]
    BY DEF Ranges, Rows
<1>e. ASSUME NEW w \in States PROVE w.range \in Rows(n) /\ w.hole \in f..(l - 1)
    BY <1>0
<1>t. ASSUME NEW r \in Rows(n), NEW h \in f..(l - 1) PROVE [range |-> r, hole |-> h] \in States
    BY <1>0, <1>t
<1>i. f \in Int /\ m \in Int /\ l \in Int /\ p \in Int
    OBVIOUS
<1>p. \A w : /\ w \in G <=> w \in States /\ S(w.hole) # p
             /\ w \in P <=> /\ w \in States /\ Ahead(w.hole) # {}
                            /\ \E D : Filled(w.range, s, p, w.hole, D, f, m, l, g)
    OBVIOUS
<1>n. ASSUME NEW i, Ahead(i) # {}
      PROVE  \E t \in Ahead(i) : \A u \in Ahead(i) : t <= u
    <2> DEFINE A == Ahead(i)
    <2>1. A \subseteq Nat /\ A # {}
        BY <1>n
    <2> HIDE DEF A
    <2>2. PICK t \in A : \A u \in A : <<u, t>> \notin OpToRel(<, Nat)
        BY <2>1, NatLessThanWellFounded, WFMin
    <2>3. ASSUME NEW u \in A PROVE t <= u
        <3>1. t \in Nat /\ u \in Nat /\ <<u, t>> \notin OpToRel(<, Nat)
            BY <2>1, <2>2, <2>3
        <3> QED
            BY <3>1 DEF OpToRel
    <2> QED
        BY <2>3 DEF A
<1> HIDE DEF States, G, P
<1>1. start \in P
    <2> DEFINE r == [s EXCEPT ![p] = Hole]
    <2>1. r \in Rows(n) /\ \A j \in 1..n : j # p => r[j] = s[j]
        BY <1>0 DEF Hole
    <2>2. start \in States
        BY <2>1, <1>t
    <2>3. Congruent(p, p, g)
        BY <1>i, CongruentSelf
    <2>4. Filled(r, s, p, p, {}, f, m, l, g)
        <3> HIDE DEF r
        <3> QED
            BY <2>1, <2>3, <1>0 DEF Filled
    <2>5. l - f \in Ahead(p)
        <3> DEFINE N == l - f
                   q == m - f
                   x == p + N * q
        <3>1. N \in Nat \ {0} /\ N \in Int /\ q \in Int
            OBVIOUS
        <3> HIDE DEF N, q
        <3>2. x \in Int /\ x = p + q * N
            BY <3>1, <1>i
        <3> HIDE DEF x
        <3>3. Congruent(x, p, N)
            BY <3>1, <3>2, <1>i, CongruentBy
        <3> QED
            BY <3>1, <3>3 DEF N, q, x
    <2> QED
        BY <2>2, <2>4, <2>5, <1>p
<1>2. ASSUME NEW w \in G PROVE Step(w) \in States
    <2> DEFINE h == S(w.hole)
    <2>1. w.range \in Rows(n) /\ w.hole \in f..(l - 1)
        BY <1>p, <1>e
    <2>2. h \in f..(l - 1)
        BY <2>1, <1>i, SourceIs
    <2>3. Move(w.range, w.hole, h) \in Rows(n)
        <3>1. w.hole \in 1..n /\ h \in 1..n
            BY <2>1, <2>2
        <3> HIDE DEF h
        <3> QED
            BY <2>1, <3>1 DEF Move, Hole, Rows
    <2> HIDE DEF h
    <2> QED
        BY <2>2, <2>3, <1>t DEF h
<1>3. ASSUME NEW v \in P, v \in G PROVE Step(v) \in P /\ Nearest(v) \in Nat /\ Nearest(Step(v)) \in Nat
                                       /\ Nearest(Step(v)) < Nearest(v)
    <2> DEFINE h == S(v.hole)
               u == Step(v)
               t == Nearest(v)
    <2>1. v \in States /\ Ahead(v.hole) # {} /\ h # p
        BY <1>p, <1>3
    <2>2. v.range \in Rows(n) /\ v.hole \in f..(l - 1)
        BY <2>1, <1>e
    <2>3. PICK D : Filled(v.range, s, p, v.hole, D, f, m, l, g)
        BY <1>p
    <2>4. Filled(Move(v.range, v.hole, h), s, p, h, D \cup {v.hole}, f, m, l, g)
        BY <2>1, <2>2, <2>3, FilledOn
    <2>5. t \in Ahead(v.hole) /\ \A k \in Ahead(v.hole) : t <= k
        <3> HIDE DEF Ahead
        <3>1. \E k \in Ahead(v.hole) : \A j \in Ahead(v.hole) : k <= j
            BY <2>1, <1>n
        <3> QED
            BY <3>1
    <2>6. h \in f..(l - 1) /\ Congruent(h, v.hole + (m - f), l - f)
        BY <2>2, <1>i, SourceIs
    <2>7. u \in States /\ u.range = Move(v.range, v.hole, h) /\ u.hole = h
        BY <1>2, <1>3
    <2> HIDE DEF u, t
    <2>8. t \in Nat \ {0} /\ Congruent(v.hole + t * (m - f), p, l - f)
        BY <2>5
    <2>9. Congruent(h + (t - 1) * (m - f), p, l - f)
        <3> DEFINE N == l - f
                   q == m - f
                   i == v.hole
                   x == i + t * q
                   z == (t - 1) * q
                   y == i + q
                   a == h + z
        <3>1. N \in Int /\ q \in Int /\ i \in Int /\ h \in Int /\ t \in Int
            BY <2>2, <2>6, <2>8
        <3>2. Congruent(h, y, N) /\ Congruent(x, p, N)
            BY <2>6, <2>8
        <3> HIDE DEF N, q, i, h
        <3>3. z \in Int /\ x = y + z /\ x \in Int /\ y \in Int /\ a \in Int /\ a = h + z
            BY <3>1
        <3> HIDE DEF x, y, a, z
        <3>4. Congruent(z, z, N)
            BY <3>1, <3>3, CongruentSelf
        <3>5. Congruent(a, x, N)
            BY <3>1, <3>2, <3>3, <3>4, CongruentAdd
        <3>6. Congruent(a, p, N)
            BY <3>1, <3>2, <3>3, <3>5, <1>i, CongruentTrans
        <3> QED
            BY <3>6 DEF N, q, i, a, z
    <2>10. t # 1
        <3> SUFFICES ASSUME t = 1 PROVE FALSE
            OBVIOUS
        <3> DEFINE N == l - f
        <3>1. h + (t - 1) * (m - f) = h /\ h \in Int /\ N \in Int
            BY <2>6
        <3>2. Congruent(h, p, N) /\ h - p < N /\ p - h < N
            BY <3>1, <2>9, <2>6
        <3> HIDE DEF h, N
        <3>3. h = p
            BY <3>1, <3>2, <1>i, CongruentNear
        <3> QED
            BY <3>3, <2>1 DEF h
    <2>11. t - 1 \in Ahead(h)
        BY <2>8, <2>9, <2>10
    <2>12. u \in P
        <3> HIDE DEF Ahead, h
        <3> QED
            BY <2>7, <2>4, <2>11, <1>p
    <2>13. Nearest(u) \in Ahead(h) /\ Nearest(u) <= t - 1
        <3> HIDE DEF Ahead, h
        <3>1. \E k \in Ahead(h) : \A j \in Ahead(h) : k <= j
            BY <2>11, <1>n
        <3> QED
            BY <3>1, <2>7, <2>11
    <2>14. Nearest(u) \in Nat
        <3> HIDE DEF Nearest
        <3> QED
            BY <2>13
    <2> HIDE DEF Nearest, Ahead
    <2> QED
        BY <2>8, <2>12, <2>13, <2>14 DEF u, t
<1>4. Descends(States, G, step, P, rank)
    <2>1. G \subseteq States /\ P \subseteq States /\ step \in [G -> States]
        <3> HIDE DEF Step
        <3> QED
            BY <1>2, <1>p
    <2>2. rank \in [P -> Nat]
        <3> SUFFICES ASSUME NEW w \in P PROVE Nearest(w) \in Nat
            OBVIOUS
        <3>1. PICK t \in Ahead(w.hole) : \A u \in Ahead(w.hole) : t <= u
            <4> HIDE DEF Ahead
            <4> QED
                BY <1>p, <1>n
        <3>2. Nearest(w) \in Ahead(w.hole)
            <4> HIDE DEF Ahead
            <4> QED
                BY <3>1
        <3> HIDE DEF Nearest
        <3> QED
            BY <3>2
    <2>3. ASSUME NEW v \in P \cap G PROVE step[v] \in P /\ rank[step[v]] < rank[v]
        <3>1. step[v] = Step(v) /\ Step(v) \in P /\ Nearest(Step(v)) < Nearest(v)
            <4> HIDE DEF Step, Nearest
            <4> QED
                BY <1>3
        <3> HIDE DEF step, Step, Nearest
        <3> QED
            BY <3>1
    <2> HIDE DEF step, rank
    <2> QED
        BY <2>1, <2>2, <2>3 DEF Descends
<1>5. last \in P /\ last \notin G
    <2> HIDE DEF start, step, rank
    <2> QED
        BY <1>1, <1>4, LoopLeaves
<1> DEFINE c == Cycle(s, p, f, m, l)
<1>6. c = [last.range EXCEPT ![last.hole] = s[p]]
    BY DEF Cycle, States, G, Source
<1> HIDE DEF last
<1>7. last.range \in Rows(n) /\ last.hole \in f..(l - 1) /\ last.hole \in 1..n /\ S(last.hole) = p
    BY <1>5, <1>p, <1>e
<1>8. PICK D : Filled(last.range, s, p, last.hole, D, f, m, l, g)
    BY <1>5, <1>p
<1>9. /\ c \in Rows(n) /\ c[last.hole] = s[p]
      /\ \A j \in 1..n : j # last.hole => c[j] = last.range[j]
    <2>1. s[p] \in Nat
        BY <1>0
    <2> HIDE DEF c
    <2> QED
        BY <1>6, <1>7, <2>1 DEF Rows
<1> HIDE DEF c
<1>10. D \cup {last.hole} \in SUBSET (f..(l - 1)) /\ p \in D \cup {last.hole}
    BY <1>8 DEF Filled
<1>11. ASSUME NEW j \in D \cup {last.hole}
       PROVE  S(j) \in D \cup {last.hole} /\ Congruent(j, p, g) /\ c[j] = s[S(j)]
    <2>1. CASE j = last.hole
        BY <2>1, <1>7, <1>8, <1>9, <1>10 DEF Filled
    <2>2. CASE j \in D
        <3>1. j # last.hole /\ j \in 1..n
            BY <2>2, <1>8 DEF Filled
        <3> QED
            BY <2>2, <3>1, <1>8, <1>9 DEF Filled
    <2> QED
        BY <2>1, <2>2
<1>12. ASSUME NEW j \in 1..n, j \notin D \cup {last.hole} PROVE c[j] = s[j]
    BY <1>12, <1>8, <1>9, <1>0 DEF Filled
<1> QED
    BY <1>9, <1>10, <1>11, <1>12 DEF c

\* Every place is in one of the g cycles, and each cycle is the class of its
\* first place modulo g.
LEMMA CycleIsAClass ==
    ASSUME NEW f \in Int, NEW m \in Int, NEW l \in Int, f < m, m < l,
           NEW g \in Nat \ {0}, Combines(g, m - f, l - m),
           NEW p \in f..(l - 1), NEW D \in SUBSET (f..(l - 1)), p \in D,
           \A j \in D : Source(j, f, m, l) \in D,
           NEW i \in f..(l - 1), Congruent(i, p, g)
    PROVE  i \in D
<1> DEFINE N == l - f
           q == m - f
           S(j) == Source(j, f, m, l)
           Steps(j) == {t \in Nat : Congruent(p + t * q, j, N)}
           Reached == {t \in Nat : \A j \in f..(l - 1) : t \in Steps(j) => j \in D}
<1>1. N \in Nat /\ N \in Int /\ q \in Int /\ p \in Int /\ i \in Int /\ g \in Int
    OBVIOUS
<1>2. \E t \in Nat : t \in Steps(i)
    <2>1. PICK u \in Int, v \in Int : g = u * (m - f) + v * (l - m)
        BY DEF Combines
    <2>2. l - m = N - q /\ m - f = q
        OBVIOUS
    <2>3. PICK c \in Int : i = p + c * g
        BY DEF Congruent
    <2> HIDE DEF N, q
    <2>4. g = u * q + v * (N - q)
        BY <2>1, <2>2
    <2>5. g = (u - v) * q + v * N
        BY <2>4, <1>1
    <2> DEFINE d == u - v
               z == c * d
               a == IF z >= 0 THEN z ELSE -z
               t == z + N * a
    <2>6. d \in Int /\ z \in Int /\ a \in Nat /\ a + z >= 0
        OBVIOUS
    <2>7. t \in Nat
        <3>0. N >= 1
            BY DEF N
        <3>1. N * a >= a
            <4> HIDE DEF a
            <4> QED
                BY <3>0, <1>1, <2>6
        <3>2. N * a \in Int
            <4> HIDE DEF a
            <4> QED
                BY <1>1, <2>6
        <3> HIDE DEF a, z
        <3> QED
            BY <2>6, <3>1, <3>2
    <2>8. p + t * q = i + (a * q - c * v) * N
        <3> HIDE DEF a
        <3>1. t * q = z * q + (N * a) * q
            BY <1>1, <2>6
        <3>2. z * q = c * (d * q)
            BY <1>1, <2>6
        <3>3. d * q = g - v * N
            BY <2>5, <1>1
        <3>4. c * (g - v * N) = c * g - (c * v) * N
            BY <1>1
        <3>5. (N * a) * q = (a * q) * N
            BY <1>1, <2>6
        <3>6. (a * q - c * v) * N = (a * q) * N - (c * v) * N
            BY <1>1, <2>6
        <3> DEFINE A == z * q
                   B == (N * a) * q
                   C == (c * v) * N
                   X == c * g
        <3>7. A \in Int /\ B \in Int /\ C \in Int /\ X \in Int /\ t * q = A + B /\ A = X - C /\ B = (a * q) * N
              /\ (a * q - c * v) * N = B - C /\ i = p + X
            BY <3>1, <3>2, <3>3, <3>4, <3>5, <3>6, <2>3, <1>1, <2>6
        <3> HIDE DEF A, B, C, X, t
        <3> QED
            BY <3>7, <1>1
    <2> DEFINE x == p + t * q
               y == a * q - c * v
    <2>9. x \in Int /\ y \in Int /\ x = i + y * N
        <3> HIDE DEF t, a
        <3> QED
            BY <2>6, <2>7, <2>8, <1>1
    <2> HIDE DEF x, y
    <2>10. Congruent(x, i, N)
        BY <2>9, <1>1, CongruentBy
    <2> HIDE DEF t
    <2> QED
        BY <2>7, <2>10 DEF x
<1>3. Nat \subseteq Reached
    <2> DEFINE rank == [t \in Nat |-> t]
    <2>1. ASSUME NEW t \in Nat, \A k \in Nat : rank[k] < rank[t] => k \in Reached PROVE t \in Reached
        <3> SUFFICES ASSUME NEW j \in f..(l - 1), Congruent(p + t * q, j, N) PROVE j \in D
            OBVIOUS
        <3>0. j \in Int /\ j - p < N /\ p - j < N
            OBVIOUS
        <3>1. CASE t = 0
            <4>1. p + t * q = p
                BY <3>1, <1>1
            <4> HIDE DEF N, q
            <4>2. Congruent(p, j, N)
                BY <4>1
            <4>3. p = j
                BY <4>2, <3>0, <1>1, CongruentNear
            <4> QED
                BY <4>3
        <3>2. CASE t # 0
            <4>1. PICK k \in f..(l - 1) : S(k) = j
                BY SourceIs
            <4>2. Congruent(j, k + q, N)
                BY <4>1, SourceIs
            <4>3. t - 1 \in Reached
                <5>1. t - 1 \in Nat /\ rank[t - 1] < rank[t]
                    BY <3>2
                <5> HIDE DEF Reached, rank
                <5> QED
                    BY <5>1, <2>1
            <4> DEFINE x == p + t * q
                       y == k + q
                       z == p + (t - 1) * q
                       e == -q
            <4>4. x \in Int /\ y \in Int /\ z \in Int /\ e \in Int /\ k \in Int /\ z = x + e /\ k = y + e
                BY <1>1
            <4>5. Congruent(x, j, N) /\ Congruent(j, y, N)
                BY <3>2, <4>2
            <4> HIDE DEF x, y, z, e, N
            <4>6. Congruent(x, y, N)
                BY <4>4, <4>5, <3>0, <1>1, CongruentTrans
            <4>7. Congruent(e, e, N)
                BY <4>4, <1>1, CongruentSelf
            <4>8. Congruent(z, k, N)
                BY <4>4, <4>6, <4>7, <1>1, CongruentAdd
            <4>9. k \in D
                BY <4>3, <4>8, <3>2 DEF z
            <4> QED
                BY <4>9, <4>1
        <3> QED
            BY <3>1, <3>2
    <2>2. rank \in [Nat -> Nat]
        OBVIOUS
    <2> HIDE DEF Reached, rank
    <2> QED
        BY <2>1, <2>2, RankInduction
<1> QED
    BY <1>2, <1>3

\* rotate_gcd, by as many cycles as the gcd of the lengths, rotates.
LEMMA RotateGcdIs ==
    ASSUME NEW n \in Nat, NEW s \in Rows(n), NEW f \in 1..n, NEW m \in 1..n, NEW l \in 1..(n + 1),
           f < m, m < l
    PROVE  RotateGcd(s, f, m, l) = Result(Rotated(s, f, m, l), f + (l - m))
<1>0. DOMAIN s = 1..n /\ Ranges(s) = Rows(n)
    BY DEF Ranges, Rows
<1>i. f \in Int /\ m \in Int /\ l \in Int
    OBVIOUS
<1>1. CASE m - f = l - m
    <2>1. f \in 1..(n + 1) /\ m \in 1..(n + 1) /\ f <= m /\ m <= l
        OBVIOUS
    <2>2. Overwrite(s, f, SubSeq(s, m, l - 1) \o SubSeq(s, f, m - 1)) = Rotated(s, f, m, l)
        BY <2>1, PartsExchanged
    <2>3. f + (l - m) = m
        BY <1>1
    <2> QED
        BY <1>1, <2>2, <2>3 DEF RotateGcd
<1>2. CASE m - f # l - m
    <2> DEFINE g == Gcd(m - f, l - m)
               S(j) == Source(j, f, m, l)
               States == [range : Ranges(s), p : f..(f + g)]
               G == {v \in States : v.p # f}
               Step(w) == [range |-> Cycle(w.range, w.p - 1, f, m, l), p |-> w.p - 1]
               step == [w \in G |-> Step(w)]
               Above(j, p) == j \in f..(l - 1) /\ \E c \in p..(f + g - 1) : Congruent(j, c, g)
               P == {w \in States : \A j \in 1..n :
                        w.range[j] = IF Above(j, w.p) THEN s[S(j)] ELSE s[j]}
               rank == [w \in P |-> w.p - f]
               start == [range |-> s, p |-> f + g]
               last == Loop(States, step)[start]
    <2>1. /\ g \in Nat \ {0} /\ Combines(g, m - f, l - m)
          /\ Divides(g, m - f) /\ Divides(g, l - m)
        <3>1. m - f \in Nat \ {0} /\ l - m \in Nat
            OBVIOUS
        <3> QED
            BY <3>1, GcdIs
    <2>2. RotateGcd(s, f, m, l) = Result(last.range, f + (l - m))
        BY <1>2 DEF RotateGcd
    <2> HIDE DEF g
    <2>3. Divides(g, l - f) /\ f + g - 1 <= l - 1
        <3>1. PICK a \in Int : m - f = a * g
            BY <2>1 DEF Divides
        <3>2. PICK b \in Int : l - m = b * g
            BY <2>1 DEF Divides
        <3>3. l - f = (a + b) * g /\ a + b \in Int
            <4>1. (a + b) * g = a * g + b * g
                BY <2>1
            <4> QED
                BY <3>1, <3>2, <4>1
        <3>4. a >= 1
            <4>1. a <= 0 => a * g <= 0
                BY <2>1
            <4> QED
                BY <4>1, <3>1
        <3>5. a * g >= g
            BY <3>4, <2>1
        <3>6. g <= m - f
            BY <3>1, <3>5
        <3>7. Divides(g, l - f)
            BY <3>3 DEF Divides
        <3> HIDE DEF Divides
        <3> QED
            BY <3>6, <3>7, <2>1
    <2>e. ASSUME NEW w \in States PROVE w.range \in Rows(n) /\ w.p \in f..(f + g)
        BY <1>0
    <2>t. ASSUME NEW r \in Rows(n), NEW p \in f..(f + g) PROVE [range |-> r, p |-> p] \in States
        BY <1>0, <2>t
    <2>p. \A w : /\ w \in G <=> w \in States /\ w.p # f
                 /\ w \in P <=> w \in States /\ \A j \in 1..n :
                        w.range[j] = IF Above(j, w.p) THEN s[S(j)] ELSE s[j]
        OBVIOUS
    <2> HIDE DEF States, G, P
    <2>4. start \in P
        <3>1. \A j \in 1..n : ~Above(j, f + g)
            BY <2>1
        <3>2. start \in States
            BY <2>1, <2>t
        <3> HIDE DEF Above
        <3> QED
            BY <3>1, <3>2, <2>p
    <2>c. ASSUME NEW r \in Rows(n), NEW p \in f..(f + g), p # f
          PROVE  /\ Cycle(r, p - 1, f, m, l) \in Rows(n)
                 /\ p - 1 \in f..(l - 1)
                 /\ \A j \in 1..n : Cycle(r, p - 1, f, m, l)[j] =
                        IF j \in f..(l - 1) /\ Congruent(j, p - 1, g) THEN r[S(j)] ELSE r[j]
        <3> DEFINE c == p - 1
                   y == Cycle(r, c, f, m, l)
        <3>1. c \in f..(l - 1)
            BY <2>c, <2>1, <2>3
        <3> HIDE DEF c
        <3>2. g \in Nat
            BY <2>1
        <3>3. /\ y \in Rows(n)
              /\ \E D \in SUBSET (f..(l - 1)) :
                  /\ c \in D
                  /\ \A j \in D : S(j) \in D /\ Congruent(j, c, g) /\ y[j] = r[S(j)]
                  /\ \A j \in 1..n : j \notin D => y[j] = r[j]
            BY <3>1, <3>2, <2>1, <2>3, CycleIs
        <3>4. PICK D \in SUBSET (f..(l - 1)) :
                  /\ c \in D
                  /\ \A j \in D : S(j) \in D /\ Congruent(j, c, g) /\ y[j] = r[S(j)]
                  /\ \A j \in 1..n : j \notin D => y[j] = r[j]
            BY <3>3
        <3>5. ASSUME NEW j \in f..(l - 1), Congruent(j, c, g) PROVE j \in D
            BY <3>1, <3>4, <3>5, <2>1, <1>i, CycleIsAClass
        <3>6. ASSUME NEW j \in 1..n
              PROVE  y[j] = IF j \in f..(l - 1) /\ Congruent(j, c, g) THEN r[S(j)] ELSE r[j]
            BY <3>4, <3>5
        <3> HIDE DEF y
        <3> QED
            BY <3>1, <3>3, <3>6 DEF c, y
    <2>5. ASSUME NEW v \in P, v \in G PROVE Step(v) \in P
        <3> DEFINE r == v.range
                   c == v.p - 1
                   y == Cycle(r, c, f, m, l)
        <3>1. r \in Rows(n) /\ v.p \in f..(f + g) /\ v.p # f /\ v \in States
            BY <2>5, <2>p, <2>e
        <3>2. /\ y \in Rows(n) /\ c \in f..(l - 1) /\ c \in f..(f + g)
              /\ \A j \in 1..n : y[j] = IF j \in f..(l - 1) /\ Congruent(j, c, g) THEN r[S(j)] ELSE r[j]
            <4> HIDE DEF r
            <4>1. c \in f..(f + g)
                BY <3>1, <2>1
            <4> QED
                BY <3>1, <4>1, <2>c
        <3>3. \A j \in 1..n : r[j] = IF Above(j, v.p) THEN s[S(j)] ELSE s[j]
            BY <2>5, <2>p
        <3>4. Step(v) \in States /\ Step(v).range = y /\ Step(v).p = c
            <4> HIDE DEF y, c
            <4>1. [range |-> y, p |-> c] \in States
                BY <3>2, <2>t
            <4> QED
                BY <4>1 DEF y, c, r
        <3>5. v.p = c + 1 /\ c \in Int /\ c <= f + g - 1
            BY <3>1, <2>1
        <3> HIDE DEF r, c, y
        <3>6. ASSUME NEW j \in f..(l - 1), Congruent(j, c, g) PROVE ~Above(j, v.p)
            <4> SUFFICES ASSUME NEW d \in (c + 1)..(f + g - 1), Congruent(j, d, g) PROVE FALSE
                BY <3>5
            <4>1. j \in Int /\ d \in Int /\ c \in Int /\ g \in Int /\ d - c < g /\ c - d < g
                BY <3>5, <2>1, <3>2
            <4>2. Congruent(d, j, g)
                BY <4>1, CongruentSym
            <4>3. Congruent(d, c, g)
                BY <4>1, <4>2, <3>6, CongruentTrans
            <4>4. d = c
                BY <4>1, <4>3, CongruentNear
            <4> QED
                BY <4>4, <3>5
        <3>7. ASSUME NEW j \in f..(l - 1), Congruent(j, c, g)
              PROVE  S(j) \in f..(l - 1) /\ Congruent(S(j), c, g)
            <4> DEFINE N == l - f
                       q == m - f
                       h == S(j)
                       x == j + q
            <4>1. h \in f..(l - 1) /\ Congruent(h, x, N)
                BY <1>i, SourceIs
            <4>2. PICK k \in Int : q = k * g
                BY <2>1 DEF Divides
            <4>3. PICK b \in Int : N = b * g
                BY <2>3 DEF Divides
            <4>4. N \in Int /\ q \in Int /\ h \in Int /\ x \in Int /\ j \in Int /\ x = j + q /\ g \in Int
                BY <4>1, <2>1
            <4> HIDE DEF N, q, h, x
            <4>5. x = j + k * g
                BY <4>2, <4>4
            <4>6. Congruent(h, x, g)
                BY <4>1, <4>3, <4>4, CongruentMultiple
            <4>7. Congruent(x, j, g)
                BY <4>4, <4>5, CongruentBy
            <4>8. Congruent(h, j, g)
                BY <4>4, <4>6, <4>7, CongruentTrans
            <4>9. Congruent(h, c, g)
                BY <4>4, <4>8, <3>7, <3>5, CongruentTrans
            <4> QED
                BY <4>1, <4>9 DEF h
        <3>8. ASSUME NEW j \in 1..n PROVE y[j] = IF Above(j, c) THEN s[S(j)] ELSE s[j]
            <4>1. CASE j \in f..(l - 1) /\ Congruent(j, c, g)
                <5>1. S(j) \in f..(l - 1) /\ ~Above(S(j), v.p) /\ S(j) \in 1..n
                    <6>1. S(j) \in f..(l - 1) /\ Congruent(S(j), c, g)
                        BY <4>1, <3>7
                    <6>2. ~Above(S(j), v.p)
                        <7> HIDE DEF Above
                        <7> QED
                            BY <6>1, <3>6
                    <6> QED
                        BY <6>1, <6>2
                <5>2. r[S(j)] = s[S(j)]
                    <6> HIDE DEF Above
                    <6> QED
                        BY <5>1, <3>3
                <5>3. Above(j, c)
                    BY <4>1, <3>5
                <5> HIDE DEF Above
                <5> QED
                    BY <4>1, <5>2, <5>3, <3>2
            <4>2. CASE ~(j \in f..(l - 1) /\ Congruent(j, c, g))
                <5>1. Above(j, c) <=> Above(j, v.p)
                    <6>1. ASSUME NEW d \in c..(f + g - 1), Congruent(j, d, g), j \in f..(l - 1)
                          PROVE  d \in v.p..(f + g - 1)
                        <7>1. d # c
                            BY <4>2, <6>1
                        <7> QED
                            BY <7>1, <3>5
                    <6> QED
                        BY <6>1, <3>5
                <5> HIDE DEF Above
                <5> QED
                    BY <4>2, <5>1, <3>2, <3>3
            <4> QED
                BY <4>1, <4>2
        <3> HIDE DEF Above, Step
        <3> QED
            BY <3>4, <3>8, <2>p
    <2>6. Descends(States, G, step, P, rank)
        <3>1. ASSUME NEW w \in G PROVE Step(w) \in States
            <4> DEFINE r == w.range
                       p == w.p
            <4>1. r \in Rows(n) /\ p \in f..(f + g) /\ p # f
                BY <2>p, <2>e
            <4> HIDE DEF r, p
            <4>2. Cycle(r, p - 1, f, m, l) \in Rows(n) /\ p - 1 \in f..(f + g)
                BY <4>1, <2>c, <2>1
            <4> QED
                BY <4>2, <2>t DEF r, p
        <3>2. G \subseteq States /\ P \subseteq States /\ step \in [G -> States]
            <4> HIDE DEF Step
            <4> QED
                BY <3>1, <2>p
        <3>3. rank \in [P -> Nat]
            BY <2>p, <2>e
        <3>4. ASSUME NEW v \in P \cap G PROVE step[v] \in P /\ rank[step[v]] < rank[v]
            <4>1. step[v] = Step(v) /\ Step(v) \in P /\ Step(v).p = v.p - 1
                <5>1. Step(v).p = v.p - 1
                    OBVIOUS
                <5> HIDE DEF Step
                <5> QED
                    BY <5>1, <2>5
            <4>2. v.p \in Int
                BY <2>p, <2>e
            <4> HIDE DEF step, Step
            <4>3. rank[step[v]] = (v.p - 1) - f /\ rank[v] = v.p - f
                BY <4>1
            <4> HIDE DEF rank
            <4> QED
                BY <4>1, <4>2, <4>3
        <3> HIDE DEF step, rank
        <3> QED
            BY <3>2, <3>3, <3>4 DEF Descends
    <2>7. last \in P /\ last \notin G
        <3> HIDE DEF start, step, rank
        <3> QED
            BY <2>4, <2>6, LoopLeaves
    <2> HIDE DEF last
    <2>8. ASSUME NEW j \in 1..n PROVE last.range[j] = Rotated(s, f, m, l)[j]
        <3>1. last.p = f /\ last.range[j] = IF Above(j, last.p) THEN s[S(j)] ELSE s[j]
            BY <2>7, <2>p
        <3>2. j \in f..(l - 1) => Above(j, f)
            <4>1. j \in Int
                OBVIOUS
            <4> QED
                BY <4>1, <2>1, <1>i, CongruentFrom
        <3>3. last.range[j] = IF j \in f..(l - 1) THEN s[S(j)] ELSE s[j]
            <4>1. Above(j, f) => j \in f..(l - 1)
                OBVIOUS
            <4> HIDE DEF Above
            <4> QED
                BY <3>1, <3>2, <4>1
        <3>4. f \in 1..(n + 1) /\ m \in 1..(n + 1) /\ f <= m /\ m <= l
            OBVIOUS
        <3>5. Rotated(s, f, m, l)[j] = IF j < f \/ j >= l THEN s[j]
                  ELSE IF j < f + (l - m) THEN s[j + (m - f)] ELSE s[j - (l - m)]
            BY <3>4, RotatedIsRow
        <3>6. j \in f..(l - 1) => S(j) = IF j < f + (l - m) THEN j + (m - f) ELSE j - (l - m)
            BY DEF Source
        <3> HIDE DEF S
        <3> QED
            BY <3>3, <3>5, <3>6
    <2>9. last.range = Rotated(s, f, m, l)
        <3>1. last.range \in Rows(n)
            BY <2>7, <2>p, <2>e
        <3>2. f \in 1..(n + 1) /\ m \in 1..(n + 1) /\ f <= m /\ m <= l
            OBVIOUS
        <3>3. Rotated(s, f, m, l) \in Rows(n)
            BY <3>2, RotatedIsRow
        <3> QED
            BY <3>1, <3>3, <2>8, RowsEqual
    <2> QED
        BY <2>2, <2>9
<1> QED
    BY <1>1, <1>2

\* However rotate goes about it, it puts every element where it belongs and
\* returns the place of the one that stood first.
LEMMA RotateIs ==
    ASSUME NEW n \in Nat, NEW s \in Rows(n),
           NEW f \in 1..(n + 1), NEW m \in 1..(n + 1), NEW l \in 1..(n + 1), f <= m, m <= l, NEW kind
    PROVE  Rotate(s, f, m, l, kind) = Result(Rotated(s, f, m, l), f + (l - m))
<1>1. CASE f = m
    <2>1. Rotated(s, f, m, l) \in Rows(n) /\ \A i \in 1..n : s[i] = Rotated(s, f, m, l)[i]
        BY <1>1, RotatedIsRow
    <2>2. s = Rotated(s, f, m, l)
        BY <2>1, RowsEqual
    <2>3. f + (l - m) = l
        BY <1>1
    <2> QED
        BY <1>1, <2>2, <2>3 DEF Rotate
<1>2. CASE f # m /\ m = l
    <2>1. Rotated(s, f, m, l) \in Rows(n) /\ \A i \in 1..n : s[i] = Rotated(s, f, m, l)[i]
        BY <1>2, RotatedIsRow
    <2>2. s = Rotated(s, f, m, l)
        BY <2>1, RowsEqual
    <2>3. f + (l - m) = f
        BY <1>2
    <2> QED
        BY <1>2, <2>2, <2>3 DEF Rotate
<1>3. CASE f < m /\ m < l
    <2>1. f \in 1..n /\ m \in 1..n
        BY <1>3
    <2>2. RotateForward(s, f, m, l) = Result(Rotated(s, f, m, l), f + (l - m))
        BY <1>3, <2>1, RotateForwardIs
    <2>3. RotateGcd(s, f, m, l) = Result(Rotated(s, f, m, l), f + (l - m))
        BY <1>3, <2>1, RotateGcdIs
    <2>4. f + 1 = m => RotateLeft(s, f, l) = Result(Rotated(s, f, m, l), f + (l - m))
        BY <1>3, <2>1, RotateLeftIs
    <2>5. m + 1 = l => RotateRight(s, f, l) = Result(Rotated(s, f, m, l), f + (l - m))
        <3> SUFFICES ASSUME m + 1 = l PROVE RotateRight(s, f, l) = Result(Rotated(s, f, m, l), f + (l - m))
            OBVIOUS
        <3>1. m = l - 1 /\ f < l - 1
            BY <1>3
        <3> QED
            BY <3>1, <2>1, RotateRightIs
    <2>6. f # m /\ m # l
        BY <1>3
    <2> QED
        BY <2>2, <2>3, <2>4, <2>5, <2>6 DEF Rotate
<1> QED
    BY <1>1, <1>2, <1>3

-----------------------------------------------------------------------------
(* Scans, reverse and partition *)

\* A set of numbers has a least element,
LEMMA MinIs ==
    ASSUME NEW S \in SUBSET Nat, S # {}
    PROVE  Min(S) \in S /\ \A y \in S : Min(S) <= y
<1>1. PICK x \in S : \A y \in S : <<y, x>> \notin OpToRel(<, Nat)
    BY NatLessThanWellFounded, WFMin
<1>2. ASSUME NEW y \in S PROVE x <= y
    <2>1. x \in Nat /\ y \in Nat /\ <<y, x>> \notin OpToRel(<, Nat)
        BY <1>1, <1>2
    <2> QED
        BY <2>1 DEF OpToRel
<1>3. \E z \in S : \A y \in S : z <= y
    BY <1>2
<1> QED
    BY <1>3 DEF Min

\* and one with a bound a greatest.
LEMMA MaxIs ==
    ASSUME NEW b \in Nat, NEW S \in SUBSET (0..b), S # {}
    PROVE  Max(S) \in S /\ \A y \in S : y <= Max(S)
<1> DEFINE R == {b - x : x \in S}
<1>1. R \subseteq Nat /\ R # {}
    <2>1. ASSUME NEW x \in S PROVE b - x \in Nat
        OBVIOUS
    <2>2. PICK x : x \in S
        OBVIOUS
    <2>3. b - x \in R
        BY <2>2
    <2> QED
        BY <2>1, <2>3
<1>2. PICK m \in R : \A y \in R : m <= y
    <2> HIDE DEF R
    <2> QED
        BY <1>1, MinIs
<1>3. PICK x \in S : m = b - x
    BY <1>2
<1>4. ASSUME NEW y \in S PROVE x >= y
    <2>1. b - y \in R
        OBVIOUS
    <2>2. b - x <= b - y
        BY <2>1, <1>2, <1>3
    <2> QED
        BY <2>2
<1>5. \E z \in S : \A y \in S : z >= y
    BY <1>4
<1>6. Max(S) \in S /\ \A y \in S : Max(S) >= y
    BY <1>5 DEF Max
<1> QED
    BY <1>6

\* The scans: find_if_not,
LEMMA FirstOutIs ==
    ASSUME NEW f \in Nat, NEW l \in Nat, f <= l, NEW s, NEW T
    PROVE  /\ FirstOut(s, f, l, T) \in f..l
           /\ FirstOut(s, f, l, T) # l => s[FirstOut(s, f, l, T)] \notin T
           /\ \A i \in f..(FirstOut(s, f, l, T) - 1) : s[i] \in T
<1> DEFINE S == {l} \cup {i \in f..(l - 1) : s[i] \notin T}
           x == Min(S)
<1>1. S \in SUBSET Nat /\ S # {} /\ S \subseteq f..l
    OBVIOUS
<1>2. x \in S /\ \A y \in S : x <= y
    <2> HIDE DEF S
    <2> QED
        BY <1>1, MinIs
<1>3. x \in f..l
    BY <1>1, <1>2
<1>4. ASSUME NEW i \in f..(x - 1) PROVE s[i] \in T
    <2>1. i \in f..(l - 1) /\ ~(x <= i)
        BY <1>3
    <2> HIDE DEF x
    <2> QED
        BY <2>1, <1>2
<1> HIDE DEF x
<1>5. x # l => s[x] \notin T
    BY <1>2
<1>6. FirstOut(s, f, l, T) = x
    BY DEF FirstOut, x
<1> HIDE DEF S
<1> QED
    BY <1>3, <1>4, <1>5, <1>6

\* find_if,
LEMMA FirstInIs ==
    ASSUME NEW f \in Nat, NEW l \in Nat, f <= l, NEW s, NEW T
    PROVE  /\ FirstIn(s, f, l, T) \in f..l
           /\ FirstIn(s, f, l, T) # l => s[FirstIn(s, f, l, T)] \in T
           /\ \A i \in f..(FirstIn(s, f, l, T) - 1) : s[i] \notin T
<1> DEFINE S == {l} \cup {i \in f..(l - 1) : s[i] \in T}
           x == Min(S)
<1>1. S \in SUBSET Nat /\ S # {} /\ S \subseteq f..l
    OBVIOUS
<1>2. x \in S /\ \A y \in S : x <= y
    <2> HIDE DEF S
    <2> QED
        BY <1>1, MinIs
<1>3. x \in f..l
    BY <1>1, <1>2
<1>4. ASSUME NEW i \in f..(x - 1) PROVE s[i] \notin T
    <2>1. i \in f..(l - 1) /\ ~(x <= i)
        BY <1>3
    <2> HIDE DEF x
    <2> QED
        BY <2>1, <1>2
<1> HIDE DEF x
<1>5. x # l => s[x] \in T
    BY <1>2
<1>6. FirstIn(s, f, l, T) = x
    BY DEF FirstIn, x
<1> HIDE DEF S
<1> QED
    BY <1>3, <1>4, <1>5, <1>6

\* find_if backwards,
LEMMA LastInIs ==
    ASSUME NEW f \in Nat \ {0}, NEW l \in Nat, f <= l, NEW s, NEW T
    PROVE  /\ LastIn(s, f, l, T) \in (f - 1)..(l - 1)
           /\ LastIn(s, f, l, T) # f - 1 => s[LastIn(s, f, l, T)] \in T
           /\ \A i \in (LastIn(s, f, l, T) + 1)..(l - 1) : i >= f => s[i] \notin T
<1> DEFINE S == {f - 1} \cup {i \in f..(l - 1) : s[i] \in T}
           x == Max(S)
<1>1. S \in SUBSET (0..l) /\ S # {} /\ S \subseteq (f - 1)..(l - 1)
    OBVIOUS
<1>2. x \in S /\ \A y \in S : y <= x
    <2> HIDE DEF S
    <2> QED
        BY <1>1, MaxIs
<1>3. x \in (f - 1)..(l - 1)
    BY <1>1, <1>2
<1>4. ASSUME NEW i \in (x + 1)..(l - 1), i >= f PROVE s[i] \notin T
    <2>1. i \in f..(l - 1) /\ ~(i <= x)
        BY <1>3, <1>4
    <2> HIDE DEF x
    <2> QED
        BY <2>1, <1>2
<1> HIDE DEF x
<1>5. x # f - 1 => s[x] \in T
    BY <1>2
<1>6. LastIn(s, f, l, T) = x
    BY DEF LastIn, x
<1> HIDE DEF S
<1> QED
    BY <1>3, <1>4, <1>5, <1>6

\* and find_if_not backwards.
LEMMA LastOutIs ==
    ASSUME NEW f \in Nat \ {0}, NEW l \in Nat, f <= l, NEW s, NEW T
    PROVE  /\ LastOut(s, f, l, T) \in (f - 1)..(l - 1)
           /\ LastOut(s, f, l, T) # f - 1 => s[LastOut(s, f, l, T)] \notin T
           /\ \A i \in (LastOut(s, f, l, T) + 1)..(l - 1) : i >= f => s[i] \in T
<1> DEFINE S == {f - 1} \cup {i \in f..(l - 1) : s[i] \notin T}
           x == Max(S)
<1>1. S \in SUBSET (0..l) /\ S # {} /\ S \subseteq (f - 1)..(l - 1)
    OBVIOUS
<1>2. x \in S /\ \A y \in S : y <= x
    <2> HIDE DEF S
    <2> QED
        BY <1>1, MaxIs
<1>3. x \in (f - 1)..(l - 1)
    BY <1>1, <1>2
<1>4. ASSUME NEW i \in (x + 1)..(l - 1), i >= f PROVE s[i] \in T
    <2>1. i \in f..(l - 1) /\ ~(i <= x)
        BY <1>3, <1>4
    <2> HIDE DEF x
    <2> QED
        BY <2>1, <1>2
<1> HIDE DEF x
<1>5. x # f - 1 => s[x] \notin T
    BY <1>2
<1>6. LastOut(s, f, l, T) = x
    BY DEF LastOut, x
<1> HIDE DEF S
<1> QED
    BY <1>3, <1>4, <1>5, <1>6

(***************************************************************************)
(* reverse                                                                 *)
(***************************************************************************)
\* reverse, by either of its loops.
LEMMA ReversedIs ==
    ASSUME NEW n \in Nat, NEW s \in Rows(n), NEW f \in 1..(n + 1), NEW l \in 1..(n + 1), f <= l, NEW tag
    PROVE  /\ Reversed(s, f, l, tag) \in Rows(n)
           /\ \A j \in 1..n : Reversed(s, f, l, tag)[j] =
                  IF j \in f..(l - 1) THEN s[f + l - 1 - j] ELSE s[j]
<1> DEFINE States == {w \in [range : Ranges(s), f : f..l, l : f..l] : w.f <= w.l}
           Goes(w) == IF tag = "random" THEN w.f < w.l - 1 ELSE w.f # w.l /\ w.f # w.l - 1
           Step(w) == [range |-> Swap(w.range, w.f, w.l - 1), f |-> w.f + 1, l |-> w.l - 1]
           G == {v \in States : Goes(v)}
           step == [w \in G |-> Step(w)]
           Left(r, a, b, j) == IF j \in a..(b - 1) THEN r[a + b - 1 - j] ELSE r[j]
           P == {w \in States : /\ w.f - f = l - w.l
                                /\ \A j \in 1..n : Left(w.range, w.f, w.l, j) = Left(s, f, l, j)}
           rank == [w \in P |-> w.l - w.f]
           start == [range |-> s, f |-> f, l |-> l]
           last == Loop(States, step)[start]
<1>0. DOMAIN s = 1..n /\ Ranges(s) = Rows(n)
    BY DEF Ranges, Rows
<1>1. Reversed(s, f, l, tag) = last.range
    BY DEF Reversed
<1>e. ASSUME NEW w \in States
      PROVE  w.range \in Rows(n) /\ w.f \in f..l /\ w.l \in f..l /\ w.f <= w.l
    BY <1>0
<1>t. ASSUME NEW r \in Rows(n), NEW a \in f..l, NEW b \in f..l, a <= b
      PROVE  [range |-> r, f |-> a, l |-> b] \in States
    BY <1>0, <1>t
<1>p. \A w : /\ w \in G <=> w \in States /\ Goes(w)
             /\ w \in P <=> /\ w \in States /\ w.f - f = l - w.l
                            /\ \A j \in 1..n : Left(w.range, w.f, w.l, j) = Left(s, f, l, j)
    OBVIOUS
<1> HIDE DEF States, G, P
<1>2. start \in P
    <2>1. start \in States
        BY <1>t
    <2> QED
        BY <2>1, <1>p
<1>3. ASSUME NEW w \in G
      PROVE  /\ Step(w) \in States /\ Step(w).l - Step(w).f < w.l - w.f
             /\ w \in P => Step(w) \in P
    <2> DEFINE r == w.range
               a == w.f
               b == w.l
               q == Swap(r, a, b - 1)
               u == [range |-> q, f |-> a + 1, l |-> b - 1]
    <2>1. w \in States /\ r \in Rows(n) /\ a \in f..l /\ b \in f..l /\ a <= b - 2
        BY <1>p, <1>e
    <2>2. u = Step(w) /\ w.range = r /\ w.f = a /\ w.l = b
        OBVIOUS
    <2> HIDE DEF r, a, b, Step
    <2>3. /\ q \in Rows(n) /\ q[a] = r[b - 1] /\ q[b - 1] = r[a]
          /\ \A k \in 1..n : k # a /\ k # b - 1 => q[k] = r[k]
        <3>1. a \in 1..n /\ b - 1 \in 1..n
            BY <2>1
        <3> QED
            BY <3>1, <2>1, SwapType
    <2> HIDE DEF q
    <2>4. u \in States
        <3>1. a + 1 \in f..l /\ b - 1 \in f..l /\ a + 1 <= b - 1
            BY <2>1
        <3> QED
            BY <3>1, <2>3, <1>t
    <2>5. ASSUME NEW j \in 1..n PROVE Left(q, a + 1, b - 1, j) = Left(r, a, b, j)
        BY <2>1, <2>3
    <2>6. u.range = q /\ u.f = a + 1 /\ u.l = b - 1
        OBVIOUS
    <2>7. w \in P => u \in P
        <3>1. a - f = l - b => (a + 1) - f = l - (b - 1)
            BY <2>1
        <3> HIDE DEF Left, u
        <3> QED
            BY <3>1, <2>2, <2>4, <2>5, <2>6, <1>p
    <2> HIDE DEF u
    <2>8. u.l - u.f < w.l - w.f
        BY <2>6, <2>2, <2>1
    <2> QED
        BY <2>2, <2>4, <2>7, <2>8
<1>4. Descends(States, G, step, P, rank)
    <2>1. G \subseteq States /\ P \subseteq States /\ step \in [G -> States] /\ rank \in [P -> Nat]
        <3> HIDE DEF Step
        <3> QED
            BY <1>3, <1>p, <1>e
    <2>2. ASSUME NEW v \in P \cap G PROVE step[v] \in P /\ rank[step[v]] < rank[v]
        <3> HIDE DEF Step
        <3>1. step[v] = Step(v) /\ Step(v) \in P
            BY <1>3
        <3> QED
            BY <3>1, <1>3
    <2> HIDE DEF step, rank
    <2> QED
        BY <2>1, <2>2 DEF Descends
<1>5. last \in P /\ last \notin G
    <2> HIDE DEF start, step, rank
    <2> QED
        BY <1>2, <1>4, LoopLeaves
<1> HIDE DEF last
<1>6. /\ last.range \in Rows(n) /\ last.f \in f..l /\ last.l \in f..l
      /\ (last.f = last.l \/ last.f = last.l - 1)
      /\ \A j \in 1..n : Left(last.range, last.f, last.l, j) = Left(s, f, l, j)
    <2> HIDE DEF Left
    <2> QED
        BY <1>5, <1>p, <1>e
<1> DEFINE r == last.range
           a == last.f
           b == last.l
<1> HIDE DEF r, a, b
<1>7. ASSUME NEW j \in 1..n PROVE r[j] = Left(s, f, l, j)
    <2>1. Left(r, a, b, j) = Left(s, f, l, j)
        BY <1>6 DEF r, a, b
    <2>2. Left(r, a, b, j) = r[j]
        <3>1. a \in f..l /\ b \in f..l /\ (a = b \/ a = b - 1)
            BY <1>6 DEF a, b
        <3> QED
            BY <3>1
    <2> QED
        BY <2>1, <2>2
<1> QED
    BY <1>1, <1>6, <1>7 DEF r

(***************************************************************************)
(* partition and the removals, of the range whose elements are named by    *)
(* their places                                                            *)
(***************************************************************************)
\* The elements named by their places, and what is in a part.
Named(n) == [i \in 1..n |-> i]
Within(s, f, l) == {s[i] : i \in f..(l - 1)}

\* What a call leaves, and what it returns.
LEMMA ResultIs ==
    ASSUME NEW x, NEW y
    PROVE  /\ Result(x, y).range = x /\ Result(x, y).at = y
           /\ Result(x, y) = Result(Result(x, y).range, Result(x, y).at)
    BY DEF Result

\* A range whose elements are named by their places.
LEMMA NamedIs ==
    ASSUME NEW n \in Nat
    PROVE  /\ Named(n) \in Rows(n) /\ Len(Named(n)) = n /\ \A i \in 1..n : Named(n)[i] = i
           /\ Within(Named(n), 1, n + 1) = 1..n
    BY DEF Named, Rows, Within

\* Two elements of a part that change places are still there.
LEMMA SwapKeeps ==
    ASSUME NEW n \in Nat, NEW s \in Rows(n), NEW i \in 1..n, NEW j \in 1..n,
           NEW f \in 1..(n + 1), NEW l \in 1..(n + 1), i \in f..(l - 1), j \in f..(l - 1)
    PROVE  Within(Swap(s, i, j), f, l) = Within(s, f, l)
<1> DEFINE q == Swap(s, i, j)
<1>1. /\ q[i] = s[j] /\ q[j] = s[i]
      /\ \A k \in 1..n : k # i /\ k # j => q[k] = s[k]
    BY SwapType
<1> HIDE DEF q
<1>2. ASSUME NEW k \in f..(l - 1) PROVE q[k] \in Within(s, f, l)
    BY <1>1 DEF Within
<1>3. ASSUME NEW k \in f..(l - 1) PROVE s[k] \in Within(q, f, l)
    BY <1>1 DEF Within
<1>4. Within(q, f, l) = Within(s, f, l)
    BY <1>2, <1>3 DEF Within
<1> QED
    BY <1>4 DEF q

\* partition's loop: what it has taken is in front of at, what it passed over
\* behind.
LEMMA GatherExchanges ==
    ASSUME NEW n \in Nat, NEW s \in Rows(n), NEW at \in 1..n, NEW T,
           \A k \in 1..(at - 1) : s[k] \in T, s[at] \notin T,
           NEW p, NEW l, p = at + 1, l = n + 1, NEW r, r = Gather(s, at, p, l, T, "swap")
    PROVE  /\ r = Result(r.range, r.at)
           /\ r.range \in Rows(n) /\ r.at \in at..n
           /\ Within(r.range, 1, n + 1) = Within(s, 1, n + 1)
           /\ \A k \in 1..(r.at - 1) : r.range[k] \in T
           /\ \A k \in r.at..n : r.range[k] \notin T
<1> DEFINE States == {w \in [range : Ranges(s), at : Nat, i : Nat] : w.at \in at..(w.i - 1)}
           G == {v \in States : v.i < n + 1}
           Step(w) == IF w.range[w.i] \in T
                      THEN [range |-> Swap(w.range, w.at, w.i), at |-> w.at + 1, i |-> w.i + 1]
                      ELSE [w EXCEPT !.i = w.i + 1]
           step == [w \in G |-> Step(w)]
           P == {w \in States : /\ w.i <= n + 1
                                /\ Within(w.range, 1, n + 1) = Within(s, 1, n + 1)
                                /\ \A k \in 1..(w.at - 1) : w.range[k] \in T
                                /\ \A k \in w.at..(w.i - 1) : w.range[k] \notin T}
           rank == [w \in P |-> n + 1 - w.i]
           start == [range |-> s, at |-> at, i |-> at + 1]
           last == Loop(States, step)[start]
<1>0. DOMAIN s = 1..n /\ Ranges(s) = Rows(n)
    BY DEF Ranges, Rows
<1>1. Gather(s, at, at + 1, n + 1, T, "swap") = Result(last.range, last.at)
    BY DEF Gather
<1>e. ASSUME NEW w \in States
      PROVE  /\ w.range \in Rows(n) /\ w.at \in Nat /\ w.i \in Nat /\ w.at \in at..(w.i - 1)
             /\ w = [range |-> w.range, at |-> w.at, i |-> w.i]
    BY <1>0
<1>t. ASSUME NEW x \in Rows(n), NEW a \in Nat, NEW b \in Nat, a \in at..(b - 1)
      PROVE  [range |-> x, at |-> a, i |-> b] \in States
    BY <1>0, <1>t
<1>p. \A w : /\ w \in G <=> w \in States /\ w.i < n + 1
             /\ w \in P <=> /\ w \in States /\ w.i <= n + 1
                            /\ Within(w.range, 1, n + 1) = Within(s, 1, n + 1)
                            /\ \A k \in 1..(w.at - 1) : w.range[k] \in T
                            /\ \A k \in w.at..(w.i - 1) : w.range[k] \notin T
    OBVIOUS
<1> HIDE DEF States, G, P
<1>2. start \in P
    <2>1. start \in States
        BY <1>t
    <2> QED
        BY <2>1, <1>p
<1>3. ASSUME NEW w \in G
      PROVE  /\ Step(w) \in States /\ Step(w).i = w.i + 1
             /\ w \in P => Step(w) \in P
    <2> DEFINE x == w.range
               a == w.at
               b == w.i
               q == Swap(x, a, b)
    <2>1. w \in States /\ x \in Rows(n) /\ a \in at..(b - 1) /\ b \in 1..n /\ a \in 1..n
        BY <1>p, <1>e
    <2>2. w.range = x /\ w.at = a /\ w.i = b /\ w = [range |-> x, at |-> a, i |-> b]
        BY <1>p, <1>e
    <2>3. CASE x[b] \in T
        <3> DEFINE u == [range |-> q, at |-> a + 1, i |-> b + 1]
        <3>1. Step(w) = u
            BY <2>3
        <3> HIDE DEF x, a, b, Step
        <3>2. /\ q \in Rows(n) /\ q[a] = x[b] /\ q[b] = x[a]
              /\ \A k \in 1..n : k # a /\ k # b => q[k] = x[k]
            BY <2>1, SwapType
        <3>3. Within(q, 1, n + 1) = Within(x, 1, n + 1)
            <4>1. 1 \in 1..(n + 1) /\ n + 1 \in 1..(n + 1) /\ a \in 1..(n + 1 - 1) /\ b \in 1..(n + 1 - 1)
                BY <2>1
            <4> QED
                BY <2>1, <4>1, SwapKeeps
        <3> HIDE DEF q
        <3>4. u \in States
            <4>1. a + 1 \in Nat /\ b + 1 \in Nat /\ a + 1 \in at..((b + 1) - 1)
                BY <2>1
            <4> QED
                BY <4>1, <3>2, <1>t
        <3>5. u.range = q /\ u.at = a + 1 /\ u.i = b + 1
            OBVIOUS
        <3> HIDE DEF u
        <3>6. ASSUME w \in P PROVE u \in P
            <4>1. /\ Within(x, 1, n + 1) = Within(s, 1, n + 1)
                  /\ \A k \in 1..(a - 1) : x[k] \in T
                  /\ \A k \in a..(b - 1) : x[k] \notin T
                BY <3>6, <2>2, <1>p
            <4>2. b + 1 <= n + 1
                BY <2>1
            <4>3. ASSUME NEW k \in 1..((a + 1) - 1) PROVE q[k] \in T
                BY <2>1, <2>3, <3>2, <4>1
            <4>4. ASSUME NEW k \in (a + 1)..((b + 1) - 1) PROVE q[k] \notin T
                BY <2>1, <3>2, <4>1
            <4> QED
                BY <3>3, <3>4, <3>5, <4>1, <4>2, <4>3, <4>4, <1>p
        <3> QED
            BY <3>1, <3>4, <3>5, <3>6, <2>2
    <2>4. CASE x[b] \notin T
        <3> DEFINE u == [range |-> x, at |-> a, i |-> b + 1]
        <3>1. Step(w) = u
            BY <2>4, <2>2
        <3> HIDE DEF x, a, b, Step
        <3>4. u \in States
            <4>1. a \in Nat /\ b + 1 \in Nat /\ a \in at..((b + 1) - 1)
                BY <2>1
            <4> QED
                BY <4>1, <2>1, <1>t
        <3>5. u.range = x /\ u.at = a /\ u.i = b + 1
            OBVIOUS
        <3> HIDE DEF u
        <3>6. ASSUME w \in P PROVE u \in P
            <4>1. /\ Within(x, 1, n + 1) = Within(s, 1, n + 1)
                  /\ \A k \in 1..(a - 1) : x[k] \in T
                  /\ \A k \in a..(b - 1) : x[k] \notin T
                BY <3>6, <2>2, <1>p
            <4>2. b + 1 <= n + 1
                BY <2>1
            <4>4. ASSUME NEW k \in a..((b + 1) - 1) PROVE x[k] \notin T
                BY <2>1, <2>4, <4>1
            <4> QED
                BY <3>4, <3>5, <4>1, <4>2, <4>4, <1>p
        <3> QED
            BY <3>1, <3>4, <3>5, <3>6, <2>2
    <2> QED
        BY <2>3, <2>4
<1>4. Descends(States, G, step, P, rank)
    <2>1. G \subseteq States /\ P \subseteq States /\ step \in [G -> States] /\ rank \in [P -> Nat]
        <3> HIDE DEF Step
        <3> QED
            BY <1>3, <1>p, <1>e
    <2>2. ASSUME NEW v \in P \cap G PROVE step[v] \in P /\ rank[step[v]] < rank[v]
        <3> HIDE DEF Step
        <3>1. step[v] = Step(v) /\ Step(v) \in P /\ v.i \in Int
            BY <1>3, <1>p, <1>e
        <3> QED
            BY <3>1, <1>3
    <2> HIDE DEF step, rank
    <2> QED
        BY <2>1, <2>2 DEF Descends
<1>5. last \in P /\ last \notin G
    <2> HIDE DEF start, step, rank
    <2> QED
        BY <1>2, <1>4, LoopLeaves
<1> HIDE DEF last
<1>6. last.i = n + 1 /\ last.range \in Rows(n) /\ last.at \in at..n
    BY <1>5, <1>p, <1>e
<1>7. r = Result(r.range, r.at) /\ r.range = last.range /\ r.at = last.at
    <2>1. r = Result(last.range, last.at)
        BY <1>1
    <2> QED
        BY <2>1, ResultIs
<1>8. /\ Within(last.range, 1, n + 1) = Within(s, 1, n + 1)
      /\ \A k \in 1..(last.at - 1) : last.range[k] \in T
      /\ \A k \in last.at..n : last.range[k] \notin T
    BY <1>5, <1>6, <1>p
<1> QED
    BY <1>6, <1>7, <1>8

\* partition from both ends: what is in T comes first.
LEMMA PartitionBothWaysIs ==
    ASSUME NEW n \in Nat, NEW s \in Rows(n), NEW T
    PROVE  LET r == PartitionBothWays(s, 1, n + 1, T) IN
           /\ r = Result(r.range, r.at)
           /\ r.range \in Rows(n) /\ r.at \in 1..(n + 1)
           /\ Within(r.range, 1, n + 1) = Within(s, 1, n + 1)
           /\ \A k \in 1..(r.at - 1) : r.range[k] \in T
           /\ \A k \in r.at..n : r.range[k] \notin T
<1> DEFINE f == 1
           l == n + 1
           States == {w \in [range : Ranges(s), f : f..l, l : f..l] : w.f <= w.l}
           Out(w) == FirstOut(w.range, w.f, w.l, T)
           In(w) == LastIn(w.range, Out(w) + 1, w.l, T)
           G == {v \in States : Out(v) # v.l /\ In(v) # Out(v)}
           Step(w) == [range |-> Swap(w.range, Out(w), In(w)), f |-> Out(w) + 1, l |-> In(w)]
           step == [w \in G |-> Step(w)]
           P == {w \in States : /\ Within(w.range, f, l) = Within(s, f, l)
                                /\ \A k \in f..(w.f - 1) : w.range[k] \in T
                                /\ \A k \in w.l..(l - 1) : w.range[k] \notin T}
           rank == [w \in P |-> w.l - w.f]
           start == [range |-> s, f |-> f, l |-> l]
           last == Loop(States, step)[start]
<1>0. DOMAIN s = 1..n /\ Ranges(s) = Rows(n)
    BY DEF Ranges, Rows
<1>1. PartitionBothWays(s, 1, n + 1, T) = Result(last.range, Out(last))
    BY DEF PartitionBothWays
<1>e. ASSUME NEW w \in States
      PROVE  w.range \in Rows(n) /\ w.f \in 1..(n + 1) /\ w.l \in 1..(n + 1) /\ w.f <= w.l
    BY <1>0
<1>t. ASSUME NEW r \in Rows(n), NEW a \in 1..(n + 1), NEW b \in 1..(n + 1), a <= b
      PROVE  [range |-> r, f |-> a, l |-> b] \in States
    BY <1>0, <1>t
<1>p. \A w : /\ w \in G <=> w \in States /\ Out(w) # w.l /\ In(w) # Out(w)
             /\ w \in P <=> /\ w \in States
                            /\ Within(w.range, 1, n + 1) = Within(s, 1, n + 1)
                            /\ \A k \in 1..(w.f - 1) : w.range[k] \in T
                            /\ \A k \in w.l..n : w.range[k] \notin T
    OBVIOUS
<1> HIDE DEF States, G, P
<1>2. start \in P
    <2>1. start \in States
        BY <1>t
    <2> QED
        BY <2>1, <1>p
<1>o. ASSUME NEW w \in States
      PROVE  /\ Out(w) \in w.f..w.l /\ Out(w) \in 1..(n + 1)
             /\ Out(w) # w.l => w.range[Out(w)] \notin T
             /\ \A i \in w.f..(Out(w) - 1) : w.range[i] \in T
    <2>1. w.f \in Nat /\ w.l \in Nat /\ w.f <= w.l /\ w.f \in 1..(n + 1) /\ w.l \in 1..(n + 1)
        BY <1>e
    <2>2. /\ Out(w) \in w.f..w.l
          /\ Out(w) # w.l => w.range[Out(w)] \notin T
          /\ \A i \in w.f..(Out(w) - 1) : w.range[i] \in T
        BY <2>1, FirstOutIs
    <2> HIDE DEF Out
    <2> QED
        BY <2>1, <2>2
<1>n. ASSUME NEW w \in States, Out(w) # w.l
      PROVE  /\ In(w) \in Out(w)..(w.l - 1)
             /\ In(w) # Out(w) => w.range[In(w)] \in T
             /\ \A i \in (In(w) + 1)..(w.l - 1) : w.range[i] \notin T
    <2>1. w.l \in Nat /\ Out(w) + 1 \in Nat \ {0} /\ Out(w) + 1 <= w.l /\ (Out(w) + 1) - 1 = Out(w)
        <3> HIDE DEF Out
        <3> QED
            BY <1>e, <1>o, <1>n
    <2>2. /\ In(w) \in ((Out(w) + 1) - 1)..(w.l - 1)
          /\ In(w) # (Out(w) + 1) - 1 => w.range[In(w)] \in T
          /\ \A i \in (In(w) + 1)..(w.l - 1) : i >= Out(w) + 1 => w.range[i] \notin T
        <3> HIDE DEF Out
        <3> QED
            BY <2>1, LastInIs
    <2> HIDE DEF Out, In
    <2> QED
        BY <2>1, <2>2
<1>3. ASSUME NEW w \in G
      PROVE  /\ Step(w) \in States /\ Step(w).l - Step(w).f < w.l - w.f
             /\ w \in P => Step(w) \in P
    <2> DEFINE r == w.range
               a == Out(w)
               b == In(w)
               q == Swap(r, a, b)
               u == [range |-> q, f |-> a + 1, l |-> b]
    <2>1. /\ w \in States /\ r \in Rows(n) /\ w.f \in 1..(n + 1) /\ w.l \in 1..(n + 1)
          /\ a \in w.f..(w.l - 1) /\ b \in (a + 1)..(w.l - 1)
          /\ r[a] \notin T /\ r[b] \in T
          /\ \A i \in w.f..(a - 1) : r[i] \in T
          /\ \A i \in (b + 1)..(w.l - 1) : r[i] \notin T
        <3>1. w \in States /\ a # w.l /\ b # a
            BY <1>p
        <3>2. w.f \in Nat /\ w.l \in Nat
            BY <3>1, <1>e
        <3> HIDE DEF Out, In
        <3> QED
            BY <3>1, <3>2, <1>e, <1>o, <1>n
    <2>2. u = Step(w) /\ w.range = r
        OBVIOUS
    <2> HIDE DEF r, a, b, Step
    <2>3. a \in 1..n /\ b \in 1..n
        BY <2>1
    <2>4. /\ q \in Rows(n) /\ q[a] = r[b] /\ q[b] = r[a]
          /\ \A k \in 1..n : k # a /\ k # b => q[k] = r[k]
        BY <2>1, <2>3, SwapType
    <2>5. Within(q, 1, n + 1) = Within(r, 1, n + 1)
        <3>1. 1 \in 1..(n + 1) /\ n + 1 \in 1..(n + 1) /\ a \in 1..(n + 1 - 1) /\ b \in 1..(n + 1 - 1)
            BY <2>3
        <3> QED
            BY <2>1, <2>3, <3>1, SwapKeeps
    <2> HIDE DEF q
    <2>6. u \in States
        <3>1. a + 1 \in 1..(n + 1) /\ b \in 1..(n + 1) /\ a + 1 <= b
            BY <2>1, <2>3
        <3> QED
            BY <3>1, <2>4, <1>t
    <2>7. u.range = q /\ u.f = a + 1 /\ u.l = b
        OBVIOUS
    <2> HIDE DEF u
    <2>8. ASSUME w \in P PROVE u \in P
        <3>1. /\ Within(r, 1, n + 1) = Within(s, 1, n + 1)
              /\ \A k \in 1..(w.f - 1) : r[k] \in T
              /\ \A k \in w.l..n : r[k] \notin T
            BY <2>8, <2>2, <1>p
        <3>2. ASSUME NEW k \in 1..((a + 1) - 1) PROVE q[k] \in T
            BY <2>1, <2>3, <2>4, <3>1
        <3>3. ASSUME NEW k \in b..n PROVE q[k] \notin T
            BY <2>1, <2>3, <2>4, <3>1
        <3> QED
            BY <2>5, <2>6, <2>7, <3>1, <3>2, <3>3, <1>p
    <2>9. u.l - u.f < w.l - w.f
        BY <2>7, <2>1
    <2> QED
        BY <2>2, <2>6, <2>8, <2>9
<1>4. Descends(States, G, step, P, rank)
    <2>1. G \subseteq States /\ P \subseteq States /\ step \in [G -> States] /\ rank \in [P -> Nat]
        <3> HIDE DEF Step
        <3> QED
            BY <1>3, <1>p, <1>e
    <2>2. ASSUME NEW v \in P \cap G PROVE step[v] \in P /\ rank[step[v]] < rank[v]
        <3> HIDE DEF Step
        <3>1. step[v] = Step(v) /\ Step(v) \in P
            BY <1>3
        <3> QED
            BY <3>1, <1>3
    <2> HIDE DEF step, rank
    <2> QED
        BY <2>1, <2>2 DEF Descends
<1>5. last \in P /\ last \notin G
    <2> HIDE DEF start, step, rank
    <2> QED
        BY <1>2, <1>4, LoopLeaves
<1> HIDE DEF last
<1> DEFINE x == Out(last)
           r == last.range
<1>6. /\ r \in Rows(n) /\ x \in 1..(n + 1) /\ Within(r, 1, n + 1) = Within(s, 1, n + 1)
      /\ \A k \in 1..(x - 1) : r[k] \in T
      /\ \A k \in x..n : r[k] \notin T
    <2>1. /\ last \in States /\ r \in Rows(n) /\ last.f \in 1..(n + 1) /\ last.l \in 1..(n + 1)
          /\ Within(r, 1, n + 1) = Within(s, 1, n + 1)
          /\ \A k \in 1..(last.f - 1) : r[k] \in T
          /\ \A k \in last.l..n : r[k] \notin T
        BY <1>5, <1>p, <1>e
    <2>2. /\ x \in last.f..last.l /\ x \in 1..(n + 1)
          /\ x # last.l => r[x] \notin T
          /\ \A i \in last.f..(x - 1) : r[i] \in T
        BY <2>1, <1>o
    <2>3. x # last.l => \A i \in (x + 1)..(last.l - 1) : r[i] \notin T
        <3> SUFFICES ASSUME x # last.l PROVE \A i \in (x + 1)..(last.l - 1) : r[i] \notin T
            OBVIOUS
        <3>1. In(last) = x
            <4> HIDE DEF In, Out
            <4> QED
                BY <1>5, <1>p, <2>1
        <3>2. \A i \in (In(last) + 1)..(last.l - 1) : r[i] \notin T
            BY <2>1, <1>n
        <3> HIDE DEF In, Out
        <3> QED
            BY <3>1, <3>2
    <2> HIDE DEF x, r
    <2>4. ASSUME NEW k \in 1..(x - 1) PROVE r[k] \in T
        BY <2>1, <2>2
    <2>5. ASSUME NEW k \in x..n PROVE r[k] \notin T
        BY <2>1, <2>2, <2>3
    <2> QED
        BY <2>1, <2>2, <2>4, <2>5
<1> DEFINE res == PartitionBothWays(s, 1, n + 1, T)
<1>7. res = Result(res.range, res.at) /\ res.range = r /\ res.at = x
    <2> HIDE DEF x
    <2> QED
        BY <1>1 DEF Result, x
<1> HIDE DEF res, x, r
<1> QED
    BY <1>6, <1>7 DEF res

\* Whatever the iterators can do, the elements of T come to the front.
LEMMA PartitionIs ==
    ASSUME NEW n \in Nat, NEW s \in Rows(n), NEW T, NEW tag
    PROVE  LET r == Partition(s, 1, n + 1, T, tag) IN
           /\ r = Result(r.range, r.at)
           /\ r.range \in Rows(n) /\ r.at \in 1..(n + 1)
           /\ Within(r.range, 1, n + 1) = Within(s, 1, n + 1)
           /\ \A k \in 1..(r.at - 1) : r.range[k] \in T
           /\ \A k \in r.at..n : r.range[k] \notin T
<1> DEFINE i == FirstOut(s, 1, n + 1, T)
           fw == PartitionForward(s, 1, n + 1, T)
<1>1. /\ i \in 1..(n + 1) /\ (i # n + 1 => s[i] \notin T)
      /\ \A k \in 1..(i - 1) : s[k] \in T
    <2>1. 1 \in Nat /\ n + 1 \in Nat /\ 1 <= n + 1
        OBVIOUS
    <2> QED
        BY <2>1, FirstOutIs
<1>2. /\ fw = Result(fw.range, fw.at)
      /\ fw.range \in Rows(n) /\ fw.at \in 1..(n + 1)
      /\ Within(fw.range, 1, n + 1) = Within(s, 1, n + 1)
      /\ \A k \in 1..(fw.at - 1) : fw.range[k] \in T
      /\ \A k \in fw.at..n : fw.range[k] \notin T
    <2>1. CASE i = n + 1
        <3>1. fw = Result(s, n + 1)
            BY <2>1 DEF PartitionForward
        <3>2. fw = Result(fw.range, fw.at) /\ fw.range = s /\ fw.at = n + 1
            BY <3>1 DEF Result
        <3> HIDE DEF fw
        <3> QED
            BY <3>2, <1>1, <2>1
    <2>2. CASE i # n + 1
        <3> DEFINE p == i + 1
                   l == n + 1
        <3>1. fw = Gather(s, i, p, l, T, "swap")
            BY <2>2 DEF PartitionForward
        <3>3. p = i + 1 /\ l = n + 1
            OBVIOUS
        <3> HIDE DEF fw, i, p, l
        <3>2. i \in 1..n
            BY <1>1, <2>2
        <3> QED
            <4>1. \A k \in 1..(i - 1) : s[k] \in T
                BY <1>1
            <4>2. s[i] \notin T
                BY <1>1, <2>2
            <4>3. /\ fw = Result(fw.range, fw.at)
                  /\ fw.range \in Rows(n) /\ fw.at \in i..n
                  /\ Within(fw.range, 1, n + 1) = Within(s, 1, n + 1)
                  /\ \A k \in 1..(fw.at - 1) : fw.range[k] \in T
                  /\ \A k \in fw.at..n : fw.range[k] \notin T
                BY <3>1, <3>2, <3>3, <4>1, <4>2, GatherExchanges
            <4> QED
                BY <4>3, <3>2
    <2> QED
        BY <2>1, <2>2
<1>3. Partition(s, 1, n + 1, T, tag) = IF tag = "forward" THEN fw ELSE PartitionBothWays(s, 1, n + 1, T)
    BY DEF Partition
<1> HIDE DEF fw, i
<1> QED
    BY <1>2, <1>3, PartitionBothWaysIs

-----------------------------------------------------------------------------
(* The removals *)

\* In front of the iterator returned there is each element of K, once; and in
\* their order.
Keeps(r, n, K) ==
    /\ r.range \in Rows(n) /\ r.at \in 1..(n + 1)
    /\ \A j \in 1..n : r.range[j] <= n
    /\ Within(r.range, 1, r.at) = K
    /\ \A j, k \in 1..(r.at - 1) : r.range[j] = r.range[k] => j = k

\* A part whose names are in order.
InOrder(s, f, l) == \A j, k \in f..(l - 1) : j < k => s[j] < s[k]

\* How many are kept is told by the iterator returned.
LEMMA KeepsCount ==
    ASSUME NEW n \in Nat, NEW K, NEW r, Keeps(r, n, K)
    PROVE  r.at - 1 = Cardinality(K)
<1> DEFINE m == r.at - 1
           f == [j \in 1..m |-> r.range[j]]
<1>1. m \in Nat /\ r.at \in Int
    BY DEF Keeps
<1> HIDE DEF m
<1>2. f \in Bijection(1..m, K)
    <2>1. \A j \in 1..m : r.range[j] \in K
        BY <1>1 DEF Keeps, Within, m
    <2>2. \A x \in K : \E j \in 1..m : r.range[j] = x
        BY <1>1 DEF Keeps, Within, m
    <2>3. \A j, k \in 1..m : r.range[j] = r.range[k] => j = k
        BY <1>1 DEF Keeps, m
    <2>4. f \in [1..m -> K]
        BY <2>1
    <2> QED
        BY <2>2, <2>3, <2>4 DEF Bijection, Injection, Surjection, IsInjective
<1>3. IsFiniteSet(1..m) /\ Cardinality(1..m) = m
    <2>1. 1 \in Int /\ m \in Int /\ 1 <= m + 1
        BY <1>1
    <2>2. IsFiniteSet(1..m) /\ Cardinality(1..m) = IF 1 > m THEN 0 ELSE m - 1 + 1
        BY <2>1, FS_Interval
    <2> QED
        BY <1>1, <2>2
<1>4. \E h : h \in Bijection(1..m, K)
    BY <1>2
<1>5. Cardinality(K) = m
    <2> HIDE DEF f
    <2> QED
    BY <1>3, <1>4, FS_Bijection DEF ExistsBijection
<1> QED
    BY <1>5 DEF m

\* A move leaves a hole.
LEMMA MoveType ==
    ASSUME NEW n \in Nat, NEW s \in Rows(n), NEW to \in 1..n, NEW from \in 1..n, to # from
    PROVE  /\ Move(s, to, from) \in Rows(n)
           /\ Move(s, to, from)[to] = s[from] /\ Move(s, to, from)[from] = 0
           /\ \A k \in 1..n : k # to /\ k # from => Move(s, to, from)[k] = s[k]
    BY DEF Move, Rows, Hole

\* remove_if's loop, T being what stays.
LEMMA GatherMoves ==
    ASSUME NEW n \in Nat, NEW s \in Rows(n), s = Named(n), NEW at \in 1..n, NEW T,
           \A k \in 1..(at - 1) : k \in T, at \notin T,
           NEW p, NEW l, p = at + 1, l = n + 1, NEW r, r = Gather(s, at, p, l, T, "move")
    PROVE  Keeps(r, n, (1..n) \cap T) /\ InOrder(r.range, 1, r.at) /\ r = Result(r.range, r.at)
<1> DEFINE States == {w \in [range : Ranges(s), at : Nat, i : Nat] : w.at \in at..(w.i - 1)}
           G == {v \in States : v.i < l}
           Step(w) == IF w.range[w.i] \in T
                      THEN [range |-> Move(w.range, w.at, w.i), at |-> w.at + 1, i |-> w.i + 1]
                      ELSE [w EXCEPT !.i = w.i + 1]
           step == [w \in G |-> Step(w)]
           Inv(x, a, i) == /\ \A k \in i..n : x[k] = k
                           /\ \A k \in 1..n : x[k] <= n
                           /\ \A k \in 1..(a - 1) : x[k] \in 1..(i - 1) /\ x[k] \in T
                           /\ \A j, k \in 1..(a - 1) : j < k => x[j] < x[k]
                           /\ \A k \in 1..(i - 1) : k \in T => \E j \in 1..(a - 1) : x[j] = k
           P == {w \in States : w.i <= n + 1 /\ Inv(w.range, w.at, w.i)}
           rank == [w \in P |-> n + 1 - w.i]
           start == [range |-> s, at |-> at, i |-> p]
           last == Loop(States, step)[start]
<1>0. DOMAIN s = 1..n /\ Ranges(s) = Rows(n) /\ \A k \in 1..n : s[k] = k
    BY NamedIs DEF Ranges, Rows
<1>1. Gather(s, at, p, l, T, "move") = Result(last.range, last.at)
    BY DEF Gather
<1>e. ASSUME NEW w \in States
      PROVE  /\ w.range \in Rows(n) /\ w.at \in Nat /\ w.i \in Nat /\ w.at \in at..(w.i - 1)
             /\ w = [range |-> w.range, at |-> w.at, i |-> w.i]
    BY <1>0
<1>t. ASSUME NEW x \in Rows(n), NEW a \in Nat, NEW b \in Nat, a \in at..(b - 1)
      PROVE  [range |-> x, at |-> a, i |-> b] \in States
    BY <1>0, <1>t
<1>p. \A w : /\ w \in G <=> w \in States /\ w.i < n + 1
             /\ w \in P <=> w \in States /\ w.i <= n + 1 /\ Inv(w.range, w.at, w.i)
    OBVIOUS
<1> HIDE DEF States, G, P
<1>2. start \in P
    <2>1. start \in States
        BY <1>t
    <2>2. Inv(s, at, at + 1)
        BY <1>0
    <2>3. start.range = s /\ start.at = at /\ start.i = at + 1 /\ at + 1 <= n + 1
        OBVIOUS
    <2> HIDE DEF Inv, start
    <2> QED
        BY <2>1, <2>2, <2>3, <1>p
<1>3. ASSUME NEW w \in G
      PROVE  /\ Step(w) \in States /\ Step(w).i = w.i + 1
             /\ w \in P => Step(w) \in P
    <2> DEFINE x == w.range
               a == w.at
               b == w.i
               q == Move(x, a, b)
    <2>1. w \in States /\ x \in Rows(n) /\ a \in at..(b - 1) /\ b \in 1..n /\ a \in 1..n
        BY <1>p, <1>e
    <2>2. w.range = x /\ w.at = a /\ w.i = b /\ w = [range |-> x, at |-> a, i |-> b]
        BY <1>p, <1>e
    <2>3. CASE x[b] \in T
        <3> DEFINE u == [range |-> q, at |-> a + 1, i |-> b + 1]
        <3>1. Step(w) = u
            BY <2>3
        <3> HIDE DEF x, a, b, Step
        <3>2. /\ q \in Rows(n) /\ q[a] = x[b] /\ q[b] = 0
              /\ \A k \in 1..n : k # a /\ k # b => q[k] = x[k]
            <4>1. a # b
                BY <2>1
            <4> QED
                BY <2>1, <4>1, MoveType
        <3> HIDE DEF q
        <3>4. u \in States
            <4>1. a + 1 \in Nat /\ b + 1 \in Nat /\ a + 1 \in at..((b + 1) - 1)
                BY <2>1
            <4> QED
                BY <4>1, <3>2, <1>t
        <3>5. u.range = q /\ u.at = a + 1 /\ u.i = b + 1
            OBVIOUS
        <3> HIDE DEF u
        <3>6. ASSUME Inv(x, a, b) PROVE Inv(q, a + 1, b + 1)
            <4>0. x[b] = b
                BY <3>6, <2>1
            <4>1. \A k \in (b + 1)..n : q[k] = k
                BY <2>1, <3>2, <3>6
            <4>2. \A k \in 1..n : q[k] <= n
                BY <2>1, <3>2, <3>6, <4>0
            <4>3. \A k \in 1..((a + 1) - 1) : q[k] \in 1..((b + 1) - 1) /\ q[k] \in T
                BY <2>1, <2>3, <3>2, <3>6, <4>0
            <4>4. ASSUME NEW j \in 1..((a + 1) - 1), NEW k \in 1..((a + 1) - 1), j < k PROVE q[j] < q[k]
                <5>1. j \in 1..(a - 1) /\ q[j] = x[j] /\ x[j] \in 1..(b - 1)
                    BY <4>4, <2>1, <3>2, <3>6
                <5> QED
                    BY <4>4, <5>1, <2>1, <3>2, <3>6, <4>0
            <4>5. ASSUME NEW k \in 1..((b + 1) - 1), k \in T PROVE \E j \in 1..((a + 1) - 1) : q[j] = k
                <5>1. CASE k = b
                    BY <5>1, <2>1, <3>2, <4>0
                <5>2. CASE k # b
                    <6>1. PICK j \in 1..(a - 1) : x[j] = k
                        BY <5>2, <4>5, <2>1, <3>6
                    <6>2. j \in 1..((a + 1) - 1) /\ q[j] = k
                        BY <6>1, <2>1, <3>2
                    <6> QED
                        BY <6>2
                <5> QED
                    BY <5>1, <5>2
            <4> QED
                BY <4>1, <4>2, <4>3, <4>4, <4>5
        <3>7. w \in P => u \in P
            <4>1. b + 1 <= n + 1
                BY <2>1
            <4> HIDE DEF Inv
            <4> QED
                BY <4>1, <3>4, <3>5, <3>6, <2>2, <1>p
        <3> QED
            BY <3>1, <3>4, <3>5, <3>7, <2>2
    <2>4. CASE x[b] \notin T
        <3> DEFINE u == [range |-> x, at |-> a, i |-> b + 1]
        <3>1. Step(w) = u
            BY <2>4, <2>2
        <3> HIDE DEF x, a, b, Step
        <3>4. u \in States
            <4>1. a \in Nat /\ b + 1 \in Nat /\ a \in at..((b + 1) - 1)
                BY <2>1
            <4> QED
                BY <4>1, <2>1, <1>t
        <3>5. u.range = x /\ u.at = a /\ u.i = b + 1
            OBVIOUS
        <3> HIDE DEF u
        <3>6. ASSUME Inv(x, a, b) PROVE Inv(x, a, b + 1)
            <4>0. x[b] = b
                BY <3>6, <2>1
            <4>1. \A k \in (b + 1)..n : x[k] = k
                BY <2>1, <3>6
            <4>3. \A k \in 1..(a - 1) : x[k] \in 1..((b + 1) - 1) /\ x[k] \in T
                BY <2>1, <3>6
            <4>5. ASSUME NEW k \in 1..((b + 1) - 1), k \in T PROVE \E j \in 1..(a - 1) : x[j] = k
                <5>1. k \in 1..(b - 1)
                    BY <4>5, <4>0, <2>4, <2>1
                <5> QED
                    BY <5>1, <4>5, <3>6
            <4> QED
                BY <4>1, <4>3, <4>5, <3>6
        <3>7. w \in P => u \in P
            <4>1. b + 1 <= n + 1
                BY <2>1
            <4> HIDE DEF Inv
            <4> QED
                BY <4>1, <3>4, <3>5, <3>6, <2>2, <1>p
        <3> QED
            BY <3>1, <3>4, <3>5, <3>7, <2>2
    <2> QED
        BY <2>3, <2>4
<1>4. Descends(States, G, step, P, rank)
    <2>1. G \subseteq States /\ P \subseteq States /\ step \in [G -> States] /\ rank \in [P -> Nat]
        <3> HIDE DEF Step, Inv
        <3> QED
            BY <1>3, <1>p, <1>e
    <2>2. ASSUME NEW v \in P \cap G PROVE step[v] \in P /\ rank[step[v]] < rank[v]
        <3> HIDE DEF Step
        <3>1. step[v] = Step(v) /\ Step(v) \in P /\ v.i \in Int
            BY <1>3, <1>p, <1>e
        <3> QED
            BY <3>1, <1>3
    <2> HIDE DEF step, rank
    <2> QED
        BY <2>1, <2>2 DEF Descends
<1>5. last \in P /\ last \notin G
    <2> HIDE DEF start, step, rank
    <2> QED
        BY <1>2, <1>4, LoopLeaves
<1> HIDE DEF last
<1>6. last.i = n + 1 /\ last.range \in Rows(n) /\ last.at \in at..n
    BY <1>5, <1>p, <1>e
<1>7. r = Result(r.range, r.at) /\ r.range = last.range /\ r.at = last.at
    <2>1. r = Result(last.range, last.at)
        BY <1>1
    <2> QED
        BY <2>1, ResultIs
<1> DEFINE x == r.range
           a == r.at
<1>8. x \in Rows(n) /\ a \in at..n /\ Inv(x, a, n + 1)
    BY <1>5, <1>6, <1>7, <1>p
<1> HIDE DEF x, a
<1>9. Within(x, 1, a) = (1..n) \cap T
    <2>1. ASSUME NEW k \in 1..(a - 1) PROVE x[k] \in (1..n) \cap T
        BY <1>8
    <2>2. ASSUME NEW k \in (1..n) \cap T PROVE \E j \in 1..(a - 1) : x[j] = k
        BY <1>8
    <2> QED
        BY <2>1, <2>2 DEF Within
<1>10. ASSUME NEW j \in 1..(a - 1), NEW k \in 1..(a - 1), x[j] = x[k] PROVE j = k
    <2>1. x[j] \in Nat /\ x[k] \in Nat
        BY <1>8
    <2>2. ~(j < k) /\ ~(k < j)
        BY <1>8, <1>10, <2>1
    <2> QED
        BY <2>2
<1> QED
    BY <1>7, <1>8, <1>9, <1>10 DEF Keeps, InOrder, x, a

\* remove_if keeps those not in T, in their order.
LEMMA RemoveIfIs ==
    ASSUME NEW n \in Nat, NEW T, NEW s, s = Named(n), NEW r, r = RemoveIf(s, 1, n + 1, T)
    PROVE  Keeps(r, n, (1..n) \ T) /\ InOrder(r.range, 1, r.at) /\ r = Result(r.range, r.at)
<1> DEFINE i == FirstIn(s, 1, n + 1, T)
<1>0. s \in Rows(n) /\ Len(s) = n /\ \A k \in 1..n : s[k] = k
    BY NamedIs
<1>1. /\ i \in 1..(n + 1) /\ (i # n + 1 => s[i] \in T)
      /\ \A k \in 1..(i - 1) : s[k] \notin T
    <2>1. 1 \in Nat /\ n + 1 \in Nat /\ 1 <= n + 1
        OBVIOUS
    <2> QED
        BY <2>1, FirstInIs
<1>2. CASE i = n + 1
    <2>1. r = Result(s, n + 1)
        BY <1>2 DEF RemoveIf
    <2>2. r = Result(r.range, r.at) /\ r.range = s /\ r.at = n + 1
        BY <2>1, ResultIs
    <2> HIDE DEF i
    <2>3. Within(s, 1, n + 1) = (1..n) \ T
        <3>1. \A k \in 1..n : k \notin T
            BY <1>0, <1>1, <1>2
        <3> QED
            BY <3>1, NamedIs
    <2> QED
        BY <2>2, <2>3, <1>0 DEF Keeps, InOrder
<1>3. CASE i # n + 1
    <2> DEFINE p == i + 1
               l == n + 1
               K == (1..n) \ T
    <2>1. r = Gather(s, i, p, l, K, "move")
        BY <1>3, <1>0 DEF RemoveIf
    <2>2. p = i + 1 /\ l = n + 1 /\ K = (1..n) \ T
        OBVIOUS
    <2> HIDE DEF i, p, l, K
    <2>3. i \in 1..n /\ i \notin K /\ \A k \in 1..(i - 1) : k \in K
        BY <1>0, <1>1, <1>3, <2>2
    <2>4. Keeps(r, n, (1..n) \cap K) /\ InOrder(r.range, 1, r.at) /\ r = Result(r.range, r.at)
        <3>1. s \in Rows(n)
            BY <1>0
        <3>2. i \in 1..n
            BY <2>3
        <3>3. i \notin K
            BY <2>3
        <3>4. \A k \in 1..(i - 1) : k \in K
            BY <2>3
        <3>5. p = i + 1 /\ l = n + 1
            BY <2>2
        <3> QED
            BY <2>1, <3>1, <3>2, <3>3, <3>4, <3>5, GatherMoves
    <2>5. (1..n) \cap K = (1..n) \ T
        BY <2>2
    <2> QED
        BY <2>4, <2>5
<1> QED
    BY <1>2, <1>3

\* unstable_remove_if keeps them, in whatever order.
LEMMA UnstableRemoveIfIs ==
    ASSUME NEW n \in Nat, NEW T, NEW s, s = Named(n), NEW e, e = n + 1,
           NEW res, res = UnstableRemoveIf(s, 1, e, T)
    PROVE  Keeps(res, n, (1..n) \ T) /\ res = Result(res.range, res.at)
<1> DEFINE f == 1
           l == e
           States == {w \in [range : Ranges(s), f : f..l, l : f..l] : w.f <= w.l}
           In(w) == FirstIn(w.range, w.f, w.l, T)
           Out(w) == LastOut(w.range, In(w) + 1, w.l, T)
           G == {v \in States : In(v) # v.l /\ Out(v) # In(v)}
           Step(w) == [range |-> Move(w.range, In(w), Out(w)), f |-> In(w) + 1, l |-> Out(w)]
           step == [w \in G |-> Step(w)]
           Inv(x, a, b) == /\ \A k \in a..(b - 1) : x[k] = k
                           /\ \A k \in 1..n : x[k] <= n
                           /\ \A k \in 1..(a - 1) : x[k] \in (1..n) \ T /\ (x[k] = k \/ x[k] >= b)
                           /\ \A j, k \in 1..(a - 1) : x[j] = x[k] => j = k
                           /\ \A k \in (1..n) \ T : k \in a..(b - 1) \/ \E j \in 1..(a - 1) : x[j] = k
           P == {w \in States : Inv(w.range, w.f, w.l)}
           rank == [w \in P |-> w.l - w.f]
           start == [range |-> s, f |-> f, l |-> l]
           last == Loop(States, step)[start]
<1>0. /\ DOMAIN s = 1..n /\ Ranges(s) = Rows(n) /\ s \in Rows(n) /\ \A k \in 1..n : s[k] = k
      /\ e = n + 1
    BY NamedIs DEF Ranges, Rows
<1>1. UnstableRemoveIf(s, 1, e, T) = Result(last.range, In(last))
    BY DEF UnstableRemoveIf
<1>e. ASSUME NEW w \in States
      PROVE  w.range \in Rows(n) /\ w.f \in 1..(n + 1) /\ w.l \in 1..(n + 1) /\ w.f <= w.l
    BY <1>0
<1>t. ASSUME NEW x \in Rows(n), NEW a \in 1..(n + 1), NEW b \in 1..(n + 1), a <= b
      PROVE  [range |-> x, f |-> a, l |-> b] \in States
    BY <1>0, <1>t
<1>p. \A w : /\ w \in G <=> w \in States /\ In(w) # w.l /\ Out(w) # In(w)
             /\ w \in P <=> w \in States /\ Inv(w.range, w.f, w.l)
    OBVIOUS
<1> HIDE DEF States, G, P
<1>2. start \in P
    <2>1. start \in States
        BY <1>t, <1>0
    <2>2. Inv(s, 1, e)
        BY <1>0
    <2>3. start.range = s /\ start.f = 1 /\ start.l = e
        OBVIOUS
    <2> HIDE DEF Inv, start
    <2> QED
        BY <2>1, <2>2, <2>3, <1>p
<1>o. ASSUME NEW w \in States
      PROVE  /\ In(w) \in w.f..w.l /\ In(w) \in 1..(n + 1)
             /\ In(w) # w.l => w.range[In(w)] \in T
             /\ \A i \in w.f..(In(w) - 1) : w.range[i] \notin T
    <2>1. w.f \in Nat /\ w.l \in Nat /\ w.f <= w.l /\ w.f \in 1..(n + 1) /\ w.l \in 1..(n + 1)
        BY <1>e
    <2>2. /\ In(w) \in w.f..w.l
          /\ In(w) # w.l => w.range[In(w)] \in T
          /\ \A i \in w.f..(In(w) - 1) : w.range[i] \notin T
        BY <2>1, FirstInIs
    <2> HIDE DEF In
    <2> QED
        BY <2>1, <2>2
<1>n. ASSUME NEW w \in States, In(w) # w.l
      PROVE  /\ Out(w) \in In(w)..(w.l - 1)
             /\ Out(w) # In(w) => w.range[Out(w)] \notin T
             /\ \A i \in (Out(w) + 1)..(w.l - 1) : w.range[i] \in T
    <2>1. w.l \in Nat /\ In(w) + 1 \in Nat \ {0} /\ In(w) + 1 <= w.l /\ (In(w) + 1) - 1 = In(w)
        <3> HIDE DEF In
        <3> QED
            BY <1>e, <1>o, <1>n
    <2>2. /\ Out(w) \in ((In(w) + 1) - 1)..(w.l - 1)
          /\ Out(w) # (In(w) + 1) - 1 => w.range[Out(w)] \notin T
          /\ \A i \in (Out(w) + 1)..(w.l - 1) : i >= In(w) + 1 => w.range[i] \in T
        <3> HIDE DEF In
        <3> QED
            BY <2>1, LastOutIs
    <2> HIDE DEF Out, In
    <2> QED
        BY <2>1, <2>2
<1>3. ASSUME NEW w \in G
      PROVE  /\ Step(w) \in States /\ Step(w).l - Step(w).f < w.l - w.f
             /\ w \in P => Step(w) \in P
    <2> DEFINE x == w.range
               c == w.f
               d == w.l
               a == In(w)
               b == Out(w)
               q == Move(x, a, b)
               u == [range |-> q, f |-> a + 1, l |-> b]
    <2>1. /\ w \in States /\ x \in Rows(n) /\ c \in 1..(n + 1) /\ d \in 1..(n + 1)
          /\ a \in c..(d - 1) /\ b \in (a + 1)..(d - 1)
          /\ x[a] \in T /\ x[b] \notin T
          /\ \A i \in c..(a - 1) : x[i] \notin T
          /\ \A i \in (b + 1)..(d - 1) : x[i] \in T
        <3>1. w \in States /\ a # w.l /\ b # a
            BY <1>p
        <3>2. w.f \in Nat /\ w.l \in Nat
            BY <3>1, <1>e
        <3> HIDE DEF Out, In
        <3> QED
            BY <3>1, <3>2, <1>e, <1>o, <1>n
    <2>2. u = Step(w) /\ w.range = x /\ w.f = c /\ w.l = d
        OBVIOUS
    <2> HIDE DEF x, a, b, c, d, Step
    <2>3. a \in 1..n /\ b \in 1..n /\ a # b
        BY <2>1
    <2>4. /\ q \in Rows(n) /\ q[a] = x[b] /\ q[b] = 0
          /\ \A k \in 1..n : k # a /\ k # b => q[k] = x[k]
        BY <2>1, <2>3, MoveType
    <2> HIDE DEF q
    <2>6. u \in States
        <3>1. a + 1 \in 1..(n + 1) /\ b \in 1..(n + 1) /\ a + 1 <= b
            BY <2>1, <2>3
        <3> QED
            BY <3>1, <2>4, <1>t
    <2>7. u.range = q /\ u.f = a + 1 /\ u.l = b
        OBVIOUS
    <2> HIDE DEF u
    <2>8. ASSUME Inv(x, c, d) PROVE Inv(q, a + 1, b)
        <3>0. x[b] = b /\ x[a] = a
            BY <2>8, <2>1
        <3>1. \A k \in (a + 1)..(b - 1) : q[k] = k
            BY <2>8, <2>1, <2>3, <2>4
        <3>2. \A k \in 1..n : q[k] <= n
            BY <2>8, <2>1, <2>3, <2>4, <3>0
        <3>3. ASSUME NEW k \in 1..((a + 1) - 1)
              PROVE  q[k] \in (1..n) \ T /\ (q[k] = k \/ q[k] >= b)
                     /\ (k # a => q[k] = x[k] /\ (q[k] = k \/ q[k] >= d)) /\ (k = a => q[k] = b)
            <4>1. CASE k = a
                BY <4>1, <2>1, <2>3, <2>4, <3>0
            <4>2. CASE k \in c..(a - 1)
                <5>1. q[k] = x[k] /\ x[k] = k /\ x[k] \notin T
                    BY <4>2, <2>8, <2>1, <2>3, <2>4
                <5> QED
                    BY <4>2, <5>1, <2>1, <2>3
            <4>3. CASE k < c
                <5>1. k \in 1..(c - 1) /\ k \in 1..n /\ k # a /\ k # b
                    BY <4>3, <2>1, <2>3
                <5>2. x[k] \in (1..n) \ T /\ (x[k] = k \/ x[k] >= d)
                    BY <5>1, <2>8
                <5>3. q[k] = x[k]
                    BY <5>1, <2>4
                <5> QED
                    BY <5>1, <5>2, <5>3, <2>1
            <4> QED
                BY <4>1, <4>2, <4>3, <2>1
        <3>4. ASSUME NEW j \in 1..((a + 1) - 1), NEW k \in 1..((a + 1) - 1), q[j] = q[k] PROVE j = k
            <4>1. CASE j = a \/ k = a
                BY <4>1, <3>3, <3>4, <2>1, <2>3
            <4>2. CASE j # a /\ k # a
                <5>1. q[j] = x[j] /\ q[k] = x[k] /\ (x[j] = j \/ x[j] >= d) /\ (x[k] = k \/ x[k] >= d)
                    BY <4>2, <3>3
                <5>2. CASE j < c /\ k < c
                    <6>1. j \in 1..(c - 1) /\ k \in 1..(c - 1)
                        BY <5>2, <2>1
                    <6> QED
                        BY <6>1, <5>1, <3>4, <2>8
                <5>3. CASE j >= c
                    <6>1. x[j] = j /\ j < d
                        BY <5>3, <2>8, <2>1
                    <6> QED
                        BY <5>1, <6>1, <3>4, <2>1
                <5>4. CASE k >= c
                    <6>1. x[k] = k /\ k < d
                        BY <5>4, <2>8, <2>1
                    <6> QED
                        BY <5>1, <6>1, <3>4, <2>1
                <5> QED
                    BY <5>2, <5>3, <5>4, <2>1
            <4> QED
                BY <4>1, <4>2
        <3>5. ASSUME NEW k \in (1..n) \ T, k \notin (a + 1)..(b - 1)
              PROVE  \E j \in 1..((a + 1) - 1) : q[j] = k
            <4>1. CASE k = b
                BY <4>1, <2>1, <2>3, <2>4, <3>0
            <4>2. CASE k # b /\ k \in c..(d - 1)
                <5>1. k \in c..(a - 1)
                    <6>1. x[k] = k
                        BY <4>2, <2>8
                    <6>2. k # a
                        BY <2>1, <3>0
                    <6>3. k \notin (b + 1)..(d - 1)
                        BY <6>1, <2>1
                    <6> QED
                        BY <6>2, <6>3, <3>5, <4>2, <2>1, <2>3
                <5>2. q[k] = k /\ k \in 1..((a + 1) - 1)
                    BY <5>1, <2>1, <2>3, <2>4, <2>8
                <5> QED
                    BY <5>2
            <4>3. CASE k \notin c..(d - 1)
                <5>1. PICK j \in 1..(c - 1) : x[j] = k
                    BY <4>3, <2>8
                <5>2. j \in 1..((a + 1) - 1) /\ q[j] = k
                    BY <5>1, <2>1, <2>3, <2>4
                <5> QED
                    BY <5>2
            <4> QED
                BY <4>1, <4>2, <4>3
        <3>6. \A k \in 1..((a + 1) - 1) : q[k] \in (1..n) \ T /\ (q[k] = k \/ q[k] >= b)
            BY <3>3
        <3> QED
            BY <3>1, <3>2, <3>4, <3>5, <3>6
    <2>9. u.l - u.f < w.l - w.f
        BY <2>7, <2>2, <2>1
    <2>10. w \in P => u \in P
        <3> HIDE DEF Inv
        <3> QED
            BY <2>2, <2>6, <2>7, <2>8, <1>p
    <2> QED
        BY <2>2, <2>6, <2>9, <2>10
<1>4. Descends(States, G, step, P, rank)
    <2>1. G \subseteq States /\ P \subseteq States /\ step \in [G -> States] /\ rank \in [P -> Nat]
        <3> HIDE DEF Step, Inv
        <3> QED
            BY <1>3, <1>p, <1>e
    <2>2. ASSUME NEW v \in P \cap G PROVE step[v] \in P /\ rank[step[v]] < rank[v]
        <3> HIDE DEF Step
        <3>1. step[v] = Step(v) /\ Step(v) \in P
            BY <1>3
        <3> QED
            BY <3>1, <1>3
    <2> HIDE DEF step, rank
    <2> QED
        BY <2>1, <2>2 DEF Descends
<1>5. last \in P /\ last \notin G
    <2> HIDE DEF start, step, rank
    <2> QED
        BY <1>2, <1>4, LoopLeaves
<1> HIDE DEF last
<1> DEFINE at == In(last)
           x == last.range
           c == last.f
           d == last.l
<1>6. /\ x \in Rows(n) /\ c \in 1..(n + 1) /\ d \in 1..(n + 1) /\ at \in c..d
      /\ Inv(x, c, d)
      /\ \A i \in c..(at - 1) : x[i] \notin T
      /\ at = d \/ (x[at] \in T /\ \A i \in (at + 1)..(d - 1) : x[i] \in T)
    <2>1. /\ last \in States /\ x \in Rows(n) /\ c \in 1..(n + 1) /\ d \in 1..(n + 1)
          /\ Inv(x, c, d)
        <3> HIDE DEF Inv
        <3> QED
            BY <1>5, <1>p, <1>e
    <2>2. /\ at \in c..d
          /\ at # d => x[at] \in T
          /\ \A i \in c..(at - 1) : x[i] \notin T
        BY <2>1, <1>o
    <2>3. at # d => \A i \in (at + 1)..(d - 1) : x[i] \in T
        <3> SUFFICES ASSUME at # d PROVE \A i \in (at + 1)..(d - 1) : x[i] \in T
            OBVIOUS
        <3>1. Out(last) = at
            <4> HIDE DEF In, Out
            <4> QED
                BY <1>5, <1>p, <2>1
        <3>2. \A i \in (Out(last) + 1)..(d - 1) : x[i] \in T
            BY <2>1, <1>n
        <3> HIDE DEF In, Out
        <3> QED
            BY <3>1, <3>2
    <2> HIDE DEF Inv, at, x, c, d
    <2> QED
        BY <2>1, <2>2, <2>3
<1>7. res = Result(res.range, res.at) /\ res.range = x /\ res.at = at
    <2>1. res = Result(x, at)
        BY <1>1
    <2> HIDE DEF x, at
    <2> QED
        BY <2>1, ResultIs
<1> HIDE DEF x, at, c, d
<1>8. \A k \in 1..(at - 1) : x[k] \in (1..n) \ T
    <2> SUFFICES ASSUME NEW k \in 1..(at - 1) PROVE x[k] \in (1..n) \ T
        OBVIOUS
    <2>1. CASE k \in c..(at - 1)
        BY <2>1, <1>6
    <2>2. CASE k < c
        <3>1. k \in 1..(c - 1)
            BY <2>2, <1>6
        <3> QED
            BY <3>1, <1>6
    <2> QED
        BY <2>1, <2>2, <1>6
<1>9. ASSUME NEW j \in 1..(at - 1), NEW k \in 1..(at - 1), x[j] = x[k] PROVE j = k
    <2>1. CASE j < c /\ k < c
        <3>1. j \in 1..(c - 1) /\ k \in 1..(c - 1)
            BY <2>1, <1>6
        <3> QED
            BY <3>1, <1>6, <1>9
    <2>2. CASE j >= c /\ k >= c
        BY <2>2, <1>6, <1>9
    <2>3. CASE j >= c /\ k < c
        <3>1. x[j] = j /\ j < d /\ k \in 1..(c - 1)
            BY <2>3, <1>6
        <3>2. x[k] = k \/ x[k] >= d
            BY <3>1, <1>6
        <3> QED
            BY <3>1, <3>2, <2>3, <1>9, <1>6
    <2>4. CASE k >= c /\ j < c
        <3>1. x[k] = k /\ k < d /\ j \in 1..(c - 1)
            BY <2>4, <1>6
        <3>2. x[j] = j \/ x[j] >= d
            BY <3>1, <1>6
        <3> QED
            BY <3>1, <3>2, <2>4, <1>9, <1>6
    <2> QED
        BY <2>1, <2>2, <2>3, <2>4, <1>6
<1>10. ASSUME NEW k \in (1..n) \ T PROVE \E j \in 1..(at - 1) : x[j] = k
    <2>1. CASE k \in c..(d - 1)
        <3>1. x[k] = k
            BY <2>1, <1>6
        <3>2. k < at
            <4>1. CASE at = d
                BY <4>1, <2>1, <1>6
            <4>2. CASE at # d
                <5>1. k # at /\ k \notin (at + 1)..(d - 1)
                    BY <4>2, <3>1, <1>6
                <5> QED
                    BY <5>1, <2>1, <1>6
            <4> QED
                BY <4>1, <4>2
        <3>3. k \in 1..(at - 1)
            BY <3>2, <1>6
        <3> QED
            BY <3>1, <3>3
    <2>2. CASE k \notin c..(d - 1)
        <3>1. PICK j \in 1..(c - 1) : x[j] = k
            BY <2>2, <1>6
        <3>2. j \in 1..(at - 1)
            BY <3>1, <1>6
        <3> QED
            BY <3>1, <3>2
    <2> QED
        BY <2>1, <2>2
<1>11. Within(x, 1, at) = (1..n) \ T
    BY <1>8, <1>10 DEF Within
<1>12. at \in 1..(n + 1) /\ \A k \in 1..n : x[k] <= n
    BY <1>6
<1> QED
    BY <1>6, <1>7, <1>9, <1>11, <1>12 DEF Keeps

\* adjacent_remove_if keeps the last of each run of related elements.
LEMMA AdjacentRemoveIfIs ==
    ASSUME NEW n \in Nat, NEW related, NEW s, s = Named(n), NEW e, e = n + 1,
           NEW res, res = AdjacentRemoveIf(s, 1, e, related)
    PROVE  /\ Keeps(res, n, {k \in 1..n : k = n \/ <<k, k + 1>> \notin related})
           /\ InOrder(res.range, 1, res.at) /\ res = Result(res.range, res.at)
<1> DEFINE K == {k \in 1..n : k = n \/ <<k, k + 1>> \notin related}
           l == e
           R(x, k) == <<x[k], x[k + 1]>> \in related
           Starts == {l} \cup {k \in 1..(l - 2) : R(s, k)}
           i == Min(Starts)
           States == {w \in [range : Ranges(s), at : Nat, j : (i + 2)..l] : w.at \in i..(w.j - 2)}
           G == {v \in States : v.j < l}
           Step(w) == IF <<w.range[w.j - 1], w.range[w.j]>> \in related THEN [w EXCEPT !.j = w.j + 1]
                      ELSE [range |-> Move(w.range, w.at, w.j - 1), at |-> w.at + 1, j |-> w.j + 1]
           step == [w \in G |-> Step(w)]
           Inv(x, a, b) == /\ \A k \in (b - 1)..n : x[k] = k
                           /\ \A k \in 1..n : x[k] <= n
                           /\ \A k \in 1..(a - 1) : x[k] \in K /\ x[k] < b - 1
                           /\ \A j, k \in 1..(a - 1) : j < k => x[j] < x[k]
                           /\ \A k \in K : k < b - 1 => \E j \in 1..(a - 1) : x[j] = k
           P == {w \in States : Inv(w.range, w.at, w.j)}
           rank == [w \in P |-> l - w.j]
           start == [range |-> s, at |-> i, j |-> i + 2]
           last == Loop(States, step)[start]
<1>0. /\ DOMAIN s = 1..n /\ Ranges(s) = Rows(n) /\ s \in Rows(n) /\ \A k \in 1..n : s[k] = k
      /\ e = n + 1
    BY NamedIs DEF Ranges, Rows
<1>1. AdjacentRemoveIf(s, 1, e, related) =
          IF i = l THEN Result(s, l) ELSE Result(Move(last.range, last.at, l - 1), last.at + 1)
    BY DEF AdjacentRemoveIf
<1>2. /\ i \in 1..(n + 1) /\ (i # n + 1 => i \in 1..(n - 1) /\ i \notin K)
      /\ \A k \in 1..n : k < i => k \in K
    <2>1. Starts \in SUBSET Nat /\ Starts # {}
        <3>1. l \in Nat /\ 1..(l - 2) \subseteq Nat
            BY <1>0
        <3> HIDE DEF l, R
        <3> QED
            BY <3>1
    <2>2. i \in Starts /\ \A y \in Starts : i <= y
        <3> HIDE DEF Starts
        <3> QED
            BY <2>1, MinIs
    <2>3. \A k \in 1..(n - 1) : R(s, k) <=> <<k, k + 1>> \in related
        BY <1>0
    <2> HIDE DEF i, R
    <2>4. i = n + 1 \/ (i \in 1..(n - 1) /\ R(s, i))
        BY <2>2, <1>0
    <2>5. i \in 1..(n + 1) /\ (i # n + 1 => i \in 1..(n - 1) /\ i \notin K)
        BY <2>3, <2>4
    <2>6. ASSUME NEW k \in 1..n, k < i PROVE k \in K
        <3> SUFFICES ASSUME k # n PROVE <<k, k + 1>> \notin related
            OBVIOUS
        <3>1. k \in 1..(n - 1) /\ k \notin Starts
            BY <2>2, <2>5, <2>6
        <3>2. ~R(s, k)
            BY <3>1, <1>0
        <3> QED
            BY <3>1, <3>2, <2>3
    <2> QED
        BY <2>5, <2>6
<1>3. CASE i = n + 1
    <2>1. res = Result(s, l)
        BY <1>1, <1>3, <1>0
    <2>2. res = Result(res.range, res.at) /\ res.range = s /\ res.at = n + 1
        BY <2>1, ResultIs, <1>0
    <2>3. K = 1..n
        <3> HIDE DEF i
        <3> QED
            BY <1>2, <1>3
    <2>4. Within(s, 1, n + 1) = K
        <3> HIDE DEF K
        <3> QED
            BY <2>3, NamedIs
    <2> HIDE DEF K, i
    <2>5. Keeps(res, n, K) /\ InOrder(res.range, 1, res.at)
        BY <2>2, <2>4, <1>0 DEF Keeps, InOrder
    <2> QED
        BY <2>2, <2>5 DEF K
<1>4. CASE i # n + 1
    <2>1. i \in 1..(n - 1) /\ i \notin K /\ \A k \in 1..n : k < i => k \in K
        <3> HIDE DEF i, K
        <3> QED
            BY <1>2, <1>4
    <2>2. res = Result(Move(last.range, last.at, l - 1), last.at + 1)
        BY <1>1, <1>4, <1>0
    <2> HIDE DEF i
    <2>e. ASSUME NEW w \in States
          PROVE  /\ w.range \in Rows(n) /\ w.at \in Nat /\ w.j \in (i + 2)..(n + 1) /\ w.at \in i..(w.j - 2)
                 /\ w = [range |-> w.range, at |-> w.at, j |-> w.j]
        BY <1>0
    <2>t. ASSUME NEW x \in Rows(n), NEW a \in Nat, NEW b \in (i + 2)..(n + 1), a \in i..(b - 2)
          PROVE  [range |-> x, at |-> a, j |-> b] \in States
        BY <1>0, <2>t
    <2>p. \A w : /\ w \in G <=> w \in States /\ w.j < n + 1
                 /\ w \in P <=> w \in States /\ Inv(w.range, w.at, w.j)
        BY <1>0
    <2> HIDE DEF States, G, P
    <2>3. start \in P
        <3>1. start \in States
            <4>1. i \in Nat /\ i + 2 \in (i + 2)..(n + 1) /\ i \in i..((i + 2) - 2)
                BY <2>1
            <4> QED
                BY <2>t, <4>1, <1>0
        <3>2. Inv(s, i, i + 2)
            <4>1. \A k \in K : k < (i + 2) - 1 => k \in 1..(i - 1)
                BY <2>1
            <4> HIDE DEF K
            <4> QED
                BY <1>0, <2>1, <4>1
        <3>3. start.range = s /\ start.at = i /\ start.j = i + 2
            OBVIOUS
        <3> HIDE DEF Inv, start
        <3> QED
            BY <3>1, <3>2, <3>3, <2>p
    <2>k. \A k \in K : k \in 1..n
        OBVIOUS
    <2>4. ASSUME NEW w \in G
          PROVE  /\ Step(w) \in States /\ Step(w).j = w.j + 1
                 /\ w \in P => Step(w) \in P
        <3> DEFINE x == w.range
                   a == w.at
                   b == w.j
                   c == b - 1
                   q == Move(x, a, c)
        <3>1. w \in States /\ x \in Rows(n) /\ a \in i..(b - 2) /\ b \in (i + 2)..n
            BY <2>p, <2>e
        <3>2. w.range = x /\ w.at = a /\ w.j = b /\ w = [range |-> x, at |-> a, j |-> b]
            BY <2>p, <2>e
        <3>3. CASE <<x[b - 1], x[b]>> \in related
            <4> DEFINE u == [range |-> x, at |-> a, j |-> b + 1]
            <4>1. Step(w) = u
                BY <3>3, <3>2
            <4> HIDE DEF x, a, b, Step
            <4>2. u \in States
                <5>1. a \in Nat /\ b + 1 \in (i + 2)..(n + 1) /\ a \in i..((b + 1) - 2)
                    BY <3>1, <2>1
                <5> QED
                    BY <5>1, <3>1, <2>t
            <4>3. u.range = x /\ u.at = a /\ u.j = b + 1
                OBVIOUS
            <4> HIDE DEF u
            <4>4. ASSUME Inv(x, a, b) PROVE Inv(x, a, b + 1)
                <5>0. x[b - 1] = b - 1 /\ x[b] = b /\ b - 1 \in 1..n /\ b - 1 # n
                    BY <4>4, <3>1, <2>1
                <5>1. b - 1 \notin K
                    <6>1. <<b - 1, (b - 1) + 1>> \in related
                        BY <5>0, <3>3, <3>1
                    <6> QED
                        BY <6>1, <5>0
                <5>2. \A k \in ((b + 1) - 1)..n : x[k] = k
                    BY <4>4, <3>1
                <5> HIDE DEF K
                <5>3. \A k \in 1..(a - 1) : x[k] \in K /\ x[k] < (b + 1) - 1
                    BY <4>4, <3>1, <2>k
                <5>4. ASSUME NEW k \in K, k < (b + 1) - 1 PROVE \E j \in 1..(a - 1) : x[j] = k
                    <6>1. k \in Int /\ k # b - 1
                        BY <5>1, <2>k
                    <6>2. k < b - 1
                        BY <6>1, <5>4, <3>1
                    <6> QED
                        BY <6>2, <4>4
                <5> QED
                    BY <4>4, <5>2, <5>3, <5>4
            <4>5. w \in P => u \in P
                <5> HIDE DEF Inv
                <5> QED
                    BY <4>2, <4>3, <4>4, <3>2, <2>p
            <4> QED
                BY <4>1, <4>2, <4>3, <4>5, <3>2
        <3>4. CASE <<x[b - 1], x[b]>> \notin related
            <4> DEFINE u == [range |-> q, at |-> a + 1, j |-> b + 1]
            <4>1. Step(w) = u
                BY <3>4, <3>2
            <4>c. c = b - 1
                OBVIOUS
            <4> HIDE DEF x, a, b, Step
            <4>0. c \in 1..n /\ a \in 1..n /\ a < c /\ b \in Int
                BY <3>1, <2>1
            <4> HIDE DEF c
            <4>6. /\ q \in Rows(n) /\ q[a] = x[c] /\ q[c] = 0
                  /\ \A k \in 1..n : k # a /\ k # c => q[k] = x[k]
                <5>1. a # c
                    BY <4>0
                <5> QED
                    BY <3>1, <4>0, <5>1, MoveType
            <4> HIDE DEF q
            <4>2. u \in States
                <5>1. a + 1 \in Nat /\ b + 1 \in (i + 2)..(n + 1) /\ a + 1 \in i..((b + 1) - 2)
                    BY <3>1, <2>1
                <5> QED
                    BY <5>1, <4>6, <2>t
            <4>3. u.range = q /\ u.at = a + 1 /\ u.j = b + 1
                OBVIOUS
            <4> HIDE DEF u
            <4>4. ASSUME Inv(x, a, b) PROVE Inv(q, a + 1, b + 1)
                <5>0. x[c] = c /\ x[b] = b
                    BY <4>4, <3>1, <4>0, <4>c
                <5>1. c \in K
                    <6>1. <<c, c + 1>> \notin related
                        BY <5>0, <3>4, <4>c, <4>0
                    <6> QED
                        BY <6>1, <4>0
                <5> HIDE DEF K
                <5>2. \A k \in ((b + 1) - 1)..n : q[k] = k
                    BY <4>4, <4>6, <4>0, <4>c, <3>1
                <5>3. ASSUME NEW k \in 1..((a + 1) - 1)
                      PROVE  q[k] \in K /\ q[k] < (b + 1) - 1 /\ (k = a => q[k] = c)
                             /\ (k < a => q[k] = x[k] /\ q[k] < c)
                    <6>1. CASE k = a
                        BY <6>1, <5>0, <5>1, <4>6, <4>0, <4>c
                    <6>2. CASE k < a
                        <7>1. q[k] = x[k] /\ x[k] \in K /\ x[k] < b - 1
                            BY <6>2, <4>0, <4>6, <4>4
                        <7> QED
                            BY <7>1, <6>2, <4>c, <4>0, <2>k
                    <6> QED
                        BY <6>1, <6>2, <4>0
                <5>4. ASSUME NEW j \in 1..((a + 1) - 1), NEW k \in 1..((a + 1) - 1), j < k
                      PROVE  q[j] < q[k]
                    <6>1. j < a /\ q[j] = x[j] /\ q[j] < c
                        BY <5>3, <5>4, <4>0
                    <6>2. CASE k = a
                        BY <6>1, <6>2, <5>3
                    <6>3. CASE k < a
                        <7>1. j \in 1..(a - 1) /\ k \in 1..(a - 1) /\ q[k] = x[k]
                            BY <6>1, <6>3, <5>3, <4>0
                        <7> QED
                            BY <7>1, <6>1, <5>4, <4>4
                    <6> QED
                        BY <6>2, <6>3, <4>0
                <5>5. ASSUME NEW k \in K, k < (b + 1) - 1 PROVE \E j \in 1..((a + 1) - 1) : q[j] = k
                    <6>1. CASE k = c
                        BY <6>1, <4>6, <5>0, <4>0
                    <6>2. CASE k # c
                        <7>1. k < b - 1
                            BY <6>2, <5>5, <4>c, <4>0, <2>k
                        <7>2. PICK j \in 1..(a - 1) : x[j] = k
                            BY <7>1, <4>4
                        <7>3. j \in 1..((a + 1) - 1) /\ q[j] = k
                            BY <7>2, <4>6, <4>0
                        <7> QED
                            BY <7>3
                    <6> QED
                        BY <6>1, <6>2
                <5>6. \A k \in 1..n : q[k] <= n
                    BY <4>4, <4>6, <4>0
                <5> QED
                    BY <5>2, <5>3, <5>4, <5>5, <5>6
            <4>5. w \in P => u \in P
                <5> HIDE DEF Inv
                <5> QED
                    BY <4>2, <4>3, <4>4, <3>2, <2>p
            <4> QED
                BY <4>1, <4>2, <4>3, <4>5, <3>2
        <3> QED
            BY <3>3, <3>4
    <2>5. Descends(States, G, step, P, rank)
        <3>1. G \subseteq States /\ P \subseteq States /\ step \in [G -> States] /\ rank \in [P -> Nat]
            <4> HIDE DEF Step, Inv
            <4> QED
                BY <2>4, <2>p, <2>e, <1>0, <2>1
        <3>2. ASSUME NEW v \in P \cap G PROVE step[v] \in P /\ rank[step[v]] < rank[v]
            <4> HIDE DEF Step
            <4>1. step[v] = Step(v) /\ Step(v) \in P /\ v.j \in Int
                BY <2>4, <2>p, <2>e, <2>1
            <4> QED
                BY <4>1, <2>4, <1>0
        <3> HIDE DEF step, rank
        <3> QED
            BY <3>1, <3>2 DEF Descends
    <2>6. last \in P /\ last \notin G
        <3> HIDE DEF start, step, rank
        <3> QED
            BY <2>3, <2>5, LoopLeaves
    <2> HIDE DEF last
    <2> DEFINE x == last.range
               a == last.at
               q == Move(x, a, n)
    <2>7. x \in Rows(n) /\ a \in 1..(n - 1) /\ Inv(x, a, n + 1)
        <3>1. last \in States /\ last.j = n + 1
            BY <2>6, <2>p, <2>e, <2>1
        <3> HIDE DEF Inv
        <3> QED
            BY <3>1, <2>6, <2>p, <2>e, <2>1
    <2>8. res = Result(res.range, res.at) /\ res.range = q /\ res.at = a + 1
        <3>0. l - 1 = n
            BY <1>0
        <3>1. res = Result(q, a + 1)
            BY <2>2, <3>0
        <3> HIDE DEF q, a
        <3> QED
            BY <3>1, ResultIs
    <2> HIDE DEF x, a
    <2>9. /\ q \in Rows(n) /\ q[a] = x[n] /\ q[n] = 0
          /\ \A k \in 1..n : k # a /\ k # n => q[k] = x[k]
        <3>1. a \in 1..n /\ n \in 1..n /\ a # n
            BY <2>7
        <3> QED
            BY <3>1, <2>7, MoveType
    <2> HIDE DEF q
    <2>10. x[n] = n /\ n \in K
        BY <2>7, <2>1
    <2> HIDE DEF K
    <2>11. ASSUME NEW k \in 1..a
           PROVE  q[k] \in K /\ (k = a => q[k] = n) /\ (k < a => q[k] = x[k] /\ q[k] < n)
        <3>1. CASE k = a
            BY <3>1, <2>9, <2>10
        <3>2. CASE k < a
            <4>1. q[k] = x[k] /\ x[k] \in K /\ x[k] < (n + 1) - 1
                BY <3>2, <2>9, <2>7
            <4> QED
                BY <4>1, <3>2, <2>7, <2>k
        <3> QED
            BY <3>1, <3>2, <2>7
    <2>12. ASSUME NEW j \in 1..a, NEW k \in 1..a, j < k PROVE q[j] < q[k]
        <3>1. j < a /\ q[j] = x[j] /\ q[j] < n
            BY <2>11, <2>12, <2>7
        <3>2. CASE k = a
            BY <3>1, <3>2, <2>11
        <3>3. CASE k < a
            <4>1. j \in 1..(a - 1) /\ k \in 1..(a - 1) /\ q[k] = x[k]
                BY <3>1, <3>3, <2>11, <2>7
            <4> QED
                BY <4>1, <3>1, <2>12, <2>7
        <3> QED
            BY <3>2, <3>3, <2>7
    <2>13. ASSUME NEW k \in K PROVE \E j \in 1..a : q[j] = k
        <3>1. CASE k = n
            BY <3>1, <2>9, <2>10, <2>7
        <3>2. CASE k # n
            <4>1. k < (n + 1) - 1
                BY <3>2, <2>k
            <4>2. PICK j \in 1..(a - 1) : x[j] = k
                BY <4>1, <2>7
            <4>3. j \in 1..a /\ q[j] = k
                BY <4>2, <2>9, <2>7
            <4> QED
                BY <4>3
        <3> QED
            BY <3>1, <3>2
    <2>14. \A k \in 1..n : q[k] <= n
        BY <2>7, <2>9, <2>10
    <2>15. (a + 1) - 1 = a /\ a + 1 \in 1..(n + 1) /\ a \in Int
        BY <2>7
    <2>16. Within(q, 1, a + 1) = K
        BY <2>11, <2>13, <2>15 DEF Within
    <2>17. ASSUME NEW j \in 1..a, NEW k \in 1..a, q[j] = q[k] PROVE j = k
        <3>1. q[j] \in Int /\ q[k] \in Int
            BY <2>11, <2>k
        <3>2. ~(j < k) /\ ~(k < j)
            BY <2>12, <2>17, <3>1
        <3> QED
            BY <3>2, <2>15
    <2>18. Keeps(res, n, K)
        BY <2>8, <2>9, <2>14, <2>15, <2>16, <2>17 DEF Keeps
    <2>19. InOrder(res.range, 1, res.at)
        BY <2>8, <2>12, <2>15 DEF InOrder
    <2> QED
        BY <2>8, <2>18, <2>19 DEF K
<1> QED
    BY <1>3, <1>4

-----------------------------------------------------------------------------
(* Recursion, and stable_partition through a buffer *)

\* B says by calls of lesser rank what a call of each state in S returns, and it
\* is Good, where what the calls return is.
Recurs(S, T, Good, F, rank, d, B) ==
    /\ F = {f \in [S -> T] : \A w \in S : <<w, f[w]>> \in Good}
    /\ rank \in [S -> Nat] /\ d \in F
    /\ \A w \in S : \A f \in F : B[<<w, f>>] \in T /\ <<w, B[<<w, f>>]>> \in Good
    /\ \A w \in S : \A f, g \in F :
           (\A v \in S : rank[v] < rank[w] => f[v] = g[v]) => B[<<w, f>>] = B[<<w, g>>]

\* A recursion whose calls are of lesser rank has a solution among the functions
\* that return what is Good.
LEMMA RecursionSolved ==
    ASSUME NEW S, NEW T, NEW Good, NEW F, NEW rank, NEW d, NEW B, Recurs(S, T, Good, F, rank, d, B)
    PROVE  \E f \in F : f = [w \in S |-> B[<<w, f>>]]
<1> SUFFICES ASSUME F = {f \in [S -> T] : \A w \in S : <<w, f[w]>> \in Good},
                    rank \in [S -> Nat], d \in F,
                    \A w \in S : \A f \in F : B[<<w, f>>] \in T /\ <<w, B[<<w, f>>]>> \in Good,
                    \A w \in S : \A f, g \in F :
                        (\A v \in S : rank[v] < rank[w] => f[v] = g[v]) => B[<<w, f>>] = B[<<w, g>>]
             PROVE  \E f \in F : f = [w \in S |-> B[<<w, f>>]]
    BY DEF Recurs
<1> DEFINE Below(X, w, f) == \A v \in S : rank[v] < rank[w] => <<v, f[v]>> \in X
           Closed(X) == \A w \in S : \A f \in F : Below(X, w, f) => <<w, B[<<w, f>>]>> \in X
           R == {p \in S \X T : \A X \in SUBSET (S \X T) : Closed(X) => p \in X}
           One(w) == \E f \in F : /\ Below(R, w, f)
                                  /\ \A t \in T : <<w, t>> \in R <=> t = B[<<w, f>>]
           Q == {w \in S : One(w)}
<1>1. R \in SUBSET (S \X T)
    OBVIOUS
<1>2. Closed(R)
    <2>1. ASSUME NEW w \in S, NEW f \in F, Below(R, w, f) PROVE <<w, B[<<w, f>>]>> \in R
        <3>1. <<w, B[<<w, f>>]>> \in S \X T
            OBVIOUS
        <3>2. ASSUME NEW X \in SUBSET (S \X T), Closed(X) PROVE <<w, B[<<w, f>>]>> \in X
            <4>1. \A p \in R : p \in X
                BY <3>2
            <4>2. Below(X, w, f)
                <5> HIDE DEF R
                <5> QED
                    BY <2>1, <4>1
            <4> QED
                BY <4>2, <3>2
        <3> HIDE DEF Closed
        <3> QED
            BY <3>1, <3>2
    <2> HIDE DEF R
    <2> QED
        BY <2>1
<1>3. ASSUME NEW X \in SUBSET (S \X T), Closed(X) PROVE R \subseteq X
    BY <1>3
<1> HIDE DEF R
<1>4. ASSUME NEW w \in S, \A v \in S : rank[v] < rank[w] => v \in Q PROVE w \in Q
    <2> DEFINE g == [v \in S |-> IF rank[v] < rank[w] THEN CHOOSE t \in T : <<v, t>> \in R ELSE d[v]]
    <2>1. ASSUME NEW v \in S, rank[v] < rank[w]
          PROVE  /\ g[v] \in T /\ <<v, g[v]>> \in Good /\ <<v, g[v]>> \in R
                 /\ \A t \in T : <<v, t>> \in R => t = g[v]
        <3>1. PICK f \in F : \A t \in T : <<v, t>> \in R <=> t = B[<<v, f>>]
            BY <2>1, <1>4
        <3>2. B[<<v, f>>] \in T /\ <<v, B[<<v, f>>]>> \in Good
            OBVIOUS
        <3>3. (CHOOSE t \in T : <<v, t>> \in R) = B[<<v, f>>]
            BY <3>1, <3>2
        <3>4. g[v] = B[<<v, f>>]
            BY <3>3, <2>1
        <3> HIDE DEF g
        <3> QED
            BY <3>1, <3>2, <3>4
    <2>2. ASSUME NEW v \in S, ~(rank[v] < rank[w]) PROVE g[v] = d[v]
        BY <2>2
    <2>3. g \in F
        <3>1. \A v \in S : g[v] \in T /\ <<v, g[v]>> \in Good
            <4> HIDE DEF g
            <4> QED
                BY <2>1, <2>2
        <3>2. g = [v \in S |-> g[v]]
            <4> DEFINE h == g
            <4>1. DOMAIN h = S /\ h = [v \in DOMAIN h |-> h[v]]
                OBVIOUS
            <4> HIDE DEF h
            <4> QED
                BY <4>1 DEF h
        <3> HIDE DEF g
        <3>3. g \in [S -> T]
            BY <3>1, <3>2
        <3> QED
            BY <3>1, <3>3
    <2> HIDE DEF g
    <2>4. Below(R, w, g)
        BY <2>1
    <2> DEFINE t == B[<<w, g>>]
               X == R \ {p \in S \X T : p[1] = w /\ p[2] # t}
    <2>5. <<w, t>> \in R /\ t \in T
        BY <2>4, <2>3, <1>2
    <2>6. Closed(X)
        <3>1. ASSUME NEW v \in S, NEW f \in F, Below(X, v, f) PROVE <<v, B[<<v, f>>]>> \in X
            <4>1. Below(R, v, f)
                BY <3>1
            <4>2. <<v, B[<<v, f>>]>> \in R
                BY <4>1, <1>2
            <4>3. CASE v # w
                BY <4>2, <4>3
            <4>4. CASE v = w
                <5>1. \A u \in S : rank[u] < rank[w] => f[u] = g[u]
                    <6> SUFFICES ASSUME NEW u \in S, rank[u] < rank[w] PROVE f[u] = g[u]
                        OBVIOUS
                    <6>1. <<u, f[u]>> \in R /\ f[u] \in T
                        BY <4>1, <4>4
                    <6> QED
                        BY <6>1, <2>1
                <5>2. B[<<w, f>>] = B[<<w, g>>]
                    BY <5>1, <2>3
                <5> QED
                    BY <5>2, <4>2, <4>4
            <4> QED
                BY <4>3, <4>4
        <3> HIDE DEF X
        <3> QED
            BY <3>1
    <2>7. R \subseteq X
        <3>1. X \in SUBSET (S \X T)
            BY <1>1
        <3> HIDE DEF X, Closed
        <3> QED
            BY <3>1, <2>6, <1>3
    <2>8. ASSUME NEW u \in T, <<w, u>> \in R PROVE u = t
        <3>1. <<w, u>> \in X
            BY <2>7, <2>8
        <3> QED
            BY <3>1
    <2>9. One(w)
        BY <2>3, <2>4, <2>5, <2>8
    <2> QED
        BY <2>9
<1>5. S \subseteq Q
    <2> HIDE DEF Q
    <2> QED
        BY <1>4, RankInduction
<1> DEFINE Related(w) == CHOOSE t \in T : <<w, t>> \in R
           g == [w \in S |-> Related(w)]
<1>6. ASSUME NEW w \in S
      PROVE  /\ g[w] \in T /\ <<w, g[w]>> \in Good /\ <<w, g[w]>> \in R
             /\ \A t \in T : <<w, t>> \in R => t = g[w]
    <2>1. PICK f \in F : \A t \in T : <<w, t>> \in R <=> t = B[<<w, f>>]
        BY <1>5
    <2>2. B[<<w, f>>] \in T /\ <<w, B[<<w, f>>]>> \in Good
        OBVIOUS
    <2>3. (CHOOSE t \in T : <<w, t>> \in R) = B[<<w, f>>]
        BY <2>1, <2>2
    <2>4. g[w] = B[<<w, f>>]
        BY <2>3
    <2> HIDE DEF g
    <2> QED
        BY <2>1, <2>2, <2>4
<1>7. g = [w \in S |-> g[w]]
    <2> HIDE DEF Related
    <2> QED
        OBVIOUS
<1> HIDE DEF g
<1>8. g \in F
    <2>1. g \in [S -> T]
        BY <1>6, <1>7
    <2> QED
        BY <2>1, <1>6
<1>9. ASSUME NEW w \in S PROVE g[w] = B[<<w, g>>]
    <2>1. PICK f \in F : Below(R, w, f) /\ \A t \in T : <<w, t>> \in R <=> t = B[<<w, f>>]
        BY <1>5
    <2>2. g[w] = B[<<w, f>>]
        BY <2>1, <1>6
    <2>3. \A v \in S : rank[v] < rank[w] => f[v] = g[v]
        <3> SUFFICES ASSUME NEW v \in S, rank[v] < rank[w] PROVE f[v] = g[v]
            OBVIOUS
        <3>1. <<v, f[v]>> \in R /\ f[v] \in T
            BY <2>1
        <3> QED
            BY <3>1, <1>6
    <2>4. B[<<w, f>>] = B[<<w, g>>]
        BY <2>3, <1>8
    <2> QED
        BY <2>2, <2>4
<1>10. g = [w \in S |-> B[<<w, g>>]]
    BY <1>7, <1>9
<1> QED
    BY <1>8, <1>10

\* One name more.
LEMMA AppendIs ==
    ASSUME NEW s \in Seq(Nat), NEW e \in Nat
    PROVE  /\ Append(s, e) \in Seq(Nat) /\ Len(Append(s, e)) = Len(s) + 1
           /\ Append(s, e)[Len(s) + 1] = e
           /\ \A i \in 1..Len(s) : Append(s, e)[i] = s[i]
    OBVIOUS

\* t has those of c + 1, ..., c + m that are in T, u the others, both in order.
Splits(t, u, T, c, m) ==
    /\ \A k \in 1..Len(t) : t[k] \in T /\ t[k] \in (c + 1)..(c + m)
    /\ \A k \in 1..Len(u) : u[k] \notin T /\ u[k] \in (c + 1)..(c + m)
    /\ \A j, k \in 1..Len(t) : j < k => t[j] < t[k]
    /\ \A j, k \in 1..Len(u) : j < k => u[j] < u[k]
    /\ \A e \in (c + 1)..(c + m) : e \in T => \E k \in 1..Len(t) : t[k] = e
    /\ \A e \in (c + 1)..(c + m) : e \notin T => \E k \in 1..Len(u) : u[k] = e

\* The next element goes to its side.
LEMMA SplitsOneMore ==
    ASSUME NEW t \in Seq(Nat), NEW u \in Seq(Nat), NEW T, NEW c \in Nat, NEW m \in Nat,
           Splits(t, u, T, c, m), NEW e, e = c + m + 1
    PROVE  /\ e \in T => Splits(Append(t, e), u, T, c, m + 1)
           /\ e \notin T => Splits(t, Append(u, e), T, c, m + 1)
<1>1. e \in Nat /\ Len(t) \in Nat /\ Len(u) \in Nat
    OBVIOUS
<1>2. CASE e \in T
    <2> DEFINE v == Append(t, e)
    <2>1. /\ Len(v) = Len(t) + 1 /\ v[Len(t) + 1] = e
          /\ \A i \in 1..Len(t) : v[i] = t[i]
        BY <1>1, AppendIs
    <2> HIDE DEF v
    <2>n. Len(v) \in Int
        BY <2>1, <1>1
    <2>2. \A k \in 1..Len(v) : v[k] \in T /\ v[k] \in (c + 1)..(c + (m + 1))
          /\ (k < Len(v) => v[k] = t[k] /\ k \in 1..Len(t) /\ v[k] < e) /\ (k = Len(v) => v[k] = e)
        <3> SUFFICES ASSUME NEW k \in 1..Len(v)
                     PROVE  /\ v[k] \in T /\ v[k] \in (c + 1)..(c + (m + 1))
                            /\ (k < Len(v) => v[k] = t[k] /\ k \in 1..Len(t) /\ v[k] < e)
                            /\ (k = Len(v) => v[k] = e)
            OBVIOUS
        <3>1. CASE k = Len(v)
            BY <3>1, <2>1, <1>1, <1>2
        <3>2. CASE k < Len(v)
            <4>1. k \in 1..Len(t) /\ v[k] = t[k]
                BY <3>2, <2>1, <1>1
            <4>2. t[k] \in T /\ t[k] \in (c + 1)..(c + m)
                BY <4>1 DEF Splits
            <4> QED
                BY <4>1, <4>2, <3>2
        <3> QED
            BY <3>1, <3>2, <2>1, <1>1, SMTT(40)
    <2>3. \A j, k \in 1..Len(v) : j < k => v[j] < v[k]
        <3> SUFFICES ASSUME NEW j \in 1..Len(v), NEW k \in 1..Len(v), j < k PROVE v[j] < v[k]
            OBVIOUS
        <3>1. j < Len(v) /\ v[j] = t[j] /\ j \in 1..Len(t) /\ v[j] < e
            BY <2>2, <2>1, <1>1
        <3>2. CASE k = Len(v)
            BY <3>1, <3>2, <2>2
        <3>3. CASE k < Len(v)
            <4>1. v[k] = t[k] /\ k \in 1..Len(t)
                BY <3>3, <2>2
            <4> QED
                BY <3>1, <4>1 DEF Splits
        <3>4. k = Len(v) \/ k < Len(v)
            BY <2>n
        <3> QED
            BY <3>2, <3>3, <3>4
    <2>4. ASSUME NEW y \in (c + 1)..(c + (m + 1)), y \in T PROVE \E k \in 1..Len(v) : v[k] = y
        <3>1. CASE y = e
            <4>1. Len(v) \in 1..Len(v) /\ v[Len(v)] = e
                BY <2>1, <1>1
            <4> QED
                BY <4>1, <3>1
        <3>2. CASE y # e
            <4>1. y \in (c + 1)..(c + m)
                BY <3>2
            <4>2. PICK k \in 1..Len(t) : t[k] = y
                BY <4>1, <2>4 DEF Splits
            <4>3. k \in 1..Len(v) /\ v[k] = y
                BY <4>2, <2>1, <1>1
            <4> QED
                BY <4>3
        <3> QED
            BY <3>1, <3>2
    <2>5. ASSUME NEW y \in (c + 1)..(c + (m + 1)), y \notin T PROVE \E k \in 1..Len(u) : u[k] = y
        <3>1. y # e
            BY <2>5, <1>2
        <3>2. y \in (c + 1)..(c + m)
            BY <3>1
        <3> QED
            BY <3>2, <2>5 DEF Splits
    <2>6. \A k \in 1..Len(u) : u[k] \notin T /\ u[k] \in (c + 1)..(c + (m + 1))
        <3> SUFFICES ASSUME NEW k \in 1..Len(u) PROVE u[k] \notin T /\ u[k] \in (c + 1)..(c + (m + 1))
            OBVIOUS
        <3>1. u[k] \notin T /\ u[k] \in (c + 1)..(c + m)
            BY DEF Splits
        <3> QED
            BY <3>1
    <2>7. Splits(v, u, T, c, m + 1)
        BY <2>2, <2>3, <2>4, <2>5, <2>6 DEF Splits
    <2> QED
        BY <2>7, <1>2 DEF v
<1>3. CASE e \notin T
    <2> DEFINE v == Append(u, e)
    <2>1. /\ Len(v) = Len(u) + 1 /\ v[Len(u) + 1] = e
          /\ \A i \in 1..Len(u) : v[i] = u[i]
        BY <1>1, AppendIs
    <2> HIDE DEF v
    <2>n. Len(v) \in Int
        BY <2>1, <1>1
    <2>2. \A k \in 1..Len(v) : v[k] \notin T /\ v[k] \in (c + 1)..(c + (m + 1))
          /\ (k < Len(v) => v[k] = u[k] /\ k \in 1..Len(u) /\ v[k] < e) /\ (k = Len(v) => v[k] = e)
        <3> SUFFICES ASSUME NEW k \in 1..Len(v)
                     PROVE  /\ v[k] \notin T /\ v[k] \in (c + 1)..(c + (m + 1))
                            /\ (k < Len(v) => v[k] = u[k] /\ k \in 1..Len(u) /\ v[k] < e)
                            /\ (k = Len(v) => v[k] = e)
            OBVIOUS
        <3>1. CASE k = Len(v)
            BY <3>1, <2>1, <1>1, <1>3
        <3>2. CASE k < Len(v)
            <4>1. k \in 1..Len(u) /\ v[k] = u[k]
                BY <3>2, <2>1, <1>1
            <4>2. u[k] \notin T /\ u[k] \in (c + 1)..(c + m)
                BY <4>1 DEF Splits
            <4> QED
                BY <4>1, <4>2, <3>2
        <3> QED
            BY <3>1, <3>2, <2>1, <1>1
    <2>3. \A j, k \in 1..Len(v) : j < k => v[j] < v[k]
        <3> SUFFICES ASSUME NEW j \in 1..Len(v), NEW k \in 1..Len(v), j < k PROVE v[j] < v[k]
            OBVIOUS
        <3>1. j < Len(v) /\ v[j] = u[j] /\ j \in 1..Len(u) /\ v[j] < e
            BY <2>2, <2>1, <1>1
        <3>2. CASE k = Len(v)
            BY <3>1, <3>2, <2>2
        <3>3. CASE k < Len(v)
            <4>1. v[k] = u[k] /\ k \in 1..Len(u)
                BY <3>3, <2>2
            <4> QED
                BY <3>1, <4>1 DEF Splits
        <3>4. k = Len(v) \/ k < Len(v)
            BY <2>n
        <3> QED
            BY <3>2, <3>3, <3>4
    <2>4. ASSUME NEW y \in (c + 1)..(c + (m + 1)), y \notin T PROVE \E k \in 1..Len(v) : v[k] = y
        <3>1. CASE y = e
            <4>1. Len(v) \in 1..Len(v) /\ v[Len(v)] = e
                BY <2>1, <1>1
            <4> QED
                BY <4>1, <3>1
        <3>2. CASE y # e
            <4>1. y \in (c + 1)..(c + m)
                BY <3>2
            <4>2. PICK k \in 1..Len(u) : u[k] = y
                BY <4>1, <2>4 DEF Splits
            <4>3. k \in 1..Len(v) /\ v[k] = y
                BY <4>2, <2>1, <1>1
            <4> QED
                BY <4>3
        <3> QED
            BY <3>1, <3>2
    <2>5. ASSUME NEW y \in (c + 1)..(c + (m + 1)), y \in T PROVE \E k \in 1..Len(t) : t[k] = y
        <3>1. y # e
            BY <2>5, <1>3
        <3>2. y \in (c + 1)..(c + m)
            BY <3>1
        <3> QED
            BY <3>2, <2>5 DEF Splits
    <2>6. \A k \in 1..Len(t) : t[k] \in T /\ t[k] \in (c + 1)..(c + (m + 1))
        <3> SUFFICES ASSUME NEW k \in 1..Len(t) PROVE t[k] \in T /\ t[k] \in (c + 1)..(c + (m + 1))
            OBVIOUS
        <3>1. t[k] \in T /\ t[k] \in (c + 1)..(c + m)
            BY DEF Splits
        <3> QED
            BY <3>1
    <2>7. Splits(t, v, T, c, m + 1)
        BY <2>2, <2>3, <2>4, <2>5, <2>6 DEF Splits
    <2> QED
        BY <2>7, <1>3 DEF v
<1> QED
    BY <1>2, <1>3

\* Through a buffer, a stretch is split into the two sides.
LEMMA PartedIs ==
    ASSUME NEW seg \in Seq(Nat), NEW T, NEW c \in Nat, NEW m, m = Len(seg), NEW r, r = Parted(seg, T)
    PROVE  /\ r.trues \in Seq(Nat) /\ r.falses \in Seq(Nat) /\ Len(r.trues) + Len(r.falses) = m
           /\ (\A k \in 1..m : seg[k] = c + k) => Splits(r.trues, r.falses, T, c, m)
<1> DEFINE States == [trues : Seq(Nat), falses : Seq(Nat), i : 1..(Len(seg) + 1)]
           G == {v \in States : v.i <= Len(seg)}
           Step(w) == IF seg[w.i] \in T
                      THEN [w EXCEPT !.trues = Append(w.trues, seg[w.i]), !.i = w.i + 1]
                      ELSE [w EXCEPT !.falses = Append(w.falses, seg[w.i]), !.i = w.i + 1]
           step == [w \in G |-> Step(w)]
           Named0 == \A k \in 1..m : seg[k] = c + k
           Inv(t, u, i) == /\ Len(t) + Len(u) = i - 1
                           /\ Named0 => Splits(t, u, T, c, i - 1)
           P == {w \in States : Inv(w.trues, w.falses, w.i)}
           rank == [w \in P |-> m + 1 - w.i]
           start == [trues |-> <<>>, falses |-> <<>>, i |-> 1]
           last == Loop(States, step)[start]
<1>0. m \in Nat /\ \A k \in 1..m : seg[k] \in Nat
    OBVIOUS
<1>1. r = last
    BY DEF Parted
<1>e. ASSUME NEW w \in States
      PROVE  /\ w.trues \in Seq(Nat) /\ w.falses \in Seq(Nat) /\ w.i \in 1..(m + 1)
             /\ w = [trues |-> w.trues, falses |-> w.falses, i |-> w.i]
    OBVIOUS
<1>t. ASSUME NEW t \in Seq(Nat), NEW u \in Seq(Nat), NEW i \in 1..(m + 1)
      PROVE  [trues |-> t, falses |-> u, i |-> i] \in States
    OBVIOUS
<1>p. \A w : /\ w \in G <=> w \in States /\ w.i <= m
             /\ w \in P <=> w \in States /\ Inv(w.trues, w.falses, w.i)
    OBVIOUS
<1> HIDE DEF States, G, P
<1>2. start \in P
    <2>1. <<>> \in Seq(Nat) /\ Len(<<>>) = 0 /\ 1 \in 1..(m + 1)
        BY <1>0
    <2>2. start \in States
        BY <2>1, <1>t
    <2>3. Inv(<<>>, <<>>, 1)
        <3>1. Splits(<<>>, <<>>, T, c, 0)
            BY <2>1 DEF Splits
        <3> QED
            BY <3>1, <2>1
    <2> HIDE DEF Inv
    <2> QED
        BY <2>2, <2>3, <1>p
<1>3. ASSUME NEW w \in G
      PROVE  Step(w) \in States /\ Step(w).i = w.i + 1 /\ (w \in P => Step(w) \in P)
    <2> DEFINE t == w.trues
               u == w.falses
               i == w.i
               e == seg[i]
    <2>1. /\ t \in Seq(Nat) /\ u \in Seq(Nat) /\ i \in 1..m /\ e \in Nat
          /\ w = [trues |-> t, falses |-> u, i |-> i]
        <3>1. w \in States /\ w.i <= m
            BY <1>p
        <3>2. /\ w.trues \in Seq(Nat) /\ w.falses \in Seq(Nat) /\ w.i \in 1..(m + 1)
              /\ w = [trues |-> w.trues, falses |-> w.falses, i |-> w.i]
            BY <3>1, <1>e
        <3>3. i \in 1..m
            BY <3>1, <3>2, <1>0
        <3> QED
            BY <3>2, <3>3, <1>0
    <2>2. Named0 => e = c + (i - 1) + 1
        BY <2>1
    <2>3. CASE e \in T
        <3> DEFINE v == Append(t, e)
                   z == [trues |-> v, falses |-> u, i |-> i + 1]
        <3>1. Step(w) = z
            BY <2>1, <2>3
        <3> HIDE DEF e, i, t, u, Step
        <3>2. v \in Seq(Nat) /\ Len(v) = Len(t) + 1
            BY <2>1, AppendIs
        <3>3. ASSUME Inv(t, u, i) PROVE Inv(v, u, i + 1)
            <4>1. Len(v) + Len(u) = (i + 1) - 1
                BY <3>2, <3>3, <2>1
            <4>2. ASSUME Named0 PROVE Splits(v, u, T, c, (i + 1) - 1)
                <5>1. Splits(t, u, T, c, i - 1) /\ i - 1 \in Nat /\ e = c + (i - 1) + 1
                    BY <3>3, <4>2, <2>1, <2>2
                <5>2. Splits(v, u, T, c, (i - 1) + 1)
                    <6> HIDE DEF Named0
                    <6> QED
                        BY <5>1, <2>1, <2>3, SplitsOneMore
                <5>3. (i - 1) + 1 = (i + 1) - 1
                    BY <2>1
                <5> QED
                    BY <5>2, <5>3
            <4> QED
                BY <4>1, <4>2
        <3> HIDE DEF v
        <3>4. z \in States /\ z.trues = v /\ z.falses = u /\ z.i = i + 1
            <4>1. i + 1 \in 1..(m + 1)
                BY <2>1, <1>0
            <4>2. z \in States
                BY <3>2, <2>1, <4>1, <1>t
            <4> QED
                BY <4>2
        <3> HIDE DEF z, Inv
        <3>5. w.trues = t /\ w.falses = u /\ w.i = i
            BY DEF t, u, i
        <3> QED
            BY <3>1, <3>3, <3>4, <3>5, <1>p
    <2>4. CASE e \notin T
        <3> DEFINE v == Append(u, e)
                   z == [trues |-> t, falses |-> v, i |-> i + 1]
        <3>1. Step(w) = z
            BY <2>1, <2>4
        <3> HIDE DEF e, i, t, u, Step
        <3>2. v \in Seq(Nat) /\ Len(v) = Len(u) + 1
            BY <2>1, AppendIs
        <3>3. ASSUME Inv(t, u, i) PROVE Inv(t, v, i + 1)
            <4>1. Len(t) + Len(v) = (i + 1) - 1
                BY <3>2, <3>3, <2>1
            <4>2. ASSUME Named0 PROVE Splits(t, v, T, c, (i + 1) - 1)
                <5>1. Splits(t, u, T, c, i - 1) /\ i - 1 \in Nat /\ e = c + (i - 1) + 1
                    BY <3>3, <4>2, <2>1, <2>2
                <5>2. Splits(t, v, T, c, (i - 1) + 1)
                    <6> HIDE DEF Named0
                    <6> QED
                        BY <5>1, <2>1, <2>4, SplitsOneMore
                <5>3. (i - 1) + 1 = (i + 1) - 1
                    BY <2>1
                <5> QED
                    BY <5>2, <5>3
            <4> QED
                BY <4>1, <4>2
        <3> HIDE DEF v
        <3>4. z \in States /\ z.trues = t /\ z.falses = v /\ z.i = i + 1
            <4>1. i + 1 \in 1..(m + 1)
                BY <2>1, <1>0
            <4>2. z \in States
                BY <3>2, <2>1, <4>1, <1>t
            <4> QED
                BY <4>2
        <3> HIDE DEF z, Inv
        <3>5. w.trues = t /\ w.falses = u /\ w.i = i
            BY DEF t, u, i
        <3> QED
            BY <3>1, <3>3, <3>4, <3>5, <1>p
    <2> QED
        BY <2>3, <2>4
<1>4. Descends(States, G, step, P, rank)
    <2>1. G \subseteq States /\ P \subseteq States /\ step \in [G -> States] /\ rank \in [P -> Nat]
        <3> HIDE DEF Step, Inv
        <3> QED
            BY <1>3, <1>p, <1>e, <1>0
    <2>2. ASSUME NEW v \in P \cap G PROVE step[v] \in P /\ rank[step[v]] < rank[v]
        <3> HIDE DEF Step
        <3>1. step[v] = Step(v) /\ Step(v) \in P /\ Step(v).i = v.i + 1
            BY <1>3
        <3>2. v.i \in Int
            <4>1. v.i \in 1..(m + 1)
                BY <1>p, <1>e
            <4> QED
                BY <4>1
        <3> QED
            BY <3>1, <3>2, <1>0
    <2> HIDE DEF step, rank
    <2> QED
        BY <2>1, <2>2 DEF Descends
<1>5. last \in P /\ last \notin G
    <2> HIDE DEF start, step, rank
    <2> QED
        BY <1>2, <1>4, LoopLeaves
<1> HIDE DEF last
<1>6. r \in States /\ Inv(r.trues, r.falses, r.i) /\ ~(r.i <= m)
    <2> HIDE DEF Inv
    <2> QED
        BY <1>1, <1>5, <1>p
<1>7. r.i = m + 1
    <2> HIDE DEF Inv
    <2> QED
        BY <1>6, <1>e, <1>0
<1>8. r.trues \in Seq(Nat) /\ r.falses \in Seq(Nat) /\ r.i - 1 = m
    <2> HIDE DEF Inv
    <2> QED
        BY <1>6, <1>7, <1>e, <1>0
<1> QED
    BY <1>6, <1>8

-----------------------------------------------------------------------------
(* What is stably partitioned *)

\* [f, l] has the names f..l, those in T in front of a, the others from a on, and
\* both in order.
Sides(x, f, a, l, T) ==
    /\ \A k \in f..(a - 1) : x[k] \in T
    /\ \A k \in a..l : x[k] \notin T
    /\ \A j, k \in f..(a - 1) : j < k => x[j] < x[k]
    /\ \A j, k \in a..l : j < k => x[j] < x[k]
    /\ \A k \in f..l : x[k] \in f..l
    /\ \A e \in f..l : \E k \in f..l : x[k] = e

\* Nothing outside the part has changed.
Apart(x, y, f, l, n) == \A k \in 1..n : k < f \/ k > l => y[k] = x[k]

\* Nothing in T: all is behind.
LEMMA SidesNone ==
    ASSUME NEW f \in Int, NEW l \in Int, NEW x, NEW T, \A k \in f..l : x[k] = k /\ k \notin T
    PROVE  Sides(x, f, f, l, T)
    BY DEF Sides

\* All in T: all is in front.
LEMMA SidesAll ==
    ASSUME NEW f \in Int, NEW l \in Int, NEW x, NEW T, \A k \in f..l : x[k] = k /\ k \in T,
           NEW a, a = l + 1
    PROVE  Sides(x, f, a, l, T)
<1>1. a \in Int /\ a - 1 = l
    OBVIOUS
<1> QED
    BY <1>1 DEF Sides

\* What comes behind and is not in T may stay there,
LEMMA SidesGrowBehind ==
    ASSUME NEW f \in Int, NEW a \in Int, NEW m \in Int, NEW l \in Int,
           f <= a, a <= m + 1, f <= m + 1, m <= l, NEW x, NEW T, Sides(x, f, a, m, T),
           \A k \in (m + 1)..l : x[k] = k /\ k \notin T
    PROVE  Sides(x, f, a, l, T)
<1>1. \A k \in a..l : x[k] \notin T /\ (k <= m => x[k] <= m /\ k \in a..m) /\ (k > m => x[k] = k)
    <2> SUFFICES ASSUME NEW k \in a..l
                 PROVE  /\ x[k] \notin T /\ (k <= m => x[k] <= m /\ k \in a..m)
                        /\ (k > m => x[k] = k)
        OBVIOUS
    <2>1. CASE k <= m
        <3>1. k \in a..m /\ k \in f..m
            BY <2>1
        <3>2. x[k] \notin T /\ x[k] \in f..m
            BY <3>1 DEF Sides
        <3> QED
            BY <3>1, <3>2, <2>1
    <2>2. CASE k > m
        <3>1. k \in (m + 1)..l
            BY <2>2
        <3> QED
            BY <3>1, <2>2
    <2> QED
        BY <2>1, <2>2
<1>2. ASSUME NEW j \in a..l, NEW k \in a..l, j < k PROVE x[j] < x[k]
    <2>1. CASE k <= m
        <3>1. j \in a..m /\ k \in a..m
            BY <2>1, <1>2
        <3> QED
            BY <3>1, <1>2 DEF Sides
    <2>2. CASE k > m
        <3>1. x[k] = k
            BY <2>2, <1>1
        <3>2. CASE j <= m
            <4>1. j \in f..m
                BY <3>2
            <4>2. x[j] \in f..m
                BY <4>1 DEF Sides
            <4> QED
                BY <4>2, <3>1, <2>2
        <3>3. CASE j > m
            <4>1. x[j] = j
                BY <3>3, <1>1
            <4> QED
                BY <4>1, <3>1, <1>2
        <3> QED
            BY <3>2, <3>3
    <2> QED
        BY <2>1, <2>2
<1>3. ASSUME NEW k \in f..l PROVE x[k] \in f..l
    <2>1. CASE k <= m
        <3>1. k \in f..m
            BY <2>1
        <3>2. x[k] \in f..m
            BY <3>1 DEF Sides
        <3> QED
            BY <3>2
    <2>2. CASE k > m
        <3>1. k \in (m + 1)..l
            BY <2>2
        <3> QED
            BY <3>1
    <2> QED
        BY <2>1, <2>2
<1>4. ASSUME NEW e \in f..l PROVE \E k \in f..l : x[k] = e
    <2>1. CASE e <= m
        <3>1. e \in f..m
            BY <2>1
        <3>2. PICK k \in f..m : x[k] = e
            BY <3>1 DEF Sides
        <3> QED
            BY <3>2
    <2>2. CASE e > m
        <3>1. e \in (m + 1)..l
            BY <2>2
        <3> QED
            BY <3>1
    <2> QED
        BY <2>1, <2>2
<1> QED
    BY <1>1, <1>2, <1>3, <1>4 DEF Sides

\* and what comes in front and is in T.
LEMMA SidesGrowInFront ==
    ASSUME NEW f \in Int, NEW a \in Int, NEW m \in Int, NEW l \in Int,
           f <= m, m <= a, a <= l + 1, m <= l + 1, NEW x, NEW T, Sides(x, m, a, l, T),
           \A k \in f..(m - 1) : x[k] = k /\ k \in T
    PROVE  Sides(x, f, a, l, T)
<1>1. \A k \in f..(a - 1) :
          x[k] \in T /\ (k >= m => x[k] >= m /\ k \in m..(a - 1)) /\ (k < m => x[k] = k)
    <2> SUFFICES ASSUME NEW k \in f..(a - 1)
                 PROVE  /\ x[k] \in T /\ (k >= m => x[k] >= m /\ k \in m..(a - 1))
                        /\ (k < m => x[k] = k)
        OBVIOUS
    <2>1. CASE k >= m
        <3>1. k \in m..(a - 1) /\ k \in m..l
            BY <2>1
        <3>2. x[k] \in T /\ x[k] \in m..l
            BY <3>1 DEF Sides
        <3> QED
            BY <3>1, <3>2, <2>1
    <2>2. CASE k < m
        <3>1. k \in f..(m - 1)
            BY <2>2
        <3> QED
            BY <3>1, <2>2
    <2> QED
        BY <2>1, <2>2
<1>2. ASSUME NEW j \in f..(a - 1), NEW k \in f..(a - 1), j < k PROVE x[j] < x[k]
    <2>1. CASE j >= m
        <3>1. j \in m..(a - 1) /\ k \in m..(a - 1)
            BY <2>1, <1>2
        <3> QED
            BY <3>1, <1>2 DEF Sides
    <2>2. CASE j < m
        <3>1. x[j] = j
            BY <2>2, <1>1
        <3>2. CASE k >= m
            <4>1. k \in m..l
                BY <3>2
            <4>2. x[k] \in m..l
                BY <4>1 DEF Sides
            <4> QED
                BY <4>2, <3>1, <2>2
        <3>3. CASE k < m
            <4>1. x[k] = k
                BY <3>3, <1>1
            <4> QED
                BY <4>1, <3>1, <1>2
        <3> QED
            BY <3>2, <3>3
    <2> QED
        BY <2>1, <2>2
<1>3. ASSUME NEW k \in f..l PROVE x[k] \in f..l
    <2>1. CASE k >= m
        <3>1. k \in m..l
            BY <2>1
        <3>2. x[k] \in m..l
            BY <3>1 DEF Sides
        <3> QED
            BY <3>2
    <2>2. CASE k < m
        <3>1. k \in f..(m - 1)
            BY <2>2
        <3> QED
            BY <3>1
    <2> QED
        BY <2>1, <2>2
<1>4. ASSUME NEW e \in f..l PROVE \E k \in f..l : x[k] = e
    <2>1. CASE e >= m
        <3>1. e \in m..l
            BY <2>1
        <3>2. PICK k \in m..l : x[k] = e
            BY <3>1 DEF Sides
        <3> QED
            BY <3>2
    <2>2. CASE e < m
        <3>1. e \in f..(m - 1)
            BY <2>2
        <3> QED
            BY <3>1
    <2> QED
        BY <2>1, <2>2
<1>5. \A k \in a..l : x[k] \notin T
    BY DEF Sides
<1>6. \A j, k \in a..l : j < k => x[j] < x[k]
    BY DEF Sides
<1> QED
    BY <1>1, <1>2, <1>3, <1>4, <1>5, <1>6 DEF Sides

\* The parts between a and b exchanged, what is in T is in front again.
LEMMA SidesJoin ==
    ASSUME NEW n \in Nat, NEW x \in Rows(n), NEW f \in 1..n, NEW l \in 1..n,
           NEW a \in Int, NEW m \in Int, NEW b \in Int, f <= a, a <= m, m <= b, b <= l + 1,
           NEW T, Sides(x, f, a, m - 1, T), Sides(x, m, b, l, T),
           NEW y, y = Rotated(x, a, m, b), NEW c, c = a + (b - m)
    PROVE  y \in Rows(n) /\ Sides(y, f, c, l, T) /\ Apart(x, y, f, l, n)
<1>1. y \in Rows(n) /\ \A i \in 1..n :
          y[i] = IF i < a \/ i >= b THEN x[i]
                 ELSE IF i < a + (b - m) THEN x[i + (m - a)] ELSE x[i - (b - m)]
    <2>1. a \in 1..(n + 1) /\ m \in 1..(n + 1) /\ b \in 1..(n + 1)
        OBVIOUS
    <2>2. /\ Rotated(x, a, m, b) \in Rows(n)
          /\ \A i \in 1..n : Rotated(x, a, m, b)[i] =
                 IF i < a \/ i >= b THEN x[i]
                 ELSE IF i < a + (b - m) THEN x[i + (m - a)] ELSE x[i - (b - m)]
        BY <2>1, RotatedIsRow, SMTT(40)
    <2> QED
        BY <2>2
<1>2. c \in Int /\ f <= c /\ c <= b /\ c = a + (b - m)
    OBVIOUS
<1>a. \A k \in f..l : /\ k < a => y[k] = x[k]
                      /\ k >= b => y[k] = x[k]
    BY <1>1
<1>b. ASSUME NEW k \in f..l, k >= a, k < c PROVE k + (m - a) \in m..(b - 1) /\ y[k] = x[k + (m - a)]
    BY <1>1, <1>2, <1>b
<1>c. ASSUME NEW k \in f..l, k >= c, k < b PROVE k - (b - m) \in a..(m - 1) /\ y[k] = x[k - (b - m)]
    BY <1>1, <1>2, <1>c
<1>d. Apart(x, y, f, l, n)
    <2> SUFFICES ASSUME NEW k \in 1..n, k < f \/ k > l PROVE y[k] = x[k]
        BY DEF Apart
    <2>1. k < a \/ k >= b
        OBVIOUS
    <2> QED
        BY <2>1, <1>1
<1>3. ASSUME NEW k \in f..(c - 1)
      PROVE  /\ y[k] \in T /\ y[k] \in f..l
             /\ (k < a => y[k] = x[k] /\ y[k] < m /\ k \in f..(a - 1))
             /\ (k >= a => y[k] = x[k + (m - a)] /\ y[k] >= m /\ k + (m - a) \in m..(b - 1))
    <2>1. CASE k < a
        <3>1. k \in f..(a - 1) /\ k \in f..(m - 1) /\ k \in f..l
            BY <2>1, <1>2
        <3>2. y[k] = x[k]
            BY <3>1, <2>1, <1>a
        <3>3. x[k] \in T /\ x[k] \in f..(m - 1)
            BY <3>1 DEF Sides
        <3> QED
            BY <3>1, <3>2, <3>3, <2>1
    <2>2. CASE k >= a
        <3>1. k \in f..l /\ k < c
            BY <1>2
        <3>2. k + (m - a) \in m..(b - 1) /\ y[k] = x[k + (m - a)]
            BY <3>1, <2>2, <1>b
        <3> DEFINE q == k + (m - a)
        <3>3. q \in m..(b - 1) /\ q \in m..l /\ y[k] = x[q]
            BY <3>2
        <3> HIDE DEF q
        <3>4. x[q] \in T /\ x[q] \in m..l
            BY <3>3 DEF Sides
        <3> QED
            BY <3>2, <3>3, <3>4, <2>2
    <2> QED
        BY <2>1, <2>2
<1>4. ASSUME NEW k \in c..l
      PROVE  /\ y[k] \notin T /\ y[k] \in f..l
             /\ (k < b => y[k] = x[k - (b - m)] /\ y[k] < m /\ k - (b - m) \in a..(m - 1))
             /\ (k >= b => y[k] = x[k] /\ y[k] >= m /\ k \in b..l)
    <2>1. CASE k >= b
        <3>1. k \in b..l /\ k \in m..l /\ k \in f..l
            BY <2>1, <1>2
        <3>2. y[k] = x[k]
            BY <3>1, <2>1, <1>a
        <3>3. x[k] \notin T /\ x[k] \in m..l
            BY <3>1 DEF Sides
        <3> QED
            BY <3>1, <3>2, <3>3, <2>1
    <2>2. CASE k < b
        <3>1. k \in f..l /\ k >= c
            BY <1>2
        <3>2. k - (b - m) \in a..(m - 1) /\ y[k] = x[k - (b - m)]
            BY <3>1, <2>2, <1>c
        <3> DEFINE q == k - (b - m)
        <3>3. q \in a..(m - 1) /\ q \in f..(m - 1) /\ y[k] = x[q]
            BY <3>2
        <3> HIDE DEF q
        <3>4. x[q] \notin T /\ x[q] \in f..(m - 1)
            BY <3>3 DEF Sides
        <3> QED
            BY <3>2, <3>3, <3>4, <2>2
    <2> QED
        BY <2>1, <2>2
<1>5. ASSUME NEW j \in f..(c - 1), NEW k \in f..(c - 1), j < k PROVE y[j] < y[k]
    <2>1. CASE k < a
        <3>1. j < a
            BY <2>1, <1>5, <1>2
        <3>2. j \in f..(a - 1) /\ k \in f..(a - 1) /\ y[j] = x[j] /\ y[k] = x[k]
            BY <2>1, <3>1, <1>3
        <3> QED
            BY <3>2, <1>5 DEF Sides
    <2>2. CASE j >= a
        <3>1. k >= a
            BY <2>2, <1>5, <1>2
        <3> DEFINE p == j + (m - a)
                   q == k + (m - a)
        <3>2. p \in m..(b - 1) /\ y[j] = x[p]
            BY <2>2, <1>3
        <3>3. q \in m..(b - 1) /\ y[k] = x[q]
            BY <3>1, <1>3
        <3>4. p < q
            BY <1>5, <1>2
        <3> HIDE DEF p, q
        <3> QED
            BY <3>2, <3>3, <3>4 DEF Sides
    <2>3. CASE j < a /\ k >= a
        <3>1. y[j] < m /\ y[j] \in Int
            BY <2>3, <1>3
        <3>2. y[k] >= m /\ y[k] \in Int
            BY <2>3, <1>3
        <3> QED
            BY <3>1, <3>2
    <2> QED
        BY <2>1, <2>2, <2>3, <1>2
<1>6. ASSUME NEW j \in c..l, NEW k \in c..l, j < k PROVE y[j] < y[k]
    <2>1. CASE j >= b
        <3>1. k >= b
            BY <2>1, <1>6, <1>2
        <3>2. j \in b..l /\ k \in b..l /\ y[j] = x[j] /\ y[k] = x[k]
            BY <2>1, <3>1, <1>4
        <3> QED
            BY <3>2, <1>6 DEF Sides
    <2>2. CASE k < b
        <3>1. j < b
            BY <2>2, <1>6, <1>2
        <3> DEFINE p == j - (b - m)
                   q == k - (b - m)
        <3>2. p \in a..(m - 1) /\ y[j] = x[p]
            BY <3>1, <1>4
        <3>3. q \in a..(m - 1) /\ y[k] = x[q]
            BY <2>2, <1>4
        <3>4. p < q
            BY <1>6, <1>2
        <3> HIDE DEF p, q
        <3> QED
            BY <3>2, <3>3, <3>4 DEF Sides
    <2>3. CASE j < b /\ k >= b
        <3>1. y[j] < m /\ y[j] \in Int
            BY <2>3, <1>4
        <3>2. y[k] >= m /\ y[k] \in Int
            BY <2>3, <1>4
        <3> QED
            BY <3>1, <3>2
    <2> QED
        BY <2>1, <2>2, <2>3, <1>2
<1>7. ASSUME NEW k \in f..l PROVE y[k] \in f..l
    <2>1. k \in f..(c - 1) \/ k \in c..l
        BY <1>2
    <2> QED
        BY <2>1, <1>3, <1>4
<1>8. ASSUME NEW e \in f..l PROVE \E k \in f..l : y[k] = e
    <2>1. CASE e < m
        <3>0. e \in f..(m - 1)
            BY <2>1
        <3>1. PICK k \in f..(m - 1) : x[k] = e
            BY <3>0 DEF Sides
        <3>2. CASE k < a
            <4>1. k \in f..l /\ y[k] = x[k]
                BY <3>2, <1>a
            <4> QED
                BY <4>1, <3>1
        <3>3. CASE k >= a
            <4> DEFINE q == k + (b - m)
            <4>1. q \in f..l /\ q >= c /\ q < b /\ q - (b - m) = k
                BY <3>3, <1>2
            <4>2. y[q] = x[k]
                BY <4>1, <1>c
            <4> QED
                BY <4>1, <4>2, <3>1
        <3> QED
            BY <3>2, <3>3
    <2>2. CASE e >= m
        <3>0. e \in m..l
            BY <2>2
        <3>1. PICK k \in m..l : x[k] = e
            BY <3>0 DEF Sides
        <3>2. CASE k >= b
            <4>1. k \in f..l /\ y[k] = x[k]
                BY <3>2, <1>a
            <4> QED
                BY <4>1, <3>1
        <3>3. CASE k < b
            <4> DEFINE q == k - (m - a)
            <4>1. q \in f..l /\ q >= a /\ q < c /\ q + (m - a) = k
                BY <3>3, <1>2
            <4>2. y[q] = x[k]
                BY <4>1, <1>b
            <4> QED
                BY <4>1, <4>2, <3>1
        <3> QED
            BY <3>2, <3>3
    <2> QED
        BY <2>1, <2>2
<1> QED
    BY <1>1, <1>d, <1>3, <1>4, <1>5, <1>6, <1>7, <1>8 DEF Sides

-----------------------------------------------------------------------------
(* stable_partition by halves *)

\* What stable_partition_impl is called with, and what any call of it keeps.
UnpartedIn(n, T) ==
    {w \in [range : Rows(n), f : 1..n, l : 1..n, n : Nat] :
        w.f < w.l /\ w.n = w.l - w.f + 1 /\ w.range[w.f] \notin T /\ w.range[w.l] \in T}

\* A call of it.
Part(x, f, l, c) == [range |-> x, f |-> f, l |-> l, n |-> c]

\* What any call of it keeps.
GoodPart(x, f, l, n, r) ==
    r = Result(r.range, r.at) /\ r.range \in Rows(n) /\ r.at \in f..l /\ Apart(x, r.range, f, l, n)

\* The fields of a part.
LEMMA PartIs ==
    ASSUME NEW x, NEW f, NEW l, NEW c, NEW v, v = Part(x, f, l, c)
    PROVE  v.range = x /\ v.f = f /\ v.l = l /\ v.n = c
    BY DEF Part

\* What a part is.
LEMMA PartOf ==
    ASSUME NEW n \in Nat, NEW T, NEW w \in UnpartedIn(n, T)
    PROVE  /\ w = Part(w.range, w.f, w.l, w.n) /\ w.range \in Rows(n) /\ w.f \in 1..n /\ w.l \in 1..n
           /\ w.f < w.l /\ w.n = w.l - w.f + 1 /\ w.range[w.f] \notin T /\ w.range[w.l] \in T
    BY DEF UnpartedIn, Part

\* What makes a part.
LEMMA PartIn ==
    ASSUME NEW n \in Nat, NEW T, NEW x \in Rows(n), NEW f \in 1..n, NEW l \in 1..n, NEW c,
           f < l, c = l - f + 1, x[f] \notin T, x[l] \in T
    PROVE  Part(x, f, l, c) \in UnpartedIn(n, T)
    BY DEF UnpartedIn, Part

\* From four elements on both halves have two.
LEMMA HalfIs ==
    ASSUME NEW c \in Nat, c >= 4, NEW half, half = c \div 2
    PROVE  half \in 2..(c - 2)
    OBVIOUS

\* The first half, without what is in place at its end, is a smaller part,
LEMMA LeftPart ==
    ASSUME NEW n \in Nat, NEW T, NEW x \in Rows(n), NEW f \in 1..n, NEW l \in 1..n, f < l,
           x[f] \notin T, NEW half \in 2..(l - f - 1), NEW m, m = f + half,
           NEW k, k = LastIn(x, f, m, T), ~(k < f), NEW v, v = Part(x, f, k, half - (m - 1 - k))
    PROVE  v \in UnpartedIn(n, T) /\ k \in (f + 1)..(m - 1) /\ x[k] \in T
<1>1. k \in (f - 1)..(m - 1) /\ (k # f - 1 => x[k] \in T)
    <2>1. f \in Nat \ {0} /\ m \in Nat /\ f <= m
        OBVIOUS
    <2> QED
        BY <2>1, LastInIs
<1>2. x[k] \in T /\ k # f
    BY <1>1
<1>3. k \in (f + 1)..(m - 1) /\ k \in 1..n /\ half - (m - 1 - k) = k - f + 1
    BY <1>1, <1>2
<1>4. Part(x, f, k, half - (m - 1 - k)) \in UnpartedIn(n, T)
    BY <1>2, <1>3, PartIn
<1> QED
    BY <1>2, <1>3, <1>4

\* and so is the second, without what is in place in front.
LEMMA RightPart ==
    ASSUME NEW n \in Nat, NEW T, NEW y \in Rows(n), NEW f \in 1..n, NEW l \in 1..n, f < l,
           y[l] \in T, NEW half \in 2..(l - f - 1), NEW m, m = f + half, NEW c, c = l - f + 1,
           NEW k, k = FirstOut(y, m, l, T), k # l, NEW v, v = Part(y, k, l, c - half - (k - m))
    PROVE  v \in UnpartedIn(n, T) /\ k \in m..(l - 1) /\ y[k] \notin T
<1>1. k \in m..l /\ (k # l => y[k] \notin T)
    <2>1. m \in Nat /\ l \in Nat /\ m <= l
        OBVIOUS
    <2> QED
        BY <2>1, FirstOutIs
<1>3. k \in m..(l - 1) /\ k \in 1..n /\ c - half - (k - m) = l - k + 1 /\ k < l /\ y[k] \notin T
    BY <1>1
<1>4. Part(y, k, l, c - half - (k - m)) \in UnpartedIn(n, T)
    BY <1>3, PartIn
<1> QED
    BY <1>3, <1>4

\* The two halves of a part, and where they meet.
LeftOf(part, w, T, m) ==
    LET k == LastIn(w.range, w.f, m, T) IN
    IF k < w.f THEN Result(w.range, w.f)
    ELSE part[Part(w.range, w.f, k, w.n \div 2 - (m - 1 - k))]

\* The second half, once the first is done
RightOf(part, w, T, left, m) ==
    LET k == FirstOut(left.range, m, w.l, T) IN
    part[Part(left.range, k, w.l, w.n - w.n \div 2 - (k - m))]

\* stable_partition_impl of more than the buffer holds: both halves, and a rotation.
LEMMA StablePartHalves ==
    ASSUME NEW part, NEW w, NEW T, NEW buffer, NEW kind, w.n # 2, w.n # 3, ~(w.n <= buffer),
           NEW m, m = w.f + w.n \div 2, NEW left, left = LeftOf(part, w, T, m),
           NEW right, right = RightOf(part, w, T, left, m)
    PROVE  StablePart(part, w, T, buffer, kind) =
               IF FirstOut(left.range, m, w.l, T) = w.l
               THEN Rotate(left.range, left.at, m, w.l + 1, kind)
               ELSE Rotate(right.range, left.at, m, right.at, kind)
    BY ZenonT(40) DEF StablePart, LeftOf, RightOf, Part

\* A call with fewer elements.
Smaller(S, v, w) == v \in S /\ v.l - v.f < w.l - w.f

\* The first half is stably partitioned, and nothing else touched,
LEMMA LeftOfIs ==
    ASSUME NEW n \in Nat, NEW T, NEW w \in UnpartedIn(n, T), w.n >= 4, NEW part,
           \A v : Smaller(UnpartedIn(n, T), v, w) => GoodPart(v.range, v.f, v.l, n, part[v]),
           NEW m, m = w.f + w.n \div 2, NEW left, left = LeftOf(part, w, T, m)
    PROVE  /\ m \in (w.f + 2)..(w.l - 1) /\ left.range \in Rows(n) /\ left.at \in w.f..(m - 1)
           /\ Apart(w.range, left.range, w.f, m - 1, n)
           /\ \A g : (\A v : Smaller(UnpartedIn(n, T), v, w) => g[v] = part[v]) => left = LeftOf(g, w, T, m)
           /\ (/\ \A k \in w.f..w.l : w.range[k] = k
               /\ \A v : Smaller(UnpartedIn(n, T), v, w) /\ (\A k \in v.f..v.l : v.range[k] = k)
                             => Sides(part[v].range, v.f, part[v].at, v.l, T))
              => Sides(left.range, w.f, left.at, m - 1, T)
<1> DEFINE x == w.range
           f == w.f
           l == w.l
           half == w.n \div 2
           k == LastIn(x, f, m, T)
           v == Part(x, f, k, half - (m - 1 - k))
           S == UnpartedIn(n, T)
           Ident(u) == \A i \in u.f..u.l : u.range[i] = i
<1>1. /\ x \in Rows(n) /\ f \in 1..n /\ l \in 1..n /\ f < l /\ w.n = l - f + 1
      /\ x[f] \notin T /\ x[l] \in T
    BY PartOf
<1>2. half \in 2..(w.n - 2)
    BY <1>1, HalfIs
<1>3. half \in 2..(l - f - 1) /\ m = f + half /\ m \in (f + 2)..(l - 1)
    BY <1>1, <1>2
<1>4. /\ k \in (f - 1)..(m - 1) /\ (k # f - 1 => x[k] \in T)
      /\ \A i \in (k + 1)..(m - 1) : i >= f => x[i] \notin T
    <2>1. f \in Nat \ {0} /\ m \in Nat /\ f <= m
        BY <1>1, <1>3
    <2> QED
        BY <2>1, LastInIs
<1>5. left = IF k < f THEN Result(x, f) ELSE part[v]
    BY DEF LeftOf
<1>g. \A g : LeftOf(g, w, T, m) = IF k < f THEN Result(x, f) ELSE g[v]
    BY DEF LeftOf
<1>6. CASE k < f
    <2>1. left.range = x /\ left.at = f
        BY <1>5, <1>6, ResultIs
    <2>2. \A i \in f..(m - 1) : x[i] \notin T
        BY <1>4, <1>6, <1>1, <1>3
    <2> HIDE DEF x, f, l, k, half
    <2>3. Apart(x, x, f, m - 1, n)
        BY DEF Apart
    <2>4. ASSUME \A i \in f..l : x[i] = i PROVE Sides(x, f, f, m - 1, T)
        <3>1. \A i \in f..(m - 1) : x[i] = i /\ i \notin T
            <4> SUFFICES ASSUME NEW i \in f..(m - 1) PROVE x[i] = i /\ i \notin T
                OBVIOUS
            <4>1. i \in f..l
                BY <1>1, <1>3
            <4> QED
                BY <4>1, <2>2, <2>4
        <3>2. f \in Int /\ m - 1 \in Int
            BY <1>1, <1>3
        <3> QED
            BY <3>1, <3>2, SidesNone
    <2>5. f \in f..(m - 1) /\ \A g : left = LeftOf(g, w, T, m)
        BY <1>1, <1>3, <1>5, <1>6, <1>g
    <2> QED
        BY <1>1, <1>3, <2>1, <2>3, <2>4, <2>5 DEF x, f, l
<1>7. CASE ~(k < f)
    <2>1. v \in S /\ k \in (f + 1)..(m - 1)
        BY <1>1, <1>3, <1>7, LeftPart
    <2>2. v.range = x /\ v.f = f /\ v.l = k
        BY PartIs
    <2>3. left = part[v] /\ \A g : LeftOf(g, w, T, m) = g[v]
        BY <1>5, <1>g, <1>7
    <2> HIDE DEF v, k, half
    <2>4. Smaller(S, v, w)
        BY <2>1, <2>2, <1>1, <1>3 DEF Smaller
    <2>5. GoodPart(v.range, v.f, v.l, n, left)
        BY <2>4, <2>3
    <2>6. GoodPart(x, f, k, n, left)
        BY <2>5, <2>2
    <2> HIDE DEF x, f, l
    <2>7. left.range \in Rows(n) /\ left.at \in f..(m - 1) /\ Apart(x, left.range, f, m - 1, n)
        BY <2>6, <2>1, <1>1, <1>3 DEF GoodPart, Apart
    <2>8. ASSUME NEW g, \A u : Smaller(S, u, w) => g[u] = part[u] PROVE left = LeftOf(g, w, T, m)
        BY <2>3, <2>4, <2>8
    <2>9. ASSUME \A i \in f..l : x[i] = i,
                 \A u : Smaller(S, u, w) /\ Ident(u) => Sides(part[u].range, u.f, part[u].at, u.l, T)
          PROVE  Sides(left.range, f, left.at, m - 1, T)
        <3>1. Ident(v)
            BY <2>1, <2>2, <2>9, <1>1, <1>3
        <3>2. Sides(left.range, f, left.at, k, T)
            <4> HIDE DEF Ident
            <4>1. Sides(part[v].range, v.f, part[v].at, v.l, T)
                BY <3>1, <2>4, <2>9
            <4> QED
                BY <4>1, <2>2, <2>3
        <3>3. \A i \in (k + 1)..(m - 1) : left.range[i] = i /\ i \notin T
            <4> SUFFICES ASSUME NEW i \in (k + 1)..(m - 1) PROVE left.range[i] = i /\ i \notin T
                OBVIOUS
            <4>1. i \in f..l /\ i \in 1..n /\ i > k
                BY <2>1, <1>1, <1>3
            <4>2. x[i] = i /\ x[i] \notin T
                BY <4>1, <2>9, <1>4, <1>1
            <4>3. left.range[i] = x[i]
                BY <4>1, <2>6 DEF GoodPart, Apart
            <4> QED
                BY <4>2, <4>3
        <3>4. left.at \in f..k
            BY <2>6 DEF GoodPart
        <3>5. /\ f \in Int /\ left.at \in Int /\ k \in Int /\ m - 1 \in Int
              /\ f <= left.at /\ left.at <= k + 1 /\ f <= k + 1 /\ k <= m - 1
            BY <3>4, <2>1, <1>1, <1>3
        <3> QED
            BY <3>2, <3>3, <3>5, SidesGrowBehind
    <2> QED
        BY <1>3, <2>7, <2>8, <2>9 DEF x, f, l
<1> QED
    BY <1>6, <1>7

\* and then the second.
LEMMA RightOfIs ==
    ASSUME NEW n \in Nat, NEW T, NEW w \in UnpartedIn(n, T), w.n >= 4, NEW part,
           \A v : Smaller(UnpartedIn(n, T), v, w) => GoodPart(v.range, v.f, v.l, n, part[v]),
           NEW m, m = w.f + w.n \div 2, NEW left, left.range \in Rows(n),
           Apart(w.range, left.range, w.f, m - 1, n),
           FirstOut(left.range, m, w.l, T) # w.l,
           NEW right, right = RightOf(part, w, T, left, m)
    PROVE  /\ right.range \in Rows(n) /\ right.at \in m..w.l
           /\ Apart(left.range, right.range, m, w.l, n)
           /\ \A g : (\A v : Smaller(UnpartedIn(n, T), v, w) => g[v] = part[v])
                     => right = RightOf(g, w, T, left, m)
           /\ (/\ \A k \in w.f..w.l : w.range[k] = k
               /\ \A v : Smaller(UnpartedIn(n, T), v, w) /\ (\A k \in v.f..v.l : v.range[k] = k)
                             => Sides(part[v].range, v.f, part[v].at, v.l, T))
              => Sides(right.range, m, right.at, w.l, T)
<1> DEFINE x == w.range
           f == w.f
           l == w.l
           y == left.range
           half == w.n \div 2
           k == FirstOut(y, m, l, T)
           v == Part(y, k, l, w.n - half - (k - m))
           S == UnpartedIn(n, T)
           Ident(u) == \A i \in u.f..u.l : u.range[i] = i
<1>1. /\ x \in Rows(n) /\ f \in 1..n /\ l \in 1..n /\ f < l /\ w.n = l - f + 1
      /\ x[f] \notin T /\ x[l] \in T
    BY PartOf
<1>2. half \in 2..(w.n - 2)
    BY <1>1, HalfIs
<1>3. half \in 2..(l - f - 1) /\ m = f + half /\ m \in (f + 2)..(l - 1)
    BY <1>1, <1>2
<1>4. /\ k \in m..l /\ \A i \in m..(k - 1) : y[i] \in T
    <2>1. m \in Nat /\ l \in Nat /\ m <= l
        BY <1>1, <1>3
    <2> QED
        BY <2>1, FirstOutIs
<1>5. \A i \in m..l : y[i] = x[i]
    <2> HIDE DEF x, f, l, y
    <2> SUFFICES ASSUME NEW i \in m..l PROVE y[i] = x[i]
        OBVIOUS
    <2>1. i \in 1..n /\ i > m - 1
        BY <1>1, <1>3
    <2>2. Apart(x, y, f, m - 1, n)
        BY DEF x, y, f
    <2> QED
        BY <2>1, <2>2 DEF Apart
<1>6. y[l] \in T
    <2>1. y[l] = x[l]
        BY <1>5, <1>3, <1>1
    <2> QED
        BY <2>1, <1>1
<1>7. v \in S /\ k \in m..(l - 1)
    <2>1. k # l /\ y \in Rows(n) /\ k = FirstOut(y, m, l, T)
          /\ v = Part(y, k, l, w.n - half - (k - m))
        OBVIOUS
    <2> HIDE DEF k, v, half, x, f, l, y, S
    <2>2. v \in UnpartedIn(n, T) /\ k \in m..(l - 1) /\ y[k] \notin T
        BY <2>1, <1>1, <1>3, <1>6, RightPart
    <2> QED
        BY <2>2 DEF S
<1>8. v.range = y /\ v.f = k /\ v.l = l
    BY PartIs
<1>9. right = part[v] /\ \A g : RightOf(g, w, T, left, m) = g[v]
    BY DEF RightOf
<1> HIDE DEF v, k, half, x, f, l, y
<1>10. Smaller(S, v, w)
    BY <1>7, <1>8, <1>1, <1>3 DEF Smaller, f, l
<1>11. GoodPart(v.range, v.f, v.l, n, right)
    BY <1>9, <1>10
<1>12. GoodPart(y, k, l, n, right)
    BY <1>11, <1>8
<1>13. right.range \in Rows(n) /\ right.at \in m..l /\ Apart(y, right.range, m, l, n)
    BY <1>12, <1>7, <1>1, <1>3 DEF GoodPart, Apart
<1>14. ASSUME NEW g, \A u : Smaller(S, u, w) => g[u] = part[u] PROVE right = RightOf(g, w, T, left, m)
    BY <1>9, <1>10, <1>14
<1>15. ASSUME \A i \in f..l : x[i] = i,
              \A u : Smaller(S, u, w) /\ Ident(u) => Sides(part[u].range, u.f, part[u].at, u.l, T)
       PROVE  Sides(right.range, m, right.at, l, T)
    <2>0. \A i \in m..l : y[i] = i
        BY <1>5, <1>15, <1>1, <1>3
    <2>1. Ident(v)
        BY <2>0, <1>7, <1>8, <1>1, <1>3
    <2>2. Sides(right.range, k, right.at, l, T)
        <3> HIDE DEF Ident
        <3>1. Sides(part[v].range, v.f, part[v].at, v.l, T)
            BY <2>1, <1>10, <1>15
        <3> QED
            BY <3>1, <1>8, <1>9
    <2>3. \A i \in m..(k - 1) : right.range[i] = i /\ i \in T
        <3> SUFFICES ASSUME NEW i \in m..(k - 1) PROVE right.range[i] = i /\ i \in T
            OBVIOUS
        <3>1. i \in m..l /\ i \in 1..n /\ i < k
            BY <1>7, <1>1, <1>3
        <3>2. y[i] = i /\ y[i] \in T
            BY <3>1, <2>0, <1>4
        <3>3. right.range[i] = y[i]
            BY <3>1, <1>12 DEF GoodPart, Apart
        <3> QED
            BY <3>2, <3>3
    <2>4. right.at \in k..l
        BY <1>12 DEF GoodPart
    <2>5. /\ m \in Int /\ right.at \in Int /\ k \in Int /\ l \in Int
          /\ m <= k /\ k <= right.at /\ right.at <= l + 1 /\ k <= l + 1
        BY <2>4, <1>7, <1>1, <1>3
    <2> QED
        BY <2>2, <2>3, <2>5, SidesGrowInFront
<1> QED
    BY <1>13, <1>14, <1>15 DEF x, f, l, y

\* What touches parts of a part only touches that part only.
LEMMA ApartTwice ==
    ASSUME NEW n \in Nat, NEW f \in Int, NEW l \in Int, NEW a \in Int, NEW b \in Int,
           NEW c \in Int, NEW d \in Int, f <= a, b <= l, f <= c, d <= l, NEW x, NEW y, NEW z,
           Apart(x, y, a, b, n), Apart(y, z, c, d, n)
    PROVE  Apart(x, z, f, l, n)
<1> SUFFICES ASSUME NEW k \in 1..n, k < f \/ k > l PROVE z[k] = x[k]
    BY DEF Apart
<1>1. y[k] = x[k]
    BY DEF Apart
<1>2. z[k] = y[k]
    BY DEF Apart
<1> QED
    BY <1>1, <1>2

\* The two halves partitioned, and the middle rotated.
LEMMA StablePartOfHalves ==
    ASSUME NEW n \in Nat, NEW T, NEW w \in UnpartedIn(n, T), w.n >= 4, NEW part, NEW buffer, NEW kind,
           ~(w.n <= buffer),
           \A v : Smaller(UnpartedIn(n, T), v, w) => GoodPart(v.range, v.f, v.l, n, part[v]),
           NEW r, r = StablePart(part, w, T, buffer, kind)
    PROVE  /\ GoodPart(w.range, w.f, w.l, n, r)
           /\ \A g : (\A v : Smaller(UnpartedIn(n, T), v, w) => g[v] = part[v])
                     => r = StablePart(g, w, T, buffer, kind)
           /\ (/\ \A k \in w.f..w.l : w.range[k] = k
               /\ \A v : Smaller(UnpartedIn(n, T), v, w) /\ (\A k \in v.f..v.l : v.range[k] = k)
                             => Sides(part[v].range, v.f, part[v].at, v.l, T))
              => Sides(r.range, w.f, r.at, w.l, T)
<1> DEFINE x == w.range
           f == w.f
           l == w.l
           m == f + w.n \div 2
           left == LeftOf(part, w, T, m)
           y == left.range
           a == left.at
           k == FirstOut(y, m, l, T)
           right == RightOf(part, w, T, left, m)
           S == UnpartedIn(n, T)
           Ident(u) == \A i \in u.f..u.l : u.range[i] = i
           Given == \A u : Smaller(S, u, w) /\ Ident(u) => Sides(part[u].range, u.f, part[u].at, u.l, T)
           Same(g) == \A v : Smaller(S, v, w) => g[v] = part[v]
           Halves(u, v) == IF k = l THEN Rotate(y, a, m, l + 1, kind)
                           ELSE Rotate(v.range, a, m, v.at, kind)
<1>1. /\ x \in Rows(n) /\ f \in 1..n /\ l \in 1..n /\ f < l /\ w.n = l - f + 1
      /\ x[f] \notin T /\ x[l] \in T
    BY PartOf
<1>n. w.n # 2 /\ w.n # 3
    BY <1>1
<1>2. /\ m \in (f + 2)..(l - 1) /\ y \in Rows(n) /\ a \in f..(m - 1)
      /\ Apart(x, y, f, m - 1, n)
      /\ \A g : Same(g) => left = LeftOf(g, w, T, m)
      /\ ((\A i \in f..l : x[i] = i) /\ Given => Sides(y, f, a, m - 1, T))
    <2> HIDE DEF left
    <2> QED
        BY LeftOfIs DEF left
<1>3. r = IF k = l THEN Rotate(y, a, m, l + 1, kind) ELSE Rotate(right.range, a, m, right.at, kind)
    BY <1>n, StablePartHalves
<1>4. \A g : Same(g) => StablePart(g, w, T, buffer, kind) =
                           IF k = l THEN Rotate(y, a, m, l + 1, kind)
                           ELSE Rotate(RightOf(g, w, T, left, m).range, a, m,
                                       RightOf(g, w, T, left, m).at, kind)
    <2> SUFFICES ASSUME NEW g, Same(g)
                 PROVE  StablePart(g, w, T, buffer, kind) =
                           IF k = l THEN Rotate(y, a, m, l + 1, kind)
                           ELSE Rotate(RightOf(g, w, T, left, m).range, a, m,
                                       RightOf(g, w, T, left, m).at, kind)
        OBVIOUS
    <2>1. left = LeftOf(g, w, T, m)
        BY <1>2
    <2> HIDE DEF left, Same
    <2> QED
        BY <2>1, <1>n, StablePartHalves
<1>5. CASE k = l
    <2> DEFINE t == Rotated(y, a, m, l + 1)
               c == a + ((l + 1) - m)
    <2>1. r = Rotate(y, a, m, l + 1, kind)
        BY <1>3, <1>5
    <2>s. \A g : Same(g) => r = StablePart(g, w, T, buffer, kind)
        <3> HIDE DEF Same
        <3> QED
            BY <2>1, <1>4, <1>5
    <2>k. \A i \in m..(l - 1) : y[i] \in T
        <3>1. m \in Nat /\ l \in Nat /\ m <= l
            BY <1>1, <1>2
        <3> QED
            BY <3>1, <1>5, FirstOutIs
    <2> HIDE DEF x, f, l, m, left, y, a, k, right, Given, Same
    <2>2. r = Result(t, c)
        <3>1. a \in 1..(n + 1) /\ m \in 1..(n + 1) /\ l + 1 \in 1..(n + 1) /\ a <= m /\ m <= l + 1
            BY <1>1, <1>2
        <3> QED
            BY <2>1, <3>1, <1>2, RotateIs
    <2>3. r.range = t /\ r.at = c /\ r = Result(r.range, r.at)
        BY <2>2, ResultIs
    <2>4. t \in Rows(n) /\ Apart(x, t, f, l, n)
        <3>1. a \in 1..(n + 1) /\ m \in 1..(n + 1) /\ l + 1 \in 1..(n + 1) /\ a <= m /\ m <= l + 1
            BY <1>1, <1>2
        <3>2. t \in Rows(n) /\ \A i \in 1..n :
                  t[i] = IF i < a \/ i >= l + 1 THEN y[i]
                         ELSE IF i < a + ((l + 1) - m) THEN y[i + (m - a)] ELSE y[i - ((l + 1) - m)]
            <4> DEFINE e == l + 1
            <4>1. e \in 1..(n + 1) /\ m <= e /\ y \in Rows(n)
                BY <3>1, <1>2
            <4> HIDE DEF e
            <4>2. Rotated(y, a, m, e) \in Rows(n) /\ \A i \in 1..n :
                      Rotated(y, a, m, e)[i] = IF i < a \/ i >= e THEN y[i]
                         ELSE IF i < a + (e - m) THEN y[i + (m - a)] ELSE y[i - (e - m)]
                BY <3>1, <4>1, RotatedIsRow
            <4> QED
                BY <4>2 DEF e
        <3> HIDE DEF t
        <3>3. ASSUME NEW i \in 1..n, i < f \/ i > l PROVE t[i] = x[i]
            <4>1. i < a \/ i >= l + 1
                BY <3>3, <1>1, <1>2
            <4>2. t[i] = y[i]
                BY <3>2, <4>1
            <4>3. i < f \/ i > m - 1
                BY <3>3, <1>1, <1>2
            <4>4. y[i] = x[i]
                BY <4>3, <1>2 DEF Apart
            <4> QED
                BY <4>2, <4>4
        <3> QED
            BY <3>2, <3>3 DEF Apart
    <2>5. c \in f..l
        BY <1>1, <1>2
    <2>6. ASSUME \A i \in f..l : x[i] = i, Given PROVE Sides(t, f, c, l, T)
        <3>1. Sides(y, f, a, m - 1, T)
            BY <1>2, <2>6
        <3>2. \A i \in m..l : y[i] = i /\ i \in T
            <4> SUFFICES ASSUME NEW i \in m..l PROVE y[i] = i /\ i \in T
                OBVIOUS
            <4>1. i \in 1..n /\ i > m - 1 /\ i \in f..l
                BY <1>1, <1>2
            <4>2. y[i] = x[i] /\ x[i] = i
                BY <4>1, <1>2, <2>6 DEF Apart
            <4>3. CASE i = l
                BY <4>2, <4>3, <1>1
            <4>4. CASE i # l
                <5>1. i \in m..(l - 1)
                    BY <4>4, <1>1, <1>2
                <5> QED
                    BY <5>1, <4>2, <2>k
            <4> QED
                BY <4>2, <4>3, <4>4
        <3>3. m \in Int /\ l \in Int
            BY <1>1, <1>2
        <3>4. Sides(y, m, l + 1, l, T)
            BY <3>2, <3>3, SidesAll
        <3>5. a \in Int /\ l + 1 \in Int /\ f <= a /\ a <= m /\ m <= l + 1 /\ l + 1 <= l + 1
            BY <1>1, <1>2
        <3> HIDE DEF t, c
        <3> QED
            BY <3>1, <3>4, <3>5, <3>3, <1>1, <1>2, SidesJoin DEF t, c
    <2> HIDE DEF t, c
    <2>7. GoodPart(x, f, l, n, r)
        BY <2>3, <2>4, <2>5 DEF GoodPart
    <2>8. (\A i \in f..l : x[i] = i) /\ Given => Sides(r.range, f, r.at, l, T)
        BY <2>3, <2>6
    <2> QED
        BY <2>7, <2>8, <2>s DEF x, f, l, Given, Same
<1>6. CASE k # l
    <2>r. /\ right.range \in Rows(n) /\ right.at \in m..l /\ Apart(y, right.range, m, l, n)
          /\ \A g : Same(g) => right = RightOf(g, w, T, left, m)
          /\ ((\A i \in f..l : x[i] = i) /\ Given => Sides(right.range, m, right.at, l, T))
        <3> HIDE DEF left, right
        <3> QED
            BY <1>2, <1>6, RightOfIs DEF right
    <2> DEFINE z == right.range
               b == right.at
               t == Rotated(z, a, m, b)
               c == a + (b - m)
    <2>1. r = Rotate(z, a, m, b, kind)
        BY <1>3, <1>6
    <2>s. \A g : Same(g) => r = StablePart(g, w, T, buffer, kind)
        <3> HIDE DEF Same, right, left
        <3> QED
            BY <2>1, <2>r, <1>4, <1>6
    <2>z. z \in Rows(n) /\ b \in m..l /\ Apart(y, z, m, l, n)
          /\ ((\A i \in f..l : x[i] = i) /\ Given => Sides(z, m, b, l, T))
        BY <2>r
    <2> HIDE DEF x, f, l, m, left, y, a, k, right, Given, Same, z, b
    <2>2. r = Result(t, c)
        <3>1. a \in 1..(n + 1) /\ m \in 1..(n + 1) /\ b \in 1..(n + 1) /\ a <= m /\ m <= b
            BY <1>1, <1>2, <2>z
        <3> QED
            BY <2>1, <3>1, <2>z, RotateIs
    <2>3. r.range = t /\ r.at = c /\ r = Result(r.range, r.at)
        BY <2>2, ResultIs
    <2>a. /\ a \in Int /\ m \in Int /\ b \in Int /\ f <= a /\ a <= m /\ m <= b /\ b <= l + 1
          /\ b <= l
        BY <1>1, <1>2, <2>z
    <2>4. t \in Rows(n) /\ Apart(z, t, f, l, n)
        <3>1. a \in 1..(n + 1) /\ m \in 1..(n + 1) /\ b \in 1..(n + 1) /\ a <= m /\ m <= b
            BY <1>1, <1>2, <2>z
        <3>2. t \in Rows(n) /\ \A i \in 1..n :
                  t[i] = IF i < a \/ i >= b THEN z[i]
                         ELSE IF i < a + (b - m) THEN z[i + (m - a)] ELSE z[i - (b - m)]
            BY <3>1, <2>z, RotatedIsRow
        <3> HIDE DEF t
        <3>3. ASSUME NEW i \in 1..n, i < f \/ i > l PROVE t[i] = z[i]
            <4>1. i < a \/ i >= b
                BY <3>3, <1>1, <2>a
            <4> QED
                BY <3>2, <4>1
        <3> QED
            BY <3>2, <3>3 DEF Apart
    <2>5. Apart(x, t, f, l, n)
        <3> HIDE DEF t
        <3>1. Apart(x, z, f, l, n)
            <4>1. /\ f \in Int /\ l \in Int /\ m \in Int /\ m - 1 \in Int
                  /\ f <= f /\ m - 1 <= l /\ f <= m /\ l <= l
                BY <1>1, <1>2
            <4> QED
                BY <4>1, <1>2, <2>z, ApartTwice
        <3> QED
            BY <3>1, <2>4 DEF Apart
    <2>6. c \in f..l
        BY <2>a, <1>1, <1>2
    <2>7. ASSUME \A i \in f..l : x[i] = i, Given PROVE Sides(t, f, c, l, T)
        <3>1. Sides(z, m, b, l, T)
            BY <2>z, <2>7
        <3>2. Sides(y, f, a, m - 1, T)
            BY <1>2, <2>7
        <3>3. \A i \in f..(m - 1) : z[i] = y[i]
            <4> SUFFICES ASSUME NEW i \in f..(m - 1) PROVE z[i] = y[i]
                OBVIOUS
            <4>1. i \in 1..n /\ i < m
                BY <1>1, <1>2
            <4> QED
                BY <4>1, <2>z DEF Apart
        <3>4. Sides(z, f, a, m - 1, T)
            BY <3>2, <3>3, <2>a, <1>1 DEF Sides
        <3> HIDE DEF t, c
        <3> QED
            BY <3>1, <3>4, <2>a, <1>1, <2>z, SidesJoin DEF t, c
    <2> HIDE DEF t, c
    <2>8. GoodPart(x, f, l, n, r)
        BY <2>3, <2>4, <2>5, <2>6 DEF GoodPart
    <2>9. (\A i \in f..l : x[i] = i) /\ Given => Sides(r.range, f, r.at, l, T)
        BY <2>3, <2>7
    <2> QED
        BY <2>8, <2>9, <2>s DEF x, f, l, Given, Same
<1> QED
    BY <1>5, <1>6

-----------------------------------------------------------------------------
(* Two and three elements *)

\* Two elements out of order.
LEMMA PartOfTwo ==
    ASSUME NEW n \in Nat, NEW T, NEW x \in Rows(n), NEW f \in 1..n, NEW l \in 1..n, l = f + 1,
           x[f] \notin T, x[l] \in T, NEW r, r = Result(Swap(x, f, l), l)
    PROVE  /\ GoodPart(x, f, l, n, r)
           /\ (\A k \in f..l : x[k] = k) => Sides(r.range, f, r.at, l, T)
<1> DEFINE y == Swap(x, f, l)
<1>1. r = Result(r.range, r.at) /\ r.range = y /\ r.at = l
    BY ResultIs
<1>2. y \in Rows(n) /\ y[f] = x[l] /\ y[l] = x[f] /\ \A k \in 1..n : k # f /\ k # l => y[k] = x[k]
    BY SwapType, ZenonT(40)
<1> HIDE DEF y
<1>3. Apart(x, y, f, l, n)
    BY <1>2 DEF Apart
<1>4. ASSUME \A k \in f..l : x[k] = k PROVE Sides(y, f, l, l, T)
    <2>1. y[f] = l /\ y[l] = f /\ l \in T /\ f \notin T
        BY <1>2, <1>4
    <2>2. \A k \in f..l : k = f \/ k = l
        OBVIOUS
    <2>3. f \in f..l /\ l \in f..l
        OBVIOUS
    <2>4. ASSUME NEW e \in f..l PROVE \E k \in f..l : y[k] = e
        BY <2>1, <2>2, <2>3
    <2>5. \A k \in f..(l - 1) : k = f
        OBVIOUS
    <2>6. \A k \in l..l : k = l
        OBVIOUS
    <2>7. \A k \in f..l : y[k] \in f..l
        BY <2>1, <2>2, <2>3
    <2> QED
        BY <2>1, <2>4, <2>5, <2>6, <2>7 DEF Sides
<1> QED
    BY <1>1, <1>2, <1>3, <1>4 DEF GoodPart

\* Three elements, the first and last out of order.
LEMMA PartOfThree ==
    ASSUME NEW n \in Nat, NEW T, NEW x \in Rows(n), NEW f \in 1..n, NEW l \in 1..n,
           NEW m \in 1..n, m = f + 1, l = m + 1, x[f] \notin T, x[l] \in T, NEW r,
           r = IF x[m] \in T THEN Result(Swap(Swap(x, f, m), m, l), l)
               ELSE Result(Swap(Swap(x, m, l), f, m), m)
    PROVE  /\ GoodPart(x, f, l, n, r)
           /\ (\A k \in f..l : x[k] = k) => Sides(r.range, f, r.at, l, T)
<1>a. /\ f \in f..l /\ m \in f..l /\ l \in f..l /\ f < m /\ m < l
      /\ \A k \in f..l : k = f \/ k = m \/ k = l
    OBVIOUS
<1>1. CASE x[m] \in T
    <2> DEFINE z == Swap(x, f, m)
               y == Swap(z, m, l)
    <2>1. r = Result(r.range, r.at) /\ r.range = y /\ r.at = l
        BY <1>1, ResultIs
    <2>2. /\ z \in Rows(n) /\ z[f] = x[m] /\ z[m] = x[f]
          /\ \A k \in 1..n : k # f /\ k # m => z[k] = x[k]
        BY SwapType
    <2> HIDE DEF z
    <2>3. /\ y \in Rows(n) /\ y[m] = z[l] /\ y[l] = z[m]
          /\ \A k \in 1..n : k # m /\ k # l => y[k] = z[k]
        BY <2>2, SwapType
    <2> HIDE DEF y
    <2>4. y[f] = x[m] /\ y[m] = x[l] /\ y[l] = x[f]
          /\ \A k \in 1..n : k # f /\ k # m /\ k # l => y[k] = x[k]
        BY <2>2, <2>3
    <2>5. Apart(x, y, f, l, n)
        BY <2>4 DEF Apart
    <2>6. ASSUME \A k \in f..l : x[k] = k PROVE Sides(y, f, l, l, T)
        <3>1. y[f] = m /\ y[m] = l /\ y[l] = f /\ m \in T /\ l \in T /\ f \notin T
            BY <2>4, <2>6, <1>1, <1>a
        <3>2. \A k \in f..(l - 1) : k = f \/ k = m
            OBVIOUS
        <3>3. \A k \in l..l : k = l
            OBVIOUS
        <3>4. ASSUME NEW e \in f..l PROVE \E k \in f..l : y[k] = e
            BY <3>1, <1>a
        <3>5. \A k \in f..l : y[k] \in f..l
            BY <3>1, <1>a
        <3> QED
            BY <3>1, <3>2, <3>3, <3>4, <3>5, <1>a, SMTT(40) DEF Sides
    <2> QED
        BY <2>1, <2>3, <2>5, <2>6, <1>a DEF GoodPart
<1>2. CASE x[m] \notin T
    <2> DEFINE z == Swap(x, m, l)
               y == Swap(z, f, m)
    <2>1. r = Result(r.range, r.at) /\ r.range = y /\ r.at = m
        BY <1>2, ResultIs
    <2>2. /\ z \in Rows(n) /\ z[m] = x[l] /\ z[l] = x[m]
          /\ \A k \in 1..n : k # m /\ k # l => z[k] = x[k]
        BY SwapType
    <2> HIDE DEF z
    <2>3. /\ y \in Rows(n) /\ y[f] = z[m] /\ y[m] = z[f]
          /\ \A k \in 1..n : k # f /\ k # m => y[k] = z[k]
        <3>1. z \in Rows(n)
            BY <2>2
        <3>2. /\ Swap(z, f, m) \in Rows(n) /\ Swap(z, f, m)[f] = z[m] /\ Swap(z, f, m)[m] = z[f]
              /\ \A k \in 1..n : k # f /\ k # m => Swap(z, f, m)[k] = z[k]
            BY <3>1, SwapType
        <3> QED
            BY <3>2
    <2> HIDE DEF y
    <2>4. y[f] = x[l] /\ y[m] = x[f] /\ y[l] = x[m]
          /\ \A k \in 1..n : k # f /\ k # m /\ k # l => y[k] = x[k]
        BY <2>2, <2>3
    <2>5. Apart(x, y, f, l, n)
        BY <2>4 DEF Apart
    <2>6. ASSUME \A k \in f..l : x[k] = k PROVE Sides(y, f, m, l, T)
        <3>1. y[f] = l /\ y[m] = f /\ y[l] = m /\ m \notin T /\ l \in T /\ f \notin T
            BY <2>4, <2>6, <1>2, <1>a
        <3>2. \A k \in f..(m - 1) : k = f
            OBVIOUS
        <3>3. \A k \in m..l : k = m \/ k = l
            OBVIOUS
        <3>4. ASSUME NEW e \in f..l PROVE \E k \in f..l : y[k] = e
            BY <3>1, <1>a
        <3>5. \A k \in f..l : y[k] \in f..l
            BY <3>1, <1>a
        <3> QED
            BY <3>1, <3>2, <3>3, <3>4, <3>5, <1>a, SMTT(40) DEF Sides
    <2> QED
        BY <2>1, <2>3, <2>5, <2>6, <1>a DEF GoodPart
<1> QED
    BY <1>1, <1>2

\* Two names in a row.
LEMMA PairIs ==
    ASSUME NEW a \in Nat, NEW b \in Nat
    PROVE  <<a, b>> \in Seq(Nat) /\ Len(<<a, b>>) = 2 /\ <<a, b>>[1] = a /\ <<a, b>>[2] = b
    OBVIOUS

\* Through the buffer: those in T, the last and the first, and the others.
LEMMA PartThroughBuffer ==
    ASSUME NEW n \in Nat, NEW T, NEW x \in Rows(n), NEW f \in 1..n, NEW l \in 1..n, f < l,
           x[f] \notin T, x[l] \in T, NEW parted, parted = Parted(SubSeq(x, f + 1, l - 1), T), NEW r,
           r = Result(Overwrite(x, f, parted.trues \o <<x[l], x[f]>> \o parted.falses),
                      f + Len(parted.trues) + 1)
    PROVE  /\ GoodPart(x, f, l, n, r)
           /\ (\A k \in f..l : x[k] = k) => Sides(r.range, f, r.at, l, T)
<1> DEFINE t == parted.trues
           u == parted.falses
           p == Len(t)
           q == Len(u)
           m == l - f - 1
           seg == t \o <<x[l], x[f]>> \o u
           y == Overwrite(x, f, seg)
           a == f + p + 1
           sub == SubSeq(x, f + 1, l - 1)
<1>0. x \in Seq(Nat) /\ Len(x) = n /\ x[f] \in Nat /\ x[l] \in Nat
    BY RowIsSeq
<1>1. sub \in Seq(Nat) /\ Len(sub) = m /\ \A k \in 1..m : sub[k] = x[f + k]
    <2> DEFINE c == f + 1
               d == l - 1
    <2>1. c \in 1..(Len(x) + 1) /\ d \in 0..Len(x) /\ c <= d + 1 /\ d - c + 1 = m
        BY <1>0
    <2>2. \A k \in 1..m : c + k - 1 = f + k
        OBVIOUS
    <2> HIDE DEF c, d, m
    <2>3. SubSeq(x, c, d) \in Seq(Nat) /\ Len(SubSeq(x, c, d)) = d - c + 1
          /\ \A k \in 1..(d - c + 1) : SubSeq(x, c, d)[k] = x[c + k - 1]
        BY <1>0, <2>1, SubSeqIs
    <2> QED
        BY <2>1, <2>2, <2>3 DEF c, d
<1> HIDE DEF sub
<1>2. /\ t \in Seq(Nat) /\ u \in Seq(Nat) /\ p + q = m /\ m \in Nat
      /\ ((\A k \in 1..m : sub[k] = f + k) => Splits(t, u, T, f, m))
    <2>1. f \in Nat /\ m = Len(sub) /\ m \in Nat
        BY <1>1
    <2>2. parted = Parted(sub, T)
        BY DEF sub
    <2> HIDE DEF m
    <2>3. /\ parted.trues \in Seq(Nat) /\ parted.falses \in Seq(Nat)
          /\ Len(parted.trues) + Len(parted.falses) = m
          /\ ((\A k \in 1..m : sub[k] = f + k) => Splits(parted.trues, parted.falses, T, f, m))
        <3>1. sub \in Seq(Nat)
            BY <1>1
        <3> QED
            BY <2>1, <2>2, <3>1, PartedIs, ZenonT(40)
    <2> QED
        BY <2>1, <2>3
<1>3. p \in Nat /\ q \in Nat /\ p + q = l - f - 1
    <2>1. t \in Seq(Nat) /\ u \in Seq(Nat) /\ p + q = l - f - 1
        BY <1>2
    <2> HIDE DEF t, u, m
    <2>2. p \in Nat /\ q \in Nat
        BY <2>1
    <2> HIDE DEF p, q
    <2> QED
        BY <2>1, <2>2
<1>4. r = Result(r.range, r.at) /\ r.range = y /\ r.at = a
    <2> HIDE DEF y, a
    <2>1. r = Result(y, a)
        BY DEF y, a
    <2> QED
        BY <2>1, ResultIs
<1> HIDE DEF t, u, p, q
<1>5. /\ seg \in Seq(Nat) /\ Len(seg) = p + 2 + q
      /\ \A k \in 1..p : seg[k] = t[k]
      /\ seg[p + 1] = x[l] /\ seg[p + 2] = x[f]
      /\ \A k \in 1..q : seg[p + 2 + k] = u[k]
    <2> DEFINE two == <<x[l], x[f]>>
               v == t \o two
    <2>1. two \in Seq(Nat) /\ Len(two) = 2 /\ two[1] = x[l] /\ two[2] = x[f]
        BY <1>0, PairIs
    <2> HIDE DEF two
    <2>2. v \in Seq(Nat) /\ Len(v) = p + Len(two)
          /\ (\A i \in 1..p : v[i] = t[i]) /\ (\A i \in 1..Len(two) : v[p + i] = two[i])
        BY <1>2, <2>1, ConcatIs DEF p
    <2> HIDE DEF v
    <2>3. Len(v) = p + 2 /\ v[p + 1] = x[l] /\ v[p + 2] = x[f] /\ p + 1 \in 1..(p + 2) /\ p + 2 \in 1..(p + 2)
          /\ \A i \in 1..p : i \in 1..(p + 2)
        <3>1. p \in Nat /\ Len(v) = p + 2 /\ 1 \in 1..Len(two) /\ 2 \in 1..Len(two)
            BY <2>1, <2>2, <1>3
        <3>2. v[p + 1] = x[l] /\ v[p + 2] = x[f]
            BY <2>1, <2>2, <3>1
        <3> QED
            BY <3>1, <3>2
    <2>4. v \o u \in Seq(Nat) /\ Len(v \o u) = Len(v) + q
          /\ (\A i \in 1..Len(v) : (v \o u)[i] = v[i]) /\ (\A i \in 1..q : (v \o u)[Len(v) + i] = u[i])
        BY <1>2, <2>2, ConcatIs DEF q
    <2>5. seg = v \o u
        BY DEF v, two
    <2> HIDE DEF seg
    <2> QED
        BY <2>2, <2>3, <2>4, <2>5
<1> HIDE DEF seg
<1>6. y \in Rows(n) /\ \A i \in 1..n : y[i] = IF i < f \/ i >= f + Len(seg) THEN x[i] ELSE seg[i - f + 1]
    <2>0. Len(seg) = p + 2 + q
        BY <1>5
    <2>1. f \in 1..(n + 1) /\ f + Len(seg) <= n + 1
        BY <2>0, <1>3
    <2> QED
        BY <2>1, <1>5, OverwriteIs
<1> HIDE DEF y
<1>7. f + Len(seg) = l + 1
    <2>1. Len(seg) = p + 2 + q
        BY <1>5
    <2>2. f \in Int /\ l \in Int
        OBVIOUS
    <2> HIDE DEF seg
    <2> QED
        BY <2>1, <2>2, <1>3
<1>8. Apart(x, y, f, l, n)
    <2> SUFFICES ASSUME NEW k \in 1..n, k < f \/ k > l PROVE y[k] = x[k]
        BY DEF Apart
    <2>1. k < f \/ k >= f + Len(seg)
        BY <1>7
    <2> QED
        BY <2>1, <1>6
<1>9. a \in f..l
    BY <1>2, <1>3
<1>s. \A i \in f..l : y[i] = seg[i - f + 1]
    <2> SUFFICES ASSUME NEW i \in f..l PROVE y[i] = seg[i - f + 1]
        OBVIOUS
    <2>1. i \in 1..n /\ ~(i < f \/ i >= f + Len(seg))
        BY <1>7
    <2> QED
        BY <2>1, <1>6
<1>10. ASSUME \A k \in f..l : x[k] = k PROVE Sides(y, f, a, l, T)
    <2>1. Splits(t, u, T, f, m)
        <3>1. \A k \in 1..m : sub[k] = f + k
            <4> SUFFICES ASSUME NEW k \in 1..m PROVE sub[k] = f + k
                OBVIOUS
            <4>1. f + k \in f..l /\ sub[k] = x[f + k]
                BY <1>1
            <4> QED
                BY <4>1, <1>10
        <3> QED
            BY <3>1, <1>2
    <2>2. x[l] = l /\ x[f] = f /\ l \in T /\ f \notin T
        BY <1>10
    <2>3. ASSUME NEW k \in f..(a - 1)
          PROVE  /\ y[k] \in T /\ y[k] \in f..l /\ (k = f + p => y[k] = l)
                 /\ (k < f + p => y[k] = t[k - f + 1] /\ y[k] < l /\ k - f + 1 \in 1..p)
        <3>1. CASE k = f + p
            <4>1. k \in f..l /\ k - f + 1 = p + 1
                BY <3>1, <1>3
            <4>2. y[k] = l
                BY <4>1, <1>s, <1>5, <2>2
            <4> QED
                BY <4>2, <2>2, <3>1
        <3>2. CASE k < f + p
            <4> DEFINE i == k - f + 1
            <4>1. k \in f..l /\ i \in 1..p
                BY <3>2, <1>3
            <4>2. y[k] = seg[i]
                BY <4>1, <1>s
            <4> HIDE DEF i
            <4>3. y[k] = t[i] /\ t[i] \in T /\ t[i] \in (f + 1)..(f + m)
                BY <4>1, <4>2, <1>5, <2>1 DEF Splits, p
            <4> QED
                BY <4>1, <4>3, <3>2 DEF i
        <3> QED
            BY <3>1, <3>2, <1>3
    <2>4. ASSUME NEW k \in a..l
          PROVE  /\ y[k] \notin T /\ y[k] \in f..l /\ (k = a => y[k] = f)
                 /\ (k > a => y[k] = u[k - a] /\ y[k] > f /\ k - a \in 1..q)
        <3>1. CASE k = a
            <4>1. k \in f..l /\ k - f + 1 = p + 2
                BY <3>1, <1>3
            <4>2. y[k] = f
                BY <4>1, <1>s, <1>5, <2>2
            <4> QED
                BY <4>2, <2>2, <3>1
        <3>2. CASE k > a
            <4> DEFINE i == k - a
            <4>1. k \in f..l /\ i \in 1..q /\ k - f + 1 = p + 2 + i
                BY <3>2, <1>3
            <4>2. y[k] = seg[p + 2 + i]
                BY <4>1, <1>s
            <4> HIDE DEF i
            <4>3. y[k] = u[i] /\ u[i] \notin T /\ u[i] \in (f + 1)..(f + m)
                BY <4>1, <4>2, <1>5, <2>1 DEF Splits, q
            <4> QED
                BY <4>1, <4>3, <3>2 DEF i
        <3> QED
            BY <3>1, <3>2, <1>3
    <2>5. ASSUME NEW j \in f..(a - 1), NEW k \in f..(a - 1), j < k PROVE y[j] < y[k]
        <3>1. j < f + p
            BY <2>5, <1>3
        <3>2. y[j] = t[j - f + 1] /\ y[j] < l /\ j - f + 1 \in 1..p
            BY <3>1, <2>3
        <3>3. CASE k = f + p
            BY <3>2, <3>3, <2>3
        <3>4. CASE k < f + p
            <4> DEFINE g == j - f + 1
                       h == k - f + 1
            <4>1. y[k] = t[h] /\ h \in 1..p /\ g < h /\ y[j] = t[g] /\ g \in 1..p
                BY <3>2, <3>4, <2>3, <2>5
            <4> HIDE DEF g, h
            <4> QED
                BY <4>1, <2>1 DEF Splits, p
        <3> QED
            BY <3>3, <3>4, <1>3
    <2>6. ASSUME NEW j \in a..l, NEW k \in a..l, j < k PROVE y[j] < y[k]
        <3>1. k > a
            BY <2>6, <1>3
        <3>2. y[k] = u[k - a] /\ y[k] > f /\ k - a \in 1..q
            BY <3>1, <2>4
        <3>3. CASE j = a
            BY <3>2, <3>3, <2>4
        <3>4. CASE j > a
            <4> DEFINE g == j - a
                       h == k - a
            <4>1. y[k] = u[h] /\ h \in 1..q /\ g < h /\ y[j] = u[g] /\ g \in 1..q
                BY <3>2, <3>4, <2>4, <2>6, <1>3
            <4> HIDE DEF g, h
            <4> QED
                BY <4>1, <2>1 DEF Splits, q
        <3> QED
            BY <3>3, <3>4, <1>3, SMTT(40)
    <2>7. ASSUME NEW k \in f..l PROVE y[k] \in f..l
        <3>1. k \in f..(a - 1) \/ k \in a..l
            BY <1>9
        <3> QED
            BY <3>1, <2>3, <2>4
    <2>8. ASSUME NEW e \in f..l PROVE \E k \in f..l : y[k] = e
        <3>1. CASE e = f
            BY <3>1, <1>9, <2>4
        <3>2. CASE e = l
            <4>1. f + p \in f..(a - 1) /\ f + p \in f..l
                BY <1>9, <1>3
            <4> QED
                BY <4>1, <3>2, <2>3
        <3>3. CASE e \in (f + 1)..(f + m) /\ e \in T
            <4>1. PICK i \in 1..p : t[i] = e
                BY <3>3, <2>1 DEF Splits, p
            <4> DEFINE k == f + i - 1
            <4>2. k \in f..(a - 1) /\ k < f + p /\ k - f + 1 = i /\ k \in f..l
                BY <1>9, <1>3
            <4> HIDE DEF k
            <4>3. y[k] = e
                BY <4>1, <4>2, <2>3
            <4> QED
                BY <4>2, <4>3
        <3>4. CASE e \in (f + 1)..(f + m) /\ e \notin T
            <4>1. PICK i \in 1..q : u[i] = e
                BY <3>4, <2>1 DEF Splits, q
            <4> DEFINE k == a + i
            <4>2. k \in a..l /\ k > a /\ k - a = i /\ k \in f..l
                BY <1>9, <1>3
            <4> HIDE DEF k
            <4>3. y[k] = e
                BY <4>1, <4>2, <2>4
            <4> QED
                BY <4>2, <4>3
        <3>5. e = f \/ e = l \/ e \in (f + 1)..(f + m)
            OBVIOUS
        <3> QED
            BY <3>1, <3>2, <3>3, <3>4, <3>5
    <2> QED
        BY <2>3, <2>4, <2>5, <2>6, <2>7, <2>8 DEF Sides
<1> HIDE DEF a
<1> QED
    BY <1>4, <1>6, <1>8, <1>9, <1>10 DEF GoodPart

-----------------------------------------------------------------------------
(* stable_partition *)

\* One level of the recursion, when the levels below do what they should.
LEMMA StablePartIs ==
    ASSUME NEW n \in Nat, NEW T, NEW w \in UnpartedIn(n, T), NEW part, NEW buffer, NEW kind,
           \A v : Smaller(UnpartedIn(n, T), v, w) => GoodPart(v.range, v.f, v.l, n, part[v]),
           NEW r, r = StablePart(part, w, T, buffer, kind)
    PROVE  /\ GoodPart(w.range, w.f, w.l, n, r)
           /\ \A g : (\A v : Smaller(UnpartedIn(n, T), v, w) => g[v] = part[v])
                     => r = StablePart(g, w, T, buffer, kind)
           /\ (/\ \A k \in w.f..w.l : w.range[k] = k
               /\ \A v : Smaller(UnpartedIn(n, T), v, w) /\ (\A k \in v.f..v.l : v.range[k] = k)
                             => Sides(part[v].range, v.f, part[v].at, v.l, T))
              => Sides(r.range, w.f, r.at, w.l, T)
<1> DEFINE x == w.range
           f == w.f
           l == w.l
           parted == Parted(SubSeq(x, f + 1, l - 1), T)
           three == IF x[f + 1] \in T THEN Result(Swap(Swap(x, f, f + 1), f + 1, l), l)
                    ELSE Result(Swap(Swap(x, f + 1, l), f, f + 1), f + 1)
           through == Result(Overwrite(x, f, parted.trues \o <<x[l], x[f]>> \o parted.falses),
                             f + Len(parted.trues) + 1)
<1>1. /\ x \in Rows(n) /\ f \in 1..n /\ l \in 1..n /\ f < l /\ w.n = l - f + 1
      /\ x[f] \notin T /\ x[l] \in T
    BY PartOf
<1>2. ASSUME w.n = 2 PROVE \A g : StablePart(g, w, T, buffer, kind) = Result(Swap(x, f, l), l)
    BY <1>2 DEF StablePart
<1>3. ASSUME w.n = 3 PROVE \A g : StablePart(g, w, T, buffer, kind) = three
    BY <1>3 DEF StablePart
<1>4. ASSUME w.n # 2, w.n # 3, w.n <= buffer
      PROVE  \A g : StablePart(g, w, T, buffer, kind) = through
    BY <1>4 DEF StablePart
<1>5. CASE w.n = 2
    <2>0. l = f + 1
        BY <1>1, <1>5
    <2>1. r = Result(Swap(x, f, l), l) /\ \A g : r = StablePart(g, w, T, buffer, kind)
        BY <1>2, <1>5
    <2>2. GoodPart(x, f, l, n, r) /\ ((\A k \in f..l : x[k] = k) => Sides(r.range, f, r.at, l, T))
        <3> HIDE DEF x, f, l
        <3> QED
            BY <1>1, <2>0, <2>1, PartOfTwo
    <2> QED
        BY <2>1, <2>2
<1>6. CASE w.n = 3
    <2> DEFINE m == f + 1
    <2>0. m \in 1..n /\ l = m + 1 /\ m = f + 1
        BY <1>1, <1>6
    <2>1. r = three /\ \A g : r = StablePart(g, w, T, buffer, kind)
        BY <1>3, <1>6
    <2>2. r = IF x[m] \in T THEN Result(Swap(Swap(x, f, m), m, l), l)
              ELSE Result(Swap(Swap(x, m, l), f, m), m)
        BY <2>1
    <2>3. GoodPart(x, f, l, n, r) /\ ((\A k \in f..l : x[k] = k) => Sides(r.range, f, r.at, l, T))
        <3> HIDE DEF x, f, l, m
        <3> QED
            BY <1>1, <2>0, <2>2, PartOfThree
    <2> QED
        BY <2>1, <2>3
<1>7. CASE w.n # 2 /\ w.n # 3 /\ w.n <= buffer
    <2>1. r = through /\ \A g : r = StablePart(g, w, T, buffer, kind)
        BY <1>4, <1>7
    <2>2. GoodPart(x, f, l, n, r) /\ ((\A k \in f..l : x[k] = k) => Sides(r.range, f, r.at, l, T))
        <3>1. r = Result(Overwrite(x, f, parted.trues \o <<x[l], x[f]>> \o parted.falses),
                         f + Len(parted.trues) + 1)
            BY <2>1
        <3>2. parted = Parted(SubSeq(x, f + 1, l - 1), T)
            OBVIOUS
        <3> HIDE DEF x, f, l, parted
        <3> QED
            BY <1>1, <3>1, <3>2, PartThroughBuffer
    <2> QED
        BY <2>1, <2>2
<1>8. CASE w.n # 2 /\ w.n # 3 /\ ~(w.n <= buffer)
    <2>1. w.n >= 4
        BY <1>1, <1>8
    <2> QED
        BY <2>1, <1>8, StablePartOfHalves
<1> QED
    BY <1>5, <1>6, <1>7, <1>8

\* All of them.
LEMMA StablyPartitionIs ==
    ASSUME NEW n \in Nat, NEW T, NEW s \in Rows(n), NEW buffer, NEW kind,
           NEW w \in UnpartedIn(n, T), NEW r, r = StablyPartition(s, T, buffer, kind)[w]
    PROVE  /\ GoodPart(w.range, w.f, w.l, n, r)
           /\ (\A k \in w.f..w.l : w.range[k] = k) => Sides(r.range, w.f, r.at, w.l, T)
<1> DEFINE S == UnpartedIn(n, T)
           Good == {p \in S \X [range : Rows(n), at : 1..n] :
                       GoodPart(p[1].range, p[1].f, p[1].l, n, p[2])}
           R == [range : Rows(n), at : 1..n]
           F == {f \in [S -> R] : \A v \in S : <<v, f[v]>> \in Good}
           rank == [v \in S |-> v.l - v.f]
           d == [v \in S |-> Result(v.range, v.f)]
           Body(g, v) == StablePart(g, v, T, buffer, kind)
           B == [p \in S \X F |-> Body(p[2], p[1])]
           h == StablyPartition(s, T, buffer, kind)
           Ident(v) == \A k \in v.f..v.l : v.range[k] = k
           Q == {v \in S : /\ GoodPart(v.range, v.f, v.l, n, h[v])
                           /\ Ident(v) => Sides(h[v].range, v.f, h[v].at, v.l, T)}
<1>1. Unparted(s, T) = S
    <2>1. DOMAIN s = 1..n
        BY RowIsSeq
    <2>2. Ranges(s) = Rows(n)
        BY <2>1 DEF Ranges, Rows
    <2> QED
        BY <2>1, <2>2 DEF Unparted, UnpartedIn
<1>2. ASSUME NEW v \in S PROVE v.range \in Rows(n) /\ v.f \in 1..n /\ v.l \in 1..n /\ v.f < v.l
    BY PartOf
<1> HIDE DEF S
<1>3. ASSUME NEW v \in S, NEW t, GoodPart(v.range, v.f, v.l, n, t) PROVE t \in R /\ <<v, t>> \in Good
    <2>1. t = Result(t.range, t.at) /\ t.range \in Rows(n) /\ t.at \in v.f..v.l
        BY <1>3 DEF GoodPart
    <2>2. t.at \in 1..n
        BY <2>1, <1>2
    <2>3. Result(t.range, t.at) \in R
        BY <2>1, <2>2 DEF Result
    <2> HIDE DEF R
    <2> QED
        BY <2>1, <2>3, <1>3 DEF R
<1>4. ASSUME NEW p \in Good PROVE GoodPart(p[1].range, p[1].f, p[1].l, n, p[2])
    OBVIOUS
<1> HIDE DEF Good
<1>5. d \in F
    <2>1. ASSUME NEW v \in S PROVE d[v] \in R /\ <<v, d[v]>> \in Good
        <3> DEFINE t == Result(v.range, v.f)
        <3>1. t = Result(t.range, t.at) /\ t.range = v.range /\ t.at = v.f
            BY ResultIs
        <3> HIDE DEF t
        <3>2. GoodPart(v.range, v.f, v.l, n, t)
            BY <3>1, <1>2 DEF GoodPart, Apart
        <3>3. d[v] = t
            BY DEF t
        <3> HIDE DEF d, R
        <3> QED
            BY <3>2, <3>3, <1>3
    <2>2. d = [v \in S |-> d[v]]
        OBVIOUS
    <2> HIDE DEF d, R
    <2>3. d \in [S -> R]
        BY <2>1, <2>2
    <2> QED
        BY <2>1, <2>3
<1> HIDE DEF d
<1>6. ASSUME NEW v \in S, NEW g \in F PROVE GoodPart(v.range, v.f, v.l, n, g[v])
    <2>1. <<v, g[v]>> \in Good
        OBVIOUS
    <2> QED
        BY <2>1, <1>4
<1>7. ASSUME NEW v \in S, NEW g,
             \A u : Smaller(S, u, v) => GoodPart(u.range, u.f, u.l, n, g[u])
      PROVE  /\ GoodPart(v.range, v.f, v.l, n, Body(g, v))
             /\ \A j : (\A u : Smaller(S, u, v) => j[u] = g[u]) => Body(g, v) = Body(j, v)
             /\ (/\ Ident(v)
                 /\ \A u : Smaller(S, u, v) /\ Ident(u) => Sides(g[u].range, u.f, g[u].at, u.l, T))
                => Sides(Body(g, v).range, v.f, Body(g, v).at, v.l, T)
    <2> DEFINE t == Body(g, v)
    <2>1. t = StablePart(g, v, T, buffer, kind)
        OBVIOUS
    <2> HIDE DEF t
    <2>2. /\ GoodPart(v.range, v.f, v.l, n, t)
          /\ \A j : (\A u : Smaller(S, u, v) => j[u] = g[u]) => t = StablePart(j, v, T, buffer, kind)
          /\ (/\ Ident(v)
              /\ \A u : Smaller(S, u, v) /\ Ident(u) => Sides(g[u].range, u.f, g[u].at, u.l, T))
                => Sides(t.range, v.f, t.at, v.l, T)
        BY <2>1, <1>7, StablePartIs DEF S
    <2> QED
        BY <2>2 DEF t
<1>8. ASSUME NEW v \in S, NEW g \in F
      PROVE  B[<<v, g>>] = Body(g, v) /\ B[<<v, g>>] \in R /\ <<v, B[<<v, g>>]>> \in Good
    <2>1. B[<<v, g>>] = Body(g, v)
        <3> HIDE DEF Body, F
        <3> QED
            OBVIOUS
    <2>2. \A u : Smaller(S, u, v) => GoodPart(u.range, u.f, u.l, n, g[u])
        BY <1>6 DEF Smaller
    <2>3. GoodPart(v.range, v.f, v.l, n, Body(g, v))
        <3> HIDE DEF Body, Ident
        <3> QED
            BY <2>2, <1>7
    <2> HIDE DEF B, Body, R, F
    <2> QED
        BY <2>1, <2>3, <1>3
<1>9. ASSUME NEW v \in S, NEW g \in F, NEW j \in F, \A u \in S : rank[u] < rank[v] => g[u] = j[u]
      PROVE  B[<<v, g>>] = B[<<v, j>>]
    <2>1. \A u : Smaller(S, u, v) => GoodPart(u.range, u.f, u.l, n, g[u])
        BY <1>6 DEF Smaller
    <2>2. \A u : Smaller(S, u, v) => j[u] = g[u]
        <3> SUFFICES ASSUME NEW u, Smaller(S, u, v) PROVE j[u] = g[u]
            OBVIOUS
        <3>1. u \in S /\ rank[u] < rank[v]
            BY DEF Smaller
        <3> HIDE DEF rank
        <3> QED
            BY <3>1, <1>9
    <2>3. Body(g, v) = Body(j, v)
        <3> HIDE DEF Body, Ident, rank
        <3> QED
            BY <2>1, <2>2, <1>7
    <2> HIDE DEF B, Body, F
    <2> QED
        BY <2>3, <1>8
<1>10. rank \in [S -> Nat]
    BY <1>2
<1> HIDE DEF rank, B, R
<1>11. \E g \in F : g = [v \in S |-> B[<<v, g>>]]
    <2> DEFINE E == F
    <2>1. E = {f \in [S -> R] : \A v \in S : <<v, f[v]>> \in Good}
        OBVIOUS
    <2>d. d \in E
        BY <1>5
    <2>2. \A v \in S : \A f \in E : B[<<v, f>>] \in R /\ <<v, B[<<v, f>>]>> \in Good
        BY <1>8
    <2>3. \A v \in S : \A f, g \in E :
              (\A u \in S : rank[u] < rank[v] => f[u] = g[u]) => B[<<v, f>>] = B[<<v, g>>]
        BY <1>9
    <2> HIDE DEF E, F, Body, Ident, Q
    <2>4. \E g \in E : g = [v \in S |-> B[<<v, g>>]]
        <3>1. Recurs(S, R, Good, E, rank, d, B)
            BY <2>d, <2>1, <2>2, <2>3, <1>10 DEF Recurs
        <3> QED
            BY <3>1, RecursionSolved
    <2> QED
        BY <2>4 DEF E
<1>12. \E g : g = [v \in S |-> Body(g, v)]
    <2>1. PICK g \in F : g = [v \in S |-> B[<<v, g>>]]
        BY <1>11
    <2>2. \A v \in S : B[<<v, g>>] = Body(g, v)
        BY <1>8
    <2> HIDE DEF Body, F
    <2>3. g = [v \in S |-> Body(g, v)]
        BY <2>1, <2>2
    <2> QED
        BY <2>3
<1>13. h = [v \in S |-> Body(h, v)]
    <2>1. h = CHOOSE g : g = [v \in S |-> Body(g, v)]
        BY <1>1 DEF StablyPartition
    <2> HIDE DEF h, Body
    <2> QED
        BY <2>1, <1>12
<1> HIDE DEF h
<1>14. ASSUME NEW v \in S, \A u \in S : rank[u] < rank[v] => u \in Q PROVE v \in Q
    <2>1. h[v] = Body(h, v)
        <3> HIDE DEF Body
        <3> QED
            BY <1>13
    <2>2. \A u : Smaller(S, u, v) => u \in Q
        <3> SUFFICES ASSUME NEW u, Smaller(S, u, v) PROVE u \in Q
            OBVIOUS
        <3>1. u \in S /\ rank[u] < rank[v]
            BY DEF Smaller, rank
        <3> HIDE DEF Q
        <3> QED
            BY <3>1, <1>14
    <2>3. \A u : Smaller(S, u, v) => GoodPart(u.range, u.f, u.l, n, h[u])
        <3> HIDE DEF Ident
        <3> QED
            BY <2>2
    <2>4. \A u : Smaller(S, u, v) /\ Ident(u) => Sides(h[u].range, u.f, h[u].at, u.l, T)
        <3> HIDE DEF Ident
        <3> QED
            BY <2>2
    <2>5. /\ GoodPart(v.range, v.f, v.l, n, Body(h, v))
          /\ Ident(v) => Sides(Body(h, v).range, v.f, Body(h, v).at, v.l, T)
        <3> HIDE DEF Ident, Body
        <3> QED
            BY <1>7, <2>3, <2>4
    <2> HIDE DEF Ident, Body
    <2> QED
        BY <2>1, <2>5
<1>15. S \subseteq Q
    <2> HIDE DEF Q
    <2> QED
        BY <1>10, <1>14, RankInduction
<1>16. w \in Q
    BY <1>15 DEF S
<1> HIDE DEF Ident
<1>17. GoodPart(w.range, w.f, w.l, n, h[w]) /\ (Ident(w) => Sides(h[w].range, w.f, h[w].at, w.l, T))
    BY <1>16
<1>18. r = h[w]
    BY DEF h
<1> QED
    BY <1>17, <1>18 DEF Ident

\* stable_partition leaves what is in T in front, the rest behind, both in order.
LEMMA StablePartitionIs ==
    ASSUME NEW n \in Nat, NEW T, NEW s, s = Named(n), NEW buffer, NEW kind,
           NEW res, res = StablePartition(s, T, buffer, kind)
    PROVE  /\ res = Result(res.range, res.at) /\ res.range \in Rows(n) /\ res.at \in 1..(n + 1)
           /\ Sides(res.range, 1, res.at, n, T)
<1> DEFINE first == FirstOut(s, 1, n + 1, T)
           last == LastIn(s, first + 1, n + 1, T)
           u == Unpartitioned(s, T)
           length == IF first > n THEN 0 ELSE last - first + 1
           w == [range |-> s, f |-> first, l |-> last, n |-> length]
           part == StablyPartition(s, T, buffer, kind)[w]
<1>0. s \in Rows(n) /\ (\A k \in 1..n : s[k] = k) /\ Len(s) = n
    <2>1. s \in Rows(n) /\ \A k \in 1..n : s[k] = k
        BY NamedIs DEF Rows
    <2> QED
        BY <2>1, RowIsSeq
<1>1. u.first = first /\ u.last = last /\ u.length = length
    BY <1>0 DEF Unpartitioned
<1>2. /\ first \in 1..(n + 1) /\ (first # n + 1 => s[first] \notin T)
      /\ \A i \in 1..(first - 1) : s[i] \in T
    <2>1. 1 \in Nat /\ n + 1 \in Nat /\ 1 <= n + 1
        OBVIOUS
    <2> QED
        BY <2>1, FirstOutIs
<1>3. res = IF length <= 1 THEN Result(s, first) ELSE part
    <2>1. res = IF u.length <= 1 THEN Result(s, u.first)
                ELSE StablyPartition(s, T, buffer, kind)[[range |-> s, f |-> u.first, l |-> u.last,
                                                          n |-> u.length]]
        BY DEF StablePartition
    <2> HIDE DEF u, first, last, length
    <2> QED
        BY <1>1, <2>1
<1>4. ASSUME first \in 1..n
      PROVE  /\ last \in first..n /\ (last # first => s[last] \in T)
             /\ \A i \in (last + 1)..n : i >= first + 1 => s[i] \notin T
    <2> DEFINE e == n + 1
               g == first + 1
    <2>1. g \in Nat \ {0} /\ e \in Nat /\ g <= e
        BY <1>4
    <2>2. g - 1 = first /\ e - 1 = n
        BY <1>4
    <2> HIDE DEF g, e, first
    <2>3. /\ LastIn(s, g, e, T) \in (g - 1)..(e - 1)
          /\ LastIn(s, g, e, T) # g - 1 => s[LastIn(s, g, e, T)] \in T
          /\ \A i \in (LastIn(s, g, e, T) + 1)..(e - 1) : i >= g => s[i] \notin T
        BY <2>1, LastInIs
    <2>4. last = LastIn(s, g, e, T)
        BY DEF g, e
    <2> HIDE DEF last
    <2>5. /\ last \in first..n /\ (last # first => s[last] \in T)
          /\ \A i \in (last + 1)..n : i >= g => s[i] \notin T
        BY <2>2, <2>3, <2>4
    <2> QED
        BY <2>5 DEF g
<1> HIDE DEF first, last, u
<1>5. CASE first = n + 1
    <2>1. res = Result(s, first)
        <3>1. length <= 1
            BY <1>5
        <3> QED
            BY <3>1, <1>3
    <2>2. res.range = s /\ res.at = n + 1
        BY <2>1, <1>5, ResultIs
    <2>3. \A k \in 1..n : s[k] = k /\ k \in T
        BY <1>0, <1>2, <1>5
    <2>4. Sides(s, 1, n + 1, n, T)
        BY <2>3, SidesAll
    <2> QED
        BY <2>1, <2>2, <2>4, <1>0, <1>5
<1>6. CASE first \in 1..n /\ last = first
    <2>1. res = Result(s, first)
        <3>1. length <= 1
            BY <1>6
        <3> QED
            BY <3>1, <1>3
    <2>2. res.range = s /\ res.at = first
        BY <2>1, ResultIs
    <2>3. \A k \in 1..(first - 1) : s[k] = k /\ k \in T
        BY <1>0, <1>2, <1>6
    <2>4. \A k \in first..n : s[k] = k /\ k \notin T
        <3> SUFFICES ASSUME NEW k \in first..n PROVE s[k] = k /\ k \notin T
            OBVIOUS
        <3>1. s[k] = k
            BY <1>0, <1>6
        <3>2. CASE k = first
            BY <3>1, <3>2, <1>2, <1>6
        <3>3. CASE k # first
            BY <3>1, <3>3, <1>4, <1>6
        <3> QED
            BY <3>2, <3>3, <3>1
    <2>5. Sides(s, first, first, n, T)
        BY <2>4, <1>6, SidesNone
    <2>6. Sides(s, 1, first, n, T)
        <3>1. /\ 1 \in Int /\ first \in Int /\ n \in Int /\ 1 <= first /\ first <= first
              /\ first <= n + 1
            BY <1>6
        <3> QED
            BY <2>3, <2>5, <3>1, SidesGrowInFront
    <2> QED
        BY <2>1, <2>2, <2>6, <1>0, <1>6
<1>7. CASE first \in 1..n /\ last # first
    <2>0. last \in (first + 1)..n /\ s[last] \in T /\ s[first] \notin T
        BY <1>2, <1>4, <1>7
    <2>1. length = last - first + 1 /\ ~(length <= 1)
        BY <2>0, <1>7
    <2>2. res = part
        BY <2>1, <1>3
    <2>3. w = Part(s, first, last, length)
        BY DEF Part
    <2>4. w.range = s /\ w.f = first /\ w.l = last
        OBVIOUS
    <2> HIDE DEF length, w
    <2>5. w \in UnpartedIn(n, T)
        <3>1. first \in 1..n /\ last \in 1..n /\ first < last
            BY <2>0, <1>7
        <3>2. Part(s, first, last, length) \in UnpartedIn(n, T)
            BY <3>1, <2>0, <2>1, <1>0, PartIn
        <3> QED
            BY <3>2, <2>3
    <2> HIDE DEF part
    <2>6. /\ GoodPart(w.range, w.f, w.l, n, part)
          /\ (\A k \in w.f..w.l : w.range[k] = k) => Sides(part.range, w.f, part.at, w.l, T)
        BY <2>5, <1>0, StablyPartitionIs DEF part
    <2>7. GoodPart(s, first, last, n, res) /\ Sides(res.range, first, res.at, last, T)
        <3>1. \A k \in w.f..w.l : w.range[k] = k
            BY <2>4, <2>0, <1>0, <1>7
        <3> QED
            BY <3>1, <2>2, <2>4, <2>6
    <2>8. /\ res = Result(res.range, res.at) /\ res.range \in Rows(n) /\ res.at \in first..last
          /\ \A k \in 1..n : k < first \/ k > last => res.range[k] = k
        BY <2>7, <1>0 DEF GoodPart, Apart
    <2>9. Sides(res.range, first, res.at, n, T)
        <3>1. \A k \in (last + 1)..n : res.range[k] = k /\ k \notin T
            <4> SUFFICES ASSUME NEW k \in (last + 1)..n PROVE res.range[k] = k /\ k \notin T
                OBVIOUS
            <4>1. k \in 1..n /\ k > last /\ k >= first + 1
                BY <2>0, <1>7
            <4>2. s[k] \notin T /\ s[k] = k
                BY <4>1, <1>4, <1>7, <1>0
            <4> QED
                BY <4>1, <4>2, <2>8
        <3>2. /\ first \in Int /\ res.at \in Int /\ last \in Int /\ n \in Int /\ first <= res.at
              /\ res.at <= last + 1 /\ first <= last + 1 /\ last <= n
            BY <2>8, <2>0, <1>7
        <3> QED
            BY <3>1, <3>2, <2>7, SidesGrowBehind
    <2>10. Sides(res.range, 1, res.at, n, T)
        <3>1. \A k \in 1..(first - 1) : res.range[k] = k /\ k \in T
            <4> SUFFICES ASSUME NEW k \in 1..(first - 1) PROVE res.range[k] = k /\ k \in T
                OBVIOUS
            <4>1. k \in 1..n /\ k < first /\ s[k] \in T /\ s[k] = k
                BY <1>2, <1>7, <1>0
            <4> QED
                BY <4>1, <2>8
        <3>2. /\ 1 \in Int /\ res.at \in Int /\ first \in Int /\ n \in Int /\ 1 <= first
              /\ first <= res.at /\ res.at <= n + 1 /\ first <= n + 1
            BY <2>8, <2>0, <1>7
        <3> QED
            BY <3>1, <3>2, <2>9, SidesGrowInFront
    <2>11. res.at \in 1..(n + 1)
        BY <2>8, <2>0, <1>7
    <2> QED
        BY <2>8, <2>10, <2>11
<1>8. first = n + 1 \/ first \in 1..n
    BY <1>2
<1> QED
    BY <1>5, <1>6, <1>7, <1>8
==============================================================================
