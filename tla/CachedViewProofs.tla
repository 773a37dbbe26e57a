--------------------------- MODULE CachedViewProofs ---------------------------
(* No view answers begin() or end() with a cached iterator that is not its    *)
(* own, and no iterator leaves its view, for every set of views and every     *)
(* length of their bases.  The first is the argument of non_propagating_cache:*)
(* a cache changes only when its own view fills it, and whatever replaces a   *)
(* base empties the cache beside it.  The second rests on it: an iterator lies*)
(* between the places begin() and end() compute from the base, and what a     *)
(* step looks for next is found on its side of them.  From there every step is*)
(* matched with one of the traversal the view promises.                       *)
EXTENDS CachedView, NaturalsInduction, WellFoundedInduction, TLAPS

\* every view has a base and two caches
Shape ==
  /\ base = [v \in Views |-> base[v]]
  /\ cache = [v \in Views |-> cache[v]]
  /\ cacheEnd = [v \in Views |-> cacheEnd[v]]
  \* only a trim_view has an end_
  /\ \A v \in Views : cacheEnd[v] # NoIterator => kind = "trim"

IInv == Shape /\ CacheIsOwn

\* What begin() caches is computed from the view's own base: the cache was empty,
\* or held just that.
LEMMA FilledIsOwn ==
  ASSUME CacheIsOwn, NEW v \in Views
  PROVE  Filled(v) = IteratorOf(v, Computed(base[v]))
  BY DEF CacheIsOwn, Filled

\* Likewise for the end_ of a trim_view.
LEMMA FilledEndIsOwn ==
  ASSUME CacheIsOwn, NEW v \in Views, kind = "trim"
  PROVE  FilledEnd(v) = IteratorOf(v, TrimEnd(base[v], FirstMiss(base[v], 0)))
<1>1. Filled(v).at = FirstMiss(base[v], 0)
  BY FilledIsOwn DEF IteratorOf, Computed, Probing
<1>2. QED
  BY <1>1 DEF CacheIsOwn, FilledEnd

\* The strengthening holds at first and is kept by every operation.
LEMMA CachesStayOwn == Spec => []IInv
<1>1. Init => IInv
  BY DEF Init, IInv, Shape, CacheIsOwn
<1>2. IInv /\ [Next]_vars => IInv'
  <2> SUFFICES ASSUME IInv, [Next]_vars PROVE IInv'
    OBVIOUS
  <2> USE DEF IInv, Shape
  <2>1. ASSUME NEW v \in Views, Begin(v) PROVE IInv'
    BY <2>1, FilledIsOwn DEF Begin, CacheIsOwn, Computed
  <2>2. ASSUME NEW v \in Views, End(v) PROVE IInv'
    <3>1. Shape'
      BY <2>2 DEF End
    <3>2. ASSUME NEW u \in Views, cache'[u] # NoIterator
          PROVE  cache'[u] = IteratorOf(u, Computed(base[u]))
      BY <2>2, <3>2, FilledIsOwn DEF End, CacheIsOwn
    <3>3. ASSUME NEW u \in Views, cacheEnd'[u] # NoIterator
          PROVE  cacheEnd'[u] = IteratorOf(u, TrimEnd(base[u], FirstMiss(base[u], 0)))
      BY <2>2, <3>3, FilledEndIsOwn DEF End, CacheIsOwn
    <3>4. kind' = kind /\ base' = base
      BY <2>2 DEF End
    <3>5. QED
      BY <3>1, <3>2, <3>3, <3>4 DEF CacheIsOwn, Computed
  <2>3. ASSUME Next_ \/ Prev \/ Discard \/ UNCHANGED vars PROVE IInv'
    BY <2>3 DEF Next_, Prev, Discard, vars, CacheIsOwn, Computed
  <2>4. ASSUME NEW v \in Views, NEW w \in Views, Copy(v, w) PROVE IInv'
    BY <2>4 DEF Copy, Propagated, CacheIsOwn, Computed
  <2>5. ASSUME NEW v \in Views, NEW w \in Views, Move(v, w) PROVE IInv'
    BY <2>5 DEF Move, Propagated, MovedFrom, CacheIsOwn, Computed
  <2>6. QED
    BY <2>1, <2>2, <2>3, <2>4, <2>5 DEF Next
<1>3. QED
  BY <1>1, <1>2, PTL DEF Spec

\* What a view has cached was computed from the base it has now, whatever copies,
\* moves and assignments it went through (non_propagating_cache).
THEOREM CachesAreOwn == Spec => []CacheIsOwn
<1>1. IInv => CacheIsOwn
  BY DEF IInv
<1>2. QED
  BY <1>1, CachesStayOwn, PTL

----------------------------------------------------------------------------
(* What the searches find *)

LEMMA LeastIsLeast ==
  ASSUME NEW S, S \subseteq Nat, S # {}
  PROVE  Min(S) \in S /\ \A y \in S : Min(S) =< y
<1>1. PICK x \in S : \A y \in S : ~(<<y, x>> \in OpToRel(<, Nat))
  BY WFMin, NatLessThanWellFounded
<1>2. x \in Nat
  OBVIOUS
<1>3. \A y \in S : y \in Nat /\ ~(y < x)
  BY <1>1, <1>2 DEF OpToRel
<1>4. \A y \in S : x =< y
  BY <1>2, <1>3
<1>5. QED
  BY <1>4 DEF Min

LEMMA GreatestIsGreatest ==
  ASSUME NEW b \in Nat, NEW S, S \subseteq 0 .. b, S # {}
  PROVE  Max(S) \in S /\ \A y \in S : y =< Max(S)
<1> DEFINE D == { b - x : x \in S }
<1>1. D \subseteq Nat /\ D # {}
  <2>1. PICK s \in S : TRUE
    OBVIOUS
  <2>2. b - s \in D
    BY <2>1
  <2>3. \A x \in S : b - x \in Nat
    OBVIOUS
  <2>4. QED
    BY <2>2, <2>3
<1>2. PICK d \in D : \A e \in D : ~(<<e, d>> \in OpToRel(<, Nat))
  BY <1>1, WFMin, NatLessThanWellFounded
<1>3. \A e \in D : d =< e
  <2>1. d \in Nat
    BY <1>1
  <2>2. \A e \in D : e \in Nat /\ ~(e < d)
    BY <1>1, <1>2, <2>1 DEF OpToRel
  <2>3. QED
    BY <2>1, <2>2
<1>4. PICK x \in S : d = b - x
  OBVIOUS
<1>5. \A y \in S : y =< x
  <2>1. TAKE y \in S
  <2>2. b - y \in D
    OBVIOUS
  <2>3. d =< b - y /\ x \in Int /\ y \in Int
    BY <1>3, <2>2
  <2>4. QED
    BY <1>4, <2>3
<1>6. QED
  BY <1>5 DEF Max

\* find_if_not stops at an element the predicate does not hold for, or at the end.
LEMMA FirstMisses ==
  ASSUME NEW r, r.len \in Nat, NEW p \in 0 .. r.len
  PROVE  /\ FirstMiss(r, p) \in p .. r.len
         /\ FirstMiss(r, p) < r.len => FirstMiss(r, p) \notin r.hit
         /\ p .. FirstMiss(r, p) - 1 \subseteq r.hit
<1> DEFINE S == { q \in p .. r.len - 1 : q \notin r.hit } \cup {r.len}
<1>1. S \subseteq Nat /\ r.len \in S
  OBVIOUS
<1>2. Min(S) \in S /\ \A y \in S : Min(S) =< y
  BY <1>1, LeastIsLeast
<1>3. p .. Min(S) - 1 \subseteq r.hit
  <2>1. SUFFICES ASSUME NEW x \in p .. Min(S) - 1 PROVE x \in r.hit
    OBVIOUS
  <2>2. Min(S) \in Int /\ x \in Int /\ x \in p .. r.len - 1 /\ ~(Min(S) =< x)
    BY <1>1, <1>2
  <2>3. x \notin S
    BY <1>2, <2>2
  <2>4. QED
    BY <2>2, <2>3
<1>4. QED
  BY <1>2, <1>3 DEF FirstMiss

LEMMA LastsOfRuns ==
  ASSUME NEW r, r.len \in Nat, NEW p \in 0 .. r.len
  PROVE  /\ LastOfRun(r, p) \in p .. r.len
         /\ LastOfRun(r, p) < r.len - 1 => LastOfRun(r, p) \notin r.hit
         /\ p < r.len => LastOfRun(r, p) < r.len
         /\ p .. LastOfRun(r, p) - 1 \subseteq r.hit
<1> DEFINE S == { q \in p .. r.len - 1 : q \notin r.hit \/ q = r.len - 1 }
<1>1. CASE p = r.len
  BY <1>1 DEF LastOfRun
<1>2. CASE p # r.len
  <2>1. r.len - 1 \in S /\ S \subseteq Nat
    BY <1>2
  <2>2. Min(S) \in S /\ \A y \in S : Min(S) =< y
    BY <2>1, LeastIsLeast
  <2>3. LastOfRun(r, p) = Min(S)
    BY <1>2 DEF LastOfRun
  <2>4. LastOfRun(r, p) \in p .. r.len - 1
    BY <2>2, <2>3
  <2>5. LastOfRun(r, p) \notin r.hit \/ LastOfRun(r, p) = r.len - 1
    BY <2>2, <2>3
  <2>6. ASSUME NEW x \in p .. LastOfRun(r, p) - 1 PROVE x \in r.hit
    <3>1. Min(S) \in Int /\ x \in p .. r.len - 1 /\ ~(Min(S) =< x)
      BY <2>1, <2>2, <2>3
    <3>2. x \notin S
      BY <2>2, <3>1
    <3>3. QED
      BY <3>1, <3>2
  <2>7. QED
    BY <2>4, <2>5, <2>6
<1>3. QED
  BY <1>1, <1>2

\* A run ends behind the first pair that is not related.
LEMMA RunsEnd ==
  ASSUME NEW r, r.len \in Nat, NEW p \in 0 .. r.len
  PROVE  /\ RunEnd(r, p) \in p .. r.len
         /\ p < r.len => p < RunEnd(r, p)
         /\ p .. RunEnd(r, p) - 2 \subseteq r.hit
         /\ RunEnd(r, p) < r.len => RunEnd(r, p) - 1 \notin r.hit
<1> DEFINE B == { x \in p .. r.len - 2 : x \notin r.hit }
           S == { q + 1 : q \in B } \cup {r.len}
<1>1. S \subseteq Nat /\ r.len \in S
  OBVIOUS
<1>2. Min(S) \in S /\ \A y \in S : Min(S) =< y
  BY <1>1, LeastIsLeast
<1>3. RunEnd(r, p) = Min(S)
  BY DEF RunEnd
<1>4. \A x \in B : Min(S) =< x + 1
  BY <1>2
<1>5. Min(S) = r.len \/ \E x \in B : Min(S) = x + 1
  BY <1>2
<1>6. p .. Min(S) - 2 \subseteq r.hit
  <2>1. SUFFICES ASSUME NEW x \in p .. Min(S) - 2 PROVE x \in r.hit
    OBVIOUS
  <2>2. x \in p .. r.len - 2 /\ x + 1 < Min(S)
    BY <1>2, <1>5
  <2>3. x \in Int /\ Min(S) \in Int /\ ~(Min(S) =< x + 1)
    BY <1>1, <1>2, <2>2
  <2>4. x \notin B
    BY <1>4, <2>3
  <2>5. QED
    BY <2>2, <2>4
<1>7. QED
  BY <1>3, <1>5, <1>6

LEMMA TrimEnds ==
  ASSUME NEW r, r.len \in Nat, NEW first \in 0 .. r.len
  PROVE  /\ TrimEnd(r, first) \in first .. r.len
         /\ TrimEnd(r, first) .. r.len - 1 \subseteq r.hit
         /\ first < TrimEnd(r, first) => TrimEnd(r, first) - 1 \notin r.hit
<1> DEFINE B == { x \in first .. r.len - 1 : x \notin r.hit }
           S == {first} \cup { q + 1 : q \in B }
<1>1. S \subseteq 0 .. r.len /\ first \in S
  OBVIOUS
<1>2. Max(S) \in S /\ \A y \in S : y =< Max(S)
  BY <1>1, GreatestIsGreatest
<1>3. TrimEnd(r, first) = Max(S)
  BY DEF TrimEnd
<1>4. Max(S) \in first .. r.len
  BY <1>1, <1>2
<1>5. \A x \in B : x + 1 =< Max(S)
  BY <1>2
<1>6. ASSUME NEW x \in Max(S) .. r.len - 1 PROVE x \in r.hit
  <2>1. x \in first .. r.len - 1 /\ ~(x + 1 =< Max(S))
    BY <1>4
  <2>2. QED
    BY <1>5, <2>1
<1>7. first < Max(S) => Max(S) - 1 \notin r.hit
  BY <1>2
<1>8. QED
  BY <1>3, <1>4, <1>6, <1>7

----------------------------------------------------------------------------
(* Where iterators are *)

\* begin() and end(), computed from the base alone
Front(v) == IF kind \in {"drop_last", "chunk_by"} \cup Probing THEN 0 ELSE Computed(base[v])
Back(v) == CASE kind = "trim" -> TrimEnd(base[v], FirstMiss(base[v], 0))
             [] kind = "drop_last" -> Computed(base[v])
             [] kind = "reverse" -> 0
             [] OTHER -> base[v].len

\* An iterator lies in its view; the second place it holds is the probe of
\* drop_last, which is ahead, or the end of the chunk it reads; and its view has
\* cached the beginning it may have to step back to.
Within ==
  it # NoIterator =>
    /\ it.at \in 0 .. Over.len /\ it.second \in 0 .. Over.len
    /\ kind # "reverse" => Front(it.view) =< it.at /\ it.at =< Back(it.view)
    /\ kind \in Probing => it.at =< it.second
    /\ kind = "chunk_by" => it.second = RunEnd(Over, it.at)
    /\ kind \in {"remove_if", "adjacent_remove_if"} => cache[it.view] # NoIterator

LEMMA BasesAreTyped ==
  ASSUME TypeOK, NEW v \in Views
  PROVE  /\ kind \in AllKinds
         /\ base[v].len \in 0 .. MaxLen /\ base[v].n \in Nat
         /\ base[v].hit \subseteq 0 .. base[v].len - 1
<1>1. kind \in AllKinds /\ base[v] \in Bases(kind)
  BY KindsAreViews DEF TypeOK
<1>2. QED
  BY <1>1, BoundsAreNatural DEF Bases

\* What is cached lies in the base, if drop_exactly is given one long enough.
LEMMA ComputedPlaces ==
  ASSUME TypeOK, NEW v \in Views
  PROVE  /\ Computed(base[v]) \in Nat
         /\ Usable(kind, base[v]) => Computed(base[v]) =< base[v].len
<1> DEFINE r == base[v]
<1>1. kind \in AllKinds /\ r.len \in Nat /\ r.n \in Nat
  BY BasesAreTyped, BoundsAreNatural
<1>2. FirstMiss(r, 0) \in 0 .. r.len /\ LastOfRun(r, 0) \in 0 .. r.len /\ RunEnd(r, 0) \in 0 .. r.len
  BY <1>1, FirstMisses, LastsOfRuns, RunsEnd
<1>3. Bounded(r) \in 0 .. r.len /\ BoundedBack(r) \in 0 .. r.len
  BY <1>1 DEF Bounded, BoundedBack
<1> HIDE DEF r
<1>4. /\ Computed(r) \in Nat
      /\ Usable(kind, r) => Computed(r) =< r.len
  <2>1. CASE kind \in {"remove_if", "drop_while", "trim", "adjacent_remove_if", "chunk_by"}
    BY <1>1, <1>2, <2>1 DEF Computed, Probing
  <2>2. CASE kind \in {"drop"} \cup Probing
    BY <1>1, <1>3, <2>2 DEF Computed, Probing
  <2>3. CASE kind \in {"drop_last", "reverse", "drop_exactly"}
    BY <1>1, <1>3, <2>3 DEF Computed, Usable, Probing
  <2>4. QED
    BY <1>1, <2>1, <2>2, <2>3 DEF AllKinds, Probing
<1>5. QED
  BY <1>4 DEF r

\* begin() and end() are where they are computed to be, cached or not, and begin()
\* is not behind end().
LEMMA EndsArePlaces ==
  ASSUME TypeOK, CacheIsOwn, NEW v \in Views
  PROVE  /\ Filled(v) = IteratorOf(v, Computed(base[v]))
         /\ BeginAt(v) = Front(v) /\ EndAt(v) = Back(v)
         /\ Front(v) \in Nat
         /\ Back(v) \in Nat
         /\ Usable(kind, base[v]) =>
              /\ Front(v) =< base[v].len /\ Back(v) =< base[v].len
              /\ kind # "reverse" => Front(v) =< Back(v)
<1>1. Filled(v) = IteratorOf(v, Computed(base[v]))
  BY FilledIsOwn
<1>2. BeginAt(v) = Front(v)
  BY <1>1 DEF BeginAt, Front, IteratorOf
<1>3. EndAt(v) = Back(v)
  BY <1>1, FilledEndIsOwn DEF EndAt, Back, IteratorOf
<1>4. base[v].len \in Nat /\ Computed(base[v]) \in Nat
  BY BasesAreTyped, BoundsAreNatural, ComputedPlaces
<1>5. FirstMiss(base[v], 0) \in 0 .. base[v].len
  BY <1>4, FirstMisses
<1>6. TrimEnd(base[v], FirstMiss(base[v], 0)) \in FirstMiss(base[v], 0) .. base[v].len
  BY <1>4, <1>5, TrimEnds
<1>7. kind = "trim" => Computed(base[v]) = FirstMiss(base[v], 0)
  BY DEF Computed, Probing
<1>8. Front(v) \in Nat /\ Back(v) \in Nat
  BY <1>4, <1>5, <1>6 DEF Front, Back
<1>9. ASSUME Usable(kind, base[v])
      PROVE  /\ Front(v) =< base[v].len /\ Back(v) =< base[v].len
             /\ kind # "reverse" => Front(v) =< Back(v)
  <2>1. Computed(base[v]) =< base[v].len
    BY <1>9, ComputedPlaces
  <2>2. CASE kind = "trim"
    BY <1>4, <1>5, <1>6, <1>7, <2>2 DEF Front, Back, Probing
  <2>3. CASE kind # "trim"
    BY <1>4, <2>1, <2>3 DEF Front, Back, Probing
  <2>4. QED
    BY <2>2, <2>3
<1>10. QED
  BY <1>1, <1>2, <1>3, <1>8, <1>9

\* An iterator and its base.
LEMMA IteratorsAreTyped ==
  ASSUME TypeOK, it # NoIterator
  PROVE  /\ it.view \in Views /\ it.at \in Nat /\ it.second \in Nat
         /\ it = [view |-> it.view, at |-> it.at, second |-> it.second]
         /\ Over.len \in Nat /\ Over.len =< MaxLen /\ Over.len = base[it.view].len
         /\ kind \in AllKinds
<1>1. it \in [view : Views, at : Positions, second : Positions]
  BY DEF TypeOK
<1>2. QED
  BY <1>1, BasesAreTyped, BoundsAreNatural DEF Over, Positions

\* What stays as it is leaves Front and Back where they are.
LEMMA EndsStay ==
  ASSUME kind' = kind, base' = base, NEW v \in Views
  PROVE  Front(v)' = Front(v) /\ Back(v)' = Back(v)
BY DEF Front, Back, Computed

\* A client that goes on with the iterator it has finds its place untouched by a call
\* that fills caches.
LEMMA KeptPlaces ==
  ASSUME TypeOK, Within, kind' = kind, base' = base, it' = it,
         \A v \in Views : cache[v] # NoIterator => cache'[v] # NoIterator
  PROVE  Within'
<1>1. SUFFICES ASSUME it # NoIterator PROVE Within'
  BY DEF Within
<1>2. it.view \in Views /\ Over' = Over
  BY <1>1, IteratorsAreTyped DEF Over
<1>3. Front(it.view)' = Front(it.view) /\ Back(it.view)' = Back(it.view)
  BY <1>2 DEF Front, Back, Computed
<1>4. (RunEnd(Over, it.at))' = RunEnd(Over, it.at)
  BY <1>2 DEF RunEnd
<1>5. QED
  BY <1>1, <1>2, <1>3, <1>4 DEF Within

LEMMA BeginPlaces ==
  ASSUME TypeOK, CacheIsOwn, Within, NEW v \in Views, Begin(v)
  PROVE  TypeOK' /\ Within'
<1> DEFINE r == base[v]
<1>1. Usable(kind, r) /\ kind' = kind /\ base' = base /\ cacheEnd' = cacheEnd
  BY DEF Begin
<1>2. r.len \in 0 .. MaxLen /\ kind \in AllKinds
  BY BasesAreTyped
<1>3. /\ Filled(v) = IteratorOf(v, Computed(r)) /\ Computed(r) \in 0 .. r.len
      /\ BeginAt(v) = Front(v) /\ Front(v) \in 0 .. r.len /\ Back(v) \in 0 .. r.len
      /\ kind # "reverse" => Front(v) =< Back(v)
  BY <1>1, <1>2, EndsArePlaces, ComputedPlaces, BoundsAreNatural
<1>5. cache' \in [Views -> [view : Views, at : Positions] \cup {NoIterator}]
  BY <1>1, <1>2, <1>3, BoundsAreNatural DEF Begin, TypeOK, IteratorOf, Positions
<1>a. CASE it # NoIterator
  <2>1. it' = it
    BY <1>a DEF Begin, Obtained
  <2>2. Filled(v) # NoIterator
    BY <1>3, NoIteratorIsNone DEF IteratorOf
  <2>3. \A u \in Views : cache[u] # NoIterator => cache'[u] # NoIterator
    BY <2>2 DEF Begin, TypeOK
  <2>4. TypeOK'
    BY <1>1, <1>5, <2>1 DEF TypeOK
  <2>5. QED
    BY <1>1, <2>1, <2>3, <2>4, KeptPlaces
<1>b. SUFFICES ASSUME it = NoIterator PROVE TypeOK' /\ Within'
  BY <1>a
<1>4. it' = [view |-> v, at |-> Front(v),
             second |-> IF kind \in {"chunk_by"} \cup Probing THEN Computed(r) ELSE 0]
  BY <1>b, <1>3 DEF Begin, Obtained, BeginOf, IteratorOf
<1>6. TypeOK'
  BY <1>1, <1>2, <1>3, <1>4, <1>5, BoundsAreNatural DEF TypeOK, Positions
<1>7. Over' = r /\ it'.view = v
  BY <1>1, <1>4 DEF Over
<1>8. kind = "chunk_by" => Computed(r) = RunEnd(r, 0) /\ Front(v) = 0
  BY DEF Computed, Front, Probing
<1>9. kind \in {"remove_if", "adjacent_remove_if"} => cache'[v] # NoIterator
  BY <1>3, NoIteratorIsNone DEF Begin, IteratorOf, TypeOK
<1>10. kind \in Probing => Front(v) = 0
  BY DEF Front
<1>11. Front(v)' = Front(v) /\ Back(v)' = Back(v)
  BY <1>1, EndsStay
<1> HIDE DEF r
<1>12. (RunEnd(Over, it.at))' = RunEnd(r, it'.at)
  BY <1>7 DEF RunEnd
<1>13. QED
  BY <1>1, <1>2, <1>3, <1>4, <1>6, <1>7, <1>8, <1>9, <1>10, <1>11, <1>12 DEF Within, Probing

LEMMA EndPlaces ==
  ASSUME TypeOK, CacheIsOwn, Within, NEW v \in Views, End(v)
  PROVE  TypeOK' /\ Within'
<1> DEFINE r == base[v]
<1>1. /\ Usable(kind, r) /\ kind' = kind /\ base' = base
      /\ kind \notin {"chunk_by"} \cup Probing
  BY DEF End, EndIsIterator
<1>2. r.len \in 0 .. MaxLen /\ kind \in AllKinds
  BY BasesAreTyped
<1>3. /\ Filled(v) = IteratorOf(v, Computed(r)) /\ Computed(r) \in 0 .. r.len
      /\ EndAt(v) = Back(v) /\ Front(v) \in 0 .. r.len /\ Back(v) \in 0 .. r.len
      /\ kind # "reverse" => Front(v) =< Back(v)
  BY <1>1, <1>2, EndsArePlaces, ComputedPlaces, BoundsAreNatural
<1>5. cache' \in [Views -> [view : Views, at : Positions] \cup {NoIterator}]
  BY <1>1, <1>2, <1>3, BoundsAreNatural DEF End, TypeOK, IteratorOf, Positions
<1>6. kind = "trim" => FilledEnd(v) = IteratorOf(v, Back(v))
  BY FilledEndIsOwn DEF Back
<1>7. cacheEnd' \in [Views -> [view : Views, at : Positions] \cup {NoIterator}]
  BY <1>1, <1>2, <1>3, <1>6, BoundsAreNatural DEF End, TypeOK, IteratorOf, Positions
<1>a. CASE it # NoIterator
  <2>1. it' = it
    BY <1>a DEF End, Obtained
  <2>2. Filled(v) # NoIterator
    BY <1>3, NoIteratorIsNone DEF IteratorOf
  <2>3. \A u \in Views : cache[u] # NoIterator => cache'[u] # NoIterator
    BY <2>2 DEF End, TypeOK
  <2>4. TypeOK'
    BY <1>1, <1>5, <1>7, <2>1 DEF TypeOK
  <2>5. QED
    BY <1>1, <2>1, <2>3, <2>4, KeptPlaces
<1>b. SUFFICES ASSUME it = NoIterator PROVE TypeOK' /\ Within'
  BY <1>a
<1>4. it' = [view |-> v, at |-> Back(v), second |-> 0]
  BY <1>b, <1>3 DEF End, Obtained, EndOf
<1>8. TypeOK'
  BY <1>1, <1>2, <1>3, <1>4, <1>5, <1>7, BoundsAreNatural DEF TypeOK, Positions
<1>9. Over' = r /\ it'.view = v
  BY <1>1, <1>4 DEF Over
<1>10. kind \in {"remove_if", "adjacent_remove_if"} => cache'[v] # NoIterator
  BY <1>3, NoIteratorIsNone DEF End, IteratorOf, TypeOK, EndFillsCache
<1>11. Front(v)' = Front(v) /\ Back(v)' = Back(v)
  BY <1>1, EndsStay
<1> HIDE DEF r
<1>12. QED
  BY <1>1, <1>2, <1>3, <1>4, <1>8, <1>9, <1>10, <1>11 DEF Within

\* What holds of an iterator that moved within its view.
LEMMA MovedPlaces ==
  ASSUME TypeOK, Within, it # NoIterator, UNCHANGED <<kind, base, cache, cacheEnd>>,
         NEW p \in 0 .. Over.len, NEW q \in 0 .. Over.len,
         it' = [view |-> it.view, at |-> p, second |-> q],
         kind # "reverse" => Front(it.view) =< p /\ p =< Back(it.view),
         kind \in Probing => p =< q,
         kind = "chunk_by" => q = RunEnd(Over, p)
  PROVE  TypeOK' /\ Within'
<1>1. /\ it.view \in Views /\ Over.len \in Nat /\ Over.len =< MaxLen
      /\ it' \in [view : Views, at : Positions, second : Positions]
  BY IteratorsAreTyped, BoundsAreNatural DEF Positions
<1>2. TypeOK'
  BY <1>1 DEF TypeOK
<1>3. Over' = Over
  BY DEF Over
<1>4. (RunEnd(Over, it.at))' = RunEnd(Over, p)
  BY <1>3 DEF RunEnd
<1>5. Front(it.view)' = Front(it.view) /\ Back(it.view)' = Back(it.view)
  <2>1. kind' = kind /\ base'[it'.view] = base[it.view]
    OBVIOUS
  <2>2. Computed(base[it.view])' = Computed(base[it.view])
    BY <2>1 DEF Computed
  <2>3. QED
    BY <2>1, <2>2 DEF Front, Back
<1>6. QED
  BY <1>2, <1>3, <1>4, <1>5 DEF Within

LEMMA NextPlaces ==
  ASSUME TypeOK, CacheIsOwn, Within, Next_
  PROVE  TypeOK' /\ Within'
<1> DEFINE r == Over
           len == Over.len
           at == it.at
           second == it.second
<1>1. it # NoIterator /\ ~AtEnd /\ it' = Forward(it) /\ UNCHANGED <<kind, base, cache, cacheEnd>>
  BY DEF Next_
<1>2. /\ it.view \in Views /\ len \in Nat /\ kind \in AllKinds
      /\ it = [view |-> it.view, at |-> at, second |-> second]
      /\ at \in 0 .. len /\ second \in 0 .. len
  BY <1>1, IteratorsAreTyped DEF Within
<1>3. /\ EndAt(it.view) = Back(it.view)
      /\ Front(it.view) \in Nat /\ Back(it.view) \in Nat
      /\ kind # "reverse" => Front(it.view) =< at /\ at =< Back(it.view)
  BY <1>1, <1>2, EndsArePlaces DEF Within
<1>4. kind \notin Probing => at # Back(it.view)
  BY <1>1, <1>3 DEF AtEnd
<1>5. CASE kind \in {"remove_if", "adjacent_remove_if"}
  <2>1. Back(it.view) = len
    BY <1>2, <1>5, IteratorsAreTyped DEF Back, Over
  <2>2. at + 1 \in 0 .. len
    BY <1>2, <1>4, <1>5, <2>1 DEF Probing
  <2>3. FirstMiss(r, at + 1) \in at + 1 .. len /\ LastOfRun(r, at + 1) \in at + 1 .. len
    BY <1>2, <2>2, FirstMisses, LastsOfRuns
  <2>4. it' = [it EXCEPT !.at = IF kind = "remove_if" THEN FirstMiss(r, at + 1)
                                ELSE LastOfRun(r, at + 1)]
    BY <1>1, <1>5 DEF Forward, Probing
  <2>5. QED
    <3> HIDE DEF r
    <3>1. PICK p \in at + 1 .. len : it' = [view |-> it.view, at |-> p, second |-> second]
      BY <1>2, <2>3, <2>4
    <3>2. QED
      BY <1>1, <1>2, <1>3, <1>5, <2>1, <3>1, MovedPlaces DEF Probing
<1>6. CASE kind \in Probing
  <2>1. second # len /\ at =< second /\ Front(it.view) = 0 /\ Back(it.view) = len
    BY <1>1, <1>2, <1>6, IteratorsAreTyped DEF AtEnd, Within, Front, Back, Probing, Over
  <2>2. it' = [view |-> it.view, at |-> at + 1, second |-> second + 1]
    BY <1>1, <1>2, <1>6 DEF Forward, Probing
  <2>3. at + 1 \in 0 .. len /\ second + 1 \in 0 .. len
    BY <1>2, <2>1
  <2>4. QED
    BY <1>1, <1>2, <1>6, <2>1, <2>2, <2>3, MovedPlaces DEF Probing
<1>7. CASE kind = "reverse"
  <2>1. at # 0 /\ it' = [view |-> it.view, at |-> at - 1, second |-> second]
    BY <1>1, <1>2, <1>4, <1>7 DEF Back, Forward, Probing
  <2>2. at - 1 \in 0 .. len
    BY <1>2, <2>1
  <2>3. QED
    BY <1>1, <1>2, <1>7, <2>1, <2>2, MovedPlaces DEF Probing
<1>8. CASE kind = "chunk_by"
  <2>1. Front(it.view) = 0 /\ Back(it.view) = len
    BY <1>2, <1>8, IteratorsAreTyped DEF Front, Back, Over
  <2>2. it' = [view |-> it.view, at |-> second, second |-> RunEnd(r, second)]
    BY <1>1, <1>2, <1>8 DEF Forward, Probing
  <2>3. RunEnd(r, second) \in 0 .. len
    BY <1>2, RunsEnd
  <2>4. QED
    BY <1>1, <1>2, <1>8, <2>1, <2>2, <2>3, MovedPlaces DEF Probing
<1>9. CASE kind \in {"drop", "drop_exactly", "drop_while", "trim", "drop_last"}
  <2>1. it' = [view |-> it.view, at |-> at + 1, second |-> second]
    BY <1>1, <1>2, <1>9 DEF Forward, Probing
  <2>2. at + 1 =< Back(it.view) /\ Front(it.view) =< at + 1
    BY <1>2, <1>3, <1>4, <1>9 DEF Probing
  <2>3. at + 1 \in 0 .. len
    <3>1. CASE kind = "drop_last"
      <4>1. Usable(kind, base[it.view])
        BY <3>1 DEF Usable
      <4>2. Back(it.view) =< len
        BY <1>2, <4>1, EndsArePlaces DEF Over
      <4>3. QED
        BY <1>2, <1>3, <2>2, <4>2
    <3>2. CASE kind = "trim"
      <4>1. Usable(kind, base[it.view])
        BY <3>2 DEF Usable
      <4>2. Back(it.view) =< len
        BY <1>2, <4>1, EndsArePlaces DEF Over
      <4>3. QED
        BY <1>2, <1>3, <2>2, <4>2
    <3>3. CASE kind \in {"drop", "drop_exactly", "drop_while"}
      <4>1. Back(it.view) = len
        BY <3>3 DEF Back, Over
      <4>2. QED
        BY <1>2, <2>2, <4>1
    <3>4. QED
      BY <1>9, <3>1, <3>2, <3>3
  <2>4. QED
    BY <1>1, <1>2, <1>9, <2>1, <2>2, <2>3, MovedPlaces DEF Probing
<1>10. QED
  BY <1>2, <1>5, <1>6, <1>7, <1>8, <1>9 DEF AllKinds, Probing

\* The walk back of remove_if and adjacent_remove_if stops at the first element
\* they keep, at the latest.
LEMMA WalksBack ==
  ASSUME TypeOK, Within, it # NoIterator, kind \in {"remove_if", "adjacent_remove_if"},
         it.at # Front(it.view)
  PROVE  LET p == IF kind = "remove_if" THEN MissBefore(it.at) ELSE RunEndBefore(it.at)
         IN  p \in 0 .. Over.len /\ Front(it.view) =< p
<1> DEFINE r == Over
           at == it.at
           front == Front(it.view)
<1>1. /\ it.view \in Views /\ r.len \in Nat /\ r = base[it.view]
      /\ at \in 0 .. r.len /\ front =< at /\ front = Computed(r)
  BY IteratorsAreTyped DEF Within, Front, Over, Probing
<1>2. /\ kind = "remove_if" => front = FirstMiss(r, 0)
      /\ kind = "adjacent_remove_if" => front = LastOfRun(r, 0)
  BY <1>1 DEF Computed, Probing
<1>3. FirstMiss(r, 0) \in 0 .. r.len /\ LastOfRun(r, 0) \in 0 .. r.len
  BY <1>1, FirstMisses, LastsOfRuns
<1>4. front \in 0 .. at - 1
  BY <1>1, <1>2, <1>3
<1> DEFINE S == { q \in 0 .. at - 1 : q \notin r.hit }
<1>5. front \in S => Max(S) \in 0 .. r.len /\ front =< Max(S)
  <2>1. SUFFICES ASSUME front \in S PROVE Max(S) \in 0 .. r.len /\ front =< Max(S)
    OBVIOUS
  <2>2. S \subseteq 0 .. at /\ at \in Nat
    BY <1>1
  <2>3. Max(S) \in S /\ front =< Max(S)
    BY <2>1, <2>2, GreatestIsGreatest
  <2>4. QED
    BY <1>1, <2>2, <2>3
<1>6. CASE kind = "remove_if"
  <2>1. front \notin r.hit
    BY <1>1, <1>2, <1>4, <1>6, FirstMisses
  <2>2. MissBefore(at) = Max(S)
    BY DEF MissBefore
  <2>3. QED
    BY <1>4, <1>5, <1>6, <2>1, <2>2
<1>7. CASE kind = "adjacent_remove_if" /\ at = r.len
  <2>1. RunEndBefore(at) = at - 1
    BY <1>7 DEF RunEndBefore
  <2>2. QED
    BY <1>1, <1>4, <1>7, <2>1
<1>8. CASE kind = "adjacent_remove_if" /\ at # r.len
  <2>1. front < r.len - 1
    BY <1>1, <1>4, <1>8
  <2>2. front \notin r.hit
    BY <1>1, <1>2, <1>8, <2>1, LastsOfRuns
  <2>3. RunEndBefore(at) = Max(S)
    BY <1>8 DEF RunEndBefore
  <2>4. QED
    BY <1>4, <1>5, <1>8, <2>2, <2>3
<1>9. QED
  BY <1>6, <1>7, <1>8

LEMMA PrevPlaces ==
  ASSUME TypeOK, CacheIsOwn, Within, Prev
  PROVE  TypeOK' /\ Within'
<1> DEFINE len == Over.len
           at == it.at
           second == it.second
<1>1. /\ it # NoIterator /\ ~AtBegin /\ UNCHANGED <<kind, base, cache, cacheEnd>>
      /\ kind \notin {"drop_last_forward", "chunk_by"}
  BY DEF Prev, StepsBack
<1>2. /\ it.view \in Views /\ len \in Nat /\ kind \in AllKinds
      /\ it = [view |-> it.view, at |-> at, second |-> second]
      /\ at \in 0 .. len /\ second \in 0 .. len
  BY <1>1, IteratorsAreTyped DEF Within
<1>3. /\ BeginAt(it.view) = Front(it.view)
      /\ Front(it.view) \in Nat /\ Back(it.view) \in Nat
      /\ kind # "reverse" => Front(it.view) =< at /\ at =< Back(it.view)
  BY <1>1, <1>2, EndsArePlaces DEF Within
<1>4. at # Front(it.view)
  BY <1>1, <1>3 DEF AtBegin
<1>5. CASE kind \in {"remove_if", "adjacent_remove_if"}
  <2> DEFINE p == IF kind = "remove_if" THEN MissBefore(at) ELSE RunEndBefore(at)
  <2>1. p \in 0 .. len /\ Front(it.view) =< p
    BY <1>1, <1>4, <1>5, WalksBack
  <2>2. it' = [view |-> it.view, at |-> p, second |-> second]
    BY <1>2, <1>5 DEF Prev, Backward
  <2>3. Back(it.view) = len
    BY <1>5 DEF Back, Over
  <2> HIDE DEF p
  <2>4. QED
    BY <1>1, <1>2, <1>5, <2>1, <2>2, <2>3, MovedPlaces DEF Probing
<1>6. CASE kind = "reverse"
  <2>1. Front(it.view) = len
    BY <1>2, <1>6 DEF Front, Computed, Over, Probing
  <2>2. it' = [view |-> it.view, at |-> at + 1, second |-> second]
    BY <1>2, <1>6 DEF Prev, Backward
  <2>3. at + 1 \in 0 .. len
    BY <1>2, <1>4, <2>1
  <2>4. QED
    BY <1>1, <1>2, <1>6, <2>2, <2>3, MovedPlaces DEF Probing
<1>7. CASE kind \notin {"remove_if", "adjacent_remove_if", "reverse"}
  <2>1. it' = [view |-> it.view, at |-> at - 1, second |-> second]
    BY <1>2, <1>7 DEF Prev, Backward
  <2>2. at - 1 \in 0 .. len /\ Front(it.view) =< at - 1 /\ at - 1 =< Back(it.view)
    BY <1>2, <1>3, <1>4, <1>7
  <2>3. kind \in Probing => at - 1 =< second
    BY <1>1, <1>2 DEF Within
  <2>4. QED
    BY <1>1, <1>2, <1>7, <2>1, <2>2, <2>3, MovedPlaces
<1>8. QED
  BY <1>5, <1>6, <1>7

\* A copy, move or assignment gives a view another base; an iterator into it is lost.
LEMMA OthersStay ==
  ASSUME TypeOK, Within, kind' = kind, NEW vs \in SUBSET Views, Lost(vs),
         \A v \in Views \ vs : base'[v] = base[v] /\ cache'[v] = cache[v]
  PROVE  Within'
<1>1. SUFFICES ASSUME it' # NoIterator PROVE Within'
  BY DEF Within
<1>2. it' = it /\ it # NoIterator /\ it.view \in Views \ vs
  BY <1>1, IteratorsAreTyped DEF Lost
<1>3. /\ base'[it'.view] = base[it.view] /\ cache'[it'.view] = cache[it.view]
      /\ Over' = Over
  BY <1>2 DEF Over
<1>4. Computed(base[it.view])' = Computed(base[it.view])
  BY <1>3 DEF Computed
<1>5. Front(it.view)' = Front(it.view) /\ Back(it.view)' = Back(it.view)
  BY <1>3, <1>4 DEF Front, Back
<1>6. (RunEnd(Over, it.at))' = RunEnd(Over, it.at)
  BY <1>2, <1>3 DEF RunEnd
<1>7. QED
  BY <1>2, <1>3, <1>5, <1>6 DEF Within

LEMMA CopyPlaces ==
  ASSUME TypeOK, Within, NEW v \in Views, NEW w \in Views, Copy(v, w)
  PROVE  TypeOK' /\ Within'
<1>1. TypeOK'
  BY DEF Copy, Propagated, TypeOK, Lost
<1>2. \A u \in Views \ {v} : base'[u] = base[u] /\ cache'[u] = cache[u]
  BY DEF Copy, TypeOK
<1>3. kind' = kind /\ Lost({v})
  BY DEF Copy
<1>4. QED
  BY <1>1, <1>2, <1>3, OthersStay

LEMMA MovePlaces ==
  ASSUME TypeOK, Within, NEW v \in Views, NEW w \in Views, Move(v, w)
  PROVE  TypeOK' /\ Within'
<1>1. PICK left \in {base[w], [base[w] EXCEPT !.len = 0, !.hit = {}]} :
        base' = [base EXCEPT ![v] = base[w], ![w] = left]
  BY DEF Move
<1>2. left \in Bases(kind)
  <2> DEFINE r == base[w]
  <2>1. r \in Bases(kind)
    BY DEF TypeOK
  <2>2. r \in [len : 0 .. MaxLen, hit : SUBSET (0 .. MaxLen - 1), n : 0 .. MaxDrop]
    BY <2>1 DEF Bases
  <2>3. CASE left = [r EXCEPT !.len = 0, !.hit = {}]
    <3>1. left = [len |-> 0, hit |-> {}, n |-> r.n]
      BY <2>2, <2>3
    <3>2. 0 \in 0 .. MaxLen
      BY BoundsAreNatural
    <3>3. left \in [len : 0 .. MaxLen, hit : SUBSET (0 .. MaxLen - 1), n : 0 .. MaxDrop]
      BY <2>2, <3>1, <3>2
    <3>4. kind \notin Counting => left.n = 0
      BY <2>1, <3>1 DEF Bases
    <3>5. left.hit = {}
      BY <3>1
    <3>6. QED
      BY <3>3, <3>4, <3>5 DEF Bases
  <2>4. QED
    BY <1>1, <2>1, <2>3
<1>3. base' \in [Views -> Bases(kind)]
  BY <1>1, <1>2 DEF TypeOK
<1>4. TypeOK'
  BY <1>3 DEF Move, Propagated, MovedFrom, TypeOK, Lost
<1>5. \A u \in Views \ {v, w} : base'[u] = base[u] /\ cache'[u] = cache[u]
  BY <1>1 DEF Move, TypeOK
<1>6. kind' = kind /\ Lost({v, w})
  BY DEF Move
<1>7. QED
  BY <1>4, <1>5, <1>6, OthersStay

LEMMA PlacesAreKept == Spec => [](CacheIsOwn /\ TypeOK /\ Within)
<1>1. Init => TypeOK /\ Within
  BY DEF Init, TypeOK, Within
<1>2. TypeOK /\ Within /\ CacheIsOwn /\ [Next]_vars => TypeOK' /\ Within'
  <2> SUFFICES ASSUME TypeOK, Within, CacheIsOwn, [Next]_vars PROVE TypeOK' /\ Within'
    OBVIOUS
  <2>1. ASSUME NEW v \in Views, Begin(v) \/ End(v) PROVE TypeOK' /\ Within'
    BY <2>1, BeginPlaces, EndPlaces
  <2>2. ASSUME Next_ \/ Prev PROVE TypeOK' /\ Within'
    BY <2>2, NextPlaces, PrevPlaces
  <2>6. ASSUME Discard PROVE TypeOK' /\ Within'
    BY <2>6 DEF Discard, TypeOK, Within
  <2>3. ASSUME NEW v \in Views, NEW w \in Views, Copy(v, w) \/ Move(v, w)
        PROVE  TypeOK' /\ Within'
    BY <2>3, CopyPlaces, MovePlaces
  <2>4. CASE UNCHANGED vars
    <3>1. it' # NoIterator => Over' = Over /\ base'[it'.view] = base[it.view]
      BY <2>4 DEF vars, Over
    <3>2. TypeOK'
      BY <2>4 DEF vars, TypeOK
    <3>3. Within'
      BY <2>4, <3>1 DEF vars, Within, Front, Back, Computed
    <3>4. QED
      BY <3>2, <3>3
  <2>5. QED
    BY <2>1, <2>2, <2>3, <2>4, <2>6 DEF Next
<1>3. Spec => []CacheIsOwn
  BY CachesAreOwn
<1>4. QED
  BY <1>1, <1>2, <1>3, PTL DEF Spec

\* Caches and iterators hold places of the base they belong to, for bases of any length.
THEOREM TypesAreCorrect == Spec => []TypeOK
BY PlacesAreKept, PTL

\* The assertions of satisfy_reverse (remove_if.hpp, adjacent_remove_if.hpp) hold:
\* an iterator that may step back has a cached beginning and stops at it.
THEOREM WalksBackStop == Spec => []ReverseAssertsHold
<1>1. ASSUME CacheIsOwn, TypeOK, Within PROVE ReverseAssertsHold
  <2>1. SUFFICES ASSUME it # NoIterator, kind \in {"remove_if", "adjacent_remove_if"}, ~AtBegin
                 PROVE  /\ cache[it.view] # NoIterator
                        /\ cache[it.view].at =<
                             (IF kind = "remove_if" THEN MissBefore(it.at)
                              ELSE RunEndBefore(it.at))
    BY DEF ReverseAssertsHold
  <2>2. it.view \in Views /\ cache[it.view] # NoIterator
    BY <1>1, <2>1, IteratorsAreTyped DEF Within
  <2>3. cache[it.view].at = Front(it.view)
    <3>1. cache[it.view] = IteratorOf(it.view, Computed(base[it.view]))
      BY <1>1, <2>2 DEF CacheIsOwn
    <3>2. Front(it.view) = Computed(base[it.view])
      BY <2>1 DEF Front, Probing
    <3>3. QED
      BY <3>1, <3>2 DEF IteratorOf
  <2>4. it.at # Front(it.view)
    BY <1>1, <2>1, <2>2, EndsArePlaces DEF AtBegin
  <2>5. QED
    BY <1>1, <2>1, <2>2, <2>3, <2>4, WalksBack
<1>2. QED
  BY <1>1, PlacesAreKept, PTL

\* Every chunk of a chunk_by view is a whole run, however long its base.
THEOREM ChunksAreWhole == Spec => []ChunksAreRuns
<1>1. ASSUME CacheIsOwn, TypeOK, Within PROVE ChunksAreRuns
  <2>1. SUFFICES ASSUME it # NoIterator, kind = "chunk_by", ~AtEnd
                 PROVE  /\ it.at < it.second
                        /\ it.at .. it.second - 2 \subseteq Over.hit
                        /\ it.second < Over.len => it.second - 1 \notin Over.hit
    BY DEF ChunksAreRuns
  <2>2. /\ it.view \in Views /\ Over.len \in Nat /\ it.at \in 0 .. Over.len
        /\ it.second = RunEnd(Over, it.at)
    BY <1>1, <2>1, IteratorsAreTyped DEF Within
  <2>3. it.at # Over.len
    BY <2>1 DEF AtEnd, EndAt, Over, Probing
  <2>4. QED
    BY <2>2, <2>3, RunsEnd
<1>2. QED
  BY <1>1, PlacesAreKept, PTL

----------------------------------------------------------------------------
(* What an iterator is at *)

Elements == Promised(Over)

Here == IF AtEnd THEN Over.len ELSE IF kind = "reverse" THEN Over.len - it.at ELSE it.at

\* An iterator that is not at its end is at an element its view promises.  The
\* probe of drop_last is n elements ahead, or at the end of a base that is shorter.
OnElement ==
  it # NoIterator =>
    /\ kind = "drop_last_forward" =>
         it.second = IF Over.n < Over.len THEN it.at + Over.n ELSE Over.len
    /\ ~AtEnd => Here \in Elements

\* the end of the view, computed from the base
AtBack == IF kind \in Probing THEN it.second = Over.len ELSE it.at = Back(it.view)

EndsAreComputed ==
  TypeOK /\ CacheIsOwn /\ it # NoIterator =>
    /\ AtEnd <=> AtBack
    /\ AtBegin <=> it.at = Front(it.view)

LEMMA AlwaysComputed == EndsAreComputed
<1>1. SUFFICES ASSUME TypeOK, CacheIsOwn, it # NoIterator
               PROVE  (AtEnd <=> AtBack) /\ (AtBegin <=> it.at = Front(it.view))
  BY DEF EndsAreComputed
<1>2. it.view \in Views
  BY <1>1, IteratorsAreTyped
<1>3. BeginAt(it.view) = Front(it.view) /\ EndAt(it.view) = Back(it.view)
  BY <1>1, <1>2, EndsArePlaces
<1>4. QED
  BY <1>3 DEF AtEnd, AtBegin, AtBack

LEMMA ComputedAfterwards == EndsAreComputed'
  BY AlwaysComputed, PTL

Intervals == {"drop", "drop_exactly", "drop_while", "trim", "drop_last", "drop_last_forward"}

Beyond(v) == IF kind = "drop_last_forward" THEN BoundedBack(base[v]) ELSE Back(v)

\* Six of the views promise what lies between two places.
LEMMA PromisedBetween ==
  ASSUME TypeOK, NEW v \in Views, kind \in Intervals
  PROVE  /\ Promised(base[v]) = Front(v) .. Beyond(v) - 1
         /\ Beyond(v) =< base[v].len
<1> DEFINE r == base[v]
<1>1. r.len \in Nat /\ r.n \in Nat /\ r.hit \subseteq 0 .. r.len - 1
  BY BasesAreTyped, BoundsAreNatural
<1> HIDE DEF r
<1>2. SUFFICES Promised(r) = Front(v) .. Beyond(v) - 1 /\ Beyond(v) =< r.len
  BY DEF r
<1>3. CASE kind = "drop"
  <2>1. Front(v) = Bounded(r) /\ Beyond(v) = r.len
    BY <1>3 DEF Front, Beyond, Back, Computed, Probing, r
  <2>2. Promised(r) = { q \in 0 .. r.len - 1 : q >= r.n }
    BY <1>1, <1>3 DEF Promised, Probing
  <2>3. QED
    BY <1>1, <2>1, <2>2 DEF Bounded
<1>4. CASE kind = "drop_exactly"
  <2>1. Front(v) = r.n /\ Beyond(v) = r.len
    BY <1>4 DEF Front, Beyond, Back, Computed, Probing, r
  <2>2. Promised(r) = { q \in 0 .. r.len - 1 : q >= r.n }
    BY <1>1, <1>4 DEF Promised, Probing
  <2>3. QED
    BY <1>1, <2>1, <2>2
<1>5. CASE kind = "drop_while"
  <2> DEFINE f == FirstMiss(r, 0)
  <2>1. Front(v) = f /\ Beyond(v) = r.len
    BY <1>5 DEF Front, Beyond, Back, Computed, Probing, r
  <2>2. Promised(r) = { q \in 0 .. r.len - 1 : ~(0 .. q \subseteq r.hit) }
    BY <1>1, <1>5 DEF Promised, Probing
  <2>3. f \in 0 .. r.len /\ (f < r.len => f \notin r.hit) /\ 0 .. f - 1 \subseteq r.hit
    BY <1>1, FirstMisses
  <2> HIDE DEF f
  <2>4. ASSUME NEW q \in 0 .. r.len - 1 PROVE 0 .. q \subseteq r.hit <=> q < f
    BY <1>1, <2>3
  <2>5. QED
    BY <1>1, <2>1, <2>2, <2>3, <2>4
<1>6. CASE kind = "trim"
  <2> DEFINE f == FirstMiss(r, 0)
             t == TrimEnd(r, f)
  <2>1. Front(v) = f /\ Beyond(v) = t
    BY <1>6 DEF Front, Beyond, Back, Computed, Probing, r
  <2>2. Promised(r) = { q \in 0 .. r.len - 1 : /\ ~(0 .. q \subseteq r.hit)
                                            /\ ~(q .. r.len - 1 \subseteq r.hit) }
    BY <1>1, <1>6 DEF Promised, Probing
  <2>3. f \in 0 .. r.len /\ (f < r.len => f \notin r.hit) /\ 0 .. f - 1 \subseteq r.hit
    BY <1>1, FirstMisses
  <2>4. /\ t \in f .. r.len /\ t .. r.len - 1 \subseteq r.hit
        /\ f < t => t - 1 \notin r.hit
    BY <1>1, <2>3, TrimEnds
  <2> HIDE DEF f, t
  <2>5. ASSUME NEW q \in 0 .. r.len - 1 PROVE 0 .. q \subseteq r.hit <=> q < f
    BY <1>1, <2>3
  <2>6. ASSUME NEW q \in f .. r.len - 1 PROVE q .. r.len - 1 \subseteq r.hit <=> q >= t
    BY <1>1, <2>3, <2>4
  <2>7. QED
    BY <1>1, <2>1, <2>2, <2>3, <2>4, <2>5, <2>6
<1>7. CASE kind \in {"drop_last", "drop_last_forward"}
  <2>1. Front(v) = 0 /\ Beyond(v) = BoundedBack(r)
    BY <1>7 DEF Front, Beyond, Back, Computed, Probing, r
  <2>2. Promised(r) = { q \in 0 .. r.len - 1 : q + r.n < r.len }
    BY <1>1, <1>7 DEF Promised, Probing
  <2>3. QED
    BY <1>1, <2>1, <2>2 DEF BoundedBack
<1>8. QED
  BY <1>3, <1>4, <1>5, <1>6, <1>7 DEF Intervals

\* the place after an element, and the place before it, among S and the end e
After(S, e, p, q) == q \in S \cup {e} /\ q > p /\ \A x \in S \cup {e} : x > p => x >= q
Before(S, e, p, q) == q \in S \cup {e} /\ q < p /\ \A x \in S \cup {e} : x < p => x =< q

\* where an iterator over r is, by the places it holds
SpotOf(k, r, back, p, q) ==
  IF IF k \in Probing THEN q = r.len ELSE p = back THEN r.len
  ELSE IF k = "reverse" THEN r.len - p ELSE p

\* An iterator into view v is at an element the view promises, or at the view's end.
\* The probe of drop_last is n elements ahead, or at the end of a shorter base.
AtBackOf(v, p, q) == IF kind \in Probing THEN q = base[v].len ELSE p = Back(v)
WellPlaced(v, p, q) ==
  /\ kind = "drop_last_forward" =>
       q = IF base[v].n < base[v].len THEN p + base[v].n ELSE base[v].len
  /\ AtBackOf(v, p, q) \/ SpotOf(kind, base[v], Back(v), p, q) \in Promised(base[v])

\* An iterator that moved within its view has the same elements to walk over.
LEMMA MovedSpot ==
  ASSUME TypeOK, CacheIsOwn, TypeOK', CacheIsOwn', it # NoIterator,
         kind' = kind, base' = base, NEW p \in Int, NEW q \in Int,
         it' = [view |-> it.view, at |-> p, second |-> q]
  PROVE  /\ it' # NoIterator /\ it'.at = p /\ it'.second = q
         /\ Over' = Over /\ Elements' = Elements
         /\ Here = SpotOf(kind, Over, Back(it.view), it.at, it.second)
         /\ Here' = SpotOf(kind, Over, Back(it.view), p, q)
         /\ AtEnd <=> IF kind \in Probing THEN it.second = Over.len ELSE it.at = Back(it.view)
         /\ AtEnd' <=> IF kind \in Probing THEN q = Over.len ELSE p = Back(it.view)
<1>1. it' # NoIterator
  BY IteratorsAreTyped, NoIteratorIsNone
<1>2. Over' = Over
  BY DEF Over
<1>3. Elements' = Elements
  BY <1>2 DEF Elements, Promised
<1>4. Computed(base[it.view])' = Computed(base[it.view])
  BY DEF Computed
<1>5. Back(it.view)' = Back(it.view)
  BY <1>4 DEF Back
<1>6. AtEnd <=> AtBack
  BY AlwaysComputed DEF EndsAreComputed
<1>7. AtEnd' <=> AtBack'
  BY <1>1, ComputedAfterwards DEF EndsAreComputed
<1>8. AtBack' <=> IF kind \in Probing THEN q = Over.len ELSE p = Back(it.view)
  BY <1>2, <1>5 DEF AtBack
<1>9. QED
  BY <1>1, <1>2, <1>3, <1>6, <1>7, <1>8 DEF Here, SpotOf, AtBack

\* Where an iterator that moved within its view is then.
LEMMA PlacedAfterwards ==
  ASSUME TypeOK, CacheIsOwn, TypeOK', CacheIsOwn', it # NoIterator,
         kind' = kind, base' = base, NEW p \in Int, NEW q \in Int,
         it' = [view |-> it.view, at |-> p, second |-> q], WellPlaced(it.view, p, q)
  PROVE  /\ it' # NoIterator /\ Over' = Over /\ Elements' = Elements
         /\ Here' = SpotOf(kind, Over, Back(it.view), p, q)
         /\ OnElement'
<1>1. /\ it' # NoIterator /\ Over' = Over /\ Elements' = Elements
      /\ it'.at = p /\ it'.second = q
      /\ Here' = SpotOf(kind, Over, Back(it.view), p, q)
      /\ AtEnd' <=> IF kind \in Probing THEN q = Over.len ELSE p = Back(it.view)
  BY MovedSpot
<1>2. ~AtEnd' => Here' \in Elements
  BY <1>1 DEF WellPlaced, AtBackOf, Elements, Over
<1>3. kind = "drop_last_forward" =>
        it'.second = IF Over'.n < Over'.len THEN it'.at + Over'.n ELSE Over'.len
  BY <1>1 DEF WellPlaced, Over
<1>4. QED
  BY <1>1, <1>2, <1>3 DEF OnElement

\* ++ moves to the next element the view promises, or to the end behind them.
LEMMA NextGoes ==
  ASSUME TypeOK, CacheIsOwn, Within, OnElement, it # NoIterator, ~AtEnd,
         kind # "drop_last_unsized"
  PROVE  /\ Here \in Elements
         /\ \E p, q \in Int :
              /\ Forward(it) = [view |-> it.view, at |-> p, second |-> q]
              /\ After(Elements, Over.len, Here, SpotOf(kind, Over, Back(it.view), p, q))
              /\ WellPlaced(it.view, p, q)
<1> DEFINE r == Over
           at == it.at
           second == it.second
           v == it.view
<1>1. it # NoIterator /\ ~AtEnd
  OBVIOUS
<1>2. /\ v \in Views /\ r = base[v] /\ r.len \in Nat /\ kind \in AllKinds
      /\ it = [view |-> v, at |-> at, second |-> second]
      /\ at \in 0 .. r.len /\ second \in 0 .. r.len
      /\ kind # "reverse" => Front(v) =< at /\ at =< Back(v)
      /\ Here \in Elements
  BY <1>1, IteratorsAreTyped DEF Within, Over, OnElement
<1>3. r.n \in Nat /\ r.hit \subseteq 0 .. r.len - 1
  BY <1>2, BasesAreTyped
<1> HIDE DEF r
<1>4. ASSUME NEW p \in Int, NEW q \in Int, Forward(it) = [view |-> v, at |-> p, second |-> q],
             After(Elements, r.len, SpotOf(kind, r, Back(v), at, second),
                   SpotOf(kind, r, Back(v), p, q)),
             \/ SpotOf(kind, r, Back(v), p, q) \in Elements
             \/ IF kind \in Probing THEN q = r.len ELSE p = Back(v),
             kind = "drop_last_forward" => q = IF r.n < r.len THEN p + r.n ELSE r.len
      PROVE  \E x, y \in Int :
               /\ Forward(it) = [view |-> v, at |-> x, second |-> y]
               /\ After(Elements, r.len, Here, SpotOf(kind, r, Back(v), x, y))
               /\ WellPlaced(v, x, y)
  <2>1. Here = SpotOf(kind, r, Back(v), at, second)
    BY <1>1, <1>2, AlwaysComputed DEF EndsAreComputed, AtBack, SpotOf, Here, r
  <2>2. WellPlaced(v, p, q)
    BY <1>2, <1>4 DEF WellPlaced, AtBackOf, Elements, Over
  <2>3. QED
    BY <1>4, <2>1, <2>2
<1>5. /\ AtEnd <=> IF kind \in Probing THEN second = r.len ELSE at = Back(v)
      /\ Here = SpotOf(kind, r, Back(v), at, second)
  BY <1>1, <1>2, AlwaysComputed DEF EndsAreComputed, AtBack, SpotOf, Here, r
<1>6. SUFFICES \E p, q \in Int :
                  /\ Forward(it) = [view |-> v, at |-> p, second |-> q]
                  /\ After(Elements, r.len, Here, SpotOf(kind, r, Back(v), p, q))
                  /\ WellPlaced(v, p, q)
  BY <1>2 DEF r
<1>7. CASE kind \in Intervals \ {"drop_last_forward"}
  <2>1. Forward(it) = [view |-> v, at |-> at + 1, second |-> second]
    BY <1>1, <1>2, <1>7 DEF Forward, Probing, Intervals
  <2>2. Elements = Front(v) .. Back(v) - 1 /\ Back(v) =< r.len
    BY <1>1, <1>2, <1>7, PromisedBetween DEF Beyond, Elements, Intervals, r
  <2>3. /\ SpotOf(kind, r, Back(v), at, second) = at
        /\ SpotOf(kind, r, Back(v), at + 1, second) = IF at + 1 = Back(v) THEN r.len ELSE at + 1
    BY <1>1, <1>5, <1>7 DEF SpotOf, Probing, Intervals
  <2>4. Front(v) \in Nat /\ Back(v) \in Nat
    BY <1>2, EndsArePlaces
  <2>5. at < Back(v)
    BY <1>1, <1>2, <1>5, <1>7, <2>4 DEF Probing, Intervals
  <2>6. /\ After(Elements, r.len, SpotOf(kind, r, Back(v), at, second),
                 SpotOf(kind, r, Back(v), at + 1, second))
        /\ SpotOf(kind, r, Back(v), at + 1, second) \in Elements \/ at + 1 = Back(v)
    BY <1>2, <1>7, <2>2, <2>3, <2>4, <2>5 DEF After, Intervals
  <2>7. QED
    BY <1>1, <1>2, <1>4, <1>7, <2>1, <2>6 DEF Probing, Intervals
<1>8. CASE kind = "drop_last_forward"
  <2> DEFINE b == BoundedBack(r)
  <2>1. Forward(it) = [view |-> v, at |-> at + 1, second |-> second + 1]
    BY <1>1, <1>2, <1>8 DEF Forward, Probing
  <2>2. Elements = 0 .. b - 1
    BY <1>1, <1>2, <1>8, PromisedBetween DEF Beyond, Front, Intervals, Probing, Elements, Over, r
  <2>3. /\ second # r.len /\ second = IF r.n < r.len THEN at + r.n ELSE r.len
    BY <1>1, <1>5, <1>8 DEF OnElement, Probing, r
  <2>4. r.n < r.len /\ second = at + r.n /\ b = r.len - r.n
    BY <2>3 DEF BoundedBack
  <2>5. /\ SpotOf(kind, r, Back(v), at, second) = at
        /\ SpotOf(kind, r, Back(v), at + 1, second + 1) =
             IF at + 1 = b THEN r.len ELSE at + 1
    BY <1>2, <1>3, <1>8, <2>3, <2>4 DEF SpotOf, Probing
  <2>6. at < b /\ b \in 0 .. r.len /\ (second + 1 = r.len <=> at + 1 = b)
    BY <1>2, <1>3, <2>3, <2>4
  <2> HIDE DEF b
  <2>7. /\ After(Elements, r.len, SpotOf(kind, r, Back(v), at, second),
                 SpotOf(kind, r, Back(v), at + 1, second + 1))
        /\ SpotOf(kind, r, Back(v), at + 1, second + 1) \in Elements \/ second + 1 = r.len
    BY <1>2, <2>2, <2>5, <2>6 DEF After
  <2>8. second + 1 = IF r.n < r.len THEN at + 1 + r.n ELSE r.len
    BY <1>2, <1>3, <2>4
  <2>9. QED
    BY <1>1, <1>2, <1>4, <1>8, <2>1, <2>7, <2>8 DEF Probing
<1>9. CASE kind = "reverse"
  <2>1. Forward(it) = [view |-> v, at |-> at - 1, second |-> second] /\ Back(v) = 0
    BY <1>1, <1>2, <1>9 DEF Forward, Probing, Back
  <2>2. Elements = 0 .. r.len - 1
    BY <1>9 DEF Elements, Promised, Probing, r
  <2>3. at # 0
    BY <1>1, <1>5, <1>9, <2>1 DEF Probing
  <2>4. /\ SpotOf(kind, r, Back(v), at, second) = r.len - at
        /\ SpotOf(kind, r, Back(v), at - 1, second) = r.len - (at - 1)
    BY <1>2, <1>9, <2>1, <2>3 DEF SpotOf, Probing
  <2>5. /\ After(Elements, r.len, SpotOf(kind, r, Back(v), at, second),
                 SpotOf(kind, r, Back(v), at - 1, second))
        /\ SpotOf(kind, r, Back(v), at - 1, second) \in Elements \/ at - 1 = Back(v)
    BY <1>2, <2>1, <2>2, <2>3, <2>4 DEF After
  <2>6. at - 1 \in Int /\ second \in Int
    BY <1>2
  <2>7. QED
    BY <1>4, <1>9, <2>1, <2>5, <2>6 DEF Probing
<1>10. CASE kind = "remove_if"
  <2> DEFINE p == FirstMiss(r, at + 1)
  <2>1. Forward(it) = [view |-> v, at |-> p, second |-> second] /\ Back(v) = r.len
    BY <1>1, <1>2, <1>10 DEF Forward, Probing, Back, r
  <2>2. Elements = (0 .. r.len - 1) \ r.hit
    BY <1>10 DEF Elements, Promised, Probing, r
  <2>3. at < r.len
    BY <1>1, <1>2, <1>5, <1>10, <2>1 DEF Probing
  <2>4. /\ p \in at + 1 .. r.len /\ (p < r.len => p \notin r.hit)
        /\ at + 1 .. p - 1 \subseteq r.hit
    BY <1>2, <2>3, FirstMisses
  <2> HIDE DEF p
  <2>5. /\ SpotOf(kind, r, Back(v), at, second) = at
        /\ SpotOf(kind, r, Back(v), p, second) = p
    BY <1>10, <2>1, <2>3 DEF SpotOf, Probing
  <2>6. /\ After(Elements, r.len, at, p)
        /\ p \in Elements \/ p = Back(v)
    BY <1>2, <2>1, <2>2, <2>3, <2>4 DEF After
  <2>7. QED
    BY <1>1, <1>2, <1>4, <1>10, <2>1, <2>4, <2>5, <2>6 DEF Probing
<1>11. CASE kind = "adjacent_remove_if"
  <2> DEFINE p == LastOfRun(r, at + 1)
  <2>1. Forward(it) = [view |-> v, at |-> p, second |-> second] /\ Back(v) = r.len
    BY <1>1, <1>2, <1>11 DEF Forward, Probing, Back, r
  <2>2. Elements = { q \in 0 .. r.len - 1 : q \notin r.hit \/ q + 1 = r.len }
    BY <1>11 DEF Elements, Promised, Probing, r
  <2>3. at < r.len
    BY <1>1, <1>2, <1>5, <1>11, <2>1 DEF Probing
  <2>4. /\ p \in at + 1 .. r.len /\ (p < r.len - 1 => p \notin r.hit)
        /\ at + 1 < r.len => p < r.len
        /\ at + 1 .. p - 1 \subseteq r.hit
    BY <1>2, <2>3, LastsOfRuns
  <2> HIDE DEF p
  <2>5. /\ SpotOf(kind, r, Back(v), at, second) = at
        /\ SpotOf(kind, r, Back(v), p, second) = p
    BY <1>11, <2>1, <2>3 DEF SpotOf, Probing
  <2>6. /\ After(Elements, r.len, at, p)
        /\ p \in Elements \/ p = Back(v)
    BY <1>2, <2>1, <2>2, <2>3, <2>4 DEF After
  <2>7. QED
    BY <1>1, <1>2, <1>4, <1>11, <2>1, <2>4, <2>5, <2>6 DEF Probing
<1>12. CASE kind = "chunk_by"
  <2> DEFINE q == RunEnd(r, second)
  <2>1. Forward(it) = [view |-> v, at |-> second, second |-> q] /\ Back(v) = r.len
    BY <1>1, <1>2, <1>12 DEF Forward, Probing, Back, r
  <2>2. Elements = { x \in 0 .. r.len - 1 : x = 0 \/ x - 1 \notin r.hit }
    BY <1>12 DEF Elements, Promised, Probing, r
  <2>3. at < r.len
    BY <1>1, <1>2, <1>5, <1>12, <2>1 DEF Probing
  <2>4. second = RunEnd(r, at)
    BY <1>1, <1>12 DEF Within, r
  <2>5. /\ second \in at + 1 .. r.len /\ at .. second - 2 \subseteq r.hit
        /\ second < r.len => second - 1 \notin r.hit
    BY <1>2, <2>3, <2>4, RunsEnd
  <2>6. q \in Int
    BY <1>2, RunsEnd
  <2> HIDE DEF q
  <2>7. /\ SpotOf(kind, r, Back(v), at, second) = at
        /\ SpotOf(kind, r, Back(v), second, q) = second
    BY <1>12, <2>1, <2>3 DEF SpotOf, Probing
  <2>8. /\ After(Elements, r.len, at, second)
        /\ second \in Elements \/ second = Back(v)
    BY <1>2, <2>1, <2>2, <2>3, <2>5 DEF After
  <2>9. QED
    BY <1>1, <1>2, <1>4, <1>12, <2>1, <2>6, <2>7, <2>8 DEF Probing
<1>13. QED
  BY <1>1, <1>2, <1>7, <1>8, <1>9, <1>10, <1>11, <1>12 DEF AllKinds, Intervals

LEMMA NextFollows ==
  ASSUME TypeOK, CacheIsOwn, Within, OnElement, TypeOK', CacheIsOwn', Next_,
         kind # "drop_last_unsized"
  PROVE  /\ it # NoIterator /\ it' # NoIterator /\ Over' = Over /\ Elements' = Elements
         /\ Here \in Elements /\ After(Elements, Over.len, Here, Here')
         /\ OnElement'
<1>1. it # NoIterator /\ ~AtEnd /\ it' = Forward(it) /\ kind' = kind /\ base' = base
  BY DEF Next_
<1>2. PICK p \in Int, q \in Int :
        /\ it' = [view |-> it.view, at |-> p, second |-> q]
        /\ After(Elements, Over.len, Here, SpotOf(kind, Over, Back(it.view), p, q))
        /\ WellPlaced(it.view, p, q)
  BY <1>1, NextGoes
<1>3. Here \in Elements
  BY <1>1, NextGoes
<1>4. QED
  BY <1>1, <1>2, <1>3, PlacedAfterwards

\* The elements the walk back of satisfy_reverse skips are ones the view drops.
LEMMA WalkBackKeepsAll ==
  ASSUME TypeOK, Within, it # NoIterator, kind \in {"remove_if", "adjacent_remove_if"},
         it.at # Front(it.view)
  PROVE  LET p == IF kind = "remove_if" THEN MissBefore(it.at) ELSE RunEndBefore(it.at)
         IN  p \in Elements /\ p < it.at /\ \A x \in Elements : x < it.at => x =< p
<1> DEFINE r == Over
           at == it.at
           front == Front(it.view)
<1>1. /\ it.view \in Views /\ r.len \in Nat /\ r = base[it.view]
      /\ at \in 0 .. r.len /\ front =< at /\ front = Computed(r)
  BY IteratorsAreTyped DEF Within, Front, Over, Probing
<1>2. /\ kind = "remove_if" => front = FirstMiss(r, 0)
      /\ kind = "adjacent_remove_if" => front = LastOfRun(r, 0)
  BY <1>1 DEF Computed, Probing
<1>3. FirstMiss(r, 0) \in 0 .. r.len /\ LastOfRun(r, 0) \in 0 .. r.len
  BY <1>1, FirstMisses, LastsOfRuns
<1>4. front \in 0 .. at - 1
  BY <1>1, <1>2, <1>3
<1> DEFINE S == { q \in 0 .. at - 1 : q \notin r.hit }
           m == Max(S)
<1>5. front \in S => m \in S /\ \A x \in S : x =< m
  <2>1. S \subseteq 0 .. at /\ at \in Nat
    BY <1>1
  <2>2. QED
    BY <2>1, GreatestIsGreatest
<1>6. CASE kind = "remove_if"
  <2>1. front \notin r.hit
    BY <1>1, <1>2, <1>4, <1>6, FirstMisses
  <2>2. MissBefore(at) = m
    BY DEF MissBefore
  <2>3. Elements = (0 .. r.len - 1) \ r.hit
    BY <1>6 DEF Elements, Promised, Probing
  <2>4. m \in S /\ \A x \in S : x =< m
    BY <1>4, <1>5, <2>1
  <2> HIDE DEF m
  <2>5. QED
    BY <1>1, <1>6, <2>2, <2>3, <2>4
<1>7. ASSUME kind = "adjacent_remove_if"
      PROVE  Elements = { q \in 0 .. r.len - 1 : q \notin r.hit \/ q + 1 = r.len }
  BY <1>7 DEF Elements, Promised, Probing
<1>8. CASE kind = "adjacent_remove_if" /\ at = r.len
  <2>1. RunEndBefore(at) = at - 1
    BY <1>8 DEF RunEndBefore
  <2>2. QED
    BY <1>1, <1>4, <1>7, <1>8, <2>1
<1>9. CASE kind = "adjacent_remove_if" /\ at # r.len
  <2>1. front < r.len - 1
    BY <1>1, <1>4, <1>9
  <2>2. front \notin r.hit
    BY <1>1, <1>2, <1>9, <2>1, LastsOfRuns
  <2>3. RunEndBefore(at) = m
    BY <1>9 DEF RunEndBefore
  <2>4. m \in S /\ \A x \in S : x =< m
    BY <1>4, <1>5, <2>2
  <2> HIDE DEF m
  <2>5. QED
    BY <1>1, <1>7, <1>9, <2>3, <2>4
<1>10. QED
  BY <1>6, <1>8, <1>9

\* -- moves to the element before that the view promises.
LEMMA PrevGoes ==
  ASSUME TypeOK, CacheIsOwn, Within, it # NoIterator, ~AtBegin, StepsBack,
         kind # "drop_last_unsized"
  PROVE  \E p, q \in Int :
           /\ Backward(it) = [view |-> it.view, at |-> p, second |-> q]
           /\ Before(Elements, Over.len, Here, SpotOf(kind, Over, Back(it.view), p, q))
           /\ WellPlaced(it.view, p, q)
<1> DEFINE r == Over
           at == it.at
           second == it.second
           v == it.view
<1>1. it # NoIterator /\ ~AtBegin /\ kind \notin {"drop_last_forward", "chunk_by"}
  BY DEF StepsBack
<1>2. /\ v \in Views /\ r = base[v] /\ r.len \in Nat /\ kind \in AllKinds
      /\ it = [view |-> v, at |-> at, second |-> second]
      /\ at \in 0 .. r.len /\ second \in 0 .. r.len
      /\ kind # "reverse" => Front(v) =< at /\ at =< Back(v)
  BY <1>1, IteratorsAreTyped DEF Within, Over
<1>3. kind \notin Probing
  BY <1>1 DEF Probing
<1>4. /\ AtEnd <=> at = Back(v)
      /\ Here = SpotOf(kind, r, Back(v), at, second)
      /\ at # Front(v)
  BY <1>1, <1>3, AlwaysComputed DEF EndsAreComputed, AtBack, SpotOf, Here
<1> HIDE DEF r
<1>5. ASSUME NEW p \in Int, Backward(it) = [view |-> v, at |-> p, second |-> second],
             SpotOf(kind, r, Back(v), p, second) \in Elements,
             Before(Elements, r.len, SpotOf(kind, r, Back(v), at, second),
                    SpotOf(kind, r, Back(v), p, second))
      PROVE  \E x, y \in Int :
               /\ Backward(it) = [view |-> v, at |-> x, second |-> y]
               /\ Before(Elements, r.len, Here, SpotOf(kind, r, Back(v), x, y))
               /\ WellPlaced(v, x, y)
  <2>1. WellPlaced(v, p, second)
    BY <1>1, <1>2, <1>5 DEF WellPlaced, Elements, Over
  <2>2. second \in Int
    BY <1>2
  <2>3. QED
    BY <1>4, <1>5, <2>1, <2>2
<1>6. SUFFICES \E p, q \in Int :
                  /\ Backward(it) = [view |-> v, at |-> p, second |-> q]
                  /\ Before(Elements, r.len, Here, SpotOf(kind, r, Back(v), p, q))
                  /\ WellPlaced(v, p, q)
  BY DEF r
<1>7. CASE kind \in Intervals
  <2>1. Backward(it) = [view |-> v, at |-> at - 1, second |-> second]
    BY <1>1, <1>2, <1>7 DEF Backward, Intervals
  <2>2. Elements = Front(v) .. Back(v) - 1 /\ Back(v) =< r.len
    BY <1>1, <1>2, <1>7, PromisedBetween DEF Beyond, Elements, Intervals, r
  <2>3. Front(v) \in Nat /\ Back(v) \in Nat
    BY <1>2, EndsArePlaces
  <2>4. Front(v) =< at - 1 /\ at - 1 < Back(v) /\ at =< Back(v)
    BY <1>2, <1>4, <1>7, <2>3 DEF Intervals
  <2>5. /\ SpotOf(kind, r, Back(v), at, second) = IF at = Back(v) THEN r.len ELSE at
        /\ SpotOf(kind, r, Back(v), at - 1, second) = at - 1
    BY <1>2, <1>3, <1>7, <2>3, <2>4 DEF SpotOf, Intervals
  <2>6. Before(Elements, r.len, SpotOf(kind, r, Back(v), at, second), at - 1)
    BY <1>2, <2>2, <2>3, <2>4, <2>5 DEF Before
  <2>7. at - 1 \in Elements
    BY <1>2, <2>2, <2>3, <2>4
  <2>8. at - 1 \in Int
    BY <1>2
  <2>9. QED
    BY <1>5, <2>1, <2>5, <2>6, <2>7, <2>8
<1>8. CASE kind = "reverse"
  <2>1. Backward(it) = [view |-> v, at |-> at + 1, second |-> second] /\ Back(v) = 0
    BY <1>1, <1>2, <1>8 DEF Backward, Back
  <2>2. Elements = 0 .. r.len - 1
    BY <1>8 DEF Elements, Promised, Probing, r
  <2>3. at # r.len
    BY <1>2, <1>4, <1>8 DEF Front, Computed, Probing
  <2>4. /\ SpotOf(kind, r, Back(v), at, second) = r.len - at
        /\ SpotOf(kind, r, Back(v), at + 1, second) = r.len - (at + 1)
    BY <1>2, <1>8, <2>1, <2>3 DEF SpotOf, Probing
  <2>5. /\ Before(Elements, r.len, r.len - at, r.len - (at + 1))
        /\ r.len - (at + 1) \in Elements
    BY <1>2, <2>1, <2>2, <2>3, <2>4 DEF Before
  <2>6. at + 1 \in Int
    BY <1>2
  <2>7. QED
    BY <1>5, <2>1, <2>4, <2>5, <2>6
<1>9. CASE kind \in {"remove_if", "adjacent_remove_if"}
  <2> DEFINE p == IF kind = "remove_if" THEN MissBefore(at) ELSE RunEndBefore(at)
  <2>1. Backward(it) = [view |-> v, at |-> p, second |-> second] /\ Back(v) = r.len
    BY <1>1, <1>2, <1>9 DEF Backward, Back, r
  <2>2. p \in Elements /\ p < at /\ \A x \in Elements : x < at => x =< p
    BY <1>1, <1>4, <1>9, WalkBackKeepsAll
  <2>3. Elements \subseteq 0 .. r.len - 1
    BY <1>9 DEF Elements, Promised, Probing, r
  <2> HIDE DEF p
  <2>4. /\ SpotOf(kind, r, Back(v), at, second) = at
        /\ SpotOf(kind, r, Back(v), p, second) = p
    BY <1>2, <1>9, <2>1 DEF SpotOf, Probing
  <2>5. Before(Elements, r.len, at, p)
    BY <1>2, <2>2, <2>3 DEF Before
  <2>6. p \in Int
    BY <2>2, <2>3
  <2>7. QED
    BY <1>5, <2>1, <2>2, <2>4, <2>5, <2>6
<1>10. QED
  BY <1>1, <1>2, <1>3, <1>7, <1>8, <1>9 DEF AllKinds, Intervals, Probing

LEMMA PrevPrecedes ==
  ASSUME TypeOK, CacheIsOwn, Within, TypeOK', CacheIsOwn', Prev,
         kind # "drop_last_unsized"
  PROVE  /\ it # NoIterator /\ it' # NoIterator /\ Over' = Over /\ Elements' = Elements
         /\ Before(Elements, Over.len, Here, Here')
         /\ OnElement'
<1>1. /\ it # NoIterator /\ ~AtBegin /\ StepsBack
      /\ it' = Backward(it) /\ kind' = kind /\ base' = base
  BY DEF Prev
<1>2. PICK p \in Int, q \in Int :
        /\ it' = [view |-> it.view, at |-> p, second |-> q]
        /\ Before(Elements, Over.len, Here, SpotOf(kind, Over, Back(it.view), p, q))
        /\ WellPlaced(it.view, p, q)
  BY <1>1, PrevGoes
<1>3. QED
  BY <1>1, <1>2, PlacedAfterwards

LEMMA PromisedInside ==
  ASSUME TypeOK, NEW v \in Views
  PROVE  Promised(base[v]) \subseteq 0 .. base[v].len - 1 /\ base[v].len \in Nat
BY BasesAreTyped, BoundsAreNatural DEF Promised, AllKinds, Probing

PromisesLieInside ==
  TypeOK /\ it # NoIterator => Elements \subseteq 0 .. Over.len - 1 /\ Over.len \in Nat

LEMMA AlwaysInside == PromisesLieInside
BY PromisedInside, IteratorsAreTyped DEF PromisesLieInside, Elements, Over

LEMMA InsideAfterwards == PromisesLieInside'
BY AlwaysInside, PTL

FirstOf(S, e, p) == p \in S \cup {e} /\ \A x \in S \cup {e} : x >= p

\* begin() is at the first element a view promises, or at its end.
LEMMA FrontIsFirst ==
  ASSUME TypeOK, CacheIsOwn, NEW v \in Views, Usable(kind, base[v]), NEW sec \in Int,
         kind # "drop_last_unsized",
         kind \in {"chunk_by"} \cup Probing => sec = Computed(base[v])
  PROVE  /\ WellPlaced(v, Front(v), sec)
         /\ FirstOf(Promised(base[v]), base[v].len,
                    SpotOf(kind, base[v], Back(v), Front(v), sec))
<1> DEFINE r == base[v]
           P == Promised(r)
<1>1. /\ Usable(kind, r) /\ kind # "drop_last_unsized"
      /\ kind \in {"chunk_by"} \cup Probing => sec = Computed(r)
  OBVIOUS
<1>2. /\ r.len \in Nat /\ kind \in AllKinds /\ r.n \in Nat /\ r = base[v]
      /\ P \subseteq 0 .. r.len - 1
  BY <1>1, BasesAreTyped, PromisedInside
<1>3. AtBackOf(v, Front(v), sec) <=> IF kind \in Probing THEN sec = r.len ELSE Front(v) = Back(v)
  BY DEF AtBackOf
<1>4. /\ Front(v) \in 0 .. r.len /\ Back(v) \in 0 .. r.len
      /\ kind # "reverse" => Front(v) =< Back(v)
  BY <1>1, <1>2, EndsArePlaces
<1> HIDE DEF r, P
<1>5. SUFFICES /\ kind = "drop_last_forward" =>
                    sec = IF r.n < r.len THEN Front(v) + r.n ELSE r.len
               /\ \/ AtBackOf(v, Front(v), sec)
                  \/ SpotOf(kind, r, Back(v), Front(v), sec) \in P
               /\ FirstOf(P, r.len, SpotOf(kind, r, Back(v), Front(v), sec))
  BY <1>1 DEF WellPlaced, r, P
<1>6. CASE kind \in Intervals \ {"drop_last_forward"}
  <2>1. P = Front(v) .. Back(v) - 1
    BY <1>1, <1>6, PromisedBetween DEF Beyond, r, P
  <2>2. SpotOf(kind, r, Back(v), Front(v), sec) =
          IF Front(v) = Back(v) THEN r.len ELSE Front(v)
    BY <1>1, <1>6 DEF SpotOf, Intervals, Probing
  <2>3. AtBackOf(v, Front(v), sec) <=> Front(v) = Back(v)
    BY <1>1, <1>3, <1>6 DEF AtBackOf, Intervals, Probing
  <2>4. QED
    BY <1>2, <1>4, <1>6, <2>1, <2>2, <2>3 DEF FirstOf, Intervals
<1>7. CASE kind = "drop_last_forward"
  <2>1. P = 0 .. BoundedBack(r) - 1
    BY <1>1, <1>2, <1>7, PromisedBetween DEF Beyond, Front, Intervals, Probing, r, P
  <2>2. Front(v) = 0 /\ sec = Bounded(r)
    BY <1>1, <1>7 DEF Front, Computed, Probing
  <2>3. SpotOf(kind, r, Back(v), Front(v), sec) = IF Bounded(r) = r.len THEN r.len ELSE 0
    BY <1>7, <2>2 DEF SpotOf, Probing
  <2>4. AtBackOf(v, Front(v), sec) <=> Bounded(r) = r.len
    BY <1>3, <1>7, <2>2 DEF AtBackOf, Probing, r
  <2>5. QED
    BY <1>2, <2>1, <2>2, <2>3, <2>4 DEF FirstOf, Bounded, BoundedBack
<1>8. CASE kind = "reverse"
  <2>1. P = 0 .. r.len - 1
    BY <1>8 DEF Promised, Probing, P, r
  <2>2. Front(v) = r.len /\ Back(v) = 0
    BY <1>1, <1>2, <1>8 DEF Front, Back, Computed, Probing
  <2>3. SpotOf(kind, r, Back(v), Front(v), sec) = 0
    BY <1>2, <1>8, <2>2 DEF SpotOf, Probing
  <2>4. AtBackOf(v, Front(v), sec) <=> r.len = 0
    BY <1>3, <1>8, <2>2 DEF AtBackOf, Probing
  <2>5. QED
    BY <1>2, <1>8, <2>1, <2>3, <2>4 DEF FirstOf
<1>9. CASE kind = "chunk_by"
  <2>1. P = { x \in 0 .. r.len - 1 : x = 0 \/ x - 1 \notin r.hit }
    BY <1>9 DEF Promised, Probing, P, r
  <2>2. Front(v) = 0 /\ Back(v) = r.len
    BY <1>1, <1>2, <1>9 DEF Front, Back
  <2>3. SpotOf(kind, r, Back(v), Front(v), sec) = 0
    BY <1>2, <1>9, <2>2 DEF SpotOf, Probing
  <2>4. AtBackOf(v, Front(v), sec) <=> r.len = 0
    BY <1>3, <1>9, <2>2 DEF AtBackOf, Probing
  <2>5. QED
    BY <1>2, <1>9, <2>1, <2>3, <2>4 DEF FirstOf
<1>10. CASE kind \in {"remove_if", "adjacent_remove_if"}
  <2> DEFINE f == Front(v)
  <2>1. Back(v) = r.len
    BY <1>2, <1>10 DEF Back
  <2>2. SpotOf(kind, r, Back(v), Front(v), sec) = f
    BY <1>1, <1>10, <2>1 DEF SpotOf, Probing
  <2>3. AtBackOf(v, Front(v), sec) <=> f = r.len
    BY <1>1, <1>3, <1>10, <2>1 DEF AtBackOf, Probing
  <2>4. CASE kind = "remove_if"
    <3>1. f = FirstMiss(r, 0)
      BY <1>2, <2>4 DEF Front, Computed, Probing
    <3>2. P = (0 .. r.len - 1) \ r.hit
      BY <2>4 DEF Promised, Probing, P, r
    <3>3. (f < r.len => f \notin r.hit) /\ 0 .. f - 1 \subseteq r.hit
      BY <1>2, <3>1, FirstMisses
    <3> HIDE DEF f
    <3>4. QED
      BY <1>2, <1>4, <2>2, <2>3, <2>4, <3>2, <3>3 DEF FirstOf, f
  <2>5. CASE kind = "adjacent_remove_if"
    <3>1. f = LastOfRun(r, 0)
      BY <1>2, <2>5 DEF Front, Computed, Probing
    <3>2. P = { q \in 0 .. r.len - 1 : q \notin r.hit \/ q + 1 = r.len }
      BY <2>5 DEF Promised, Probing, P, r
    <3>3. /\ f < r.len - 1 => f \notin r.hit
          /\ 0 < r.len => f < r.len
          /\ 0 .. f - 1 \subseteq r.hit
      BY <1>2, <3>1, LastsOfRuns
    <3> HIDE DEF f
    <3>4. QED
      BY <1>2, <1>4, <2>2, <2>3, <2>5, <3>2, <3>3 DEF FirstOf, f
  <2>6. QED
    BY <1>10, <2>4, <2>5
<1>11. QED
  BY <1>1, <1>2, <1>6, <1>7, <1>8, <1>9, <1>10 DEF AllKinds, Intervals

\* the iterators begin() returns
LEMMA BeginIs ==
  ASSUME TypeOK, CacheIsOwn, NEW v \in Views
  PROVE  \E sec \in Int :
           /\ BeginOf(v) = [view |-> v, at |-> Front(v), second |-> sec]
           /\ kind \in {"chunk_by"} \cup Probing => sec = Computed(base[v])
<1>1. BeginAt(v) = Front(v) /\ Filled(v).at = Computed(base[v]) /\ Computed(base[v]) \in Int
  BY EndsArePlaces, ComputedPlaces DEF IteratorOf
<1>2. QED
  BY <1>1 DEF BeginOf

\* Where an iterator that was obtained is.
LEMMA ObtainedAfterwards ==
  ASSUME TypeOK', CacheIsOwn', kind' = kind, base' = base, NEW v \in Views,
         NEW p \in Int, NEW q \in Int,
         it' # NoIterator, it'.view = v, it'.at = p, it'.second = q, WellPlaced(v, p, q)
  PROVE  /\ OnElement' /\ Elements' = Promised(base[v]) /\ Over' = base[v]
         /\ Here' = SpotOf(kind, base[v], Back(v), p, q)
<1>1. Over' = base[v]
  BY DEF Over
<1>2. Elements' = Promised(base[v])
  BY <1>1 DEF Elements, Promised
<1>3. Back(v)' = Back(v)
  BY EndsStay
<1>4. AtEnd' <=> AtBack'
  BY ComputedAfterwards DEF EndsAreComputed
<1>5. AtBack' <=> AtBackOf(v, p, q)
  BY <1>1, <1>3 DEF AtBack, AtBackOf
<1>6. Here' = SpotOf(kind, base[v], Back(v), p, q)
  BY <1>1, <1>4, <1>5 DEF Here, SpotOf, AtBackOf
<1>7. OnElement'
  BY <1>1, <1>2, <1>4, <1>5, <1>6 DEF OnElement, WellPlaced
<1>8. QED
  BY <1>1, <1>2, <1>6, <1>7

LEMMA BeginObtains ==
  ASSUME TypeOK, CacheIsOwn, TypeOK', CacheIsOwn', NEW v \in Views, Begin(v),
         it = NoIterator, kind # "drop_last_unsized"
  PROVE  OnElement' /\ it' # NoIterator /\ FirstOf(Elements', Over.len', Here')
<1>1. /\ Usable(kind, base[v]) /\ kind' = kind /\ base' = base /\ it' = BeginOf(v)
  BY DEF Begin, Obtained
<1>2. PICK sec \in Int :
        /\ it' = [view |-> v, at |-> Front(v), second |-> sec]
        /\ kind \in {"chunk_by"} \cup Probing => sec = Computed(base[v])
  BY <1>1, BeginIs
<1>3. it' # NoIterator /\ it'.view = v /\ it'.at = Front(v) /\ it'.second = sec
  BY <1>2, EndsArePlaces, NoIteratorIsNone
<1>4. /\ WellPlaced(v, Front(v), sec)
      /\ FirstOf(Promised(base[v]), base[v].len, SpotOf(kind, base[v], Back(v), Front(v), sec))
  BY <1>1, <1>2, FrontIsFirst
<1>5. OnElement' /\ Elements' = Promised(base[v]) /\ Over' = base[v]
      /\ Here' = SpotOf(kind, base[v], Back(v), Front(v), sec)
  BY <1>1, <1>3, <1>4, ObtainedAfterwards, EndsArePlaces
<1>6. QED
  BY <1>3, <1>4, <1>5

LEMMA EndObtains ==
  ASSUME TypeOK, CacheIsOwn, TypeOK', CacheIsOwn', NEW v \in Views, End(v), it = NoIterator
  PROVE  OnElement' /\ it' # NoIterator /\ Here' = Over.len'
<1>1. /\ kind' = kind /\ base' = base /\ kind \notin {"chunk_by"} \cup Probing
      /\ it' = [view |-> v, at |-> EndAt(v), second |-> 0]
  BY DEF End, EndIsIterator, Obtained, EndOf
<1>2. EndAt(v) = Back(v) /\ Back(v) \in Int
  BY EndsArePlaces
<1>3. it' # NoIterator /\ it'.view = v /\ it'.at = Back(v) /\ it'.second = 0
  BY <1>1, <1>2, NoIteratorIsNone
<1>4. WellPlaced(v, Back(v), 0)
  BY <1>1 DEF WellPlaced, AtBackOf, Probing
<1>5. OnElement' /\ Over' = base[v] /\ Here' = SpotOf(kind, base[v], Back(v), Back(v), 0)
  BY <1>1, <1>2, <1>3, <1>4, ObtainedAfterwards
<1>6. QED
  BY <1>1, <1>3, <1>5 DEF SpotOf

\* An iterator into a view that keeps its base stays where it was.
LEMMA OthersStayAt ==
  ASSUME TypeOK, CacheIsOwn, TypeOK', CacheIsOwn', OnElement, it # NoIterator, it' = it,
         kind' = kind, base'[it.view] = base[it.view]
  PROVE  OnElement' /\ Over' = Over /\ Elements' = Elements /\ Here' = Here
<1>1. Over' = Over
  BY DEF Over
<1>2. Elements' = Elements
  BY <1>1 DEF Elements, Promised
<1>3. Computed(base[it.view])' = Computed(base[it.view])
  BY DEF Computed
<1>4. Back(it.view)' = Back(it.view)
  BY <1>3 DEF Back
<1>5. (AtEnd <=> AtBack) /\ (AtEnd' <=> AtBack')
  BY AlwaysComputed, ComputedAfterwards DEF EndsAreComputed
<1>6. AtBack' <=> AtBack
  BY <1>1, <1>4 DEF AtBack
<1>7. Here' = Here
  BY <1>1, <1>5, <1>6 DEF Here
<1>8. QED
  BY <1>1, <1>2, <1>5, <1>6, <1>7 DEF OnElement

\* A copy or a move leaves an iterator alone or ends it.
LEMMA CopiesLeave ==
  ASSUME TypeOK, CacheIsOwn, TypeOK', CacheIsOwn', OnElement,
         NEW v \in Views, NEW w \in Views, Copy(v, w) \/ Move(v, w)
  PROVE  /\ OnElement'
         /\ \/ it' = NoIterator
            \/ /\ it # NoIterator /\ it' = it
               /\ Over' = Over /\ Elements' = Elements /\ Here' = Here
<1>1. SUFFICES ASSUME it' # NoIterator
               PROVE  it # NoIterator /\ it' = it /\ base'[it.view] = base[it.view] /\ kind' = kind
  BY OthersStayAt DEF OnElement
<1>2. CASE Copy(v, w)
  <2>1. it # NoIterator /\ it' = it /\ it.view # v /\ kind' = kind
    BY <1>1, <1>2 DEF Copy, Lost
  <2>2. base'[it.view] = base[it.view]
    BY <1>2, <2>1, IteratorsAreTyped DEF Copy, TypeOK
  <2>3. QED
    BY <2>1, <2>2
<1>3. CASE Move(v, w)
  <2>1. it # NoIterator /\ it' = it /\ it.view \notin {v, w} /\ kind' = kind
    BY <1>1, <1>3 DEF Move, Lost
  <2>2. base'[it.view] = base[it.view]
    BY <1>3, <2>1, IteratorsAreTyped DEF Move, TypeOK
  <2>3. QED
    BY <2>1, <2>2
<1>4. QED
  BY <1>2, <1>3

----------------------------------------------------------------------------
(* Where an iterator is, by what is promised alone *)

\* What lies behind all promised elements is what the view takes for its end.
LEMMA PlaceIsSpot ==
  ASSUME TypeOK, CacheIsOwn, NEW v \in Views, kind # "drop_last_unsized",
         NEW p \in Int, NEW q \in Int, WellPlaced(v, p, q), NEW i, i.at = p
  PROVE  /\ Place(base[v], i) = SpotOf(kind, base[v], Back(v), p, q)
         /\ AtBackOf(v, p, q) <=> Place(base[v], i) = base[v].len
<1> DEFINE r == base[v]
           P == Promised(r)
           spot == IF kind = "reverse" THEN r.len - p ELSE p
           S == SpotOf(kind, r, Back(v), p, q)
<1>1. /\ r.len \in Nat /\ r.n \in Nat /\ kind \in AllKinds /\ kind # "drop_last_unsized"
      /\ P \subseteq 0 .. r.len - 1 /\ p \in Int
  BY BasesAreTyped, PromisedInside
<1>2. Place(r, i) = IF \E x \in P : x >= spot THEN spot ELSE r.len
  BY DEF Place
<1>3. S = IF AtBackOf(v, p, q) THEN r.len ELSE spot
  BY DEF SpotOf, AtBackOf
<1>4. ~AtBackOf(v, p, q) => S \in P
  BY DEF WellPlaced
<1>5. kind = "drop_last_forward" => q = IF r.n < r.len THEN p + r.n ELSE r.len
  BY DEF WellPlaced
<1>6. AtBackOf(v, p, q) <=> IF kind \in Probing THEN q = r.len ELSE p = Back(v)
  BY DEF AtBackOf
<1> HIDE DEF S
<1>7. AtBackOf(v, p, q) => \A x \in P : x < spot
  <2>1. SUFFICES ASSUME AtBackOf(v, p, q) PROVE \A x \in P : x < spot
    OBVIOUS
  <2>2. CASE kind \in Intervals \ {"drop_last_forward"}
    <3>1. P = Front(v) .. Back(v) - 1
      BY <2>2, PromisedBetween DEF Beyond
    <3>2. spot = p /\ p = Back(v)
      BY <1>6, <2>1, <2>2 DEF Intervals, Probing
    <3>3. Front(v) \in Nat /\ Back(v) \in Nat
      BY EndsArePlaces
    <3> HIDE DEF P, spot
    <3>4. QED
      BY <3>1, <3>2, <3>3
  <2>3. CASE kind = "drop_last_forward"
    <3>1. P = Front(v) .. BoundedBack(r) - 1 /\ Front(v) = 0
      BY <2>3, PromisedBetween DEF Beyond, Intervals, Front, Probing
    <3>2. spot = p /\ q = r.len
      BY <1>6, <2>1, <2>3 DEF Probing
    <3> HIDE DEF P, spot, r
    <3>3. BoundedBack(r) =< p \/ BoundedBack(r) = 0
      BY <1>1, <1>5, <2>3, <3>2 DEF BoundedBack
    <3>4. QED
      BY <1>1, <3>1, <3>2, <3>3 DEF BoundedBack
  <2>4. CASE kind \in {"remove_if", "adjacent_remove_if", "chunk_by"}
    <3>1. Back(v) = r.len
      BY <2>4 DEF Back
    <3>2. spot = r.len
      BY <1>6, <2>1, <2>4, <3>1 DEF Probing
    <3> HIDE DEF P, spot, r
    <3>3. QED
      BY <1>1, <3>2
  <2>5. CASE kind = "reverse"
    <3>1. Back(v) = 0
      BY <2>5 DEF Back
    <3>2. spot = r.len
      BY <1>1, <1>6, <2>1, <2>5, <3>1 DEF Probing
    <3> HIDE DEF P, spot, r
    <3>3. QED
      BY <1>1, <3>2
  <2>6. QED
    BY <1>1, <2>2, <2>3, <2>4, <2>5 DEF AllKinds, Intervals
<1>8. spot \in Int
  BY <1>1
<1> HIDE DEF P, spot, r
<1>9. CASE AtBackOf(v, p, q)
  <2>1. ~ \E x \in P : x >= spot
    BY <1>1, <1>7, <1>8, <1>9
  <2>2. Place(r, i) = r.len /\ S = r.len
    BY <1>2, <1>3, <1>9, <2>1
  <2>3. QED
    BY <1>9, <2>2 DEF r, S
<1>10. CASE ~AtBackOf(v, p, q)
  <2>1. S = spot /\ spot \in P
    BY <1>3, <1>4, <1>10
  <2>2. Place(r, i) = spot
    BY <1>2, <1>8, <2>1
  <2>3. spot # r.len
    BY <1>1, <2>1
  <2>4. QED
    BY <1>10, <2>1, <2>2, <2>3 DEF r, S
<1>11. QED
  BY <1>9, <1>10

\* The place of a client's iterator, and whether it is at the end.
HereIsPlace ==
  TypeOK /\ CacheIsOwn /\ OnElement /\ it # NoIterator /\ kind # "drop_last_unsized" =>
    /\ Place(Over, it) = Here
    /\ AtEnd <=> Place(Over, it) = Over.len

LEMMA AlwaysAtPlace == HereIsPlace
<1>1. SUFFICES ASSUME TypeOK, CacheIsOwn, OnElement, it # NoIterator, kind # "drop_last_unsized"
               PROVE  /\ Place(Over, it) = Here
                      /\ AtEnd <=> Place(Over, it) = Over.len
  BY DEF HereIsPlace
<1>2. /\ it.view \in Views /\ it.second \in Int /\ it.at \in Int
      /\ Over = base[it.view]
  BY <1>1, IteratorsAreTyped DEF Over
<1>3. /\ AtEnd <=> AtBackOf(it.view, it.at, it.second)
      /\ Here = SpotOf(kind, Over, Back(it.view), it.at, it.second)
  BY <1>1, AlwaysComputed DEF EndsAreComputed, AtBack, AtBackOf, SpotOf, Here, Over
<1>4. WellPlaced(it.view, it.at, it.second)
  BY <1>1, <1>2, <1>3 DEF WellPlaced, OnElement, Elements
<1>5. /\ Place(Over, it) = SpotOf(kind, Over, Back(it.view), it.at, it.second)
      /\ AtBackOf(it.view, it.at, it.second) <=> Place(Over, it) = Over.len
  BY <1>1, <1>2, <1>4, PlaceIsSpot
<1>6. QED
  BY <1>3, <1>5

LEMMA AtPlaceAfterwards == HereIsPlace'
BY AlwaysAtPlace, PTL

\* begin() and end() of every view name the first promised element and the end.
LEMMA ObtainedLandRight ==
  ASSUME TypeOK, CacheIsOwn, NEW v \in Views, Usable(kind, base[v]), kind # "drop_last_unsized"
  PROVE  /\ FirstOf(Promised(base[v]), base[v].len, Place(base[v], BeginOf(v)))
         /\ EndIsIterator => Place(base[v], EndOf(v)) = base[v].len
<1>1. Front(v) \in 0 .. base[v].len /\ Back(v) \in 0 .. base[v].len /\ EndAt(v) = Back(v)
  BY EndsArePlaces
<1>2. PICK sec \in Int :
        /\ BeginOf(v) = [view |-> v, at |-> Front(v), second |-> sec]
        /\ kind \in {"chunk_by"} \cup Probing => sec = Computed(base[v])
  BY BeginIs
<1>3. /\ WellPlaced(v, Front(v), sec)
      /\ FirstOf(Promised(base[v]), base[v].len, SpotOf(kind, base[v], Back(v), Front(v), sec))
  BY <1>2, FrontIsFirst
<1>4. BeginOf(v).at = Front(v)
  BY <1>2
<1>5. Place(base[v], BeginOf(v)) = SpotOf(kind, base[v], Back(v), Front(v), sec)
  BY <1>1, <1>3, <1>4, PlaceIsSpot
<1>6. ASSUME EndIsIterator PROVE Place(base[v], EndOf(v)) = base[v].len
  <2>1. AtBackOf(v, Back(v), 0) /\ WellPlaced(v, Back(v), 0)
    BY <1>6 DEF WellPlaced, AtBackOf, EndIsIterator, Probing
  <2>2. EndOf(v).at = Back(v)
    BY <1>1 DEF EndOf
  <2>3. QED
    BY <1>1, <2>1, <2>2, PlaceIsSpot
<1>7. QED
  BY <1>3, <1>5, <1>6

----------------------------------------------------------------------------
(* The traversal *)

\* Every call lands where the view's promise says, in every state.
LEMMA CallsLand ==
  ASSUME TypeOK, CacheIsOwn, Within, OnElement, kind # "drop_last_unsized"
  PROVE  CallsLandRight
<1>1. ASSUME NEW v \in Views, Usable(kind, base[v])
      PROVE  /\ Place(base[v], BeginOf(v)) \in Promised(base[v]) \cup {base[v].len}
             /\ \A q \in Promised(base[v]) : Place(base[v], BeginOf(v)) =< q
             /\ EndIsIterator => Place(base[v], EndOf(v)) = base[v].len
  <2> DEFINE p == Place(base[v], BeginOf(v))
             P == Promised(base[v])
  <2>1. /\ FirstOf(P, base[v].len, p)
        /\ EndIsIterator => Place(base[v], EndOf(v)) = base[v].len
    BY <1>1, ObtainedLandRight
  <2>2. P \subseteq 0 .. base[v].len - 1 /\ base[v].len \in Nat
    BY PromisedInside
  <2> HIDE DEF p, P
  <2>3. p \in P \cup {base[v].len} /\ \A q \in P : q >= p
    BY <2>1 DEF FirstOf
  <2>4. \A q \in P : p =< q
    BY <2>2, <2>3
  <2>5. QED
    BY <2>1, <2>3, <2>4 DEF p, P
<1>2. it # NoIterator => (AtEnd <=> Place(Over, it) = Over.len)
  BY AlwaysAtPlace DEF HereIsPlace
<1>3. ASSUME it # NoIterator, ~AtEnd
      PROVE  Abstract!Follows(Place(Over, Forward(it)), Place(Over, it))
  <2>1. PICK p \in Int, q \in Int :
          /\ Forward(it) = [view |-> it.view, at |-> p, second |-> q]
          /\ After(Elements, Over.len, Here, SpotOf(kind, Over, Back(it.view), p, q))
          /\ WellPlaced(it.view, p, q)
    BY <1>3, NextGoes
  <2>2. Forward(it).at = p /\ it.view \in Views /\ Over = base[it.view]
    BY <1>3, <2>1, IteratorsAreTyped DEF Over
  <2>3. Place(Over, Forward(it)) = SpotOf(kind, Over, Back(it.view), p, q)
    BY <2>1, <2>2, PlaceIsSpot
  <2>4. Place(Over, it) = Here
    BY <1>3, AlwaysAtPlace DEF HereIsPlace
  <2>5. After(Promised(Over), Over.len, Place(Over, it), Place(Over, Forward(it)))
    BY <2>1, <2>3, <2>4 DEF Elements
  <2>6. QED
    BY <1>3, <2>5 DEF After, Abstract!Follows, Abstract!Places
<1>4. ASSUME it # NoIterator, StepsBack, ~AtBegin
      PROVE  Abstract!Precedes(Place(Over, Backward(it)), Place(Over, it))
  <2>1. PICK p \in Int, q \in Int :
          /\ Backward(it) = [view |-> it.view, at |-> p, second |-> q]
          /\ Before(Elements, Over.len, Here, SpotOf(kind, Over, Back(it.view), p, q))
          /\ WellPlaced(it.view, p, q)
    BY <1>4, PrevGoes
  <2>2. Backward(it).at = p /\ it.view \in Views /\ Over = base[it.view]
    BY <1>4, <2>1, IteratorsAreTyped DEF Over
  <2>3. Place(Over, Backward(it)) = SpotOf(kind, Over, Back(it.view), p, q)
    BY <2>1, <2>2, PlaceIsSpot
  <2>4. Place(Over, it) = Here
    BY <1>4, AlwaysAtPlace DEF HereIsPlace
  <2>5. Before(Promised(Over), Over.len, Place(Over, it), Place(Over, Backward(it)))
    BY <2>1, <2>3, <2>4 DEF Elements
  <2>6. QED
    BY <1>4, <2>5 DEF Before, Abstract!Precedes, Abstract!Places
<1>5. QED
  BY <1>1, <1>2, <1>3, <1>4 DEF CallsLandRight

\* What the traversal sees of an iterator, before a step and after.
LEMMA SeenBefore ==
  ASSUME TypeOK, CacheIsOwn, OnElement, it # NoIterator, kind # "drop_last_unsized"
  PROVE  Place(Over, it) = Here
BY AlwaysAtPlace DEF HereIsPlace

LEMMA SeenAfter ==
  ASSUME TypeOK', CacheIsOwn', OnElement', it' # NoIterator, kind' # "drop_last_unsized"
  PROVE  Place(Over, it)' = Here'
BY AtPlaceAfterwards DEF HereIsPlace

\* Every step of a view's iterator is a step of the traversal the view promises,
\* or none.
LEMMA StepsAreTraversal ==
  ASSUME TypeOK, CacheIsOwn, Within, OnElement, TypeOK', CacheIsOwn', [Next]_vars,
         kind # "drop_last_unsized"
  PROVE  /\ OnElement' /\ CallsAreSteps
         /\ [\/ Abstract!Begin \/ Abstract!End \/ Abstract!Next
             \/ Abstract!Prev \/ Abstract!Invalidate]_(Abstract!vars)
<1>1. kind' # "drop_last_unsized" /\ kind' = kind
  BY DEF Next, Begin, End, Next_, Prev, Discard, Copy, Move, vars
<1>2. ASSUME OnElement', it # NoIterator, it' = it, Over' = Over, Elements' = Elements,
             Here' = Here
      PROVE  UNCHANGED Abstract!vars
  <2>1. Place(Over, it)' = Place(Over, it)
    BY <1>1, <1>2, SeenBefore, SeenAfter
  <2>2. QED
    BY <1>2, <2>1 DEF Abstract!vars, Elements
<1>3. ASSUME NEW v \in Views, Begin(v)
      PROVE  /\ OnElement'
             /\ IF it = NoIterator THEN Abstract!Begin ELSE UNCHANGED Abstract!vars
  <2>1. CASE it = NoIterator
    <3>1. OnElement' /\ it' # NoIterator /\ FirstOf(Elements', Over.len', Here')
      BY <1>3, <2>1, BeginObtains
    <3>2. Elements' \subseteq 0 .. Over.len' - 1 /\ Over.len' \in Nat
      BY <3>1, InsideAfterwards DEF PromisesLieInside
    <3>3. \A e \in Elements' : e < Over.len'
      BY <3>2
    <3>4. Place(Over, it)' = Here'
      BY <1>1, <3>1, SeenAfter
    <3>5. /\ Place(Over, it)' \in Elements' \cup {Over.len'}
          /\ \A x \in Elements' \cup {Over.len'} : x >= Place(Over, it)'
      BY <3>1, <3>4 DEF FirstOf
    <3>6. Abstract!Begin
      BY <2>1, <3>1, <3>3, <3>5 DEF Abstract!Begin, Abstract!IsFirst, Abstract!Places, Elements
    <3>7. QED
      BY <2>1, <3>1, <3>6
  <2>2. CASE it # NoIterator
    <3>1. it' = it /\ base' = base
      BY <1>3, <2>2 DEF Begin, Obtained
    <3>2. OnElement' /\ Over' = Over /\ Elements' = Elements /\ Here' = Here
      BY <1>1, <2>2, <3>1, OthersStayAt
    <3>3. QED
      BY <1>2, <2>2, <3>1, <3>2
  <2>3. QED
    BY <2>1, <2>2
<1>4. ASSUME NEW v \in Views, End(v)
      PROVE  /\ OnElement'
             /\ IF it = NoIterator THEN Abstract!End ELSE UNCHANGED Abstract!vars
  <2>1. CASE it = NoIterator
    <3>1. OnElement' /\ it' # NoIterator /\ Here' = Over.len'
      BY <1>4, <2>1, EndObtains
    <3>2. Elements' \subseteq 0 .. Over.len' - 1 /\ Over.len' \in Nat
      BY <3>1, InsideAfterwards DEF PromisesLieInside
    <3>3. \A e \in Elements' : e < Over.len'
      BY <3>2
    <3>4. Place(Over, it)' = Over.len'
      BY <1>1, <3>1, SeenAfter
    <3>5. Abstract!End
      BY <2>1, <3>1, <3>3, <3>4 DEF Abstract!End, Elements
    <3>6. QED
      BY <2>1, <3>1, <3>5
  <2>2. CASE it # NoIterator
    <3>1. it' = it /\ base' = base
      BY <1>4, <2>2 DEF End, Obtained
    <3>2. OnElement' /\ Over' = Over /\ Elements' = Elements /\ Here' = Here
      BY <1>1, <2>2, <3>1, OthersStayAt
    <3>3. QED
      BY <1>2, <2>2, <3>1, <3>2
  <2>3. QED
    BY <2>1, <2>2
<1>5. ASSUME Next_ PROVE OnElement' /\ Abstract!Next
  <2>1. /\ it # NoIterator /\ it' # NoIterator /\ Over' = Over /\ Elements' = Elements
        /\ Here \in Elements /\ After(Elements, Over.len, Here, Here')
        /\ OnElement'
    BY <1>5, NextFollows
  <2>2. Place(Over, it) = Here /\ Place(Over, it)' = Here'
    BY <1>1, <2>1, SeenBefore, SeenAfter
  <2>3. After(Elements, Over.len, Place(Over, it), Place(Over, it)')
    BY <2>1, <2>2
  <2>4. Place(Over, it) \in Elements
    BY <2>1, <2>2
  <2>5. Abstract!Next
    BY <2>1, <2>3, <2>4 DEF Abstract!Next, Abstract!Follows, Abstract!Places, After, Elements
  <2>6. QED
    BY <2>1, <2>5
<1>6. ASSUME Prev PROVE OnElement' /\ Abstract!Prev
  <2>1. /\ it # NoIterator /\ it' # NoIterator /\ Over' = Over /\ Elements' = Elements
        /\ Before(Elements, Over.len, Here, Here')
        /\ OnElement'
    BY <1>6, PrevPrecedes
  <2>2. Elements \subseteq 0 .. Over.len - 1 /\ Over.len \in Nat
    BY <2>1, AlwaysInside DEF PromisesLieInside
  <2>3. Place(Over, it) = Here /\ Place(Over, it)' = Here'
    BY <1>1, <2>1, SeenBefore, SeenAfter
  <2>4. Before(Elements, Over.len, Place(Over, it), Place(Over, it)')
    BY <2>1, <2>3
  <2>5. Place(Over, it) # -1
    BY <2>2, <2>3, <2>1 DEF Before
  <2>6. Abstract!Prev
    BY <2>1, <2>4, <2>5 DEF Abstract!Prev, Abstract!Precedes, Abstract!Places, Before, Elements
  <2>7. QED
    BY <2>1, <2>6
<1>7. CallsAreSteps
  BY <1>3, <1>4, <1>5, <1>6 DEF CallsAreSteps
<1>8. ASSUME Discard PROVE OnElement' /\ Abstract!Invalidate
  BY <1>8 DEF Discard, OnElement, Abstract!Invalidate
<1>9. ASSUME NEW v \in Views, NEW w \in Views, Copy(v, w) \/ Move(v, w)
      PROVE  OnElement' /\ (Abstract!Invalidate \/ UNCHANGED Abstract!vars)
  <2>1. /\ OnElement'
        /\ \/ it' = NoIterator
           \/ /\ it # NoIterator /\ it' = it
              /\ Over' = Over /\ Elements' = Elements /\ Here' = Here
    BY <1>9, CopiesLeave
  <2>2. CASE it' = NoIterator
    BY <2>1, <2>2 DEF Abstract!Invalidate
  <2>3. CASE it # NoIterator /\ it' = it /\ Over' = Over /\ Elements' = Elements /\ Here' = Here
    BY <1>2, <2>1, <2>3
  <2>4. QED
    BY <2>1, <2>2, <2>3
<1>10. ASSUME UNCHANGED vars PROVE OnElement' /\ UNCHANGED Abstract!vars
  <2>1. CASE it = NoIterator
    BY <1>10, <2>1 DEF vars, OnElement, Abstract!vars
  <2>2. CASE it # NoIterator
    <3>1. OnElement' /\ Over' = Over /\ Elements' = Elements /\ Here' = Here /\ it' = it
      BY <1>10, <2>2, OthersStayAt DEF vars
    <3>2. QED
      BY <1>2, <2>2, <3>1
  <2>3. QED
    BY <2>1, <2>2
<1>11. QED
  BY <1>3, <1>4, <1>5, <1>6, <1>7, <1>8, <1>9, <1>10 DEF Next

\* Iterators stay on promised elements, and each step is the traversal's.
LEMMA AlwaysOnElement ==
  ASSUME "drop_last_unsized" \notin Kinds
  PROVE  Spec => [](CacheIsOwn /\ TypeOK /\ Within /\ OnElement) /\ WalksItsElements
<1> DEFINE Step == \/ Abstract!Begin \/ Abstract!End \/ Abstract!Next
                   \/ Abstract!Prev \/ Abstract!Invalidate
           Inv == CacheIsOwn /\ TypeOK /\ Within
<1>1. Init => OnElement /\ Abstract!Init
  BY DEF Init, OnElement, Abstract!Init
<1>2. Inv /\ Inv' /\ OnElement /\ [Next]_vars =>
        OnElement' /\ CallsAreSteps /\ [Step]_(Abstract!vars)
  <2>1. TypeOK => kind # "drop_last_unsized"
    BY DEF TypeOK
  <2>2. QED
    BY <2>1, StepsAreTraversal
<1>3. Spec => []Inv
  BY PlacesAreKept
<1>4. Inv /\ OnElement => CacheIsOwn /\ TypeOK /\ Within /\ OnElement
  OBVIOUS
<1>5. QED
  <2> HIDE DEF Step, Inv
  <2>1. Spec => [](Inv /\ OnElement) /\ [][CallsAreSteps]_vars
                /\ Abstract!Init /\ [][Step]_(Abstract!vars)
    BY <1>1, <1>2, <1>3, PTL DEF Spec
  <2>2. Abstract!Init /\ [][Step]_(Abstract!vars) => Abstract!Spec
    BY PTL DEF Step, Abstract!Spec
  <2>3. QED
    BY <1>4, <2>1, <2>2, PTL DEF WalksItsElements

\* Every call on a view lands where the documentation of the view says, on bases of
\* any length, whatever is cached and whatever other objects are copied, moved or
\* assigned meanwhile: begin() at the first promised element, end() behind the last,
\* ++ at the next one and -- at the one before.  The one view left out is drop_last
\* over a base that is neither sized nor common and steps back, which does not.
THEOREM EveryCallLandsRight ==
  ASSUME "drop_last_unsized" \notin Kinds
  PROVE  Spec => []CallsLandRight
<1>1. CacheIsOwn /\ TypeOK /\ Within /\ OnElement => CallsLandRight
  <2>1. TypeOK => kind # "drop_last_unsized"
    BY DEF TypeOK
  <2>2. QED
    BY <2>1, CallsLand
<1>2. QED
  BY <1>1, AlwaysOnElement, PTL

\* The walks made of such calls are the abstract traversal's: begin() is its Begin,
\* end() its End, each ++ its Next and each -- its Prev, and nothing else but giving
\* the iterator up changes where it is.
THEOREM ImplementsTraversal ==
  ASSUME "drop_last_unsized" \notin Kinds
  PROVE  Spec => WalksItsElements
BY AlwaysOnElement, PTL
=============================================================================
