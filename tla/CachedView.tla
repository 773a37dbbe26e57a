------------------------------ MODULE CachedView ------------------------------
(* The views that remember where they begin or end (view/remove_if.hpp,       *)
(* adjacent_remove_if.hpp, drop.hpp, drop_exactly.hpp, drop_while.hpp,        *)
(* trim.hpp, drop_last.hpp, reverse.hpp, chunk_by.hpp).  begin() is amortised *)
(* constant because the first call stores its answer in a                     *)
(* non_propagating_cache; the answer is an iterator into this object's own    *)
(* base, so no copy, move or assignment may carry it to another object.       *)
EXTENDS Integers, FiniteSets, FiniteSetsExt

CONSTANTS Views,     \* the view objects
          Kinds,     \* the views they may be
          MaxLen,    \* bound: the longest base
          MaxDrop,   \* bound: the largest n of the drop family
          NoIterator \* an empty cache, or no iterator in use

\* drop_last has three forms here: over a base that is common and bidirectional,
\* and over one that is neither sized nor common, forward or bidirectional
AllKinds == {"remove_if", "adjacent_remove_if", "drop", "drop_exactly", "drop_while", "trim",
             "drop_last", "drop_last_forward", "drop_last_unsized", "reverse", "chunk_by"}
Probing == {"drop_last_forward", "drop_last_unsized"}
Counting == {"drop", "drop_exactly", "drop_last"} \cup Probing
Testing == {"remove_if", "adjacent_remove_if", "drop_while", "trim", "chunk_by"}

ASSUME BoundsAreNatural == MaxLen \in Nat /\ MaxDrop \in Nat
ASSUME KindsAreViews == Kinds \subseteq AllKinds
ASSUME NoIteratorIsNone ==
  NoIterator \notin [view : Views, at : Int] \cup [view : Views, at : Int, second : Int]

VARIABLES kind,      \* which of the views
          base,      \* rng_, pred_ and n_ of each object
          cache,     \* begin_ (end_, second_ or probe_begin) of each object: an
                     \* iterator into the base of one of them
          cacheEnd,  \* end_ of a trim_view
          it         \* a client's iterator: its view, its place and a second place

vars == <<kind, base, cache, cacheEnd, it>>

\* a base of len elements; hit holds those the predicate holds for (with the
\* next one, where the predicate takes two)
Bases(k) ==
  { r \in [len : 0 .. MaxLen, hit : SUBSET (0 .. MaxLen - 1), n : 0 .. MaxDrop] :
      /\ r.hit \subseteq 0 .. r.len - 1
      /\ k \notin Testing => r.hit = {}
      /\ k \notin Counting => r.n = 0 }

\* drop_exactly's precondition
Usable(k, r) == k = "drop_exactly" => r.n =< r.len

Init ==
  /\ kind \in Kinds
  /\ base \in [Views -> { r \in Bases(kind) : Usable(kind, r) }]
  /\ cache = [v \in Views |-> NoIterator]
  /\ cacheEnd = [v \in Views |-> NoIterator]
  /\ it = NoIterator

----------------------------------------------------------------------------
(* What the caches are filled with *)

\* satisfy_forward of remove_if_view, and find_if_not
FirstMiss(r, p) == Min({ q \in p .. r.len - 1 : q \notin r.hit } \cup {r.len})

\* satisfy_forward of adjacent_remove_if_view: the last of a run is kept
LastOfRun(r, p) ==
  IF p = r.len THEN p ELSE Min({ q \in p .. r.len - 1 : q \notin r.hit \/ q = r.len - 1 })

\* next(begin, n, end)
Bounded_Not(r) == r.n
Bounded(r) == IF r.n < r.len THEN r.n ELSE r.len

\* prev(end, n, begin)
BoundedBack(r) == IF r.n < r.len THEN r.len - r.n ELSE 0

\* adjacent_find(p, last, not_fn(fun)) and one further
RunEnd_NotNext(r, p) == Min({ q \in p .. r.len - 2 : q \notin r.hit } \cup {r.len})
RunEnd(r, p) == Min({ q + 1 : q \in { x \in p .. r.len - 2 : x \notin r.hit } } \cup {r.len})

\* trim_view::end: back from the end of the base to behind the last miss
TrimEnd_AtMiss(r, first) == Max({first} \cup { q \in first .. r.len - 1 : q \notin r.hit })
TrimEnd(r, first) == Max({first} \cup { q + 1 : q \in { x \in first .. r.len - 1 : x \notin r.hit } })

Computed(r) ==
  CASE kind \in {"remove_if", "drop_while", "trim"} -> FirstMiss(r, 0)
    [] kind = "adjacent_remove_if" -> LastOfRun(r, 0)
    [] kind = "drop_exactly" -> r.n
    [] kind \in {"drop"} \cup Probing -> Bounded(r)
    [] kind = "drop_last" -> BoundedBack(r)
    [] kind = "reverse" -> r.len
    [] kind = "chunk_by" -> RunEnd(r, 0)

IteratorOf(v, p) == [view |-> v, at |-> p]
Filled(v) == IF cache[v] = NoIterator THEN IteratorOf(v, Computed(base[v])) ELSE cache[v]
FilledEnd(v) ==
  IF cacheEnd[v] = NoIterator THEN IteratorOf(v, TrimEnd(base[v], Filled(v).at)) ELSE cacheEnd[v]

\* where begin() and end() are; end() of the others is a sentinel
BeginAt(v) == IF kind \in {"drop_last", "chunk_by"} \cup Probing THEN 0 ELSE Filled(v).at
EndAt(v) == CASE kind = "trim" -> FilledEnd(v).at
              [] kind = "drop_last" -> Filled(v).at
              [] kind = "reverse" -> 0
              [] OTHER -> base[v].len

----------------------------------------------------------------------------
(* begin() and end() *)

BeginOf(v) == [view |-> v,
               at |-> BeginAt(v),
               second |-> IF kind \in {"chunk_by"} \cup Probing THEN Filled(v).at ELSE 0]
EndOf(v) == [view |-> v, at |-> EndAt(v), second |-> 0]

\* a client that holds an iterator goes on with that one
Obtained(i) == it' = IF it = NoIterator THEN i ELSE it

Begin(v) ==
  /\ Usable(kind, base[v])
  /\ cache' = IF kind = "drop_last" THEN cache ELSE [cache EXCEPT ![v] = Filled(v)]
  /\ Obtained(BeginOf(v))
  /\ UNCHANGED <<kind, base, cacheEnd>>

\* which calls of end() look for the beginning first
EndFillsCache_OnlyTrim == {"trim", "drop_last"}
EndFillsCache == {"remove_if", "adjacent_remove_if", "trim", "drop_last"}

\* the views whose end is an iterator
EndIsIterator == kind \notin {"chunk_by"} \cup Probing

End(v) ==
  /\ EndIsIterator
  /\ Usable(kind, base[v])
  /\ cache' = IF kind \in EndFillsCache THEN [cache EXCEPT ![v] = Filled(v)] ELSE cache
  /\ cacheEnd' = IF kind = "trim" THEN [cacheEnd EXCEPT ![v] = FilledEnd(v)] ELSE cacheEnd
  /\ Obtained(EndOf(v))
  /\ UNCHANGED <<kind, base>>

\* the client has done with its iterator
Discard == it # NoIterator /\ it' = NoIterator /\ UNCHANGED <<kind, base, cache, cacheEnd>>

----------------------------------------------------------------------------
(* The iterator *)

Over == base[it.view]
\* a client stops at the end, and does not step back from the beginning
AtEnd == IF kind \in Probing THEN it.second = Over.len ELSE it.at = EndAt(it.view)
AtBegin == it.at = BeginAt(it.view)

Forward_NoSkip(i) == [i EXCEPT !.at = @ + 1]
Forward(i) ==
  CASE kind = "remove_if" -> [i EXCEPT !.at = FirstMiss(Over, @ + 1)]
    [] kind = "adjacent_remove_if" -> [i EXCEPT !.at = LastOfRun(Over, @ + 1)]
    [] kind \in Probing -> [i EXCEPT !.at = @ + 1, !.second = @ + 1]
    [] kind = "reverse" -> [i EXCEPT !.at = @ - 1]
    [] kind = "chunk_by" -> [i EXCEPT !.at = i.second, !.second = RunEnd(Over, i.second)]
    [] OTHER -> [i EXCEPT !.at = @ + 1]

Next_ == /\ it # NoIterator /\ ~AtEnd
         /\ it' = Forward(it)
         /\ UNCHANGED <<kind, base, cache, cacheEnd>>

\* satisfy_reverse of remove_if_view and of adjacent_remove_if_view
MissBefore(p) == Max({ q \in 0 .. p - 1 : q \notin Over.hit })
RunEndBefore(p) ==
  IF p = Over.len THEN p - 1 ELSE Max({ q \in 0 .. p - 1 : q \notin Over.hit })

\* drop_last's forward adaptor has no prev of its own: adaptor_base's moves the
\* base iterator and leaves the probe
Backward(i) ==
  CASE kind = "remove_if" -> [i EXCEPT !.at = MissBefore(@)]
    [] kind = "adjacent_remove_if" -> [i EXCEPT !.at = RunEndBefore(@)]
    [] kind = "reverse" -> [i EXCEPT !.at = @ + 1]
    [] OTHER -> [i EXCEPT !.at = @ - 1]

StepsBack == kind \notin {"drop_last_forward", "chunk_by"}

Prev == /\ it # NoIterator /\ ~AtBegin /\ StepsBack
        /\ it' = Backward(it)
        /\ UNCHANGED <<kind, base, cache, cacheEnd>>

----------------------------------------------------------------------------
(* Copies, moves and assignments: non_propagating_cache's own members *)

\* what a cache holds after its object was copied to, moved to or moved from
Propagated_Copied(c, from) == from
Propagated(c, from) == NoIterator
MovedFrom(c) == NoIterator

Lost(vs) == it' = IF it # NoIterator /\ it.view \in vs THEN NoIterator ELSE it

\* v is constructed from w, or assigned to it; w may be v
Copy(v, w) ==
  /\ base' = [base EXCEPT ![v] = base[w]]
  /\ cache' = [cache EXCEPT ![v] = Propagated(@, cache[w])]
  /\ cacheEnd' = [cacheEnd EXCEPT ![v] = Propagated(@, cacheEnd[w])]
  /\ Lost({v})
  /\ UNCHANGED kind

\* the base that was moved from may have become empty
Move(v, w) ==
  /\ v # w
  /\ \E left \in {base[w], [base[w] EXCEPT !.len = 0, !.hit = {}]} :
       base' = [base EXCEPT ![v] = base[w], ![w] = left]
  /\ cache' = [cache EXCEPT ![v] = Propagated(@, cache[w]), ![w] = MovedFrom(@)]
  /\ cacheEnd' = [cacheEnd EXCEPT ![v] = Propagated(@, cacheEnd[w]), ![w] = MovedFrom(@)]
  /\ Lost({v, w})
  /\ UNCHANGED kind

Next == \/ \E v \in Views : Begin(v) \/ End(v)
        \/ Next_ \/ Prev \/ Discard
        \/ \E v, w \in Views : Copy(v, w) \/ Move(v, w)

Spec == Init /\ [][Next]_vars

----------------------------------------------------------------------------
Positions == 0 .. MaxLen

\* Caches and iterators hold places of a base; no cache runs past its end.
TypeOK ==
  /\ kind \in Kinds
  /\ base \in [Views -> Bases(kind)]
  /\ cache \in [Views -> [view : Views, at : Positions] \cup {NoIterator}]
  /\ cacheEnd \in [Views -> [view : Views, at : Positions] \cup {NoIterator}]
  /\ it = NoIterator \/ it \in [view : Views, at : Positions, second : Positions]

\* What a view has cached was computed from the base it has now, whatever copies,
\* moves and assignments it went through: it never answers begin() with an
\* iterator into another object's range.
CacheIsOwn ==
  \A v \in Views :
    /\ cache[v] # NoIterator => cache[v] = IteratorOf(v, Computed(base[v]))
    /\ cacheEnd[v] # NoIterator =>
         cacheEnd[v] = IteratorOf(v, TrimEnd(base[v], FirstMiss(base[v], 0)))

\* The assertions of satisfy_reverse: when an iterator of remove_if or
\* adjacent_remove_if steps back, its view has a cached begin, and the walk to
\* the element before does not run past it.
ReverseAssertsHold ==
  it # NoIterator /\ kind \in {"remove_if", "adjacent_remove_if"} /\ ~AtBegin =>
    /\ cache[it.view] # NoIterator
    /\ cache[it.view].at =<
         (IF kind = "remove_if" THEN MissBefore(it.at) ELSE RunEndBefore(it.at))

\* A chunk an iterator of chunk_by reads is a whole run: all its neighbours are
\* related, and the next element, if any, is not related to its last one.
ChunksAreRuns ==
  it # NoIterator /\ kind = "chunk_by" /\ ~AtEnd =>
    /\ it.at < it.second
    /\ it.at .. it.second - 2 \subseteq Over.hit
    /\ it.second < Over.len => it.second - 1 \notin Over.hit

\* doc/index.md on drop_last: all but the last n elements.  An iterator with n or
\* fewer elements in front of it is at the end, wherever it came from.
LastAreDropped ==
  it # NoIterator /\ kind \in Probing => (AtEnd <=> it.at >= BoundedBack(Over))

----------------------------------------------------------------------------
(* The elements each view promises, by their place in the order of traversal, *)
(* from the documentation of the view alone                                   *)

Promised(r) ==
  LET all == 0 .. r.len - 1
  IN CASE kind = "remove_if" -> all \ r.hit
       [] kind = "adjacent_remove_if" -> { q \in all : q \notin r.hit \/ q + 1 = r.len }
       [] kind \in {"drop", "drop_exactly"} -> { q \in all : q >= r.n }
       [] kind = "drop_while" -> { q \in all : ~(0 .. q \subseteq r.hit) }
       [] kind = "trim" -> { q \in all : /\ ~(0 .. q \subseteq r.hit)
                                         /\ ~(q .. r.len - 1 \subseteq r.hit) }
       [] kind \in {"drop_last"} \cup Probing -> { q \in all : q + r.n < r.len }
       [] kind = "reverse" -> all
       [] kind = "chunk_by" -> { q \in all : q = 0 \/ q - 1 \notin r.hit }

\* Where an iterator over r is.  What lies behind all promised elements is the end,
\* named r.len; what the view itself takes for its end has no part in it.
Place(r, i) ==
  LET spot == IF kind = "reverse" THEN r.len - i.at ELSE i.at
  IN  IF \E q \in Promised(r) : q >= spot THEN spot ELSE r.len

Abstract ==
  INSTANCE Traversal WITH
    NoElement <- -1,
    elems <- IF it = NoIterator THEN {} ELSE Promised(Over),
    end <- IF it = NoIterator THEN 0 ELSE Over.len,
    here <- IF it = NoIterator THEN -1 ELSE Place(Over, it)

\* the abstract step each call is
CallsAreSteps ==
  /\ Next_ => Abstract!Next
  /\ Prev => Abstract!Prev
  /\ \A v \in Views : it = NoIterator =>
       (Begin(v) => Abstract!Begin) /\ (End(v) => Abstract!End)

\* Every view's iterator starts at the first of exactly the elements the view's
\* documentation promises, or behind the last, and changes its place in no other way
\* than from one of them to the next or the one before: begin() is the traversal's
\* Begin, end() its End, each ++ its Next and each -- its Prev.
WalksItsElements == Abstract!Spec /\ [][CallsAreSteps]_vars

\* What each call returns, in every state, and never where it was: begin() the first
\* promised element or the end, end() the place behind the last one, ++ the next, --
\* the one before; and == end() holds exactly when no promised element is left.  The
\* caches, the scans of trim and drop and the probes of drop_last all enter here.
CallsLandRight ==
  /\ \A v \in Views : Usable(kind, base[v]) =>
       /\ Place(base[v], BeginOf(v)) \in Promised(base[v]) \cup {base[v].len}
       /\ \A q \in Promised(base[v]) : Place(base[v], BeginOf(v)) =< q
       /\ EndIsIterator => Place(base[v], EndOf(v)) = base[v].len
  /\ it # NoIterator =>
       /\ AtEnd <=> Place(Over, it) = Over.len
       /\ ~AtEnd => Abstract!Follows(Place(Over, Forward(it)), Place(Over, it))
       /\ StepsBack /\ ~AtBegin => Abstract!Precedes(Place(Over, Backward(it)), Place(Over, it))
=============================================================================
