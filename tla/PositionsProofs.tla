---------------------------- MODULE PositionsProofs ----------------------------
(* Whoever walks one of the views that count, in whichever way, is where it   *)
(* has reason to believe it is: the invariants of Positions, for ranges of    *)
(* every length, any number of iterators and every walk.                      *)
(*                                                                            *)
(* Stands says what an iterator at place p looks like in each view, and Sound *)
(* what a view looks like; Contract, which knows no view by name, says that   *)
(* the operations of a view lead from what stands at a place to what stands   *)
(* at the place they should lead to.  Each view keeps it, and who keeps it    *)
(* keeps the invariants.                                                      *)
EXTENDS Positions, SequenceTheorems, TLAPS

\* The views whose elements are told by arithmetic.  Those of the others are
\* lists that only induction over them says anything about.
Counting == {"cycle", "stride", "chunk", "sliding", "take", "zip", "cache1", "intersperse",
             "closed_iota", "scan", "slice", "generate_n", "sample", "linear_distribute",
             "cartesian", "concat"}
OnePass == {"cache1", "generate_n", "sample"}

Places(k, v) ==
  CASE k = "cycle" -> MaxPos
    [] k = "stride" -> Stride!Size(v)
    [] k = "chunk" -> Chunk!Size(v)
    [] k = "sliding" -> Sliding!Size(v)
    [] k = "take" -> Take!Size(v)
    [] k = "zip" -> Zip!Size(v)
    [] k = "cache1" -> Cache1!Size(v)
    [] k = "intersperse" -> Intersperse!Size(v)
    [] k = "closed_iota" -> ClosedIota!Size(v)
    [] k = "scan" -> Scan!Size(v)
    [] k = "slice" -> Slice!Size(v)
    [] k = "generate_n" -> Generate!Size(v)
    [] k = "sample" -> Sample!Size(v)
    [] k = "linear_distribute" -> Distribute!Size(v)
    [] k = "cartesian" -> Cartesian!Size(v)
    [] k = "concat" -> Concat!Size(v)

----------------------------------------------------------------------------
(* What each view is, and what stands at place p of it *)

CycleSound(v) ==
  /\ v \in [len : Nat \ {0}, common : BOOLEAN, end : Int]
  /\ v.end \in {Cycle!NotCached, v.len}
CycleStands(v, c, p) ==
  /\ c \in [it : Int, n : Int]
  /\ 0 =< c.it /\ c.it < v.len /\ 0 =< c.n
  /\ p = c.n * v.len + c.it
  /\ c.n > 0 => v.common \/ v.end = v.len

StrideSound(v) ==
  /\ v \in [len : Nat, stride : Nat \ {0}, sized : BOOLEAN, offset : Int]
  /\ v.offset \in {Stride!Unknown, Stride!Offset(v.len, v.stride)}
  /\ v.sized => v.offset # Stride!Unknown
StrideStands(v, c, p) ==
  /\ c = [it |-> IF p = Stride!Size(v) THEN v.len ELSE p * v.stride]
  /\ p > 0 /\ p = Stride!Size(v) => v.offset # Stride!Unknown

ChunkSound(v) == v \in [len : Nat, n : Nat \ {0}]
ChunkStands(v, c, p) ==
  c = [it |-> IF p = Chunk!Size(v) THEN v.len ELSE p * v.n,
       offset |-> IF p = Chunk!Size(v) THEN p * v.n - v.len ELSE 0]

SlidingSound(v) ==
  /\ v \in [len : Nat, n : Nat \ {0}, mode : Sliding!Modes, cache : Int]
  /\ ~Sliding!RunsOff(v)
  /\ v.cache \in {Sliding!NotCached,
                  IF Sliding!AtBack(v) THEN Sliding!EndOffset(v) ELSE Sliding!Size(v)}
SlidingStands(v, c, p) ==
  c = [it |-> IF Sliding!AtBack(v) THEN p + Sliding!EndOffset(v) ELSE p,
       trail |-> IF Sliding!Trails(v) THEN p ELSE 0]

TakeSound(v) == v \in [len : Nat, count : Nat, sized : BOOLEAN]
TakeStands(v, c, p) == c = [it |-> p, cnt |-> Take!Begin(v).cnt - p]

ZipSound(v) == v.lens \in [1 .. 2 -> Nat]
ZipStands(v, c, p) ==
  /\ c \in [1 .. 2 -> Int]
  /\ c = [k \in 1 .. 2 |-> p] \/ (p = Zip!Size(v) /\ c = v.lens)

Cache1Sound(v) == v \in [len : Nat, dirty : BOOLEAN, cache : Int, computed : 0 .. 1]
Cache1Stands(v, c, p) ==
  /\ c = [it |-> p]
  /\ v.computed = IF v.dirty THEN 0 ELSE 1
  /\ ~v.dirty => v.cache = p

IntersperseSound(v) == v \in [len : Nat]
IntersperseStands(v, c, p) ==
  /\ c \in [it : Int, toggle : BOOLEAN]
  /\ IF v.len = 0 THEN c.it = 0 /\ ~c.toggle ELSE p = 2 * c.it - (IF c.toggle THEN 0 ELSE 1)

ClosedIotaSound(v) == v \in ClosedIota!Ranges
ClosedIotaStands(v, c, p) == c = ClosedIota!At(v, p)

ScanSound(v) == v \in [len : Nat, exclusive : BOOLEAN]
ScanStands(v, c, p) ==
  /\ c \in [it : Int, sum : Seq(Int)]
  /\ c.it = p
  /\ p # v.len => c.sum = Scan!Element(v, p)

SliceSound(v) ==
  /\ v \in [len : Nat, from : Int, to : Int, begin : Int, count : Nat]
  /\ v.count = Slice!Size(v)
  /\ 0 =< Slice!PosAt(v) /\ Slice!PosAt(v) + v.count =< v.len
  /\ v.begin \in {Slice!NotCached, Slice!PosAt(v)}
SliceStands(v, c, p) == c = [it |-> Slice!PosAt(v) + p, cnt |-> v.count - p]

GenerateSound(v) ==
  /\ v \in [len : Nat, n : Int, val : Int, calls : Nat]
  /\ v.calls = 0 => v.val = Generate!Empty
GenerateStands(v, c, p) ==
  /\ c = [view |-> TRUE]
  /\ v.n = v.len - p
  /\ v.val \in {Generate!Empty, p}
  /\ v.calls = IF v.val = Generate!Empty THEN p ELSE p + 1

SampleSound(v) ==
  v \in [len : Nat, size : Int, count : Nat, tracked : BOOLEAN] /\ v.size =< v.count
SampleStands(v, c, p) ==
  /\ c \in [it : Int, left : Int]
  /\ 0 =< c.it /\ c.it =< v.len
  /\ v.tracked => c.left = v.len - c.it
  /\ v.size = Sample!Size(v) - p
  /\ v.size =< v.len - c.it

DistributeSound(v) ==
  /\ v \in [from : Int, n : Nat \ {0}, to : Int, delta : 0 .. 2]
  /\ v.to = v.from + v.delta * (v.n - 1)
DistributeStands(v, c, p) ==
  c = [from |-> IF p = v.n THEN v.to ELSE v.from + v.delta * p, n |-> v.n - p]

CartesianSound(v) ==
  v \in [lens : [1 .. 3 -> Nat], common : BOOLEAN] /\ ~Cartesian!EndRunsOff(v)
CartesianStands(v, c, p) ==
  /\ c \in [1 .. 3 -> Int]
  /\ \/ \A k \in 1 .. 3 : 0 =< c[k] /\ c[k] < v.lens[k]
     \/ c[1] = v.lens[1] /\ c[2] = 0 /\ c[3] = 0
  /\ p = (c[1] * v.lens[2] + c[2]) * v.lens[3] + c[3]

ConcatSound(v) == v \in [lens : [1 .. 3 -> Nat]]
\* where range j begins
ConcatStart(v, j) ==
  (IF j > 1 THEN v.lens[1] ELSE 0) + (IF j > 2 THEN v.lens[2] ELSE 0)
ConcatStands(v, c, p) ==
  /\ c \in [which : 1 .. 3, it : Nat]
  /\ c.it < v.lens[c.which] \/ c = Concat!End(v)
  /\ p = ConcatStart(v, c.which) + c.it

Sound(k, v) ==
  CASE k = "cycle" -> CycleSound(v)
    [] k = "stride" -> StrideSound(v)
    [] k = "chunk" -> ChunkSound(v)
    [] k = "sliding" -> SlidingSound(v)
    [] k = "take" -> TakeSound(v)
    [] k = "zip" -> ZipSound(v)
    [] k = "cache1" -> Cache1Sound(v)
    [] k = "intersperse" -> IntersperseSound(v)
    [] k = "closed_iota" -> ClosedIotaSound(v)
    [] k = "scan" -> ScanSound(v)
    [] k = "slice" -> SliceSound(v)
    [] k = "generate_n" -> GenerateSound(v)
    [] k = "sample" -> SampleSound(v)
    [] k = "linear_distribute" -> DistributeSound(v)
    [] k = "cartesian" -> CartesianSound(v)
    [] k = "concat" -> ConcatSound(v)

Looks(k, v, c, p) ==
  CASE k = "cycle" -> CycleStands(v, c, p)
    [] k = "stride" -> StrideStands(v, c, p)
    [] k = "chunk" -> ChunkStands(v, c, p)
    [] k = "sliding" -> SlidingStands(v, c, p)
    [] k = "take" -> TakeStands(v, c, p)
    [] k = "zip" -> ZipStands(v, c, p)
    [] k = "cache1" -> Cache1Stands(v, c, p)
    [] k = "intersperse" -> IntersperseStands(v, c, p)
    [] k = "closed_iota" -> ClosedIotaStands(v, c, p)
    [] k = "scan" -> ScanStands(v, c, p)
    [] k = "slice" -> SliceStands(v, c, p)
    [] k = "generate_n" -> GenerateStands(v, c, p)
    [] k = "sample" -> SampleStands(v, c, p)
    [] k = "linear_distribute" -> DistributeStands(v, c, p)
    [] k = "cartesian" -> CartesianStands(v, c, p)
    [] k = "concat" -> ConcatStands(v, c, p)

Stands(k, v, c, p) == p \in 0 .. Places(k, v) /\ Looks(k, v, c, p)

\* w, which the view has become, is sound, and who stood still stands.
Kept(w) ==
  /\ Sound(kind, w)
  /\ kind \notin OnePass => \A c, p : Stands(kind, view, c, p) => Stands(kind, w, c, p)

----------------------------------------------------------------------------
(* What every view owes whoever walks it *)

FrontIsFirst ==
  MayBegin => Kept(AfterBegin) /\ \A c \in Begins : Stands(kind, AfterBegin, c, 0)
EndIsLast ==
  Common => Kept(AfterEnd) /\ Stands(kind, AfterEnd, FromEnd, Size)
StepsGoOn ==
  \A c, p : Stands(kind, view, c, p) /\ p < Size =>
    Kept(AfterStep(c)) /\ \A d \in Steps(c) : Stands(kind, AfterStep(c), d, p + 1)
StepsGoBack ==
  \A c, p : Stands(kind, view, c, p) /\ p > 0 /\ Bidirectional /\ MayGoBack(c) =>
    Stands(kind, view, SteppedBack(c), p - 1)
JumpsLand ==
  RandomAccess =>
    \A c, p : \A n \in Int : Stands(kind, view, c, p) /\ p + n \in 0 .. Size /\ MayAdvance(c, n) =>
      Kept(AfterAdvance(c, n)) /\ Stands(kind, AfterAdvance(c, n), Advanced(c, n), p + n)
TracesAreSound ==
  LeavesATrace =>
    \A c, p : Stands(kind, view, c, p) /\ p < Size =>
      Kept(AfterRead(c)) /\ Stands(kind, AfterRead(c), c, p)
EndsAreLearnt == kind = "cycle" => Kept(Cycle!WithEnd(view))
CopiesAreSound == Sound(kind, Copied)

AssertionsHold ==
  \A c, p : Stands(kind, view, c, p) =>
    /\ p < Size => NextExpects(c) /\ ReadExpects(c)
    /\ p > 0 /\ Bidirectional => PrevExpects(c)
    /\ RandomAccess =>
         \A n \in Int : p + n \in 0 .. Size /\ (kind = "cycle" => Cycle!StaysAligned(view, c, n)) =>
           AdvanceExpects(c, n)
ReadsArePromised ==
  \A c, p : Stands(kind, view, c, p) /\ p < Size /\ kind # "sample" => ReadAt(c) = Element(p)
PlacesAreTold ==
  \A c, d, p, q : Stands(kind, view, c, p) /\ Stands(kind, view, d, q) =>
    /\ kind \notin OnePass => (Equal(c, d) <=> p = q)
    /\ RandomAccess => Difference(c, d) = q - p
    /\ kind = "chunk" => Chunk!DistanceExpects(view, c, d)
EndIsTold ==
  \A c, p : Stands(kind, view, c, p) /\ kind # "cycle" => (AtEnd(c) <=> p = Size)

Contract ==
  /\ FrontIsFirst /\ EndIsLast /\ StepsGoOn /\ StepsGoBack /\ JumpsLand
  /\ TracesAreSound /\ EndsAreLearnt /\ CopiesAreSound
  /\ AssertionsHold /\ ReadsArePromised /\ PlacesAreTold /\ EndIsTold

Standing ==
  /\ kind \in Kinds
  /\ Sound(kind, view)
  /\ cursor \in [Iterators -> Cursors \cup {None}]
  /\ pos \in [Iterators -> Int]
  /\ \A x \in Iterators :
       IF cursor[x] = None THEN pos[x] = 0
       ELSE (kind \in OnePass => x = First) /\ Stands(kind, view, cursor[x], pos[x])

----------------------------------------------------------------------------
(* Arithmetic *)

\* Products of a step n.
LEMMA Products ==
  ASSUME NEW n \in Nat \ {0}, NEW a \in Int, NEW b \in Int
  PROVE  /\ a * n \in Int /\ (a + b) * n = a * n + b * n /\ (a - b) * n = a * n - b * n
         /\ 0 * n = 0 /\ 1 * n = n
         /\ a =< b <=> a * n =< b * n
         /\ a < b <=> a * n < b * n
         /\ a < b => a * n + n =< b * n
  <1>1. /\ a * n \in Int /\ (a + b) * n = a * n + b * n /\ (a - b) * n = a * n - b * n
        /\ 0 * n = 0 /\ 1 * n = n
    OBVIOUS
  <1>2. \A x, y \in Int : x < y => x * n + n =< y * n
    <2>1. SUFFICES ASSUME NEW x \in Int, NEW y \in Int, x < y
                   PROVE  x * n + n =< y * n
      OBVIOUS
    <2>2. y * n - x * n - n = (y - x - 1) * n
      OBVIOUS
    <2>3. y - x - 1 \in Nat
      BY <2>1
    <2>4. (y - x - 1) * n >= 0
      BY <2>3
    <2> QED
      BY <2>2, <2>4
  <1>3. a < b => a * n < b * n
    BY <1>2
  <1>4. b < a => b * n < a * n
    BY <1>2
  <1>5. a = b => a * n = b * n
    OBVIOUS
  <1>6. a * n \in Int /\ b * n \in Int
    OBVIOUS
  <1> QED
    BY <1>1, <1>2, <1>3, <1>4, <1>5, <1>6

\* A number lies between its quotient's multiple and the next.
LEMMA QuotientOf ==
  ASSUME NEW n \in Nat \ {0}, NEW a \in Int
  PROVE  /\ a \div n \in Int /\ a % n = a - (a \div n) * n
         /\ (a \div n) * n =< a /\ a < (a \div n) * n + n
  OBVIOUS

\* A quotient is told by where the number lies among the multiples.
LEMMA QuotientIsTold ==
  ASSUME NEW n \in Nat \ {0}, NEW a \in Int, NEW k \in Int, k * n =< a, a < k * n + n
  PROVE  a \div n = k /\ a % n = a - k * n
  <1>1. /\ a \div n \in Int /\ a % n = a - (a \div n) * n
        /\ (a \div n) * n =< a /\ a < (a \div n) * n + n
    BY QuotientOf
  <1>2. a \div n = k
    <2> DEFINE q == a \div n
    <2> HIDE DEF q
    <2>1. q \in Int /\ q * n =< a /\ a < q * n + n
      BY <1>1 DEF q
    <2>2. q < k => q * n + n =< k * n
      BY <2>1, Products
    <2>3. k < q => k * n + n =< q * n
      BY <2>1, Products
    <2>4. q * n \in Int /\ k * n \in Int
      BY <2>1
    <2>5. q = k
      BY <2>1, <2>2, <2>3, <2>4
    <2> QED
      BY <2>5 DEF q
  <1> QED
    BY <1>1, <1>2

\* Less than a step is no whole step.
LEMMA NoWholeStep ==
  ASSUME NEW n \in Nat \ {0}, NEW a \in 0 .. n - 1
  PROVE  a \div n = 0
  <1>1. 0 * n =< a /\ a < 0 * n + n /\ a \in Int /\ 0 \in Int
    OBVIOUS
  <1> QED
    BY <1>1, QuotientIsTold

\* where p steps of n come to in a range of len elements, s of which pass it
Reached(len, n, s, p) == IF p = s THEN len ELSE p * n

\* A range of len elements is gone through in s steps of n.
LEMMA StepsThroughARange ==
  ASSUME NEW len \in Nat, NEW n \in Nat \ {0}, NEW s \in Int, len =< s * n, s * n < len + n
  PROVE  /\ s \in Nat /\ s * n \in Nat /\ (s = 0 <=> len = 0)
         /\ \A p \in 0 .. s : /\ p * n \in Nat /\ (p < s <=> p * n < len)
                              /\ Reached(len, n, s, p) \in 0 .. len
                              /\ Reached(len, n, s, p) = len <=> p = s
                              /\ p < s => Reached(len, n, s, p) = p * n
  <1>1. s * n \in Int /\ 0 * n = 0
    BY Products
  <1>2. s \in Nat
    BY <1>1, Products
  <1>3. s * n \in Nat /\ (s = 0 <=> len = 0)
    <2>1. s = 0 \/ 0 < s
      BY <1>2
    <2>2. 0 < s => 0 * n + n =< s * n
      BY Products
    <2> QED
      BY <1>1, <2>1, <2>2
  <1>4. ASSUME NEW p \in 0 .. s
        PROVE  /\ p * n \in Nat /\ (p < s <=> p * n < len)
               /\ Reached(len, n, s, p) \in 0 .. len
               /\ Reached(len, n, s, p) = len <=> p = s
               /\ p < s => Reached(len, n, s, p) = p * n
    <2>1. p \in Int /\ p * n \in Int /\ 0 * n =< p * n
      BY Products
    <2>2. p < s => p * n + n =< s * n
      BY Products
    <2>3. p = s \/ p < s
      BY <1>2
    <2> DEFINE x == p * n
               y == s * n
    <2>4. x \in Nat /\ y \in Nat /\ (p < s => x + n =< y) /\ (p = s => x = y) /\ len =< y /\ y < len + n
      BY <1>1, <1>3, <2>1, <2>2
    <2> HIDE DEF x, y
    <2>5. p < s <=> x < len
      BY <2>3, <2>4
    <2>6. Reached(len, n, s, p) = IF p = s THEN len ELSE x
      BY DEF Reached, x
    <2>7. /\ Reached(len, n, s, p) \in 0 .. len
          /\ Reached(len, n, s, p) = len <=> p = s
      BY <2>3, <2>4, <2>5, <2>6
    <2> QED
      BY <2>3, <2>4, <2>5, <2>6, <2>7 DEF x
  <1> QED
    BY <1>2, <1>3, <1>4

\* Whole steps divided by their length.
LEMMA WholeSteps ==
  ASSUME NEW n \in Nat \ {0}, NEW k \in Int
  PROVE  /\ Chunk!Div(k * n, n) = k /\ Chunk!Mod(k * n, n) = 0
  <1>1. k * n \in Int /\ (-k) * n = -(k * n) /\ (k >= 0 <=> k * n >= 0) /\ n * k = k * n
    <2>1. 0 * n = 0 /\ (0 =< k <=> 0 * n =< k * n) /\ (0 - k) * n = 0 * n - k * n /\ k * n \in Int
      BY Products
    <2> QED
      BY <2>1
  <1>2. CASE k * n >= 0
    <2>1. (k * n) \div n = k
      BY <1>1, QuotientIsTold
    <2> QED
      BY <1>1, <1>2, <2>1 DEF Chunk!Div, Chunk!Mod
  <1>3. CASE ~(k * n >= 0)
    <2>1. (-(k * n)) \div n = -k
      <3>1. -k \in Int /\ -(k * n) \in Int /\ (-k) * n =< -(k * n) /\ -(k * n) < (-k) * n + n
        BY <1>1
      <3> QED
        BY <3>1, QuotientIsTold
    <2> QED
      BY <1>1, <1>3, <2>1 DEF Chunk!Div, Chunk!Mod
  <1> QED
    BY <1>2, <1>3

\* The least and the greatest of two numbers.
LEMMA LeastOfTwo ==
  ASSUME NEW a \in Int, NEW b \in Int
  PROVE  /\ Zip!Min({a, b}) = IF a =< b THEN a ELSE b
         /\ Zip!Max({a, b}) = IF a =< b THEN b ELSE a
  <1>1. Zip!Min({a, b}) = IF a =< b THEN a ELSE b
    <2> DEFINE P(x) == x \in {a, b} /\ \A y \in {a, b} : x =< y
    <2>1. \E x \in {a, b} : \A y \in {a, b} : x =< y
      OBVIOUS
    <2>2. Zip!Min({a, b}) \in {a, b} /\ \A y \in {a, b} : Zip!Min({a, b}) =< y
      BY <2>1 DEF Zip!Min
    <2> QED
      BY <2>2
  <1>2. Zip!Max({a, b}) = IF a =< b THEN b ELSE a
    <2>1. \E x \in {a, b} : \A y \in {a, b} : x >= y
      OBVIOUS
    <2>2. Zip!Max({a, b}) \in {a, b} /\ \A y \in {a, b} : Zip!Max({a, b}) >= y
      BY <2>1 DEF Zip!Max
    <2> QED
      BY <2>2
  <1> QED
    BY <1>1, <1>2

----------------------------------------------------------------------------
(* What diffmax_t computes, for integers of any width *)

\* The remainder, for the dividends the operators have.
LEMMA WrapIsRemainder ==
  ASSUME Values \in Nat \ {0, 1}, NEW i \in Int
  PROVE  /\ ClosedIota!Diff!Wrap(i) \in ClosedIota!Diff!Magnitudes
         /\ i \in ClosedIota!Diff!Magnitudes => ClosedIota!Diff!Wrap(i) = i
         /\ -i \in 1 .. Values => ClosedIota!Diff!Wrap(i) = i + Values
         /\ i \in Values .. 2 * Values - 1 => ClosedIota!Diff!Wrap(i) = i - Values
  BY DEF ClosedIota!Diff!Wrap, ClosedIota!Diff!Magnitudes

\* Every difference stands for one integer and is the only one that does: the
\* comparisons of diffmax_t, == by parts and < by cases, are those of integers.
THEOREM OrderIsOrder ==
  ASSUME Values \in Nat \ {0, 1}, NEW a \in ClosedIota!Diff!Differences, NEW b \in ClosedIota!Diff!Differences
  PROVE  /\ ClosedIota!Diff!InRange(ClosedIota!Diff!Value(a))
         /\ (a = b) <=> (ClosedIota!Diff!Value(a) = ClosedIota!Diff!Value(b))
         /\ ClosedIota!Diff!Less(a, b) <=> ClosedIota!Diff!Value(a) < ClosedIota!Diff!Value(b)
  <1>1. /\ a.neg \in BOOLEAN /\ b.neg \in BOOLEAN /\ a.val \in ClosedIota!Diff!Magnitudes /\ b.val \in ClosedIota!Diff!Magnitudes
        /\ ClosedIota!Diff!Checked(a) /\ ClosedIota!Diff!Checked(b)
        /\ a = [neg |-> a.neg, val |-> a.val] /\ b = [neg |-> b.neg, val |-> b.val]
    BY DEF ClosedIota!Diff!Differences, ClosedIota!Diff!DiffMax
  <1>2. ClosedIota!Diff!InRange(ClosedIota!Diff!Value(a))
    BY <1>1 DEF ClosedIota!Diff!InRange, ClosedIota!Diff!Value, ClosedIota!Diff!Magnitudes
  <1>3. (a = b) <=> (ClosedIota!Diff!Value(a) = ClosedIota!Diff!Value(b))
    <2>1. a.neg = b.neg /\ a.val = b.val => a = b
      BY <1>1
    <2>2. ClosedIota!Diff!Value(a) = ClosedIota!Diff!Value(b) => a.neg = b.neg /\ a.val = b.val
      BY <1>1 DEF ClosedIota!Diff!Value, ClosedIota!Diff!Checked, ClosedIota!Diff!Magnitudes
    <2> QED
      BY <2>1, <2>2
  <1>4. ClosedIota!Diff!Less(a, b) <=> ClosedIota!Diff!Value(a) < ClosedIota!Diff!Value(b)
    BY <1>1 DEF ClosedIota!Diff!Less, ClosedIota!Diff!Value, ClosedIota!Diff!Checked, ClosedIota!Diff!Magnitudes
  <1> QED
    BY <1>2, <1>3, <1>4

\* A difference made of an integer stands for it, and turned to an unsigned
\* integer it is that integer modulo 2^w: so += of it to an unsigned value is
\* exact wherever the result is.
THEOREM ConversionsKeepTheValue ==
  ASSUME Values \in Nat \ {0, 1}, NEW i \in Int, ClosedIota!Diff!InRange(i)
  PROVE  /\ ClosedIota!Diff!Of(i) \in ClosedIota!Diff!Differences /\ ClosedIota!Diff!Value(ClosedIota!Diff!Of(i)) = i
         /\ \A a \in ClosedIota!Diff!Differences : ClosedIota!Diff!ToUnsigned(a) = ClosedIota!Diff!Wrap(ClosedIota!Diff!Value(a))
  <1>1. ClosedIota!Diff!Of(i) \in ClosedIota!Diff!Differences /\ ClosedIota!Diff!Value(ClosedIota!Diff!Of(i)) = i
    BY WrapIsRemainder
       DEF ClosedIota!Diff!Of, ClosedIota!Diff!InRange, ClosedIota!Diff!Differences, ClosedIota!Diff!DiffMax, ClosedIota!Diff!Checked, ClosedIota!Diff!Value, ClosedIota!Diff!Magnitudes
  <1>2. ASSUME NEW a \in ClosedIota!Diff!Differences PROVE ClosedIota!Diff!ToUnsigned(a) = ClosedIota!Diff!Wrap(ClosedIota!Diff!Value(a))
    <2>1. a.neg \in BOOLEAN /\ a.val \in ClosedIota!Diff!Magnitudes
      BY DEF ClosedIota!Diff!Differences, ClosedIota!Diff!DiffMax
    <2>2. a.val \in Int
      BY <2>1 DEF ClosedIota!Diff!Magnitudes
    <2> QED
      BY <2>1, <2>2, WrapIsRemainder DEF ClosedIota!Diff!ToUnsigned, ClosedIota!Diff!Value
  <1> QED
    BY <1>1, <1>2

\* Sum, difference and negation of diffmax_t are those of integers wherever a
\* magnitude of w bits can hold the result.
THEOREM SumIsSum ==
  ASSUME Values \in Nat \ {0, 1}, NEW a \in ClosedIota!Diff!Differences, NEW b \in ClosedIota!Diff!Differences
  PROVE  /\ ClosedIota!Diff!Negative(b) \in ClosedIota!Diff!Differences /\ ClosedIota!Diff!Value(ClosedIota!Diff!Negative(b)) = -ClosedIota!Diff!Value(b)
         /\ ClosedIota!Diff!Plus(a, b) \in ClosedIota!Diff!Differences
         /\ ClosedIota!Diff!InRange(ClosedIota!Diff!Value(a) + ClosedIota!Diff!Value(b)) => ClosedIota!Diff!Value(ClosedIota!Diff!Plus(a, b)) = ClosedIota!Diff!Value(a) + ClosedIota!Diff!Value(b)
         /\ ClosedIota!Diff!Minus(a, b) \in ClosedIota!Diff!Differences
         /\ ClosedIota!Diff!InRange(ClosedIota!Diff!Value(a) - ClosedIota!Diff!Value(b)) => ClosedIota!Diff!Value(ClosedIota!Diff!Minus(a, b)) = ClosedIota!Diff!Value(a) - ClosedIota!Diff!Value(b)
  <1>1. ASSUME NEW x \in ClosedIota!Diff!Differences
        PROVE  x.neg \in BOOLEAN /\ x.val \in Int /\ x.val \in ClosedIota!Diff!Magnitudes /\ ClosedIota!Diff!Checked(x) /\ ClosedIota!Diff!Value(x) \in Int
    BY <1>1 DEF ClosedIota!Diff!Differences, ClosedIota!Diff!DiffMax, ClosedIota!Diff!Magnitudes, ClosedIota!Diff!Value
  <1>2. ASSUME NEW neg \in BOOLEAN, NEW val \in ClosedIota!Diff!Magnitudes
        PROVE  /\ ClosedIota!Diff!Normalize(neg, val) \in ClosedIota!Diff!Differences
               /\ ClosedIota!Diff!Value(ClosedIota!Diff!Normalize(neg, val)) = IF neg THEN -val ELSE val
    <2>0. val \in Int
      BY <1>2 DEF ClosedIota!Diff!Magnitudes
    <2>1. CASE neg /\ val # 0
      <3>1. ClosedIota!Diff!Normalize(neg, val) = [neg |-> TRUE, val |-> val]
        BY <2>1 DEF ClosedIota!Diff!Normalize
      <3> QED
        BY <3>1, <2>0, <2>1, <1>2 DEF ClosedIota!Diff!Differences, ClosedIota!Diff!DiffMax, ClosedIota!Diff!Checked, ClosedIota!Diff!Value
    <2>2. CASE ~(neg /\ val # 0)
      <3>1. ClosedIota!Diff!Normalize(neg, val) = [neg |-> FALSE, val |-> val]
        BY <2>2 DEF ClosedIota!Diff!Normalize
      <3>2. ClosedIota!Diff!Normalize(neg, val) \in ClosedIota!Diff!Differences /\ ClosedIota!Diff!Value(ClosedIota!Diff!Normalize(neg, val)) = val
        BY <3>1, <1>2 DEF ClosedIota!Diff!Differences, ClosedIota!Diff!DiffMax, ClosedIota!Diff!Checked, ClosedIota!Diff!Value
      <3>3. ASSUME neg PROVE -val = val
        <4>1. val =< 0 /\ val >= 0
          BY <2>2, <3>3
        <4> QED
          BY <2>0, <4>1
      <3> QED
        BY <3>2, <3>3
    <2> QED
      BY <2>1, <2>2
  <1>3. ASSUME NEW x \in ClosedIota!Diff!Differences
        PROVE  ClosedIota!Diff!Negative(x) \in ClosedIota!Diff!Differences /\ ClosedIota!Diff!Value(ClosedIota!Diff!Negative(x)) = -ClosedIota!Diff!Value(x)
    <2>1. x.neg \in BOOLEAN /\ x.val \in ClosedIota!Diff!Magnitudes /\ x.val \in Int
      BY <1>3, <1>1
    <2>2. CASE x.neg
      <3>1. ClosedIota!Diff!Negative(x) = ClosedIota!Diff!Normalize(FALSE, x.val)
        BY <2>2 DEF ClosedIota!Diff!Negative
      <3>2. ClosedIota!Diff!Negative(x) \in ClosedIota!Diff!Differences /\ ClosedIota!Diff!Value(ClosedIota!Diff!Negative(x)) = x.val
        BY <3>1, <2>1, <1>2
      <3>3. ClosedIota!Diff!Value(x) = -x.val
        BY <2>2 DEF ClosedIota!Diff!Value
      <3>4. -(-x.val) = x.val
        BY <2>1
      <3> QED
        BY <3>2, <3>3, <3>4
    <2>3. CASE ~x.neg
      <3>1. ClosedIota!Diff!Negative(x) = ClosedIota!Diff!Normalize(TRUE, x.val)
        BY <2>3 DEF ClosedIota!Diff!Negative
      <3>2. ClosedIota!Diff!Negative(x) \in ClosedIota!Diff!Differences /\ ClosedIota!Diff!Value(ClosedIota!Diff!Negative(x)) = -x.val
        BY <3>1, <2>1, <1>2
      <3>3. ClosedIota!Diff!Value(x) = x.val
        BY <2>3 DEF ClosedIota!Diff!Value
      <3> QED
        BY <3>2, <3>3
    <2> QED
      BY <2>1, <2>2, <2>3
  <1>4. ASSUME NEW x \in ClosedIota!Diff!Differences, NEW y \in ClosedIota!Diff!Differences
        PROVE  /\ ClosedIota!Diff!Plus(x, y) \in ClosedIota!Diff!Differences
               /\ ClosedIota!Diff!InRange(ClosedIota!Diff!Value(x) + ClosedIota!Diff!Value(y)) => ClosedIota!Diff!Value(ClosedIota!Diff!Plus(x, y)) = ClosedIota!Diff!Value(x) + ClosedIota!Diff!Value(y)
    <2>1. CASE x.neg = y.neg
      <3>1. x.val + y.val \in Int
        BY <1>1
      <3>2. ClosedIota!Diff!Wrap(x.val + y.val) \in ClosedIota!Diff!Magnitudes
        BY <3>1, WrapIsRemainder
      <3>3. ClosedIota!Diff!Plus(x, y) = ClosedIota!Diff!Normalize(x.neg, ClosedIota!Diff!Wrap(x.val + y.val))
        BY <2>1 DEF ClosedIota!Diff!Plus
      <3>4. ClosedIota!Diff!InRange(ClosedIota!Diff!Value(x) + ClosedIota!Diff!Value(y)) => x.val + y.val \in ClosedIota!Diff!Magnitudes
        BY <2>1, <1>1 DEF ClosedIota!Diff!InRange, ClosedIota!Diff!Value, ClosedIota!Diff!Magnitudes
      <3>5. ClosedIota!Diff!InRange(ClosedIota!Diff!Value(x) + ClosedIota!Diff!Value(y)) => ClosedIota!Diff!Wrap(x.val + y.val) = x.val + y.val
        BY <3>1, <3>4, WrapIsRemainder
      <3>6. ClosedIota!Diff!Plus(x, y) \in ClosedIota!Diff!Differences
            /\ ClosedIota!Diff!Value(ClosedIota!Diff!Plus(x, y)) = IF x.neg THEN -ClosedIota!Diff!Wrap(x.val + y.val) ELSE ClosedIota!Diff!Wrap(x.val + y.val)
        BY <3>2, <3>3, <1>1, <1>2
      <3> QED
        BY <2>1, <3>5, <3>6, <1>1 DEF ClosedIota!Diff!Value
    <2>2. CASE x.neg # y.neg
      <3>1. /\ x.val > y.val => x.val - y.val \in ClosedIota!Diff!Magnitudes
            /\ ~(x.val > y.val) => y.val - x.val \in ClosedIota!Diff!Magnitudes
            /\ ~(y.val > x.val) => x.val - y.val \in ClosedIota!Diff!Magnitudes
        BY <1>1 DEF ClosedIota!Diff!Magnitudes
      <3>2. CASE x.neg /\ ~y.neg /\ x.val > y.val
        <4>1. ClosedIota!Diff!Plus(x, y) = ClosedIota!Diff!Normalize(TRUE, x.val - y.val)
          BY <3>2 DEF ClosedIota!Diff!Plus
        <4>2. ClosedIota!Diff!Value(x) + ClosedIota!Diff!Value(y) = -(x.val - y.val)
          BY <3>2, <1>1 DEF ClosedIota!Diff!Value
        <4> QED
          BY <4>1, <4>2, <3>1, <3>2, <1>2
      <3>3. CASE x.neg /\ ~y.neg /\ ~(x.val > y.val)
        <4>1. ClosedIota!Diff!Plus(x, y) = ClosedIota!Diff!Normalize(FALSE, y.val - x.val)
          BY <3>3 DEF ClosedIota!Diff!Plus
        <4>2. ClosedIota!Diff!Value(x) + ClosedIota!Diff!Value(y) = y.val - x.val
          BY <3>3, <1>1 DEF ClosedIota!Diff!Value
        <4> QED
          BY <4>1, <4>2, <3>1, <3>3, <1>2
      <3>4. CASE ~x.neg /\ y.neg /\ y.val > x.val
        <4>1. ClosedIota!Diff!Plus(x, y) = ClosedIota!Diff!Normalize(TRUE, y.val - x.val)
          BY <3>4 DEF ClosedIota!Diff!Plus
        <4>2. y.val - x.val \in ClosedIota!Diff!Magnitudes
          BY <3>4, <1>1 DEF ClosedIota!Diff!Magnitudes
        <4>3. ClosedIota!Diff!Value(x) + ClosedIota!Diff!Value(y) = -(y.val - x.val)
          BY <3>4, <1>1 DEF ClosedIota!Diff!Value
        <4> QED
          BY <4>1, <4>2, <4>3, <1>2
      <3>5. CASE ~x.neg /\ y.neg /\ ~(y.val > x.val)
        <4>1. ClosedIota!Diff!Plus(x, y) = ClosedIota!Diff!Normalize(FALSE, x.val - y.val)
          BY <3>5 DEF ClosedIota!Diff!Plus
        <4>2. ClosedIota!Diff!Value(x) + ClosedIota!Diff!Value(y) = x.val - y.val
          BY <3>5, <1>1 DEF ClosedIota!Diff!Value
        <4> QED
          BY <4>1, <4>2, <3>1, <3>5, <1>2
      <3> QED
        BY <3>2, <3>3, <3>4, <3>5, <2>2, <1>1
    <2> QED
      BY <2>1, <2>2
  <1>5. ClosedIota!Diff!Value(a) - ClosedIota!Diff!Value(b) = ClosedIota!Diff!Value(a) + ClosedIota!Diff!Value(ClosedIota!Diff!Negative(b))
    BY <1>1, <1>3
  <1> QED
    BY <1>3, <1>4, <1>5 DEF ClosedIota!Diff!Minus

\* ++ and -- are steps of one, but for ++ of the greatest value and -- of the
\* least, which wrap to zero, and for -- of zero, which is not -1 but the
\* greatest value: its magnitude wraps and its sign is kept.
THEOREM StepsAreSteps ==
  ASSUME Values \in Nat \ {0, 1}, NEW a \in ClosedIota!Diff!Differences
  PROVE  /\ ClosedIota!Diff!Increment(a) \in ClosedIota!Diff!Differences /\ ClosedIota!Diff!Decrement(a) \in ClosedIota!Diff!Differences
         /\ ClosedIota!Diff!Value(a) # Values - 1 => ClosedIota!Diff!Value(ClosedIota!Diff!Increment(a)) = ClosedIota!Diff!Value(a) + 1
         /\ ClosedIota!Diff!Value(a) # 0 /\ ClosedIota!Diff!Value(a) # 1 - Values => ClosedIota!Diff!Value(ClosedIota!Diff!Decrement(a)) = ClosedIota!Diff!Value(a) - 1
         /\ ClosedIota!Diff!Value(a) = 0 => ClosedIota!Diff!Value(ClosedIota!Diff!Decrement(a)) = Values - 1
  <1>1. a.neg \in BOOLEAN /\ a.val \in Int /\ a.val \in ClosedIota!Diff!Magnitudes /\ ClosedIota!Diff!Checked(a)
    BY DEF ClosedIota!Diff!Differences, ClosedIota!Diff!DiffMax, ClosedIota!Diff!Magnitudes
  <1>2. /\ ClosedIota!Diff!Wrap(a.val - 1) \in ClosedIota!Diff!Magnitudes /\ ClosedIota!Diff!Wrap(a.val + 1) \in ClosedIota!Diff!Magnitudes
        /\ ClosedIota!Diff!Wrap(a.val - 1) = IF a.val = 0 THEN Values - 1 ELSE a.val - 1
        /\ a.val # Values - 1 => ClosedIota!Diff!Wrap(a.val + 1) = a.val + 1
    <2>1. /\ a.val # 0 => a.val - 1 \in ClosedIota!Diff!Magnitudes
          /\ a.val = 0 => -(a.val - 1) \in 1 .. Values
          /\ a.val # Values - 1 => a.val + 1 \in ClosedIota!Diff!Magnitudes
      BY <1>1 DEF ClosedIota!Diff!Magnitudes
    <2>2. a.val - 1 \in Int /\ a.val + 1 \in Int
      BY <1>1
    <2> QED
      BY <2>1, <2>2, <1>1, WrapIsRemainder
  <1>3. ClosedIota!Diff!Increment(a) \in ClosedIota!Diff!Differences /\ ClosedIota!Diff!Decrement(a) \in ClosedIota!Diff!Differences
    BY <1>1, <1>2 DEF ClosedIota!Diff!Increment, ClosedIota!Diff!Decrement, ClosedIota!Diff!Differences, ClosedIota!Diff!DiffMax, ClosedIota!Diff!Checked
  <1>4. ClosedIota!Diff!Value(a) # Values - 1 => ClosedIota!Diff!Value(ClosedIota!Diff!Increment(a)) = ClosedIota!Diff!Value(a) + 1
    BY <1>1, <1>2 DEF ClosedIota!Diff!Increment, ClosedIota!Diff!Value, ClosedIota!Diff!Checked, ClosedIota!Diff!Magnitudes
  <1>5. ClosedIota!Diff!Value(a) # 0 /\ ClosedIota!Diff!Value(a) # 1 - Values => ClosedIota!Diff!Value(ClosedIota!Diff!Decrement(a)) = ClosedIota!Diff!Value(a) - 1
    BY <1>1, <1>2 DEF ClosedIota!Diff!Decrement, ClosedIota!Diff!Value, ClosedIota!Diff!Checked, ClosedIota!Diff!Magnitudes
  <1>6. ClosedIota!Diff!Value(a) = 0 => ClosedIota!Diff!Value(ClosedIota!Diff!Decrement(a)) = Values - 1
    BY <1>1, <1>2 DEF ClosedIota!Diff!Decrement, ClosedIota!Diff!Value, ClosedIota!Diff!Checked, ClosedIota!Diff!Magnitudes
  <1> QED
    BY <1>3, <1>4, <1>5, <1>6

----------------------------------------------------------------------------
(* What a closed_iota_view of any width reaches *)

\* What a view and an iterator at one of its places are.
LEMMA IotaPlaces ==
  ASSUME Values \in Nat \ {0, 1}, NEW v \in ClosedIota!Ranges, NEW p \in 0 .. ClosedIota!Size(v)
  PROVE  /\ v.from \in Int /\ v.to \in Int /\ 0 =< v.from /\ v.from =< v.to /\ v.to < Values
         /\ ClosedIota!Size(v) \in Int /\ ClosedIota!Size(v) = v.to - v.from + 1 /\ ClosedIota!Size(v) < Values
         /\ ClosedIota!At(v, p).done \in BOOLEAN /\ (ClosedIota!At(v, p).done <=> p = ClosedIota!Size(v))
         /\ ClosedIota!At(v, p).from = IF p = ClosedIota!Size(v) THEN v.to ELSE v.from + p
         /\ ClosedIota!At(v, p).from \in 0 .. Values - 1
         /\ ClosedIota!At(v, p) = [from |-> ClosedIota!At(v, p).from, done |-> ClosedIota!At(v, p).done]
  <1>1. v.from \in Int /\ v.to \in Int /\ 0 =< v.from /\ v.from =< v.to /\ v.to < Values /\ ~ClosedIota!Overfull(v)
    BY DEF ClosedIota!Ranges
  <1>2. ClosedIota!Size(v) \in Int /\ ClosedIota!Size(v) = v.to - v.from + 1 /\ ClosedIota!Size(v) < Values
    BY <1>1 DEF ClosedIota!Size, ClosedIota!Overfull
  <1>3. CASE p = ClosedIota!Size(v)
    BY <1>1, <1>2, <1>3 DEF ClosedIota!At, ClosedIota!End
  <1>4. CASE p # ClosedIota!Size(v)
    <2>1. ClosedIota!At(v, p) = [from |-> v.from + p, done |-> FALSE]
      BY <1>4 DEF ClosedIota!At
    <2>2. v.from + p \in 0 .. Values - 1
      BY <1>1, <1>2, <1>4
    <2> QED
      BY <1>1, <1>2, <1>4, <2>1, <2>2
  <1> QED
    BY <1>3, <1>4

\* iota_distance_ is exact, and so is a bool as a difference.
LEMMA IotaDistanceIsDifference ==
  ASSUME Values \in Nat \ {0, 1}, NEW i \in 0 .. Values - 1, NEW j \in 0 .. Values - 1
  PROVE  ClosedIota!IotaDistance(i, j) \in ClosedIota!Diff!Differences /\ ClosedIota!Diff!Value(ClosedIota!IotaDistance(i, j)) = j - i
  <1>1. CASE i > j
    <2>1. i - j \in Int /\ ClosedIota!Diff!InRange(i - j)
      BY <1>1 DEF ClosedIota!Diff!InRange
    <2>2. ClosedIota!Diff!Of(i - j) \in ClosedIota!Diff!Differences /\ ClosedIota!Diff!Value(ClosedIota!Diff!Of(i - j)) = i - j
      BY <2>1, ConversionsKeepTheValue
    <2>3. /\ ClosedIota!Diff!Negative(ClosedIota!Diff!Of(i - j)) \in ClosedIota!Diff!Differences
          /\ ClosedIota!Diff!Value(ClosedIota!Diff!Negative(ClosedIota!Diff!Of(i - j))) = -(i - j)
      BY <2>2, SumIsSum
    <2> QED
      BY <1>1, <2>3 DEF ClosedIota!IotaDistance
  <1>2. CASE ~(i > j)
    <2>1. j - i \in Int /\ ClosedIota!Diff!InRange(j - i)
      BY <1>2 DEF ClosedIota!Diff!InRange
    <2>2. ClosedIota!Diff!Of(j - i) \in ClosedIota!Diff!Differences /\ ClosedIota!Diff!Value(ClosedIota!Diff!Of(j - i)) = j - i
      BY <2>1, ConversionsKeepTheValue
    <2> QED
      BY <1>2, <2>2 DEF ClosedIota!IotaDistance
  <1> QED
    BY <1>1, <1>2

LEMMA BitIsBit ==
  ASSUME Values \in Nat \ {0, 1}, NEW b \in BOOLEAN
  PROVE  ClosedIota!Bit(b) \in ClosedIota!Diff!Differences /\ ClosedIota!Diff!Value(ClosedIota!Bit(b)) = IF b THEN 1 ELSE 0
  <1>1. /\ 1 \in Int /\ ClosedIota!Diff!InRange(1)
        /\ 0 \in Int /\ ClosedIota!Diff!InRange(0)
    BY DEF ClosedIota!Diff!InRange
  <1> QED
    BY <1>1, ConversionsKeepTheValue DEF ClosedIota!Bit

\* iota_advance_ adds, where the sum is a value.
LEMMA IotaAdvanceAdds ==
  ASSUME Values \in Nat \ {0, 1}, NEW i \in 0 .. Values - 1, NEW n \in ClosedIota!Diff!Differences,
         ClosedIota!Diff!Value(n) \in Int, i + ClosedIota!Diff!Value(n) \in 0 .. Values - 1
  PROVE  ClosedIota!IotaAdvance(i, n) = i + ClosedIota!Diff!Value(n)
  <1> DEFINE m == ClosedIota!Diff!Value(n)
  <1>1. m \in Int /\ i + m \in 0 .. Values - 1
    OBVIOUS
  <1>2. ClosedIota!Diff!Of(0) \in ClosedIota!Diff!Differences /\ ClosedIota!Diff!Value(ClosedIota!Diff!Of(0)) = 0
    BY ConversionsKeepTheValue DEF ClosedIota!Diff!InRange
  <1>3. ClosedIota!Diff!Less(n, ClosedIota!Diff!Of(0)) <=> m < 0
    BY <1>2, OrderIsOrder
  <1>4. /\ ClosedIota!Diff!Negative(n) \in ClosedIota!Diff!Differences /\ ClosedIota!Diff!Value(ClosedIota!Diff!Negative(n)) = -m
    BY SumIsSum
  <1>5. 0 \in Int /\ ClosedIota!Diff!InRange(0)
    BY DEF ClosedIota!Diff!InRange
  <1>6. ClosedIota!Diff!ToUnsigned(n) = ClosedIota!Diff!Wrap(m) /\ ClosedIota!Diff!ToUnsigned(ClosedIota!Diff!Negative(n)) = ClosedIota!Diff!Wrap(-m)
    BY <1>4, <1>5, ConversionsKeepTheValue
  <1> HIDE DEF m
  <1>7. m < 0 => ClosedIota!Diff!Wrap(-m) = -m
    BY <1>1, WrapIsRemainder DEF ClosedIota!Diff!Magnitudes
  <1>8. ~(m < 0) => ClosedIota!Diff!Wrap(m) = m
    BY <1>1, WrapIsRemainder DEF ClosedIota!Diff!Magnitudes
  <1>9. (i + m) % Values = i + m
    BY <1>1
  <1>10. i - (-m) = i + m
    BY <1>1
  <1>11. ClosedIota!IotaAdvance(i, n) = (i + m) % Values
    BY <1>3, <1>6, <1>7, <1>8, <1>10 DEF ClosedIota!IotaAdvance
  <1> QED
    BY <1>9, <1>11 DEF m

\* The difference of two iterators is the number of places between them, for
\* integers of any width and every closed range but the one of all values.
THEOREM DistanceIsPlaces ==
  ASSUME Values \in Nat \ {0, 1}, NEW v \in ClosedIota!Ranges, NEW p \in 0 .. ClosedIota!Size(v), NEW q \in 0 .. ClosedIota!Size(v)
  PROVE  ClosedIota!Distance(v, ClosedIota!At(v, p), ClosedIota!At(v, q)) = q - p
  <1> DEFINE c == ClosedIota!At(v, p)
             d == ClosedIota!At(v, q)
             bits == ClosedIota!Diff!Minus(ClosedIota!Bit(d.done), ClosedIota!Bit(c.done))
  <1>1. /\ c.done \in BOOLEAN /\ d.done \in BOOLEAN
        /\ c.from \in 0 .. Values - 1 /\ d.from \in 0 .. Values - 1
    BY IotaPlaces
  <1>2. /\ ClosedIota!IotaDistance(c.from, d.from) \in ClosedIota!Diff!Differences
        /\ ClosedIota!Diff!Value(ClosedIota!IotaDistance(c.from, d.from)) = d.from - c.from
    BY <1>1, IotaDistanceIsDifference
  <1>3. /\ ClosedIota!Bit(d.done) \in ClosedIota!Diff!Differences /\ ClosedIota!Bit(c.done) \in ClosedIota!Diff!Differences
        /\ ClosedIota!Diff!Value(ClosedIota!Bit(d.done)) = IF d.done THEN 1 ELSE 0
        /\ ClosedIota!Diff!Value(ClosedIota!Bit(c.done)) = IF c.done THEN 1 ELSE 0
    BY <1>1, BitIsBit
  <1>4. ClosedIota!Diff!InRange(ClosedIota!Diff!Value(ClosedIota!Bit(d.done)) - ClosedIota!Diff!Value(ClosedIota!Bit(c.done)))
    BY <1>1, <1>3 DEF ClosedIota!Diff!InRange
  <1>5. /\ bits \in ClosedIota!Diff!Differences
        /\ ClosedIota!Diff!Value(bits) = (IF d.done THEN 1 ELSE 0) - (IF c.done THEN 1 ELSE 0)
    <2>1. /\ bits \in ClosedIota!Diff!Differences
          /\ ClosedIota!Diff!Value(bits) = ClosedIota!Diff!Value(ClosedIota!Bit(d.done)) - ClosedIota!Diff!Value(ClosedIota!Bit(c.done))
      BY <1>3, <1>4, SumIsSum
    <2> QED
      BY <1>3, <2>1
  <1>6. d.from - c.from + ClosedIota!Diff!Value(bits) = q - p
    <2>1. c.from + (IF c.done THEN 1 ELSE 0) = v.from + p
      BY IotaPlaces
    <2>2. d.from + (IF d.done THEN 1 ELSE 0) = v.from + q
      BY IotaPlaces
    <2>3. v.from \in Int
      BY IotaPlaces
    <2> DEFINE x == c.from
               y == d.from
               m == ClosedIota!Diff!Value(bits)
               b == IF c.done THEN 1 ELSE 0
               e == IF d.done THEN 1 ELSE 0
    <2>4. x \in Int /\ y \in Int /\ b \in Int /\ e \in Int /\ p \in Int /\ q \in Int
      BY <1>1, IotaPlaces
    <2>5. m = e - b /\ x + b = v.from + p /\ y + e = v.from + q
      BY <1>5, <2>1, <2>2
    <2> HIDE DEF x, y, m, b, e
    <2>6. y - x + m = q - p
      BY <2>3, <2>4, <2>5
    <2> QED
      BY <2>6 DEF x, y, m
  <1>7. ClosedIota!Diff!InRange(q - p)
    BY IotaPlaces DEF ClosedIota!Diff!InRange
  <1>8. ClosedIota!Diff!Value(ClosedIota!Diff!Plus(ClosedIota!IotaDistance(c.from, d.from), bits)) = q - p
    BY <1>2, <1>5, <1>6, <1>7, SumIsSum
  <1> QED
    BY <1>8 DEF ClosedIota!Distance

\* += n goes n places on, or back, from any place to any other, and its
\* assertion holds: advance() sets done_ exactly when it comes to the end.
THEOREM AdvanceReaches ==
  ASSUME Values \in Nat \ {0, 1}, NEW v \in ClosedIota!Ranges, NEW p \in 0 .. ClosedIota!Size(v), NEW q \in 0 .. ClosedIota!Size(v)
  PROVE  /\ ClosedIota!Advance(v, ClosedIota!At(v, p), q - p) = ClosedIota!At(v, q)
         /\ ClosedIota!AdvanceExpects(v, ClosedIota!At(v, p), q - p)
  <1> DEFINE c == ClosedIota!At(v, p)
             d == ClosedIota!At(v, q)
             n == ClosedIota!Diff!Of(q - p)
             left == ClosedIota!IotaDistance(c.from, v.to)
  <1>1. /\ p \in Int /\ q \in Int /\ q - p \in Int /\ ClosedIota!Diff!InRange(q - p)
        /\ v.from \in Int /\ v.to \in 0 .. Values - 1 /\ ClosedIota!Size(v) = v.to - v.from + 1 /\ ClosedIota!Size(v) \in Int
    BY IotaPlaces DEF ClosedIota!Diff!InRange
  <1>2. /\ c.done \in BOOLEAN /\ d.done \in BOOLEAN
        /\ c.from \in 0 .. Values - 1 /\ d.from \in 0 .. Values - 1
        /\ (c.done <=> p = ClosedIota!Size(v)) /\ (d.done <=> q = ClosedIota!Size(v))
        /\ c.from = IF p = ClosedIota!Size(v) THEN v.to ELSE v.from + p
        /\ d.from = IF q = ClosedIota!Size(v) THEN v.to ELSE v.from + q
        /\ d = [from |-> d.from, done |-> d.done]
    BY IotaPlaces
  <1>3. n \in ClosedIota!Diff!Differences /\ ClosedIota!Diff!Value(n) = q - p
    BY <1>1, ConversionsKeepTheValue
  <1>4. ClosedIota!Diff!Of(0) \in ClosedIota!Diff!Differences /\ ClosedIota!Diff!Value(ClosedIota!Diff!Of(0)) = 0
    BY ConversionsKeepTheValue DEF ClosedIota!Diff!InRange
  <1>5. /\ ClosedIota!Forwards(n) <=> 0 < q - p
        /\ ClosedIota!Diff!Less(n, ClosedIota!Diff!Of(0)) <=> q - p < 0
    BY <1>3, <1>4, OrderIsOrder DEF ClosedIota!Forwards
  <1>6. left \in ClosedIota!Diff!Differences /\ ClosedIota!Diff!Value(left) = v.to - c.from
    BY <1>1, <1>2, IotaDistanceIsDifference
  <1> HIDE DEF c, d, n, left
  <1>7. CASE 0 < q - p
    <2>1. p # ClosedIota!Size(v) /\ ~c.done /\ c.from = v.from + p
      BY <1>1, <1>2, <1>7
    <2>2. ClosedIota!Bit(TRUE) \in ClosedIota!Diff!Differences /\ ClosedIota!Diff!Value(ClosedIota!Bit(TRUE)) = 1
      BY BitIsBit
    <2>3. ClosedIota!Diff!InRange(q - p - 1)
      BY <1>1, <1>7 DEF ClosedIota!Diff!InRange
    <2>0. ClosedIota!Diff!Value(left) = v.to - (v.from + p) /\ v.to \in Int /\ q =< v.to - v.from + 1
      BY <1>1, <1>6, <2>1
    <2> DEFINE before == ClosedIota!Diff!Minus(n, ClosedIota!Bit(TRUE))
    <2>4. /\ before \in ClosedIota!Diff!Differences
          /\ ClosedIota!Diff!Value(before) = q - p - 1
      BY <1>3, <2>2, <2>3, SumIsSum
    <2> HIDE DEF before
    <2>5. (~c.done) = TRUE
      BY <1>2, <2>1
    <2>6. ClosedIota!Finishes(v, c, n) <=> v.to - (v.from + p) =< q - p - 1
      <3>1. ClosedIota!Finishes(v, c, n) <=> ~ClosedIota!Diff!Less(before, left)
        BY <2>5 DEF ClosedIota!Finishes, ClosedIota!Diff!AtMost, left, before
      <3>2. ClosedIota!Diff!Less(before, left)
              <=> ClosedIota!Diff!Value(before) < ClosedIota!Diff!Value(left)
        BY <1>6, <2>4, OrderIsOrder
      <3>3. ClosedIota!Diff!Value(before) < ClosedIota!Diff!Value(left)
              <=> ~(v.to - (v.from + p) =< q - p - 1)
        BY <1>1, <2>0, <2>4
      <3> QED
        BY <3>1, <3>2, <3>3
    <2>7. ClosedIota!Finishes(v, c, n) <=> q = ClosedIota!Size(v)
      BY <1>1, <2>6
    <2>8. ClosedIota!AdvanceExpects(v, c, q - p)
      <3>1. ClosedIota!Diff!Less(left, before)
              <=> ClosedIota!Diff!Value(left) < ClosedIota!Diff!Value(before)
        BY <1>6, <2>4, OrderIsOrder
      <3>2. ~(ClosedIota!Diff!Value(left) < ClosedIota!Diff!Value(before))
        BY <1>1, <2>0, <2>4
      <3> QED
        BY <2>5, <3>1, <3>2 DEF ClosedIota!AdvanceExpects, ClosedIota!Diff!AtMost, n, left, before
    <2> DEFINE bit == ClosedIota!Bit(ClosedIota!Finishes(v, c, n))
               step == ClosedIota!Diff!Minus(n, bit)
    <2>9. ClosedIota!Finishes(v, c, n) \in BOOLEAN
      BY DEF ClosedIota!Finishes, ClosedIota!Diff!AtMost
    <2>10. bit \in ClosedIota!Diff!Differences /\ ClosedIota!Diff!Value(bit) = IF q = ClosedIota!Size(v) THEN 1 ELSE 0
      BY <2>7, <2>9, BitIsBit
    <2> HIDE DEF bit
    <2>11. ClosedIota!Diff!InRange(q - p - ClosedIota!Diff!Value(bit))
      BY <1>1, <1>7, <2>10 DEF ClosedIota!Diff!InRange
    <2>12. step \in ClosedIota!Diff!Differences /\ ClosedIota!Diff!Value(step) = q - p - ClosedIota!Diff!Value(bit)
      <3>1. /\ step \in ClosedIota!Diff!Differences
            /\ ClosedIota!Diff!InRange(ClosedIota!Diff!Value(n) - ClosedIota!Diff!Value(bit))
                   => ClosedIota!Diff!Value(step) = ClosedIota!Diff!Value(n) - ClosedIota!Diff!Value(bit)
        BY <1>3, <2>10, SumIsSum
      <3> HIDE DEF step
      <3> QED
        BY <3>1, <1>3, <2>11
    <2> HIDE DEF step
    <2>13. ClosedIota!Diff!Value(step) \in Int /\ c.from + ClosedIota!Diff!Value(step) = d.from
      BY <1>1, <1>2, <2>1, <2>10, <2>12
    <2>14. ClosedIota!IotaAdvance(c.from, step) = d.from
      BY <1>2, <2>12, <2>13, IotaAdvanceAdds
    <2>15. ClosedIota!Advance(v, c, q - p) = [from |-> ClosedIota!IotaAdvance(c.from, step), done |-> ClosedIota!Finishes(v, c, n)]
      BY <1>5, <1>7 DEF ClosedIota!Advance, step, bit, n
    <2>16. ClosedIota!Finishes(v, c, n) = d.done
      BY <1>2, <2>7, <2>9
    <2> QED
      BY <1>2, <2>8, <2>14, <2>15, <2>16 DEF c, d
  <1>8. CASE q - p < 0
    <2>1. q # ClosedIota!Size(v) /\ d.done = FALSE /\ d.from = v.from + q
      BY <1>1, <1>2, <1>8
    <2> DEFINE bit == ClosedIota!Bit(c.done)
               step == ClosedIota!Diff!Plus(n, bit)
    <2>2. bit \in ClosedIota!Diff!Differences /\ ClosedIota!Diff!Value(bit) = IF c.done THEN 1 ELSE 0
      BY <1>2, BitIsBit
    <2> HIDE DEF bit
    <2>3. ClosedIota!Diff!InRange(q - p + ClosedIota!Diff!Value(bit))
      BY <1>1, <1>2, <1>8, <2>2 DEF ClosedIota!Diff!InRange
    <2>4. step \in ClosedIota!Diff!Differences /\ ClosedIota!Diff!Value(step) = q - p + ClosedIota!Diff!Value(bit)
      BY <1>3, <2>2, <2>3, SumIsSum
    <2> HIDE DEF step
    <2>5. ClosedIota!Diff!Value(step) \in Int /\ c.from + ClosedIota!Diff!Value(step) = d.from
      BY <1>1, <1>2, <2>1, <2>2, <2>4
    <2>6. ClosedIota!IotaAdvance(c.from, step) = d.from
      BY <1>2, <2>4, <2>5, IotaAdvanceAdds
    <2>7. ~ClosedIota!Forwards(n) /\ ClosedIota!Diff!Less(n, ClosedIota!Diff!Of(0))
      BY <1>1, <1>5, <1>8
    <2>8. ClosedIota!Advance(v, c, q - p) = [from |-> ClosedIota!IotaAdvance(c.from, step), done |-> FALSE]
      BY <2>7 DEF ClosedIota!Advance, step, bit, n
    <2>9. ClosedIota!AdvanceExpects(v, c, q - p)
      BY <2>7 DEF ClosedIota!AdvanceExpects, n
    <2> QED
      BY <1>2, <2>1, <2>6, <2>8, <2>9 DEF c, d
  <1>9. CASE q - p = 0
    <2>1. ~ClosedIota!Forwards(n) /\ ~ClosedIota!Diff!Less(n, ClosedIota!Diff!Of(0))
      BY <1>1, <1>5, <1>9
    <2>2. ClosedIota!Advance(v, c, q - p) = c /\ ClosedIota!AdvanceExpects(v, c, q - p)
      BY <2>1 DEF ClosedIota!Advance, ClosedIota!AdvanceExpects, n
    <2>3. p = q
      BY <1>1, <1>9
    <2> QED
      BY <2>2, <2>3 DEF c
  <1> QED
    BY <1>1, <1>7, <1>8, <1>9

\* A cursor of which one member is assigned.
LEMMA Updates ==
  ASSUME NEW x, NEW y, NEW b \in BOOLEAN, NEW e \in BOOLEAN
  PROVE  /\ [[from |-> x, done |-> b] EXCEPT !.done = e] = [from |-> x, done |-> e]
         /\ [[from |-> x, done |-> b] EXCEPT !.from = y] = [from |-> y, done |-> b]
  OBVIOUS

\* ++ and -- go one place on and back, the end and the last value, which are one
\* value with and without done_, included; and two places never look alike.
THEOREM StepsAreToNeighbours ==
  ASSUME Values \in Nat \ {0, 1}, NEW v \in ClosedIota!Ranges, NEW p \in 0 .. ClosedIota!Size(v), NEW q \in 0 .. ClosedIota!Size(v)
  PROVE  /\ p # ClosedIota!Size(v) => ClosedIota!Next(v, ClosedIota!At(v, p)) = ClosedIota!At(v, p + 1)
         /\ p # 0 => ClosedIota!Prev(v, ClosedIota!At(v, p)) = ClosedIota!At(v, p - 1)
         /\ ClosedIota!Equal(ClosedIota!At(v, p), ClosedIota!At(v, q)) <=> p = q
  <1>1. /\ v.from \in Int /\ v.to \in Int /\ 0 =< v.from /\ v.from =< v.to /\ v.to < Values
        /\ ClosedIota!Size(v) \in Int /\ ClosedIota!Size(v) = v.to - v.from + 1
    BY IotaPlaces
  <1>2. ASSUME p # ClosedIota!Size(v) PROVE ClosedIota!Next(v, ClosedIota!At(v, p)) = ClosedIota!At(v, p + 1)
    <2>1. ClosedIota!At(v, p) = [from |-> v.from + p, done |-> FALSE]
      BY <1>2 DEF ClosedIota!At
    <2> DEFINE c == [from |-> v.from + p, done |-> FALSE]
    <2>0. /\ c.from = v.from + p
          /\ [c EXCEPT !.done = TRUE] = [from |-> v.from + p, done |-> TRUE]
          /\ \A y : [c EXCEPT !.from = y] = [from |-> y, done |-> FALSE]
      BY Updates
    <2> HIDE DEF c
    <2>2. CASE v.from + p = v.to
      <3>1. p + 1 = ClosedIota!Size(v)
        BY <1>1, <2>2
      <3>2. ClosedIota!Next(v, ClosedIota!At(v, p)) = [from |-> v.to, done |-> TRUE]
        BY <2>0, <2>1, <2>2 DEF ClosedIota!Next, c
      <3> QED
        BY <3>1, <3>2 DEF ClosedIota!At, ClosedIota!End
    <2>3. CASE v.from + p # v.to
      <3>1. p + 1 # ClosedIota!Size(v) /\ v.from + p + 1 \in 0 .. Values - 1 /\ v.from + p + 1 = v.from + (p + 1)
        BY <1>1, <1>2, <2>3
      <3>2. (v.from + p + 1) % Values = v.from + (p + 1)
        BY <3>1
      <3>3. ClosedIota!Next(v, ClosedIota!At(v, p)) = [from |-> v.from + (p + 1), done |-> FALSE]
        BY <2>0, <2>1, <2>3, <3>2 DEF ClosedIota!Next, c
      <3> QED
        BY <3>1, <3>3 DEF ClosedIota!At
    <2> QED
      BY <2>2, <2>3
  <1>3. ASSUME p # 0 PROVE ClosedIota!Prev(v, ClosedIota!At(v, p)) = ClosedIota!At(v, p - 1)
    <2>1. p - 1 # ClosedIota!Size(v)
      BY <1>1
    <2>2. CASE p = ClosedIota!Size(v)
      <3>1. v.to = v.from + (p - 1)
        BY <1>1, <2>2
      <3>2. ClosedIota!Prev(v, ClosedIota!At(v, p)) = [from |-> v.to, done |-> FALSE]
        BY <2>2 DEF ClosedIota!At, ClosedIota!End, ClosedIota!Prev
      <3> QED
        BY <2>1, <3>1, <3>2 DEF ClosedIota!At
    <2>3. CASE p # ClosedIota!Size(v)
      <3>1. v.from + (p - 1) \in 0 .. Values - 1
        BY <1>1, <1>3, <2>3
      <3>2. (v.from + (p - 1)) % Values = v.from + (p - 1)
        BY <3>1
      <3> DEFINE c == [from |-> v.from + p, done |-> FALSE]
      <3>3. /\ c.from = v.from + p /\ c.done = FALSE
            /\ \A y : [c EXCEPT !.from = y] = [from |-> y, done |-> FALSE]
        BY Updates
      <3>4. ClosedIota!At(v, p) = c
        BY <2>3 DEF ClosedIota!At
      <3> HIDE DEF c
      <3>5. ClosedIota!Prev(v, ClosedIota!At(v, p)) = [from |-> v.from + (p - 1), done |-> FALSE]
        <4>1. ClosedIota!Prev(v, c) = [c EXCEPT !.from = (c.from - 1) % Values]
          BY <3>3 DEF ClosedIota!Prev
        <4>2. (c.from - 1) % Values = v.from + (p - 1)
          <5>1. c.from - 1 = v.from + (p - 1)
            BY <1>1, <3>3
          <5> QED
            BY <3>2, <5>1
        <4> QED
          BY <3>3, <3>4, <4>1, <4>2
      <3> QED
        BY <2>1, <3>5 DEF ClosedIota!At
    <2> QED
      BY <2>2, <2>3
  <1>4. ClosedIota!Equal(ClosedIota!At(v, p), ClosedIota!At(v, q)) <=> p = q
    <2>1. /\ ClosedIota!At(v, p).done <=> p = ClosedIota!Size(v)
          /\ ClosedIota!At(v, q).done <=> q = ClosedIota!Size(v)
          /\ p # ClosedIota!Size(v) => ClosedIota!At(v, p).from = v.from + p
          /\ q # ClosedIota!Size(v) => ClosedIota!At(v, q).from = v.from + q
      BY IotaPlaces
    <2>2. v.from + p = v.from + q => p = q
      BY <1>1
    <2> QED
      BY <2>1, <2>2 DEF ClosedIota!Equal
  <1> QED
    BY <1>2, <1>3, <1>4

\* The range of all values has one place more than a difference can tell: its
\* end is at no distance from its beginning.
THEOREM FullRangeHasNoLength ==
  ASSUME Values \in Nat \ {0, 1},
         NEW v \in [from : 0 .. Values - 1, to : 0 .. Values - 1], ClosedIota!Overfull(v)
  PROVE  ClosedIota!Size(v) = Values /\ ClosedIota!Distance(v, ClosedIota!Begin(v), ClosedIota!End(v)) = 0
  <1>1. v.from = 0 /\ v.to = Values - 1 /\ ClosedIota!Size(v) = Values
    BY DEF ClosedIota!Overfull, ClosedIota!Size
  <1> DEFINE length == ClosedIota!IotaDistance(v.from, v.to)
             one == ClosedIota!Diff!Minus(ClosedIota!Bit(TRUE), ClosedIota!Bit(FALSE))
  <1>2. length \in ClosedIota!Diff!Differences /\ ClosedIota!Diff!Value(length) = Values - 1
    <2>1. v.from \in 0 .. Values - 1 /\ v.to \in 0 .. Values - 1 /\ v.to - v.from = Values - 1
      BY <1>1
    <2> QED
      BY <2>1, IotaDistanceIsDifference
  <1>3. one \in ClosedIota!Diff!Differences /\ ClosedIota!Diff!Value(one) = 1
    <2>1. /\ ClosedIota!Bit(TRUE) \in ClosedIota!Diff!Differences /\ ClosedIota!Bit(FALSE) \in ClosedIota!Diff!Differences
          /\ ClosedIota!Diff!Value(ClosedIota!Bit(TRUE)) = 1 /\ ClosedIota!Diff!Value(ClosedIota!Bit(FALSE)) = 0
      BY BitIsBit
    <2>2. ClosedIota!Diff!InRange(1 - 0) /\ 1 - 0 = 1
      BY DEF ClosedIota!Diff!InRange
    <2> QED
      BY <2>1, <2>2, SumIsSum
  <1> HIDE DEF length, one
  <1>4. /\ length.neg = FALSE /\ length.val = Values - 1
        /\ one.neg = FALSE /\ one.val = 1
    BY <1>2, <1>3 DEF ClosedIota!Diff!Differences, ClosedIota!Diff!DiffMax, ClosedIota!Diff!Magnitudes, ClosedIota!Diff!Value
  <1>5. ClosedIota!Diff!Wrap(length.val + one.val) = 0
    BY <1>4 DEF ClosedIota!Diff!Wrap
  <1>6. ClosedIota!Diff!Plus(length, one) = [neg |-> FALSE, val |-> 0]
    <2>1. ClosedIota!Diff!Plus(length, one) = ClosedIota!Diff!Normalize(FALSE, 0)
      BY <1>4, <1>5 DEF ClosedIota!Diff!Plus
    <2>2. ClosedIota!Diff!Normalize(FALSE, 0) = [neg |-> FALSE, val |-> 0]
      BY DEF ClosedIota!Diff!Normalize
    <2> QED
      BY <2>1, <2>2
  <1>7. ClosedIota!Diff!Value(ClosedIota!Diff!Plus(length, one)) = 0
    BY <1>6 DEF ClosedIota!Diff!Value
  <1>8. ClosedIota!Distance(v, ClosedIota!Begin(v), ClosedIota!End(v)) = ClosedIota!Diff!Value(ClosedIota!Diff!Plus(length, one))
    BY DEF ClosedIota!Distance, ClosedIota!Begin, ClosedIota!End, length, one
  <1> QED
    BY <1>1, <1>7, <1>8

----------------------------------------------------------------------------
(* What stands, and what a view starts as *)

\* A view that stays what it is keeps whoever stands.
LEMMA SameIsKept ==
  ASSUME Sound(kind, view)
  PROVE  Kept(view)
  BY DEF Kept

\* The records of numbers that are cursors.
LEMMA RecordsAreCursors ==
  ASSUME NEW a \in Int, NEW b \in Int
  PROVE  /\ [it |-> a] \in Cursors
         /\ [it |-> a, offset |-> b] \in Cursors
         /\ [it |-> a, trail |-> b] \in Cursors
         /\ [it |-> a, cnt |-> b] \in Cursors
         /\ [from |-> a, n |-> b] \in Cursors
         /\ [from |-> a, done |-> TRUE] \in Cursors
         /\ [from |-> a, done |-> FALSE] \in Cursors
         /\ [view |-> TRUE] \in Cursors
  <1>1. [it |-> a] \in [it : Int]
    OBVIOUS
  <1>2. [it |-> a, offset |-> b] \in [it : Int, offset : Int]
    OBVIOUS
  <1>3. [it |-> a, trail |-> b] \in [it : Int, trail : Int]
    OBVIOUS
  <1>4. [it |-> a, cnt |-> b] \in [it : Int, cnt : Int]
    OBVIOUS
  <1>5. [from |-> a, n |-> b] \in [from : Int, n : Int]
    OBVIOUS
  <1>6. /\ [from |-> a, done |-> TRUE] \in [from : Int, done : BOOLEAN]
        /\ [from |-> a, done |-> FALSE] \in [from : Int, done : BOOLEAN]
    OBVIOUS
  <1>7. [view |-> TRUE] \in [view : {TRUE}]
    BY Zenon
  <1> QED
    BY <1>1, <1>2, <1>3, <1>4, <1>5, <1>6, <1>7, Zenon DEF Cursors

\* Whoever stands in a view is one of the cursors.
LEMMA StandersAreCursors ==
  ASSUME NEW k \in Counting, NEW v, NEW c, NEW p, Sound(k, v), Stands(k, v, c, p)
  PROVE  c \in Cursors
  <1> USE DEF Stands, Looks, Sound, Places
  <1>1. CASE k = "cycle"
    BY <1>1 DEF CycleStands, Cursors
  <1>2. CASE k = "stride"
    <2>1. p \in Int /\ v.len \in Int /\ v.stride \in Int
      BY <1>2 DEF StrideSound
    <2> DEFINE i == IF p = Stride!Size(v) THEN v.len ELSE p * v.stride
    <2>2. i \in Int
      BY <2>1, Products
    <2>3. c = [it |-> i]
      BY <1>2 DEF StrideStands
    <2> HIDE DEF i
    <2> QED
      BY <2>2, <2>3, RecordsAreCursors
  <1>3. CASE k = "chunk"
    <2>1. p \in Int /\ v.len \in Int /\ v.n \in Int
      BY <1>3 DEF ChunkSound
    <2> DEFINE i == IF p = Chunk!Size(v) THEN v.len ELSE p * v.n
               o == IF p = Chunk!Size(v) THEN p * v.n - v.len ELSE 0
    <2>2. i \in Int /\ o \in Int
      BY <2>1, Products
    <2>3. c = [it |-> i, offset |-> o]
      BY <1>3 DEF ChunkStands
    <2> HIDE DEF i, o
    <2> QED
      BY <2>2, <2>3, RecordsAreCursors
  <1>4. CASE k = "sliding"
    <2>1. p \in Int /\ Sliding!EndOffset(v) \in Int
      BY <1>4 DEF SlidingSound, Sliding!EndOffset, Sliding!Lesser
    <2> DEFINE i == IF Sliding!AtBack(v) THEN p + Sliding!EndOffset(v) ELSE p
               t == IF Sliding!Trails(v) THEN p ELSE 0
    <2>2. i \in Int /\ t \in Int
      BY <2>1
    <2>3. c = [it |-> i, trail |-> t]
      BY <1>4 DEF SlidingStands
    <2> HIDE DEF i, t
    <2> QED
      BY <2>2, <2>3, RecordsAreCursors
  <1>5. CASE k = "take"
    <2> DEFINE l == Take!Begin(v).cnt
               r == l - p
    <2>1. l \in Int
      BY <1>5 DEF TakeSound, Take!Begin, Take!Size, Take!Lesser
    <2>2. c = [it |-> p, cnt |-> r]
      BY <1>5 DEF TakeStands
    <2> HIDE DEF l
    <2>3. p \in Int
      BY <1>5 DEF TakeSound, Take!Size, Take!Lesser
    <2>4. r \in Int
      BY <2>1, <2>3
    <2> HIDE DEF r
    <2> QED
      BY <2>2, <2>3, <2>4, RecordsAreCursors
  <1>6. CASE k = "zip"
    BY <1>6 DEF ZipStands, Cursors
  <1>7. CASE k = "cache1"
    <2>1. p \in Int /\ c = [it |-> p]
      BY <1>7 DEF Cache1Sound, Cache1Stands, Cache1!Size
    <2> QED
      BY <2>1, RecordsAreCursors
  <1>8. CASE k = "intersperse"
    BY <1>8 DEF IntersperseStands, Cursors
  <1>9. CASE k = "closed_iota"
    <2>1. p \in Int /\ v.from \in Int /\ v.to \in Int
      BY <1>9 DEF ClosedIotaSound, ClosedIota!Ranges
    <2>2. c = [from |-> v.to, done |-> TRUE] \/ c = [from |-> v.from + p, done |-> FALSE]
      BY <1>9 DEF ClosedIotaStands, ClosedIota!At, ClosedIota!End
    <2>3. CASE c = [from |-> v.to, done |-> TRUE]
      BY <2>1, <2>3, RecordsAreCursors
    <2>4. CASE c = [from |-> v.from + p, done |-> FALSE]
      <3> DEFINE f == v.from + p
      <3>1. f \in Int
        BY <2>1
      <3>2. c = [from |-> f, done |-> FALSE]
        BY <2>4
      <3> HIDE DEF f
      <3> QED
        BY <3>1, <3>2, RecordsAreCursors
    <2> QED
      BY <2>2, <2>3, <2>4
  <1>10. CASE k = "scan"
    BY <1>10 DEF ScanStands, Cursors
  <1>11. CASE k = "slice"
    <2>1. p \in Int /\ Slice!PosAt(v) \in Int /\ v.count \in Int
      BY <1>11 DEF SliceSound, Slice!PosAt, Slice!Place
    <2> DEFINE i == Slice!PosAt(v) + p
               l == v.count - p
    <2>2. i \in Int /\ l \in Int
      BY <2>1
    <2>3. c = [it |-> i, cnt |-> l]
      BY <1>11 DEF SliceStands
    <2> HIDE DEF i, l
    <2> QED
      BY <2>2, <2>3, RecordsAreCursors
  <1>12. CASE k = "generate_n"
    <2>1. 0 \in Int /\ c = [view |-> TRUE]
      BY <1>12 DEF GenerateStands
    <2> QED
      BY <2>1, RecordsAreCursors
  <1>13. CASE k = "sample"
    BY <1>13 DEF SampleStands, Cursors
  <1>14. CASE k = "linear_distribute"
    <2>1. p \in Int /\ v.from \in Int /\ v.to \in Int /\ v.delta \in Int /\ v.n \in Int
      BY <1>14 DEF DistributeSound
    <2> DEFINE f == IF p = v.n THEN v.to ELSE v.from + v.delta * p
    <2>2. f \in Int /\ v.n - p \in Int
      BY <2>1, Products
    <2>3. c = [from |-> f, n |-> v.n - p]
      BY <1>14 DEF DistributeStands
    <2> HIDE DEF f
    <2> QED
      BY <2>2, <2>3, RecordsAreCursors
  <1>15. CASE k = "cartesian"
    BY <1>15 DEF CartesianStands, Cursors
  <1>16. CASE k = "concat"
    <2>1. c \in [which : 1 .. 3, it : Nat]
      BY <1>16 DEF ConcatStands
    <2>2. c \in [which : Int, it : Int]
      BY <2>1
    <2> QED
      BY <2>2, Zenon DEF Cursors
  <1> QED
    BY <1>1, <1>2, <1>3, <1>4, <1>5, <1>6, <1>7, <1>8, <1>9, <1>10, <1>11, <1>12, <1>13, <1>14,
       <1>15, <1>16 DEF Counting

\* The places of a sound view are counted from zero.
LEMMA SizeIsANumber ==
  ASSUME kind \in Counting, Sound(kind, view)
  PROVE  Size \in Int /\ 0 =< Size
  <1> USE DEF Sound, Size
  <1>1. CASE kind = "cycle"
    BY <1>1, BoundsAreNatural
  <1>2. CASE kind = "stride"
    <2>1. view.len \in Nat /\ view.stride \in Nat \ {0} /\ view.len + view.stride - 1 \in Nat
      BY <1>2 DEF StrideSound
    <2> QED
      BY <1>2, <2>1 DEF Stride!Size
  <1>3. CASE kind = "chunk"
    <2>1. view.len \in Nat /\ view.n \in Nat \ {0}
      BY <1>3 DEF ChunkSound
    <2> QED
      BY <1>3, <2>1 DEF Chunk!Size
  <1>4. CASE kind = "sliding"
    BY <1>4 DEF SlidingSound, Sliding!Size
  <1>5. CASE kind = "take"
    BY <1>5 DEF TakeSound, Take!Size, Take!Lesser
  <1>6. CASE kind = "zip"
    <2>1. /\ view.lens[1] \in Nat /\ view.lens[2] \in Nat
          /\ { view.lens[j] : j \in 1 .. 2 } = {view.lens[1], view.lens[2]}
      BY <1>6 DEF ZipSound
    <2> QED
      BY <1>6, <2>1, LeastOfTwo DEF Zip!Size, Zip!Zipped
  <1>7. CASE kind = "cache1"
    BY <1>7 DEF Cache1Sound, Cache1!Size
  <1>8. CASE kind = "intersperse"
    BY <1>8 DEF IntersperseSound, Intersperse!Size
  <1>9. CASE kind = "closed_iota"
    BY <1>9 DEF ClosedIotaSound, ClosedIota!Ranges, ClosedIota!Size
  <1>10. CASE kind = "scan"
    BY <1>10 DEF ScanSound, Scan!Size
  <1>11. CASE kind = "slice"
    BY <1>11 DEF SliceSound
  <1>12. CASE kind = "generate_n"
    BY <1>12 DEF GenerateSound, Generate!Size
  <1>13. CASE kind = "sample"
    BY <1>13 DEF SampleSound, Sample!Size, Sample!Lesser
  <1>14. CASE kind = "linear_distribute"
    BY <1>14 DEF DistributeSound, Distribute!Size
  <1>15. CASE kind = "cartesian"
    <2>1. view.lens[1] \in Nat /\ view.lens[2] \in Nat /\ view.lens[3] \in Nat
      BY <1>15 DEF CartesianSound
    <2>2. \A x, y \in Nat : x * y \in Nat
      OBVIOUS
    <2>3. Cartesian!Size(view) \in Nat
      BY <2>1, <2>2 DEF Cartesian!Size
    <2> QED
      BY <1>15, <2>3
  <1>16. CASE kind = "concat"
    <2>1. Concat!Part(view, 1) \in Seq(Int \X Int) /\ Concat!Part(view, 2) \in Seq(Int \X Int)
          /\ Concat!Part(view, 3) \in Seq(Int \X Int)
      <3>1. view.lens[1] \in Nat /\ view.lens[2] \in Nat /\ view.lens[3] \in Nat
        BY <1>16 DEF ConcatSound
      <3>2. ASSUME NEW j \in 1 .. 3 PROVE Concat!Part(view, j) \in Seq(Int \X Int)
        <4>1. view.lens[j] \in Nat
          BY <3>1
        <4> QED
          BY <4>1 DEF Concat!Part
      <3> QED
        BY <3>2
    <2>2. Concat!Elements(view) \in Seq(Int \X Int)
      BY <2>1 DEF Concat!Elements
    <2>3. Concat!Size(view) \in Nat
      BY <2>2 DEF Concat!Size
    <2> QED
      BY <1>16, <2>3
  <1> QED
    BY <1>1, <1>2, <1>3, <1>4, <1>5, <1>6, <1>7, <1>8, <1>9, <1>10, <1>11, <1>12, <1>13, <1>14,
       <1>15, <1>16 DEF Counting

\* A slice of a range, with ends from the front or from the back, is inside of
\* it.
LEMMA FreshSliceIsSound ==
  ASSUME NEW n \in Nat, NEW from \in Int, NEW to \in Int, NEW v,
         v = Slice!Made(n, from, to),
         \/ from \in 0 .. n /\ to \in 0 .. n /\ from =< to
         \/ from \in 0 .. n /\ to < 0 /\ from =< n + to
         \/ from < 0 /\ -n =< from /\ to =< 0 /\ from =< to
  PROVE  SliceSound(v)
  <1> DEFINE k == IF from >= 0 /\ to < 0 THEN n + to - from ELSE to - from
             a == IF from < 0 THEN n + from ELSE from
             b == IF to < 0 \/ from < 0 THEN n + to ELSE to
  <1>1. v = [len |-> n, from |-> from, to |-> to, begin |-> Slice!NotCached, count |-> k]
    BY DEF Slice!Made
  <1>2. k \in Nat /\ a \in Int /\ b \in Int /\ k = b - a /\ 0 =< a /\ a + k =< n
    OBVIOUS
  <1>3. Slice!PosAt(v) = a
    BY <1>1 DEF Slice!PosAt, Slice!Place
  <1>4. Slice!Size(v) = b - a
    BY <1>1 DEF Slice!Size, Slice!Place
  <1> HIDE DEF k, a, b
  <1>5. v.count = k /\ v.begin = Slice!NotCached /\ v.len = n
    BY <1>1
  <1>6. v \in [len : Nat, from : Int, to : Int, begin : Int, count : Nat]
    BY <1>1, <1>2 DEF Slice!NotCached
  <1> QED
    BY <1>2, <1>3, <1>4, <1>5, <1>6 DEF SliceSound

\* Every view a walk starts with is sound.
LEMMA FreshIsSound ==
  ASSUME kind \in Counting, Known = {}, Init
  PROVE  Sound(kind, view)
  <1>0. view \in Fresh(kind) /\ MaxLen \in Nat
    BY BoundsAreNatural DEF Init
  <1> USE DEF Sound, Fresh
  <1>1. CASE kind = "cycle"
    BY <1>0, <1>1 DEF CycleSound, Cycle!Fresh, Cycle!NotCached
  <1>2. CASE kind = "stride"
    BY <1>0, <1>2 DEF StrideSound, Stride!Fresh, Stride!Unknown, Stride!Offset
  <1>3. CASE kind = "chunk"
    BY <1>0, <1>3 DEF ChunkSound, Chunk!Fresh
  <1>4. CASE kind = "sliding"
    <2>1. ~Sliding!RunsOff(view)
      BY <1>4 DEF Init
    <2> QED
      BY <1>0, <1>4, <2>1 DEF SlidingSound, Sliding!Fresh, Sliding!NotCached
  <1>5. CASE kind = "take"
    BY <1>0, <1>5 DEF TakeSound, Take!Fresh
  <1>6. CASE kind = "zip"
    BY <1>0, <1>6 DEF ZipSound, Zip!Fresh, Zip!Zipped
  <1>7. CASE kind = "cache1"
    <2>1. view \in Cache1!Fresh(MaxLen)
      BY <1>0, <1>7
    <2> DEFINE L == 0 .. MaxLen
               D == {TRUE}
               E == {Cache1!Empty}
               Z == {0}
    <2>2. view \in [len : L, dirty : D, cache : E, computed : Z]
      BY <2>1 DEF Cache1!Fresh
    <2>3. L \subseteq Nat /\ D \subseteq BOOLEAN /\ E \subseteq Int /\ Z \subseteq 0 .. 1
      <3>1. D \subseteq BOOLEAN
        BY Zenon
      <3> QED
        BY <1>0, <3>1 DEF Cache1!Empty
    <2> HIDE DEF L, D, E, Z
    <2>4. view \in [len : Nat, dirty : BOOLEAN, cache : Int, computed : 0 .. 1]
      BY <2>2, <2>3, Zenon
    <2> QED
      BY <1>7, <2>4 DEF Cache1Sound
  <1>8. CASE kind = "intersperse"
    BY <1>0, <1>8 DEF IntersperseSound, Intersperse!Fresh
  <1>9. CASE kind = "closed_iota"
    <2>1. ~ClosedIota!Overfull(view)
      BY <1>9 DEF Init
    <2> QED
      BY <1>0, <1>9, <2>1 DEF ClosedIotaSound, ClosedIota!Fresh, ClosedIota!Ranges
  <1>10. CASE kind = "scan"
    BY <1>0, <1>10 DEF ScanSound, Scan!Fresh
  <1>11. CASE kind = "slice"
    <2>1. view \in Slice!Fresh(4)
      BY <1>0, <1>11
    <2>a. SUFFICES SliceSound(view)
      BY <1>11
    <2>2. PICK n \in 0 .. 4 :
            view \in Slice!FromFront(n) \/ view \in Slice!FrontToBack(n) \/ view \in Slice!FromBack(n)
      BY <2>1 DEF Slice!Fresh
    <2>0. n \in Nat
      BY <2>2
    <2>3. CASE view \in Slice!FromFront(n)
      <3>1. PICK lo \in 0 .. n, hi \in 0 .. n : view = Slice!Made(n, lo, hi)
        BY <2>3 DEF Slice!FromFront
      <3>2. lo =< hi
        BY <2>3, <3>1 DEF Slice!FromFront, Slice!Made
      <3>3. lo \in Int /\ hi \in Int
        OBVIOUS
      <3> QED
        BY <2>0, <3>1, <3>2, <3>3, FreshSliceIsSound
    <2>4. CASE view \in Slice!FrontToBack(n)
      <3>1. PICK lo \in 0 .. n, hi \in 1 .. n : view = Slice!Made(n, lo, -hi)
        BY <2>4 DEF Slice!FrontToBack
      <3> DEFINE to == -hi
      <3>2. lo =< n + to
        BY <2>4, <3>1 DEF Slice!FrontToBack, Slice!Made
      <3>3. lo \in Int /\ to \in Int /\ to < 0 /\ lo \in 0 .. n
        OBVIOUS
      <3>4. view = Slice!Made(n, lo, to)
        BY <3>1
      <3> HIDE DEF to
      <3> QED
        BY <2>0, <3>2, <3>3, <3>4, FreshSliceIsSound
    <2>5. CASE view \in Slice!FromBack(n)
      <3>1. PICK lo \in 1 .. n, hi \in 0 .. n : view = Slice!Made(n, -lo, -hi)
        BY <2>5 DEF Slice!FromBack
      <3> DEFINE from == -lo
                 to == -hi
      <3>2. from =< to
        BY <2>5, <3>1 DEF Slice!FromBack, Slice!Made
      <3>3. from \in Int /\ to \in Int /\ to =< 0 /\ from < 0 /\ -n =< from
        BY <2>0
      <3>4. view = Slice!Made(n, from, to)
        BY <3>1
      <3> HIDE DEF from, to
      <3> QED
        BY <2>0, <3>2, <3>3, <3>4, FreshSliceIsSound
    <2> QED
      BY <2>2, <2>3, <2>4, <2>5
  <1>12. CASE kind = "generate_n"
    BY <1>0, <1>12 DEF GenerateSound, Generate!Fresh, Generate!Empty
  <1>13. CASE kind = "sample"
    BY <1>0, <1>13 DEF SampleSound, Sample!Fresh
  <1>14. CASE kind = "linear_distribute"
    <2>1. ~Distribute!Single(view)
      BY <1>14 DEF Init
    <2> QED
      BY <1>0, <1>14, <2>1 DEF DistributeSound, Distribute!Fresh, Distribute!Made, Distribute!Single
  <1>15. CASE kind = "cartesian"
    <2>1. ~Cartesian!EndRunsOff(view)
      BY <1>15 DEF Init
    <2> QED
      BY <1>0, <1>15, <2>1 DEF CartesianSound, Cartesian!Fresh, Cartesian!Factors
  <1>16. CASE kind = "concat"
    BY <1>0, <1>16 DEF ConcatSound, Concat!Fresh, Concat!Ranges
  <1> QED
    BY <1>1, <1>2, <1>3, <1>4, <1>5, <1>6, <1>7, <1>8, <1>9, <1>10, <1>11, <1>12, <1>13, <1>14,
       <1>15, <1>16 DEF Counting

----------------------------------------------------------------------------
(* Who keeps the contract keeps the invariants                              *)

\* The views that are walked once, of those that count.
LEMMA WalkedOnce == kind \in Counting => (SinglePass <=> kind \in OnePass)
  BY DEF Counting, OnePass, SinglePass

\* The client counts the places of the view as it is.
LEMMA SizeIsPlaces == kind \in Counting => Size = Places(kind, view)
  BY DEF Counting, Size, Places

\* What an iterator in use is, and that a view left alone is kept.
LEMMA WhoStands ==
  ASSUME Standing, Kinds \subseteq Counting, NEW x \in Iterators, cursor[x] # None
  PROVE  /\ Stands(kind, view, cursor[x], pos[x]) /\ cursor[x] \in Cursors
         /\ kind \in OnePass => x = First
         /\ pos[x] \in Int /\ pos[x] \in 0 .. Size
         /\ Kept(view) /\ kind \in Counting
  BY SizeIsPlaces DEF Standing, Stands, Kept

\* One iterator is put where it stands.
LEMMA PutKeepsStanding ==
  ASSUME Kinds \subseteq Counting, Standing, NEW x \in Iterators, NEW c, NEW p,
         kind' = kind, cursor' = [cursor EXCEPT ![x] = c], pos' = [pos EXCEPT ![x] = p],
         Kept(view'), kind \in OnePass => x = First, Stands(kind, view', c, p)
  PROVE  Standing'
  <1>1. kind \in Counting /\ Sound(kind, view') /\ kind \in Kinds
    BY DEF Standing, Kept
  <1>2. c \in Cursors /\ p \in Int
    <2>1. c \in Cursors
      BY <1>1, StandersAreCursors
    <2>2. p \in 0 .. Places(kind, view')
      BY DEF Stands
    <2> QED
      BY <2>1, <2>2
  <1>3. c # None
    BY <1>2, NoneIsNoCursor
  <1>4. /\ kind' = kind
        /\ cursor' = [cursor EXCEPT ![x] = c]
        /\ pos' = [pos EXCEPT ![x] = p]
    OBVIOUS
  <1>5. cursor \in [Iterators -> Cursors \cup {None}] /\ pos \in [Iterators -> Int]
    BY DEF Standing
  <1>6. cursor' \in [Iterators -> Cursors \cup {None}] /\ pos' \in [Iterators -> Int]
    BY <1>2, <1>4, <1>5
  <1>7. ASSUME NEW y \in Iterators
        PROVE  IF cursor'[y] = None THEN pos'[y] = 0
               ELSE (kind' \in OnePass => y = First) /\ Stands(kind', view', cursor'[y], pos'[y])
    <2>1. CASE y = x
      <3>1. cursor'[y] = c /\ pos'[y] = p
        BY <1>4, <1>5, <2>1
      <3> QED
        BY <1>3, <1>4, <2>1, <3>1
    <2>2. CASE y # x
      <3>1. cursor'[y] = cursor[y] /\ pos'[y] = pos[y]
        BY <1>4, <1>5, <2>2
      <3>2. IF cursor[y] = None THEN pos[y] = 0
            ELSE (kind \in OnePass => y = First) /\ Stands(kind, view, cursor[y], pos[y])
        BY DEF Standing
      <3>3. CASE kind \in OnePass
        BY <1>4, <2>2, <3>1, <3>2, <3>3
      <3>4. CASE kind \notin OnePass
        BY <1>4, <3>1, <3>2, <3>4 DEF Kept
      <3> QED
        BY <3>3, <3>4
    <2> QED
      BY <2>1, <2>2
  <1> QED
    BY <1>1, <1>4, <1>6, <1>7 DEF Standing

\* None is moved.
LEMMA LookKeepsStanding ==
  ASSUME Kinds \subseteq Counting, Standing, NEW x \in Iterators, cursor[x] # None,
         UNCHANGED <<kind, cursor, pos>>, Kept(view'), Stands(kind, view', cursor[x], pos[x])
  PROVE  Standing'
  <1>1. kind \in OnePass => x = First
    BY WhoStands
  <1>2. /\ cursor' = [cursor EXCEPT ![x] = cursor[x]]
        /\ pos' = [pos EXCEPT ![x] = pos[x]]
    BY DEF Standing
  <1> QED
    BY <1>1, <1>2, PutKeepsStanding

\* Every step leads from standing iterators to standing iterators.
LEMMA NextKeepsStanding ==
  ASSUME Kinds \subseteq Counting, Known = {}, Standing, Contract, [Next]_vars
  PROVE  Standing'
  <1> USE DEF Contract
  <1>1. kind \in Counting /\ (SinglePass <=> kind \in OnePass) /\ Size = Places(kind, view)
    BY WalkedOnce, SizeIsPlaces DEF Standing
  <1>2. ASSUME NEW x \in Iterators, Begin(x) PROVE Standing'
    <2>1. PICK c \in Begins : Put(x, c, 0)
      BY <1>2 DEF Begin
    <2>2. Kept(view') /\ Stands(kind, view', c, 0) /\ (kind \in OnePass => x = First)
      BY <1>1, <1>2 DEF Begin, Usable, FrontIsFirst
    <2> QED
      BY <2>1, <2>2, PutKeepsStanding DEF Put
  <1>3. ASSUME NEW x \in Iterators, End(x) PROVE Standing'
    <2>1. Put(x, FromEnd, Size)
      BY <1>3 DEF End
    <2>2. Kept(view') /\ Stands(kind, view', FromEnd, Size) /\ (kind \in OnePass => x = First)
      BY <1>1, <1>3 DEF End, Usable, EndIsLast
    <2> QED
      BY <2>1, <2>2, PutKeepsStanding DEF Put
  <1>4. ASSUME NEW x \in Iterators, Next_(x) PROVE Standing'
    <2>1. PICK d \in Steps(cursor[x]) : Put(x, d, pos[x] + 1)
      BY <1>4 DEF Next_
    <2>2. Stands(kind, view, cursor[x], pos[x]) /\ (kind \in OnePass => x = First)
      BY <1>4, WhoStands DEF Next_
    <2>3. Kept(view') /\ Stands(kind, view', d, pos[x] + 1)
      BY <1>4, <2>2 DEF Next_, StepsGoOn
    <2> QED
      BY <2>1, <2>2, <2>3, PutKeepsStanding DEF Put
  <1>5. ASSUME NEW x \in Iterators, Prev(x) PROVE Standing'
    <2>1. Put(x, SteppedBack(cursor[x]), pos[x] - 1) /\ view' = view
      BY <1>5 DEF Prev
    <2>2. Stands(kind, view, cursor[x], pos[x]) /\ (kind \in OnePass => x = First) /\ Kept(view)
      BY <1>5, WhoStands DEF Prev
    <2>3. Stands(kind, view, SteppedBack(cursor[x]), pos[x] - 1)
      BY <1>5, <2>2 DEF Prev, StepsGoBack
    <2> QED
      BY <2>1, <2>2, <2>3, PutKeepsStanding DEF Put
  <1>6. ASSUME NEW x \in Iterators, NEW n \in -MaxPos .. MaxPos, Advance(x, n) PROVE Standing'
    <2>1. Put(x, Advanced(cursor[x], n), pos[x] + n) /\ view' = AfterAdvance(cursor[x], n)
      BY <1>6 DEF Advance
    <2>2. Stands(kind, view, cursor[x], pos[x]) /\ (kind \in OnePass => x = First)
      BY <1>6, WhoStands DEF Advance
    <2>3. Kept(view') /\ Stands(kind, view', Advanced(cursor[x], n), pos[x] + n)
      BY <1>6, <2>1, <2>2 DEF Advance, JumpsLand
    <2> QED
      BY <2>1, <2>2, <2>3, PutKeepsStanding DEF Put
  <1>7. ASSUME NEW x \in Iterators, Read(x) PROVE Standing'
    <2>1. Stands(kind, view, cursor[x], pos[x])
      BY <1>7, WhoStands DEF Read
    <2>2. Kept(view') /\ Stands(kind, view', cursor[x], pos[x])
      BY <1>7, <2>1 DEF Read, TracesAreSound
    <2> QED
      BY <1>7, <2>2, LookKeepsStanding DEF Read
  <1>8. ASSUME NEW x \in Iterators, ToConst(x) PROVE Standing'
    <2>1. PICK c \in Converted(cursor[x]) : Put(x, c, pos[x])
      BY <1>8 DEF ToConst
    <2>2. c = cursor[x] /\ view' = view
      BY <1>8, <2>1 DEF ToConst
    <2>3. Stands(kind, view, cursor[x], pos[x]) /\ (kind \in OnePass => x = First) /\ Kept(view)
      BY <1>8, WhoStands DEF ToConst
    <2> QED
      BY <2>1, <2>2, <2>3, PutKeepsStanding DEF Put
  <1>9. ASSUME NEW x \in Iterators, NEW y \in Iterators, Assign(x, y) PROVE Standing'
    <2>1. Put(x, cursor[y], pos[y]) /\ view' = view /\ kind \notin OnePass
      BY <1>1, <1>9 DEF Assign
    <2>2. Stands(kind, view, cursor[y], pos[y]) /\ Kept(view)
      BY <1>9, WhoStands DEF Assign
    <2> QED
      BY <2>1, <2>2, PutKeepsStanding DEF Put
  <1>10. ASSUME NEW x \in Iterators, NEW y \in Iterators, Distance(x, y) PROVE Standing'
    <2>1. Kept(view') /\ kind \notin OnePass
      BY <1>10 DEF Distance, EndsAreLearnt, OnePass
    <2>2. Stands(kind, view', cursor[x], pos[x])
      BY <1>10, <2>1, WhoStands DEF Distance, Kept
    <2> QED
      BY <1>10, <2>1, <2>2, LookKeepsStanding DEF Distance
  <1>11. ASSUME CopyView PROVE Standing'
    <2>1. /\ kind' = kind /\ view' = Copied
          /\ cursor' = [x \in Iterators |-> None] /\ pos' = [x \in Iterators |-> 0]
      BY <1>11 DEF CopyView
    <2>2. kind' \in Kinds /\ Sound(kind', view')
      BY <2>1 DEF Standing, CopiesAreSound
    <2> QED
      BY <2>1, <2>2 DEF Standing
  <1>12. ASSUME UNCHANGED vars PROVE Standing'
    BY <1>12 DEF vars, Standing
  <1> QED
    BY <1>2, <1>3, <1>4, <1>5, <1>6, <1>7, <1>8, <1>9, <1>10, <1>11, <1>12 DEF Next

\* A view made anew is sound.
LEMMA InitStands ==
  ASSUME Kinds \subseteq Counting, Known = {}, Init
  PROVE  Standing
  <1>1. kind \in Counting /\ kind \in Kinds
    BY DEF Init
  <1>2. Sound(kind, view)
    BY <1>1, FreshIsSound DEF Init
  <1> QED
    BY <1>1, <1>2 DEF Init, Standing

----------------------------------------------------------------------------
(* Each of the views keeps the contract *)

\* A take_view: what the iterator and what is left add up to is kept.
LEMMA TakeKeepsContract ==
  ASSUME kind = "take", Sound(kind, view)
  PROVE  Contract
  <1>0. TakeSound(view)
    BY DEF Sound
  <1>1. /\ MayBegin /\ Begins = {Take!Begin(view)} /\ AfterBegin = view
        /\ Size = Take!Size(view) /\ Places(kind, view) = Take!Size(view)
        /\ ~Common /\ Bidirectional /\ (RandomAccess <=> ~view.sized)
        /\ ~LeavesATrace /\ Copied = view
        /\ \A c : /\ Steps(c) = {Take!Next(view, c)} /\ AfterStep(c) = view
                  /\ SteppedBack(c) = Take!Prev(view, c)
                  /\ (NextExpects(c) <=> Take!NextExpects(view, c))
                  /\ (ReadExpects(c) <=> Take!ReadExpects(view, c))
                  /\ PrevExpects(c)
                  /\ ReadAt(c) = Take!Read(view, c)
                  /\ (AtEnd(c) <=> Take!AtEnd(view, c))
        /\ \A c, n : /\ Advanced(c, n) = Take!Advance(view, c, n) /\ AfterAdvance(c, n) = view
                     /\ (AdvanceExpects(c, n) <=> Take!AdvanceExpects(view, c, n))
        /\ \A c, d : /\ Difference(c, d) = Take!Distance(view, c, d)
                     /\ (Equal(c, d) <=> Take!Equal(c, d))
        /\ \A p : Element(p) = Take!Element(view, p)
    BY DEF MayBegin, Begins, FromBegin, AfterBegin, Size, Places, Common, Bidirectional, SinglePass,
       RandomAccess,
       LeavesATrace, Copied, Steps, Stepped, AfterStep, SteppedBack, NextExpects, ReadExpects, PrevExpects, ReadAt, AtEnd,
       Advanced, AfterAdvance, AdvanceExpects, Difference, Equal, Element
  <1>2. Kept(view) /\ kind \notin OnePass
    BY SameIsKept DEF OnePass
  <1>3. \A c, p : Stands(kind, view, c, p) <=> p \in 0 .. Size /\ TakeStands(view, c, p)
    BY <1>1 DEF Stands, Looks
  <1>4. FrontIsFirst
    BY <1>0, <1>1, <1>2, <1>3 DEF FrontIsFirst, TakeSound, TakeStands, Take!Size, Take!Begin,
       Take!Lesser
  <1>5. EndIsLast
    BY <1>1 DEF EndIsLast
  <1>6. StepsGoOn
    BY <1>0, <1>1, <1>2, <1>3 DEF StepsGoOn, TakeSound, TakeStands, Take!Size, Take!Begin,
       Take!Lesser, Take!Next
  <1>7. StepsGoBack
    BY <1>0, <1>1, <1>2, <1>3 DEF StepsGoBack, TakeSound, TakeStands, Take!Size, Take!Begin,
       Take!Lesser, Take!Prev
  <1>8. JumpsLand
    BY <1>0, <1>1, <1>2, <1>3 DEF JumpsLand, TakeSound, TakeStands, Take!Size, Take!Begin,
       Take!Lesser, Take!Advance
  <1>9. TracesAreSound /\ EndsAreLearnt /\ CopiesAreSound
    BY <1>1 DEF TracesAreSound, EndsAreLearnt, CopiesAreSound
  <1>10. AssertionsHold
    BY <1>0, <1>1, <1>2, <1>3 DEF AssertionsHold, TakeSound, TakeStands, Take!Size, Take!Begin,
       Take!Lesser, Take!NextExpects,
      Take!ReadExpects, Take!AdvanceExpects
  <1>11. ReadsArePromised
    BY <1>0, <1>1, <1>2, <1>3 DEF ReadsArePromised, TakeStands, Take!Read, Take!Element
  <1>12. PlacesAreTold
    BY <1>0, <1>1, <1>2, <1>3 DEF PlacesAreTold, TakeSound, TakeStands, Take!Size, Take!Begin,
       Take!Lesser, Take!Distance, Take!Equal
  <1>13. EndIsTold
    BY <1>0, <1>1, <1>2, <1>3 DEF EndIsTold, TakeSound, TakeStands, Take!Size, Take!Begin,
       Take!Lesser, Take!AtEnd
  <1> QED
    BY <1>4, <1>5, <1>6, <1>7, <1>8, <1>9, <1>10, <1>11, <1>12, <1>13 DEF Contract

\* A slice_view: the first element is where it was put, cached or not.
LEMMA SliceKeepsContract ==
  ASSUME kind = "slice", Sound(kind, view)
  PROVE  Contract
  <1>0. SliceSound(view)
    BY DEF Sound
  <1>1. /\ MayBegin /\ Begins = {Slice!Begin(view)} /\ AfterBegin = Slice!AfterBegin(view)
        /\ Size = Slice!Size(view)
        /\ ~Common /\ ~RandomAccess /\ ~LeavesATrace /\ Copied = [view EXCEPT !.begin = Slice!NotCached]
        /\ \A c : /\ Steps(c) = {Slice!Next(view, c)} /\ AfterStep(c) = view
                  /\ SteppedBack(c) = Slice!Prev(view, c)
                  /\ NextExpects(c) <=> Slice!NextExpects(view, c)
                  /\ ReadExpects(c) <=> Slice!ReadExpects(view, c)
                  /\ PrevExpects(c)
                  /\ ReadAt(c) = Slice!Read(view, c)
                  /\ AtEnd(c) <=> Slice!AtEnd(view, c)
        /\ \A c, d : Equal(c, d) <=> Slice!Equal(c, d)
        /\ \A p : Element(p) = Slice!Element(view, p)
    BY DEF MayBegin, Begins, FromBegin, AfterBegin, Size, Common, Bidirectional, SinglePass,
       RandomAccess,
       LeavesATrace, Copied, Steps, Stepped, AfterStep, SteppedBack, NextExpects, ReadExpects, PrevExpects,
       ReadAt, AtEnd, Equal, Element
  <1>2. Kept(view) /\ kind \notin OnePass
    BY SameIsKept DEF OnePass
  <1>3. \A v, c, p : Stands(kind, v, c, p) <=> p \in 0 .. Slice!Size(v) /\ SliceStands(v, c, p)
    BY DEF Stands, Looks, Places
  <1>4. view \in [len : Nat, from : Int, to : Int, begin : Int, count : Nat]
    BY <1>0 DEF SliceSound
  <1>5. Slice!PosAt(view) \in Int /\ Slice!Size(view) = view.count /\ Slice!NotCached = -1
    BY <1>0, <1>4 DEF SliceSound, Slice!PosAt, Slice!Place, Slice!NotCached
  <1>6. ASSUME NEW b \in {Slice!NotCached, Slice!PosAt(view)}
        PROVE  Kept([view EXCEPT !.begin = b])
    <2> DEFINE w == [view EXCEPT !.begin = b]
    <2>1. /\ w \in [len : Nat, from : Int, to : Int, begin : Int, count : Nat]
          /\ w.len = view.len /\ w.from = view.from /\ w.to = view.to /\ w.count = view.count /\ w.begin = b
      BY <1>4, <1>5
    <2> HIDE DEF w
    <2>2. Slice!PosAt(w) = Slice!PosAt(view) /\ Slice!Size(w) = Slice!Size(view)
      BY <2>1 DEF Slice!PosAt, Slice!Place, Slice!Size
    <2>3. Sound(kind, w)
      BY <1>0, <2>1, <2>2 DEF Sound, SliceSound
    <2>4. \A c, p : SliceStands(view, c, p) => SliceStands(w, c, p)
      BY <2>1, <2>2 DEF SliceStands
    <2> QED
      BY <1>3, <2>2, <2>3, <2>4 DEF Kept, w
  <1>7. Kept(AfterBegin) /\ Slice!AfterBegin(view).begin = Slice!PosAt(view)
    <2>1. view = [view EXCEPT !.begin = view.begin]
      BY <1>4
    <2> QED
      BY <1>0, <1>1, <1>2, <1>4, <1>6 DEF SliceSound, Slice!AfterBegin
  <1>8. FrontIsFirst
    <2>1. Stands(kind, view, Slice!Begin(view), 0)
      BY <1>3, <1>5, <1>7, <1>4 DEF SliceStands, Slice!Begin
    <2> QED
      BY <1>1, <1>2, <1>7, <2>1 DEF FrontIsFirst, Kept
  <1>9. EndIsLast /\ JumpsLand /\ TracesAreSound /\ EndsAreLearnt
    BY <1>1 DEF EndIsLast, JumpsLand, TracesAreSound, EndsAreLearnt
  <1>10. StepsGoOn
    BY <1>1, <1>2, <1>3, <1>4, <1>5 DEF StepsGoOn, SliceStands, Slice!Next, Slice!Counted!Next
  <1>11. StepsGoBack
    BY <1>1, <1>2, <1>3, <1>4, <1>5 DEF StepsGoBack, SliceStands, Slice!Prev, Slice!Counted!Prev
  <1>12. CopiesAreSound
    BY <1>1, <1>6 DEF CopiesAreSound, Kept
  <1>13. AssertionsHold
    BY <1>0, <1>1, <1>3, <1>4, <1>5 DEF AssertionsHold, SliceSound, SliceStands, Slice!NextExpects,
       Slice!Counted!NextExpects,
       Slice!ReadExpects
  <1>14. ReadsArePromised
    BY <1>1, <1>3 DEF ReadsArePromised, SliceStands, Slice!Read, Slice!Element, Slice!PosAt,
       Slice!Place
  <1>15. PlacesAreTold
    BY <1>1, <1>3, <1>4, <1>5 DEF PlacesAreTold, SliceStands, Slice!Equal, Slice!Counted!Equal
  <1>16. EndIsTold
    BY <1>1, <1>3, <1>4, <1>5 DEF EndIsTold, SliceStands, Slice!AtEnd
  <1> QED
    BY <1>8, <1>9, <1>10, <1>11, <1>12, <1>13, <1>14, <1>15, <1>16 DEF Contract

\* The members of a generate_n_view, some of them assigned.
LEMMA GenerateUpdates ==
  ASSUME NEW A, NEW B, NEW C, NEW D, NEW v \in [len : A, n : B, val : C, calls : D],
         NEW x \in B, NEW y \in C, NEW z \in D
  PROVE  /\ [v EXCEPT !.n = x, !.val = y, !.calls = z] \in [len : A, n : B, val : C, calls : D]
         /\ [v EXCEPT !.val = y, !.calls = z] \in [len : A, n : B, val : C, calls : D]
  OBVIOUS

\* A generate_n_view: a value is made once for each place that was read or passed.
LEMMA GenerateKeepsContract ==
  ASSUME kind = "generate_n", Sound(kind, view)
  PROVE  Contract
  <1>0. GenerateSound(view)
    BY DEF Sound
  <1>1. /\ MayBegin <=> Generate!Untouched(view)
        /\ Begins = {Generate!Begin(view)} /\ AfterBegin = view
        /\ Size = Generate!Size(view)
        /\ ~Common /\ ~Bidirectional /\ ~RandomAccess /\ LeavesATrace
        /\ Copied = [view EXCEPT !.val = Generate!Empty]
        /\ \A c : /\ Steps(c) = {Generate!Next(view, c)} /\ AfterStep(c) = Generate!AfterNext(view, c)
                  /\ AfterRead(c) = Generate!AfterRead(view, c)
                  /\ NextExpects(c) <=> Generate!NextExpects(view, c)
                  /\ ReadExpects(c)
                  /\ ReadAt(c) = Generate!Read(view, c)
                  /\ AtEnd(c) <=> Generate!AtEnd(view, c)
        /\ \A p : Element(p) = Generate!Element(view, p)
    BY DEF MayBegin, Begins, FromBegin, AfterBegin, Size, Common, Bidirectional, SinglePass,
       RandomAccess,
       LeavesATrace, Copied, Steps, Stepped, AfterStep, AfterRead, NextExpects, ReadExpects,
       ReadAt, AtEnd, Element
  <1>2. kind \in OnePass
    BY DEF OnePass
  <1>3. /\ \A v, c, p : Stands(kind, v, c, p) <=> p \in 0 .. Generate!Size(v) /\ GenerateStands(v, c, p)
        /\ \A v : Kept(v) <=> GenerateSound(v)
    BY <1>2 DEF Stands, Looks, Places, Kept, Sound
  <1>4. view \in [len : Nat, n : Int, val : Int, calls : Nat] /\ Generate!Empty = -1
    BY <1>0 DEF GenerateSound, Generate!Empty
  <1>5. FrontIsFirst
    BY <1>0, <1>1, <1>3, <1>4 DEF FrontIsFirst, GenerateSound, GenerateStands, Generate!Begin,
       Generate!Untouched, Generate!Size
  <1>6. ASSUME NEW c, NEW p, Stands(kind, view, c, p), p < Size
        PROVE  /\ Kept(AfterStep(c)) /\ \A d \in Steps(c) : Stands(kind, AfterStep(c), d, p + 1)
               /\ Kept(AfterRead(c)) /\ Stands(kind, AfterRead(c), c, p)
    <2>1. p \in 0 .. view.len /\ p < view.len /\ GenerateStands(view, c, p)
      BY <1>1, <1>3, <1>6 DEF Generate!Size
    <2> DEFINE w == Generate!AfterNext(view, c)
               u == Generate!AfterRead(view, c)
    <2>0. w \in [len : Nat, n : Int, val : Int, calls : Nat] /\ u \in [len : Nat, n : Int, val : Int, calls : Nat]
      <3>1. /\ view.n - 1 \in Int /\ -1 \in Int /\ view.calls \in Int /\ view.calls + 1 \in Nat
            /\ (IF view.val = -1 THEN view.calls + 1 ELSE view.calls) \in Nat
        BY <1>4
      <3> QED
        BY <1>4, <3>1, GenerateUpdates DEF Generate!AfterNext, Generate!AfterRead
    <2>2. /\ w \in [len : Nat, n : Int, val : Int, calls : Nat]
          /\ w.len = view.len /\ w.n = view.n - 1 /\ w.val = -1
          /\ w.calls = IF view.val = -1 THEN view.calls + 1 ELSE view.calls
      BY <1>4, <2>0 DEF Generate!AfterNext
    <2>3. /\ u \in [len : Nat, n : Int, val : Int, calls : Nat]
          /\ u.len = view.len /\ u.n = view.n
          /\ u.val = IF view.val = -1 THEN view.calls ELSE view.val
          /\ u.calls = IF view.val = -1 THEN view.calls + 1 ELSE view.calls
      BY <1>4, <2>0 DEF Generate!AfterRead
    <2> HIDE DEF w, u
    <2>4. GenerateSound(w) /\ GenerateStands(w, c, p + 1) /\ p + 1 \in 0 .. w.len
      BY <1>4, <2>1, <2>2 DEF GenerateSound, GenerateStands
    <2>5. GenerateSound(u) /\ GenerateStands(u, c, p) /\ p \in 0 .. u.len
      BY <1>4, <2>1, <2>3 DEF GenerateSound, GenerateStands
    <2> QED
      BY <1>1, <1>3, <2>4, <2>5 DEF w, u, Generate!Size, Generate!Next
  <1>7. StepsGoOn /\ TracesAreSound
    BY <1>6 DEF StepsGoOn, TracesAreSound
  <1>8. EndIsLast /\ StepsGoBack /\ JumpsLand /\ EndsAreLearnt
    BY <1>1 DEF EndIsLast, StepsGoBack, JumpsLand, EndsAreLearnt
  <1>9. CopiesAreSound
    BY <1>1, <1>4 DEF CopiesAreSound, Sound, GenerateSound
  <1>10. AssertionsHold
    BY <1>1, <1>3, <1>4 DEF AssertionsHold, GenerateStands, Generate!NextExpects, Generate!Size
  <1>11. ReadsArePromised
    <2>1. \A c, p : GenerateStands(view, c, p) => Generate!Read(view, c) = p
      BY <1>4 DEF GenerateStands, Generate!Read, Generate!AfterRead
    <2> QED
      BY <1>1, <1>3, <2>1 DEF ReadsArePromised, Generate!Element
  <1>12. PlacesAreTold
    BY <1>1, <1>2 DEF PlacesAreTold
  <1>13. EndIsTold
    BY <1>1, <1>3, <1>4 DEF EndIsTold, GenerateStands, Generate!AtEnd, Generate!Size
  <1> QED
    BY <1>5, <1>7, <1>8, <1>9, <1>10, <1>11, <1>12, <1>13 DEF Contract

\* A linear_distribute_view: the last place is the end that was asked for.
LEMMA DistributeKeepsContract ==
  ASSUME kind = "linear_distribute", Sound(kind, view)
  PROVE  Contract
  <1>0. DistributeSound(view)
    BY DEF Sound
  <1>1. /\ Begins = {Distribute!Begin(view)} /\ AfterBegin = view
        /\ Size = Distribute!Size(view)
        /\ ~Common /\ ~Bidirectional /\ ~RandomAccess /\ ~LeavesATrace /\ Copied = view
        /\ \A c : /\ Steps(c) = {Distribute!Next(view, c)} /\ AfterStep(c) = view
                  /\ NextExpects(c) <=> Distribute!NextExpects(view, c)
                  /\ ReadExpects(c)
                  /\ ReadAt(c) = Distribute!Read(view, c)
                  /\ AtEnd(c) <=> Distribute!AtEnd(view, c)
        /\ \A c, d : Equal(c, d) <=> Distribute!Equal(c, d)
        /\ \A p : Element(p) = Distribute!Element(view, p)
    BY DEF Begins, FromBegin, AfterBegin, Size, Common, Bidirectional, SinglePass, RandomAccess,
       LeavesATrace, Copied, Steps, Stepped, AfterStep, NextExpects, ReadExpects,
       ReadAt, AtEnd, Equal, Element
  <1>2. Kept(view) /\ kind \notin OnePass
    BY SameIsKept DEF OnePass
  <1>3. /\ \A v, c, p : Stands(kind, v, c, p) <=> p \in 0 .. v.n /\ DistributeStands(v, c, p)
        /\ Size = view.n
    BY <1>1 DEF Stands, Looks, Places, Distribute!Size
  <1>4. /\ view.from \in Int /\ view.n \in Nat \ {0} /\ view.delta \in {0, 1, 2}
        /\ view.to = view.from + view.delta * (view.n - 1)
    BY <1>0 DEF DistributeSound
  <1>5. /\ view.to \in Int
        /\ \A p \in 0 .. view.n : view.from + view.delta * p \in Int
        /\ \A p \in 0 .. view.n : view.to - view.delta * (view.n - p - 2) = view.from + view.delta * (p + 1)
    <2>1. view.delta = 0 \/ view.delta = 1 \/ view.delta = 2
      BY <1>4
    <2> QED
      BY <1>4, <2>1
  <1>6. FrontIsFirst
    <2>1. view.delta * 0 = 0
      BY <1>4
    <2> QED
      BY <1>1, <1>2, <1>3, <1>4, <2>1 DEF FrontIsFirst, DistributeStands, Distribute!Begin
  <1>7. StepsGoOn
    <2>1. ASSUME NEW c, NEW p, Stands(kind, view, c, p), p < Size
          PROVE  Stands(kind, view, Distribute!Next(view, c), p + 1)
      <3>1. p \in 0 .. view.n /\ p < view.n /\ c.n = view.n - p
        BY <1>3, <2>1 DEF DistributeStands
      <3>2. Distribute!Next(view, c) =
              [n |-> view.n - p - 1,
               from |-> IF view.n - p = 1 THEN view.to ELSE view.from + view.delta * (p + 1)]
        BY <1>5, <3>1 DEF Distribute!Next
      <3>3. /\ view.n - p - 1 = view.n - (p + 1) /\ p + 1 \in 0 .. view.n
            /\ view.n - p = 1 <=> p + 1 = view.n
        BY <1>4, <3>1
      <3> QED
        BY <1>3, <3>2, <3>3 DEF DistributeStands
    <2> QED
      BY <1>1, <1>2, <2>1 DEF StepsGoOn
  <1>8. EndIsLast /\ StepsGoBack /\ JumpsLand /\ TracesAreSound /\ EndsAreLearnt /\ CopiesAreSound
    BY <1>1 DEF EndIsLast, StepsGoBack, JumpsLand, TracesAreSound, EndsAreLearnt, CopiesAreSound
  <1>9. AssertionsHold
    BY <1>1, <1>3, <1>4 DEF AssertionsHold, DistributeStands, Distribute!NextExpects
  <1>10. ReadsArePromised
    BY <1>1, <1>3, <1>4 DEF ReadsArePromised, DistributeStands, Distribute!Read, Distribute!Element
  <1>11. PlacesAreTold
    BY <1>1, <1>3, <1>4 DEF PlacesAreTold, DistributeStands, Distribute!Equal
  <1>12. EndIsTold
    <2>1. \A c, p : Stands(kind, view, c, p) => p \in 0 .. view.n /\ c.n = view.n - p
      BY <1>3 DEF DistributeStands
    <2>2. \A p \in 0 .. view.n : view.n - p = 0 <=> p = view.n
      <3>1. view.n \in Nat
        BY <1>4
      <3> QED
        BY <3>1
    <2>3. \A c, p : Stands(kind, view, c, p) => (c.n = 0 <=> p = view.n)
      BY <2>1, <2>2
    <2> QED
      BY <1>1, <1>3, <2>3 DEF EndIsTold, Distribute!AtEnd
  <1> QED
    BY <1>6, <1>7, <1>8, <1>9, <1>10, <1>11, <1>12 DEF Contract

\* The members of a cache1_view, some of them assigned.
LEMMA Cache1Updates ==
  ASSUME NEW A, NEW B, NEW C, NEW D, NEW v \in [len : A, dirty : B, cache : C, computed : D],
         NEW x \in B, NEW y \in C, NEW z \in D
  PROVE  /\ [v EXCEPT !.dirty = x, !.computed = z] \in [len : A, dirty : B, cache : C, computed : D]
         /\ [v EXCEPT !.cache = y, !.computed = z] \in [len : A, dirty : B, cache : C, computed : D]
         /\ [v EXCEPT !.dirty = x, !.cache = y, !.computed = z]
              \in [len : A, dirty : B, cache : C, computed : D]
  OBVIOUS

\* A cache1_view: the cache is of the element at the iterator, or dirty.
LEMMA Cache1KeepsContract ==
  ASSUME kind = "cache1", Sound(kind, view)
  PROVE  Contract
  <1>0. Cache1Sound(view)
    BY DEF Sound
  <1>1. /\ Begins = {Cache1!Begin(view)} /\ AfterBegin = Cache1!AfterBegin(view)
        /\ Size = Cache1!Size(view)
        /\ ~Common /\ ~Bidirectional /\ ~RandomAccess /\ LeavesATrace
        /\ Copied = [view EXCEPT !.cache = Cache1!Empty, !.computed = 0]
        /\ \A c : /\ Steps(c) = {Cache1!Next(view, c)} /\ AfterStep(c) = Cache1!AfterNext(view, c)
                  /\ AfterRead(c) = Cache1!AfterRead(view, c)
                  /\ NextExpects(c)
                  /\ ReadExpects(c) <=> Cache1!ReadExpects(view, c)
                  /\ ReadAt(c) = Cache1!Read(view, c)
                  /\ AtEnd(c) <=> Cache1!AtEnd(view, c)
        /\ \A p : Element(p) = Cache1!Element(view, p)
    BY DEF Begins, FromBegin, AfterBegin, Size, Common, Bidirectional, SinglePass, RandomAccess,
       LeavesATrace, Copied, Steps, Stepped, AfterStep, AfterRead, NextExpects, ReadExpects,
       ReadAt, AtEnd, Element
  <1>2. kind \in OnePass
    BY DEF OnePass
  <1>3. /\ \A v, c, p : Stands(kind, v, c, p) <=> p \in 0 .. Cache1!Size(v) /\ Cache1Stands(v, c, p)
        /\ \A v : Kept(v) <=> Cache1Sound(v)
    BY <1>2 DEF Stands, Looks, Places, Kept, Sound
  <1>4. view \in [len : Nat, dirty : BOOLEAN, cache : Int, computed : 0 .. 1] /\ Cache1!Empty = -1
    BY <1>0 DEF Cache1Sound, Cache1!Empty
  <1> DEFINE Moved == [view EXCEPT !.dirty = TRUE, !.computed = 0]
  <1>5. /\ Moved \in [len : Nat, dirty : BOOLEAN, cache : Int, computed : 0 .. 1]
        /\ Moved.len = view.len /\ Moved.dirty = TRUE /\ Moved.computed = 0
    <2>1. TRUE \in BOOLEAN /\ 0 \in 0 .. 1
      OBVIOUS
    <2> QED
      BY <1>4, <2>1, Cache1Updates
  <1> HIDE DEF Moved
  <1>6. FrontIsFirst /\ StepsGoOn
    <2>1. AfterBegin = Moved /\ \A c : AfterStep(c) = Moved
      BY <1>1 DEF Moved, Cache1!AfterBegin, Cache1!AfterNext
    <2> QED
      BY <1>1, <1>3, <1>4, <1>5, <2>1
      DEF FrontIsFirst, StepsGoOn, Cache1Sound, Cache1Stands, Cache1!Begin, Cache1!Next, Cache1!Size
  <1>7. TracesAreSound
    <2>1. ASSUME NEW c, NEW p, Stands(kind, view, c, p), p < Size, view.dirty
          PROVE  Kept(AfterRead(c)) /\ Stands(kind, AfterRead(c), c, p)
      <3> DEFINE w == [view EXCEPT !.dirty = FALSE, !.cache = p, !.computed = view.computed + 1]
      <3>1. p \in 0 .. view.len /\ c = [it |-> p] /\ view.computed = 0
        BY <1>3, <2>1 DEF Cache1Stands, Cache1!Size
      <3>2. AfterRead(c) = w
        BY <1>1, <2>1, <3>1 DEF Cache1!AfterRead
      <3>3. w \in [len : Nat, dirty : BOOLEAN, cache : Int, computed : 0 .. 1]
        <4>1. FALSE \in BOOLEAN /\ p \in Int /\ view.computed + 1 \in 0 .. 1
          BY <1>4, <3>1
        <4> QED
          BY <1>4, <4>1, Cache1Updates
      <3>4. w.len = view.len /\ w.dirty = FALSE /\ w.cache = p /\ w.computed = 1
        BY <1>4, <3>1
      <3> QED
        BY <1>3, <3>1, <3>2, <3>3, <3>4 DEF Cache1Sound, Cache1Stands, Cache1!Size
    <2>2. ASSUME NEW c, ~view.dirty
          PROVE  AfterRead(c) = view
      BY <1>1, <2>2 DEF Cache1!AfterRead
    <2> QED
      BY <1>0, <1>3, <2>1, <2>2 DEF TracesAreSound
  <1>8. EndIsLast /\ StepsGoBack /\ JumpsLand /\ EndsAreLearnt
    BY <1>1 DEF EndIsLast, StepsGoBack, JumpsLand, EndsAreLearnt
  <1>9. CopiesAreSound
    <2>1. Cache1!Empty \in Int /\ 0 \in 0 .. 1
      BY DEF Cache1!Empty
    <2> QED
      BY <1>1, <1>4, <2>1, Cache1Updates DEF CopiesAreSound, Sound, Cache1Sound
  <1>10. AssertionsHold
    BY <1>1, <1>3, <1>4 DEF AssertionsHold, Cache1Stands, Cache1!ReadExpects, Cache1!Size
  <1>11. ReadsArePromised
    BY <1>1, <1>3, <1>4 DEF ReadsArePromised, Cache1Stands, Cache1!Read, Cache1!Element
  <1>12. PlacesAreTold
    BY <1>1, <1>2 DEF PlacesAreTold
  <1>13. EndIsTold
    BY <1>1, <1>3, <1>4 DEF EndIsTold, Cache1Stands, Cache1!AtEnd, Cache1!Size
  <1> QED
    BY <1>6, <1>7, <1>8, <1>9, <1>10, <1>11, <1>12, <1>13 DEF Contract

\* A partial_sum or exclusive_scan: the sum is of the elements passed.
LEMMA ScanKeepsContract ==
  ASSUME kind = "scan", Sound(kind, view)
  PROVE  Contract
  <1>0. view \in [len : Nat, exclusive : BOOLEAN]
    BY DEF Sound, ScanSound
  <1>1. /\ Begins = {Scan!Begin(view)} /\ AfterBegin = view
        /\ FromEnd = Scan!End(view) /\ AfterEnd = view
        /\ Size = Scan!Size(view)
        /\ (Common <=> view.exclusive) /\ ~Bidirectional /\ ~RandomAccess /\ ~LeavesATrace /\ Copied = view
        /\ \A c : /\ Steps(c) = {Scan!Next(view, c)} /\ AfterStep(c) = view
                  /\ NextExpects(c) <=> Scan!NextExpects(view, c)
                  /\ ReadExpects(c) <=> Scan!ReadExpects(view, c)
                  /\ ReadAt(c) = Scan!Read(view, c)
                  /\ AtEnd(c) <=> Scan!AtEnd(view, c)
        /\ \A c, d : Equal(c, d) <=> Scan!Equal(c, d)
        /\ \A p : Element(p) = Scan!Element(view, p)
    BY DEF Begins, FromBegin, AfterBegin, FromEnd, AfterEnd, Size, Common, Bidirectional,
       SinglePass, RandomAccess,
       LeavesATrace, Copied, Steps, Stepped, AfterStep, NextExpects, ReadExpects,
       ReadAt, AtEnd, Equal, Element
  <1>2. Kept(view) /\ kind \notin OnePass
    BY SameIsKept DEF OnePass
  <1>3. /\ \A v, c, p : Stands(kind, v, c, p) <=> p \in 0 .. v.len /\ ScanStands(v, c, p)
        /\ Size = view.len
    BY <1>1 DEF Stands, Looks, Places, Scan!Size
  <1>4. FrontIsFirst
    <2>1. /\ <<>> \in Seq(Int) /\ <<0>> \in Seq(Int)
          /\ <<>> = [i \in 1 .. 0 |-> i - 1] /\ <<0>> = [i \in 1 .. 1 |-> i - 1]
      OBVIOUS
    <2> DEFINE c == Scan!Begin(view)
    <2>2. c \in [it : Int, sum : Seq(Int)] /\ c.it = 0
      BY <2>1 DEF Scan!Begin
    <2>3. ASSUME view.len # 0 PROVE c.sum = Scan!Element(view, 0)
      <3>1. CASE view.exclusive
        BY <2>1, <3>1 DEF Scan!Begin, Scan!Element
      <3>2. CASE ~view.exclusive
        BY <2>1, <2>3, <3>2 DEF Scan!Begin, Scan!Element
      <3> QED
        BY <3>1, <3>2
    <2> HIDE DEF c
    <2>4. Stands(kind, view, c, 0)
      BY <1>0, <1>3, <2>2, <2>3 DEF ScanStands
    <2> QED
      BY <1>1, <1>2, <2>4 DEF FrontIsFirst, c
  <1>5. EndIsLast
    <2>1. Scan!End(view) \in [it : Int, sum : Seq(Int)] /\ Scan!End(view).it = view.len
      BY <1>0 DEF Scan!End
    <2> QED
      BY <1>0, <1>1, <1>2, <1>3, <2>1 DEF EndIsLast, ScanStands
  <1>6. StepsGoOn
    <2>1. ASSUME NEW c, NEW p, Stands(kind, view, c, p), p < Size
          PROVE  Stands(kind, view, Scan!Next(view, c), p + 1)
      <3> DEFINE d == Scan!Next(view, c)
                 upto(n) == [i \in 1 .. n |-> i - 1]
      <3>1. /\ p \in 0 .. view.len /\ p < view.len /\ c \in [it : Int, sum : Seq(Int)] /\ c.it = p
            /\ c.sum = Scan!Element(view, p)
        BY <1>0, <1>3, <2>1 DEF ScanStands
      <3>2. \A n \in Nat : Append(upto(n), n) = upto(n + 1)
        OBVIOUS
      <3>3. d \in [it : Int, sum : Seq(Int)] /\ d.it = p + 1
        BY <1>0, <3>1 DEF Scan!Next
      <3>4. ASSUME p + 1 # view.len PROVE d.sum = Scan!Element(view, p + 1)
        <4>1. CASE view.exclusive
          <5>1. d.sum = Append(upto(p), p)
            BY <3>1, <4>1 DEF Scan!Next, Scan!Element
          <5> QED
            BY <3>1, <3>2, <4>1, <5>1 DEF Scan!Element
        <4>2. CASE ~view.exclusive
          <5>1. d.sum = Append(upto(p + 1), p + 1)
            BY <3>1, <3>4, <4>2 DEF Scan!Next, Scan!Element
          <5> QED
            BY <3>1, <3>2, <4>2, <5>1 DEF Scan!Element
        <4> QED
          BY <4>1, <4>2
      <3> QED
        BY <1>0, <1>3, <3>1, <3>3, <3>4 DEF ScanStands
    <2> QED
      BY <1>1, <1>2, <2>1 DEF StepsGoOn
  <1>8. StepsGoBack /\ JumpsLand /\ TracesAreSound /\ EndsAreLearnt /\ CopiesAreSound
    BY <1>1 DEF StepsGoBack, JumpsLand, TracesAreSound, EndsAreLearnt, CopiesAreSound
  <1>9. AssertionsHold
    BY <1>0, <1>1, <1>3 DEF AssertionsHold, ScanStands, Scan!NextExpects, Scan!ReadExpects
  <1>10. ReadsArePromised
    BY <1>0, <1>1, <1>3 DEF ReadsArePromised, ScanStands, Scan!Read
  <1>11. PlacesAreTold
    BY <1>0, <1>1, <1>3 DEF PlacesAreTold, ScanStands, Scan!Equal
  <1>12. EndIsTold
    BY <1>0, <1>1, <1>3 DEF EndIsTold, ScanStands, Scan!AtEnd
  <1> QED
    BY <1>4, <1>5, <1>6, <1>8, <1>9, <1>10, <1>11, <1>12 DEF Contract

\* An iterator of a sample lands where enough is left for what is still to be
\* taken.
LEMMA LandingsAreSound ==
  ASSUME NEW v, NEW c,
         v \in [len : Nat, size : Int, count : Nat, tracked : BOOLEAN],
         c \in [it : Int, left : Int], 0 =< c.it, c.it =< v.len,
         v.tracked => c.left = v.len - c.it,
         v.size =< v.len - c.it
  PROVE  \A d \in Sample!Landings(v, c) :
           /\ d \in [it : Int, left : Int] /\ 0 =< d.it /\ d.it =< v.len
           /\ v.tracked => d.left = v.len - d.it
           /\ v.size =< v.len - d.it
  <1>1. SUFFICES ASSUME NEW d \in Sample!Landings(v, c)
                 PROVE  /\ d \in [it : Int, left : Int] /\ 0 =< d.it /\ d.it =< v.len
                        /\ v.tracked => d.left = v.len - d.it
                        /\ v.size =< v.len - d.it
    OBVIOUS
  <1>2. CASE v.size =< 0
    BY <1>2 DEF Sample!Landings
  <1>3. CASE ~(v.size =< 0)
    <2>1. PICK k \in 0 .. v.len : d = [it |-> c.it + k, left |-> c.left - k]
      BY <1>3 DEF Sample!Landings
    <2>2. Sample!Pop(v, d) > 0 /\ (d = c \/ Sample!Pop(v, d) >= v.size)
      BY <1>3 DEF Sample!Landings
    <2>3. /\ d \in [it : Int, left : Int] /\ d.it = c.it + k /\ d.left = c.left - k
          /\ 0 =< d.it
      BY <2>1
    <2>4. v.tracked => d.left = v.len - d.it
      BY <2>3
    <2>5. Sample!Pop(v, d) = v.len - d.it
      BY <2>3, <2>4 DEF Sample!Pop
    <2> QED
      BY <1>3, <2>2, <2>3, <2>4, <2>5
  <1> QED
    BY <1>2, <1>3

\* A sample_view: enough elements are left for those still to be taken.
LEMMA SampleKeepsContract ==
  ASSUME kind = "sample", Sound(kind, view)
  PROVE  Contract
  <1>0. SampleSound(view)
    BY DEF Sound
  <1>1. /\ (MayBegin <=> Sample!Untouched(view))
        /\ Begins = Sample!Begins(view) /\ AfterBegin = Sample!AfterBegin(view)
        /\ Size = Sample!Size(view)
        /\ ~Common /\ ~Bidirectional /\ ~RandomAccess /\ ~LeavesATrace /\ Copied = view
        /\ \A c : /\ Steps(c) = Sample!Nexts(view, c) /\ AfterStep(c) = Sample!AfterNext(view, c)
                  /\ NextExpects(c) <=> Sample!NextExpects(view, c)
                  /\ ReadExpects(c) <=> Sample!ReadExpects(view, c)
                  /\ AtEnd(c) <=> Sample!AtEnd(view, c)
    BY DEF MayBegin, Begins, AfterBegin, Size, Common, Bidirectional, SinglePass, RandomAccess,
       LeavesATrace, Copied, Steps, AfterStep, NextExpects, ReadExpects, AtEnd
  <1>2. kind \in OnePass
    BY DEF OnePass
  <1>3. /\ \A v, c, p : Stands(kind, v, c, p) <=> p \in 0 .. Sample!Size(v) /\ SampleStands(v, c, p)
        /\ \A v : Kept(v) <=> SampleSound(v)
    BY <1>2 DEF Stands, Looks, Places, Kept, Sound
  <1>4. /\ view \in [len : Nat, size : Int, count : Nat, tracked : BOOLEAN] /\ view.size =< view.count
        /\ Size \in Nat /\ Size =< view.len /\ Size =< view.count
    BY <1>0, <1>1 DEF SampleSound, Sample!Size, Sample!Lesser
  <1>5. FrontIsFirst
    <2>1. SUFFICES ASSUME Sample!Untouched(view)
                   PROVE  Kept(AfterBegin) /\ \A c \in Begins : Stands(kind, AfterBegin, c, 0)
      BY <1>1 DEF FrontIsFirst
    <2> DEFINE w == Sample!AfterBegin(view)
               c == [it |-> 0, left |-> view.len]
    <2>2. /\ w \in [len : Nat, size : Int, count : Nat, tracked : BOOLEAN]
          /\ w.len = view.len /\ w.count = view.count /\ w.size = Sample!Lesser(view.size, view.len)
      BY <1>4 DEF Sample!AfterBegin, Sample!Lesser
    <2>3. w.size = Size /\ Sample!Size(w) = Size
      BY <1>1, <1>4, <2>1, <2>2 DEF Sample!Untouched, Sample!Lesser, Sample!Size
    <2>4. Begins = Sample!Landings(w, c)
      BY <1>1 DEF Sample!Begins
    <2>5. c \in [it : Int, left : Int] /\ c.it = 0 /\ c.left = view.len
      BY <1>4
    <2> HIDE DEF w, c
    <2>6. \A d \in Begins : /\ d \in [it : Int, left : Int] /\ 0 =< d.it /\ d.it =< w.len
                            /\ w.tracked => d.left = w.len - d.it
                            /\ w.size =< w.len - d.it
      BY <1>4, <2>2, <2>3, <2>4, <2>5, LandingsAreSound
    <2>7. Kept(w)
      BY <1>3, <1>4, <2>2, <2>3 DEF SampleSound
    <2>8. \A d \in Begins : Stands(kind, w, d, 0)
      BY <1>3, <1>4, <2>3, <2>6 DEF SampleStands
    <2> QED
      BY <1>1, <2>7, <2>8 DEF w
  <1>6. StepsGoOn
    <2>1. SUFFICES ASSUME NEW c, NEW p, Stands(kind, view, c, p), p < Size
                   PROVE  Kept(AfterStep(c)) /\ \A d \in Steps(c) : Stands(kind, AfterStep(c), d, p + 1)
      BY DEF StepsGoOn
    <2> DEFINE w == Sample!AfterNext(view, c)
               b == Sample!Step(c)
    <2>2. /\ p \in Int /\ 0 =< p /\ c \in [it : Int, left : Int] /\ 0 =< c.it /\ c.it =< view.len
          /\ view.tracked => c.left = view.len - c.it
          /\ view.size = Size - p
          /\ view.size =< view.len - c.it
      BY <1>1, <1>3, <1>4, <2>1 DEF SampleStands
    <2>3. /\ w \in [len : Nat, size : Int, count : Nat, tracked : BOOLEAN]
          /\ w.len = view.len /\ w.count = view.count /\ w.tracked = view.tracked /\ w.size = view.size - 1
      BY <1>4 DEF Sample!AfterNext
    <2>4. b \in [it : Int, left : Int] /\ b.it = c.it + 1 /\ b.left = c.left - 1
      BY <2>2 DEF Sample!Step
    <2>5. Steps(c) = Sample!Landings(w, b) /\ AfterStep(c) = w
      BY <1>1 DEF Sample!Nexts
    <2> HIDE DEF w, b
    <2>6. b.it =< w.len /\ 0 =< b.it /\ w.size =< w.len - b.it /\ (w.tracked => b.left = w.len - b.it)
      BY <1>4, <2>1, <2>2, <2>3, <2>4
    <2>7. \A d \in Steps(c) : /\ d \in [it : Int, left : Int] /\ 0 =< d.it /\ d.it =< w.len
                              /\ w.tracked => d.left = w.len - d.it
                              /\ w.size =< w.len - d.it
      BY <2>3, <2>4, <2>5, <2>6, LandingsAreSound
    <2>8. Sample!Size(w) = Size
      BY <1>1, <2>3 DEF Sample!Size
    <2>9. Kept(w)
      BY <1>3, <1>4, <2>3 DEF SampleSound
    <2>10. \A d \in Steps(c) : Stands(kind, w, d, p + 1)
      BY <1>3, <1>4, <2>1, <2>2, <2>3, <2>7, <2>8 DEF SampleStands
    <2> QED
      BY <2>5, <2>9, <2>10
  <1>7. EndIsLast /\ StepsGoBack /\ JumpsLand /\ TracesAreSound /\ EndsAreLearnt /\ CopiesAreSound
    BY <1>1 DEF EndIsLast, StepsGoBack, JumpsLand, TracesAreSound, EndsAreLearnt, CopiesAreSound
  <1>8. AssertionsHold
    <2>1. SUFFICES ASSUME NEW c, NEW p, Stands(kind, view, c, p), p < Size
                   PROVE  Sample!NextExpects(view, c) /\ Sample!ReadExpects(view, c)
      BY <1>1 DEF AssertionsHold
    <2>2. /\ p \in Int /\ 0 =< p /\ c \in [it : Int, left : Int] /\ 0 =< c.it /\ c.it =< view.len
          /\ view.tracked => c.left = view.len - c.it
          /\ view.size = Size - p
          /\ view.size =< view.len - c.it
      BY <1>1, <1>3, <1>4, <2>1 DEF SampleStands
    <2>3. Sample!Pop(view, c) = view.len - c.it /\ Sample!Pop(view, Sample!Step(c)) = view.len - c.it - 1
      BY <1>4, <2>2 DEF Sample!Pop, Sample!Step
    <2> QED
      BY <1>4, <2>1, <2>2, <2>3 DEF Sample!NextExpects, Sample!ReadExpects
  <1>9. ReadsArePromised
    BY DEF ReadsArePromised
  <1>10. PlacesAreTold
    BY <1>1, <1>2 DEF PlacesAreTold
  <1>11. EndIsTold
    BY <1>1, <1>3, <1>4 DEF EndIsTold, SampleStands, Sample!AtEnd
  <1> QED
    BY <1>5, <1>6, <1>7, <1>8, <1>9, <1>10, <1>11 DEF Contract

\* A zip_view: all iterators are at one place, or behind the end of their ranges.
LEMMA ZipKeepsContract ==
  ASSUME kind = "zip", Known = {}, Sound(kind, view)
  PROVE  Contract
  <1>0. view.lens \in [1 .. 2 -> Nat]
    BY DEF Sound, ZipSound
  <1>1. /\ Begins = {Zip!Begin(view)} /\ AfterBegin = view
        /\ FromEnd = Zip!End(view) /\ AfterEnd = view
        /\ Size = Zip!Size(view)
        /\ ~LeavesATrace /\ Copied = view
        /\ \A c : /\ Steps(c) = {Zip!Next(view, c)} /\ AfterStep(c) = view
                  /\ MayGoBack(c) <=> ~Zip!Ragged(view, c)
                  /\ SteppedBack(c) = Zip!Prev(view, c)
                  /\ NextExpects(c) /\ PrevExpects(c)
                  /\ ReadExpects(c) <=> Zip!ReadExpects(view, c)
                  /\ ReadAt(c) = Zip!Read(view, c)
                  /\ AtEnd(c) <=> Zip!Equal(c, Zip!End(view))
        /\ \A c, n : /\ Advanced(c, n) = Zip!Advance(view, c, n) /\ AfterAdvance(c, n) = view
                     /\ MayAdvance(c, n) => (n < 0 => MayGoBack(c))
                     /\ AdvanceExpects(c, n)
        /\ \A c, d : /\ Difference(c, d) = Zip!Distance(view, c, d)
                     /\ Equal(c, d) <=> Zip!Equal(c, d)
        /\ \A p : Element(p) = Zip!Element(view, p)
    BY DEF Begins, FromBegin, AfterBegin, FromEnd, AfterEnd, Size, SinglePass,
       LeavesATrace, Copied, Steps, Stepped, AfterStep, MayGoBack, SteppedBack, NextExpects, ReadExpects, PrevExpects,
       ReadAt, AtEnd, Advanced, AfterAdvance, MayAdvance, AdvanceExpects, Difference, Equal, Element
  <1>2. Kept(view) /\ kind \notin OnePass
    BY SameIsKept DEF OnePass
  <1>3. \A c, p : Stands(kind, view, c, p) <=> p \in 0 .. Size /\ ZipStands(view, c, p)
    BY <1>1 DEF Stands, Looks, Places
  <1> DEFINE a == view.lens[1]
             b == view.lens[2]
  <1>4. /\ a \in Nat /\ b \in Nat /\ Zip!Zipped = 2 /\ 1 .. 2 = {1, 2}
        /\ Size \in Nat /\ Size = IF a =< b THEN a ELSE b
    <2>1. { view.lens[k] : k \in 1 .. 2 } = {a, b} /\ a \in Nat /\ b \in Nat
      BY <1>0
    <2> HIDE DEF a, b
    <2>2. Zip!Min({a, b}) = IF a =< b THEN a ELSE b
      BY <2>1, LeastOfTwo
    <2> QED
      BY <1>1, <2>1, <2>2 DEF Zip!Size, Zip!Zipped
  \* what stands at a place, one range at a time
  <1>5. \A c, p : Stands(kind, view, c, p) =>
          /\ p \in Int /\ 0 =< p /\ p =< Size /\ c \in [1 .. 2 -> Int] /\ c[1] \in Int /\ c[2] \in Int
          /\ \/ c[1] = p /\ c[2] = p
             \/ p = Size /\ c[1] = a /\ c[2] = b
    BY <1>1, <1>3, <1>4 DEF ZipStands
  <1>6. \A c \in [1 .. 2 -> Int], p \in 0 .. Size :
          (c[1] = p /\ c[2] = p) \/ (p = Size /\ c[1] = a /\ c[2] = b) => Stands(kind, view, c, p)
    <2>1. SUFFICES ASSUME NEW c \in [1 .. 2 -> Int], NEW p \in 0 .. Size,
                          (c[1] = p /\ c[2] = p) \/ (p = Size /\ c[1] = a /\ c[2] = b)
                   PROVE  c = [k \in 1 .. 2 |-> p] \/ (p = Size /\ c = view.lens)
      BY <1>1, <1>3 DEF ZipStands
    <2>2. c = [k \in 1 .. 2 |-> c[k]] /\ view.lens = [k \in 1 .. 2 |-> view.lens[k]]
      BY <1>0
    <2>3. CASE c[1] = p /\ c[2] = p
      BY <1>4, <2>2, <2>3
    <2>4. CASE p = Size /\ c[1] = a /\ c[2] = b
      BY <1>4, <2>2, <2>4
    <2> QED
      BY <2>1, <2>3, <2>4
  <1>7. FrontIsFirst /\ EndIsLast
    <2>1. /\ Zip!Begin(view) \in [1 .. 2 -> Int] /\ Zip!Begin(view)[1] = 0 /\ Zip!Begin(view)[2] = 0
          /\ Zip!End(view) \in [1 .. 2 -> Int] /\ Zip!End(view)[1] = a /\ Zip!End(view)[2] = b
      BY <1>0, <1>4 DEF Zip!Begin, Zip!End
    <2> QED
      BY <1>1, <1>2, <1>4, <1>6, <2>1 DEF FrontIsFirst, EndIsLast
  <1>8. \A c \in [1 .. 2 -> Int], n \in Int :
          /\ Zip!Advance(view, c, n) \in [1 .. 2 -> Int]
          /\ Zip!Advance(view, c, n)[1] = c[1] + n /\ Zip!Advance(view, c, n)[2] = c[2] + n
    BY <1>4 DEF Zip!Advance
  <1>9. \A c \in [1 .. 2 -> Int] : Zip!Next(view, c) = Zip!Advance(view, c, 1)
    BY <1>4 DEF Zip!Next, Zip!Advance
  <1>10. \A c \in [1 .. 2 -> Int] :
           /\ Zip!Prev(view, c) \in [1 .. 2 -> Int]
           /\ Zip!Prev(view, c)[1] = c[1] - 1 /\ Zip!Prev(view, c)[2] = c[2] - 1
    BY <1>4 DEF Zip!Prev
  <1> HIDE DEF a, b
  <1>11. StepsGoOn
    <2>1. ASSUME NEW c, NEW p, Stands(kind, view, c, p), p < Size
          PROVE  Stands(kind, view, Zip!Next(view, c), p + 1)
      <3>1. p \in Int /\ p + 1 \in 0 .. Size /\ c \in [1 .. 2 -> Int] /\ c[1] = p /\ c[2] = p
        BY <1>4, <1>5, <2>1
      <3> QED
        BY <1>6, <1>8, <1>9, <3>1
    <2> QED
      BY <1>1, <1>2, <2>1 DEF StepsGoOn
  <1>12. StepsGoBack
    BY <1>1, <1>4, <1>5, <1>6, <1>10 DEF StepsGoBack, Zip!Ragged
  <1>13. JumpsLand
    <2>1. ASSUME NEW c, NEW p, NEW n \in Int, Stands(kind, view, c, p), p + n \in 0 .. Size,
                 n < 0 => c[1] = c[2]
          PROVE  Stands(kind, view, Zip!Advance(view, c, n), p + n)
      <3>1. /\ p \in Int /\ 0 =< p /\ p =< Size /\ c \in [1 .. 2 -> Int] /\ c[1] \in Int /\ c[2] \in Int
            /\ (c[1] = p /\ c[2] = p) \/ (p = Size /\ c[1] = a /\ c[2] = b)
        BY <1>5, <2>1
      <3>2. \/ c[1] + n = p + n /\ c[2] + n = p + n
            \/ p + n = Size /\ c[1] + n = a /\ c[2] + n = b
        BY <1>4, <2>1, <3>1
      <3> QED
        BY <1>6, <1>8, <2>1, <3>1, <3>2
    <2> QED
      BY <1>1, <1>2, <2>1 DEF JumpsLand, Zip!Ragged
  <1>14. TracesAreSound /\ EndsAreLearnt /\ CopiesAreSound
    BY <1>1 DEF TracesAreSound, EndsAreLearnt, CopiesAreSound
  <1>15. AssertionsHold
    <2>1. \A c, p : Stands(kind, view, c, p) /\ p < Size => c[1] \in 0 .. a - 1 /\ c[2] \in 0 .. b - 1
      BY <1>4, <1>5
    <2>2. \A c : c[1] \in 0 .. a - 1 /\ c[2] \in 0 .. b - 1 => Zip!ReadExpects(view, c)
      BY <1>4 DEF Zip!ReadExpects, a, b
    <2> QED
      BY <1>1, <2>1, <2>2 DEF AssertionsHold
  <1>16. ReadsArePromised
    <2>1. \A c, p : Stands(kind, view, c, p) /\ p < Size => c = [k \in 1 .. 2 |-> p]
      <3>1. SUFFICES ASSUME NEW c, NEW p, Stands(kind, view, c, p), p < Size
                     PROVE  c = [k \in 1 .. 2 |-> p]
        OBVIOUS
      <3>2. p # Size
        BY <1>4, <1>5, <3>1
      <3> QED
        BY <1>1, <1>3, <3>1, <3>2 DEF ZipStands
    <2> QED
      BY <1>1, <1>4, <2>1 DEF ReadsArePromised, Zip!Read, Zip!Element
  <1>17. \A c, d, p, q : Stands(kind, view, c, p) /\ Stands(kind, view, d, q) =>
           Zip!Distance(view, c, d) = q - p
    <2>1. SUFFICES ASSUME NEW c, NEW d, NEW p, NEW q, Stands(kind, view, c, p), Stands(kind, view, d, q)
                   PROVE  Zip!Distance(view, c, d) = q - p
      OBVIOUS
    <2> DEFINE x == d[1] - c[1]
               y == d[2] - c[2]
    <2>2. x \in Int /\ y \in Int /\ { d[k] - c[k] : k \in 1 .. 2 } = {x, y}
      BY <1>4, <1>5, <2>1
    <2>3. Zip!Distance(view, c, d) =
            IF d[1] = c[1] THEN 0 ELSE IF d[1] > c[1] THEN Zip!Min({x, y}) ELSE Zip!Max({x, y})
      BY <1>4, <2>2 DEF Zip!Distance
    <2>4. /\ Zip!Min({x, y}) = IF x =< y THEN x ELSE y
          /\ Zip!Max({x, y}) = IF x =< y THEN y ELSE x
      BY <2>2, LeastOfTwo
    <2> QED
      BY <1>4, <1>5, <2>1, <2>3, <2>4
  <1>18. PlacesAreTold
    <2>1. \A c, d : Zip!Equal(c, d) <=> c[1] = d[1] \/ c[2] = d[2]
      BY <1>4 DEF Zip!Equal
    <2>2. \A c, d, p, q : Stands(kind, view, c, p) /\ Stands(kind, view, d, q) => (Zip!Equal(c, d) <=> p = q)
      BY <1>4, <1>5, <2>1
    <2> QED
      BY <1>1, <1>17, <2>2 DEF PlacesAreTold
  <1>19. EndIsTold
    <2>1. \A c : Zip!Equal(c, Zip!End(view)) <=> c[1] = a \/ c[2] = b
      BY <1>4 DEF Zip!Equal, Zip!End, a, b
    <2> QED
      BY <1>1, <1>4, <1>5, <2>1 DEF EndIsTold
  <1> QED
    BY <1>7, <1>11, <1>12, <1>13, <1>14, <1>15, <1>16, <1>18, <1>19 DEF Contract

\* An intersperse_view: two places for each element, the value before each but
\* the first.
LEMMA IntersperseKeepsContract ==
  ASSUME kind = "intersperse", Sound(kind, view)
  PROVE  Contract
  <1>0. view.len \in Nat
    BY DEF Sound, IntersperseSound
  <1>1. /\ Begins = {Intersperse!Begin(view)} /\ AfterBegin = view
        /\ FromEnd = Intersperse!End(view) /\ AfterEnd = view
        /\ Size = Intersperse!Size(view)
        /\ ~LeavesATrace /\ Copied = view
        /\ \A c : /\ Steps(c) = {Intersperse!Next(view, c)} /\ AfterStep(c) = view
                  /\ SteppedBack(c) = Intersperse!Prev(view, c)
                  /\ NextExpects(c) /\ PrevExpects(c)
                  /\ ReadExpects(c) <=> Intersperse!ReadExpects(view, c)
                  /\ ReadAt(c) = Intersperse!Read(view, c)
                  /\ AtEnd(c) <=> Intersperse!AtEnd(view, c)
        /\ \A c, n : /\ Advanced(c, n) = Intersperse!Advance(view, c, n) /\ AfterAdvance(c, n) = view
                     /\ AdvanceExpects(c, n)
        /\ \A c, d : /\ Difference(c, d) = Intersperse!Distance(view, c, d)
                     /\ Equal(c, d) <=> Intersperse!Equal(c, d)
        /\ \A p : Element(p) = Intersperse!Element(view, p)
    BY DEF Begins, FromBegin, AfterBegin, FromEnd, AfterEnd, Size, SinglePass,
       LeavesATrace, Copied, Steps, Stepped, AfterStep, SteppedBack, NextExpects, ReadExpects, PrevExpects,
       ReadAt, AtEnd, Advanced, AfterAdvance, AdvanceExpects, Difference, Equal, Element
  <1>2. Kept(view) /\ kind \notin OnePass
    BY SameIsKept DEF OnePass
  <1>3. \A c, p : Stands(kind, view, c, p) <=> p \in 0 .. Size /\ IntersperseStands(view, c, p)
    BY <1>1 DEF Stands, Looks, Places
  <1>4. /\ Size \in Nat
        /\ view.len = 0 => Size = 0
        /\ view.len # 0 => Size = 2 * view.len - 1
    BY <1>0, <1>1 DEF Intersperse!Size
  <1>5. /\ \A i \in Int, p \in 0 .. Size : view.len # 0 /\ p = 2 * i =>
             Stands(kind, view, [it |-> i, toggle |-> TRUE], p)
        /\ \A i \in Int, p \in 0 .. Size : (IF view.len = 0 THEN i = 0 ELSE p = 2 * i - 1) =>
             Stands(kind, view, [it |-> i, toggle |-> FALSE], p)
    <2>1. \A i \in Int, b \in BOOLEAN : [it |-> i, toggle |-> b] \in [it : Int, toggle : BOOLEAN]
      OBVIOUS
    <2>2. ASSUME NEW i \in Int, NEW p \in 0 .. Size
          PROVE  /\ view.len # 0 /\ p = 2 * i => IntersperseStands(view, [it |-> i, toggle |-> TRUE], p)
                 /\ (IF view.len = 0 THEN i = 0 ELSE p = 2 * i - 1) =>
                      IntersperseStands(view, [it |-> i, toggle |-> FALSE], p)
      BY <1>4, <2>1 DEF IntersperseStands
    <2> QED
      BY <1>3, <2>2
  <1>6. FrontIsFirst /\ EndIsLast
    <2>1. CASE view.len = 0
      <3>1. (view.len # 0) = FALSE
        BY <2>1
      <3>2. Intersperse!Begin(view) = [it |-> 0, toggle |-> FALSE] /\ Intersperse!End(view) = [it |-> 0, toggle |-> FALSE]
        BY <2>1, <3>1 DEF Intersperse!Begin, Intersperse!End
      <3> QED
        BY <1>1, <1>2, <1>4, <1>5, <2>1, <3>2 DEF FrontIsFirst, EndIsLast
    <2>2. CASE view.len # 0
      <3>1. (view.len # 0) = TRUE
        BY <2>2
      <3>2. /\ Intersperse!Begin(view) = [it |-> 0, toggle |-> TRUE]
            /\ Intersperse!End(view) = [it |-> view.len, toggle |-> FALSE]
        BY <2>2, <3>1 DEF Intersperse!Begin, Intersperse!End
      <3>3. Stands(kind, view, [it |-> 0, toggle |-> TRUE], 0)
        BY <1>4, <1>5, <2>2
      <3>4. Stands(kind, view, [it |-> view.len, toggle |-> FALSE], Size)
        BY <1>0, <1>4, <1>5, <2>2
      <3> QED
        BY <1>1, <1>2, <3>2, <3>3, <3>4 DEF FrontIsFirst, EndIsLast
    <2> QED
      BY <2>1, <2>2
  <1>7. \A c, p : Stands(kind, view, c, p) =>
          /\ p \in Int /\ 0 =< p /\ p =< Size
          /\ c \in [it : Int, toggle : BOOLEAN] /\ c.it \in Int /\ c.toggle \in BOOLEAN
          /\ view.len = 0 => c.it = 0 /\ ~c.toggle /\ p = 0
          /\ view.len # 0 => p = 2 * c.it - (IF c.toggle THEN 0 ELSE 1)
    BY <1>3, <1>4 DEF IntersperseStands
  <1>8. StepsGoOn /\ StepsGoBack
    <2>1. ASSUME NEW c, NEW p, Stands(kind, view, c, p), c.toggle = TRUE
          PROVE  /\ p < Size => Stands(kind, view, Intersperse!Next(view, c), p + 1)
                 /\ p > 0 => Stands(kind, view, Intersperse!Prev(view, c), p - 1)
      <3>1. /\ Intersperse!Next(view, c) = [it |-> c.it + 1, toggle |-> FALSE]
            /\ Intersperse!Prev(view, c) = [it |-> c.it - 0, toggle |-> FALSE]
        BY <1>7, <2>1 DEF Intersperse!Next, Intersperse!Prev, Intersperse!Bit
      <3> QED
        BY <1>0, <1>4, <1>5, <1>7, <2>1, <3>1
    <2>2. ASSUME NEW c, NEW p, Stands(kind, view, c, p), c.toggle = FALSE
          PROVE  /\ p < Size => Stands(kind, view, Intersperse!Next(view, c), p + 1)
                 /\ p > 0 => Stands(kind, view, Intersperse!Prev(view, c), p - 1)
      <3>1. /\ Intersperse!Next(view, c) = [it |-> c.it + 0, toggle |-> TRUE]
            /\ Intersperse!Prev(view, c) = [it |-> c.it - 1, toggle |-> TRUE]
        BY <1>7, <2>2 DEF Intersperse!Next, Intersperse!Prev, Intersperse!Bit
      <3> QED
        BY <1>0, <1>4, <1>5, <1>7, <2>2, <3>1
    <2>3. \A c, p : Stands(kind, view, c, p) => c.toggle = TRUE \/ c.toggle = FALSE
      BY <1>7
    <2> QED
      BY <1>1, <1>2, <2>1, <2>2, <2>3 DEF StepsGoOn, StepsGoBack
  <1>9. JumpsLand
    <2>1. ASSUME NEW c, NEW p, NEW n \in Int, Stands(kind, view, c, p), p + n \in 0 .. Size
          PROVE  Stands(kind, view, Intersperse!Advance(view, c, n), p + n)
      <3> DEFINE d == Intersperse!Advance(view, c, n)
                 m == IF n >= 0 THEN n + (IF c.toggle THEN 1 ELSE 0) ELSE n - (IF c.toggle THEN 0 ELSE 1)
      <3>1. /\ p \in Int /\ c \in [it : Int, toggle : BOOLEAN] /\ c.it \in Int /\ c.toggle \in BOOLEAN
            /\ view.len = 0 => c.it = 0 /\ ~c.toggle /\ p = 0 /\ n = 0
            /\ view.len # 0 => p = 2 * c.it - (IF c.toggle THEN 0 ELSE 1)
        BY <1>4, <1>7, <2>1
      <3>2. /\ d = [it |-> d.it, toggle |-> d.toggle]
            /\ d.it = c.it + Intersperse!Div(m, 2)
            /\ d.toggle = IF Intersperse!Mod(n, 2) # 0 THEN ~c.toggle ELSE c.toggle
        BY <3>1 DEF Intersperse!Advance, Intersperse!Bit
      <3>3. m \in Int
        BY <3>1
      <3>4. /\ Intersperse!Mod(n, 2) = 0 => \E k \in Int : n = 2 * k
            /\ Intersperse!Mod(n, 2) # 0 => \E k \in Int : n = 2 * k + 1
        BY DEF Intersperse!Mod, Intersperse!Div
      <3>5. /\ Intersperse!Div(m, 2) \in Int
            /\ m >= 0 => 2 * Intersperse!Div(m, 2) =< m /\ m < 2 * Intersperse!Div(m, 2) + 2
            /\ m =< 0 => m =< 2 * Intersperse!Div(m, 2) /\ 2 * Intersperse!Div(m, 2) - 2 < m
        <4> HIDE DEF m
        <4> QED
          BY <3>3 DEF Intersperse!Div
      <3> DEFINE h == Intersperse!Div(m, 2)
      <3> HIDE DEF h
      <3>6. h \in Int /\ (m >= 0 => 2 * h =< m /\ m < 2 * h + 2) /\ (m =< 0 => m =< 2 * h /\ 2 * h - 2 < m)
        BY <3>5 DEF h
      <3>7. d.it = c.it + h
        BY <3>2 DEF h
      <3> HIDE DEF d
      <3>8. view.len = 0 => d.it = 0 /\ ~d.toggle
        BY <3>1, <3>2, <3>4, <3>6, <3>7
      <3>9. view.len # 0 => p + n = 2 * d.it - (IF d.toggle THEN 0 ELSE 1)
        <4>1. CASE Intersperse!Mod(n, 2) = 0
          <5>1. PICK k \in Int : n = 2 * k
            BY <3>4, <4>1
          <5>2. h = k
            BY <3>1, <3>6, <5>1
          <5> QED
            BY <3>1, <3>2, <3>7, <4>1, <5>1, <5>2
        <4>2. CASE Intersperse!Mod(n, 2) # 0
          <5>1. PICK k \in Int : n = 2 * k + 1
            BY <3>4, <4>2
          <5>2. h = IF c.toggle THEN k + 1 ELSE k
            BY <3>1, <3>6, <5>1
          <5>3. d.toggle = ~c.toggle
            BY <3>2, <4>2
          <5>4. CASE c.toggle = TRUE
            <6>1. d.toggle = FALSE
              BY <5>3, <5>4
            <6> QED
              <7>1. c.it \in Int /\ h = k + 1 /\ (view.len # 0 => p = 2 * c.it)
                BY <3>1, <5>2, <5>4
              <7>2. view.len # 0 => p + n = 2 * (c.it + h) - 1
                BY <5>1, <7>1
              <7> QED
                BY <3>7, <6>1, <7>2
          <5>5. CASE c.toggle = FALSE
            <6>1. d.toggle = TRUE
              BY <5>3, <5>5
            <6> QED
              BY <3>1, <3>7, <5>1, <5>2, <5>5, <6>1
          <5> QED
            BY <3>1, <5>4, <5>5
        <4> QED
          BY <4>1, <4>2
      <3>10. d.it \in Int /\ d.toggle \in BOOLEAN
        <4>1. d.it \in Int
          BY <3>1, <3>6, <3>7
        <4>2. d.toggle \in BOOLEAN
          <5>1. (~c.toggle) \in BOOLEAN
            OBVIOUS
          <5> QED
            BY <3>1, <3>2, <5>1
        <4> QED
          BY <4>1, <4>2
      <3> QED
        BY <1>5, <2>1, <3>2, <3>8, <3>9, <3>10 DEF d
    <2> QED
      BY <1>1, <1>2, <2>1 DEF JumpsLand
  <1>10. TracesAreSound /\ EndsAreLearnt /\ CopiesAreSound
    BY <1>1 DEF TracesAreSound, EndsAreLearnt, CopiesAreSound
  <1>11. AssertionsHold
    <2>1. \A c, p : Stands(kind, view, c, p) /\ p < Size => Intersperse!ReadExpects(view, c)
      BY <1>0, <1>3, <1>4 DEF IntersperseStands, Intersperse!ReadExpects
    <2> QED
      BY <1>1, <2>1 DEF AssertionsHold
  <1>12. ReadsArePromised
    <2>1. \A c, p : Stands(kind, view, c, p) /\ p < Size =>
            Intersperse!Read(view, c) = Intersperse!Element(view, p)
      <3>1. SUFFICES ASSUME NEW c, NEW p, Stands(kind, view, c, p), p < Size
                     PROVE  Intersperse!Read(view, c) = Intersperse!Element(view, p)
        OBVIOUS
      <3>2. p \in Nat /\ c.it \in Int /\ c.toggle \in BOOLEAN /\ p = 2 * c.it - (IF c.toggle THEN 0 ELSE 1)
        BY <1>0, <1>3, <1>4, <3>1 DEF IntersperseStands
      <3>3. CASE c.toggle
        <4>1. p % 2 = 0 /\ p \div 2 = c.it
          BY <3>2, <3>3
        <4> QED
          BY <3>3, <4>1 DEF Intersperse!Read, Intersperse!Element
      <3>4. CASE ~c.toggle
        <4>1. p % 2 = 1
          BY <3>2, <3>4
        <4> QED
          BY <3>4, <4>1 DEF Intersperse!Read, Intersperse!Element
      <3> QED
        BY <3>3, <3>4
    <2> QED
      BY <1>1, <2>1 DEF ReadsArePromised
  <1>13. PlacesAreTold
    <2>1. \A c, d, p, q : Stands(kind, view, c, p) /\ Stands(kind, view, d, q) =>
            Intersperse!Distance(view, c, d) = q - p
      BY <1>0, <1>3, <1>4 DEF IntersperseStands, Intersperse!Distance, Intersperse!Bit
    <2>2. \A c, d \in [it : Int, toggle : BOOLEAN] : c.it = d.it /\ c.toggle = d.toggle => c = d
      OBVIOUS
    <2>3. \A c, d, p, q : Stands(kind, view, c, p) /\ Stands(kind, view, d, q) =>
            (Intersperse!Equal(c, d) <=> p = q)
      <3>1. SUFFICES ASSUME NEW c, NEW d, NEW p, NEW q, Stands(kind, view, c, p), Stands(kind, view, d, q)
                     PROVE  c = d <=> p = q
        BY DEF Intersperse!Equal
      <3>2. /\ p \in Int /\ q \in Int /\ c \in [it : Int, toggle : BOOLEAN] /\ d \in [it : Int, toggle : BOOLEAN]
            /\ view.len = 0 => c.it = 0 /\ ~c.toggle /\ p = 0 /\ d.it = 0 /\ ~d.toggle /\ q = 0
            /\ view.len # 0 => /\ p = 2 * c.it - (IF c.toggle THEN 0 ELSE 1)
                               /\ q = 2 * d.it - (IF d.toggle THEN 0 ELSE 1)
        BY <1>3, <1>4, <3>1 DEF IntersperseStands
      <3>3. p = q => c.it = d.it /\ c.toggle = d.toggle
        BY <3>2
      <3>4. c = d => p = q
        BY <3>2
      <3> QED
        BY <2>2, <3>2, <3>3, <3>4
    <2> QED
      BY <1>1, <2>1, <2>3 DEF PlacesAreTold
  <1>14. EndIsTold
    <2>1. \A c, p : Stands(kind, view, c, p) => (Intersperse!AtEnd(view, c) <=> p = Size)
      BY <1>0, <1>3, <1>4 DEF IntersperseStands, Intersperse!AtEnd
    <2> QED
      BY <1>1, <2>1 DEF EndIsTold
  <1> QED
    BY <1>6, <1>8, <1>9, <1>10, <1>11, <1>12, <1>13, <1>14 DEF Contract

\* A closed_iota_view: the last value is reached twice, done or not.
LEMMA ClosedIotaKeepsContract ==
  ASSUME kind = "closed_iota", Sound(kind, view)
  PROVE  Contract
  <1>0. view \in ClosedIota!Ranges
    BY DEF Sound, ClosedIotaSound
  <1>1. /\ Begins = {ClosedIota!Begin(view)} /\ AfterBegin = view
        /\ FromEnd = ClosedIota!End(view) /\ AfterEnd = view
        /\ Size = ClosedIota!Size(view)
        /\ ~LeavesATrace /\ Copied = view
        /\ \A c : /\ Steps(c) = {ClosedIota!Next(view, c)} /\ AfterStep(c) = view
                  /\ SteppedBack(c) = ClosedIota!Prev(view, c)
                  /\ NextExpects(c) <=> ClosedIota!NextExpects(view, c)
                  /\ PrevExpects(c)
                  /\ ReadExpects(c) <=> ClosedIota!ReadExpects(view, c)
                  /\ ReadAt(c) = ClosedIota!Read(view, c)
                  /\ AtEnd(c) <=> ClosedIota!AtEnd(view, c)
        /\ \A c, n : /\ Advanced(c, n) = ClosedIota!Advance(view, c, n) /\ AfterAdvance(c, n) = view
                     /\ AdvanceExpects(c, n) <=> ClosedIota!AdvanceExpects(view, c, n)
        /\ \A c, d : /\ Difference(c, d) = ClosedIota!Distance(view, c, d)
                     /\ Equal(c, d) <=> ClosedIota!Equal(c, d)
        /\ \A p : Element(p) = ClosedIota!Element(view, p)
    BY DEF Begins, FromBegin, AfterBegin, FromEnd, AfterEnd, Size, SinglePass,
       LeavesATrace, Copied, Steps, Stepped, AfterStep, SteppedBack, NextExpects, ReadExpects, PrevExpects,
       ReadAt, AtEnd, Advanced, AfterAdvance, AdvanceExpects, Difference, Equal, Element
  <1>2. Kept(view) /\ kind \notin OnePass
    BY SameIsKept DEF OnePass
  <1>3. \A c, p : Stands(kind, view, c, p) <=> p \in 0 .. Size /\ c = ClosedIota!At(view, p)
    BY <1>1 DEF Stands, Looks, Places, ClosedIotaStands
  <1>4. Values \in Nat \ {0, 1}
    BY ValuesAreTwo
  <1>5. ClosedIota!Size(view) \in Int
    BY <1>0 DEF ClosedIota!Ranges, ClosedIota!Size
  <1>6. 0 < Size /\ Size \in Int /\ view.from \in Int /\ Size = view.to - view.from + 1 /\ 0 \in 0 .. Size
        /\ \A p \in 0 .. Size : /\ (ClosedIota!At(view, p).done <=> p = Size)
                                /\ p # Size => ClosedIota!At(view, p).from = view.from + p
    <2>1. view.from \in Int /\ 0 < Size /\ Size \in Int /\ Size = view.to - view.from + 1 /\ 0 \in 0 .. Size
      BY <1>0, <1>1 DEF ClosedIota!Ranges, ClosedIota!Size
    <2>2. ASSUME NEW p \in 0 .. Size
          PROVE  /\ ClosedIota!At(view, p).done <=> p = Size
                 /\ ClosedIota!At(view, p).from = IF p = Size THEN view.to ELSE view.from + p
      <3>1. p \in 0 .. ClosedIota!Size(view) /\ Size = ClosedIota!Size(view)
        BY <1>1
      <3> QED
        BY <1>0, <1>4, <3>1, IotaPlaces
    <2> QED
      BY <2>1, <2>2
  <1>7. FrontIsFirst
    <2>1. ClosedIota!At(view, 0) = ClosedIota!Begin(view)
      <3>1. ClosedIota!At(view, 0) = [from |-> view.from + 0, done |-> FALSE]
        BY <1>1, <1>6 DEF ClosedIota!At
      <3> QED
        BY <1>6, <3>1 DEF ClosedIota!Begin
    <2> QED
      BY <1>1, <1>2, <1>3, <1>6, <2>1 DEF FrontIsFirst
  <1>8. EndIsLast
    <2>1. ClosedIota!At(view, Size) = ClosedIota!End(view)
      BY <1>1 DEF ClosedIota!At
    <2> QED
      BY <1>1, <1>2, <1>3, <1>5, <1>6, <2>1 DEF EndIsLast
  \* where single steps and jumps lead is told by the theorems above
  <1>9. \A p, q \in 0 .. Size :
          /\ p # Size => ClosedIota!Next(view, ClosedIota!At(view, p)) = ClosedIota!At(view, p + 1)
          /\ p # 0 => ClosedIota!Prev(view, ClosedIota!At(view, p)) = ClosedIota!At(view, p - 1)
          /\ ClosedIota!Equal(ClosedIota!At(view, p), ClosedIota!At(view, q)) <=> p = q
          /\ ClosedIota!Advance(view, ClosedIota!At(view, p), q - p) = ClosedIota!At(view, q)
          /\ ClosedIota!AdvanceExpects(view, ClosedIota!At(view, p), q - p)
          /\ ClosedIota!Distance(view, ClosedIota!At(view, p), ClosedIota!At(view, q)) = q - p
    BY <1>0, <1>1, <1>4, StepsAreToNeighbours, AdvanceReaches,
       DistanceIsPlaces
  <1>10. StepsGoOn
    BY <1>1, <1>2, <1>3, <1>5, <1>9 DEF StepsGoOn
  <1>11. StepsGoBack
    BY <1>1, <1>3, <1>5, <1>9 DEF StepsGoBack
  <1>12. \A p \in 0 .. Size, n \in Int : p + n \in 0 .. Size =>
           /\ ClosedIota!Advance(view, ClosedIota!At(view, p), n) = ClosedIota!At(view, p + n)
           /\ ClosedIota!AdvanceExpects(view, ClosedIota!At(view, p), n)
    <2>1. SUFFICES ASSUME NEW p \in 0 .. Size, NEW n \in Int, p + n \in 0 .. Size
                   PROVE  /\ ClosedIota!Advance(view, ClosedIota!At(view, p), n) = ClosedIota!At(view, p + n)
                          /\ ClosedIota!AdvanceExpects(view, ClosedIota!At(view, p), n)
      OBVIOUS
    <2>2. (p + n) - p = n
      BY <2>1
    <2> QED
      BY <1>9, <2>1, <2>2
  <1>13. JumpsLand
    BY <1>1, <1>2, <1>3, <1>12 DEF JumpsLand
  <1>14. TracesAreSound /\ EndsAreLearnt /\ CopiesAreSound
    BY <1>1 DEF TracesAreSound, EndsAreLearnt, CopiesAreSound
  <1>15. AssertionsHold
    <2>1. \A p \in 0 .. Size : p < Size => /\ ClosedIota!NextExpects(view, ClosedIota!At(view, p))
                                          /\ ClosedIota!ReadExpects(view, ClosedIota!At(view, p))
      <3>1. SUFFICES ASSUME NEW p \in 0 .. Size, p < Size
                     PROVE  ~ClosedIota!At(view, p).done
        BY DEF ClosedIota!NextExpects, ClosedIota!ReadExpects
      <3>2. p # Size
        BY <1>6, <3>1
      <3> QED
        BY <1>6, <3>2
    <2> QED
      BY <1>1, <1>3, <1>12, <2>1 DEF AssertionsHold
  <1>16. ReadsArePromised
    <2>1. \A p \in 0 .. Size : p < Size =>
            ClosedIota!Read(view, ClosedIota!At(view, p)) = ClosedIota!Element(view, p)
      <3>1. SUFFICES ASSUME NEW p \in 0 .. Size, p < Size
                     PROVE  ClosedIota!At(view, p).from = view.from + p
        BY DEF ClosedIota!Read, ClosedIota!Element
      <3>2. p # Size
        BY <1>6, <3>1
      <3> QED
        BY <1>6, <3>2
    <2> QED
      BY <1>1, <1>3, <2>1 DEF ReadsArePromised
  <1>17. PlacesAreTold
    BY <1>1, <1>3, <1>9 DEF PlacesAreTold
  <1>18. EndIsTold
    <2>1. \A p \in 0 .. Size : ClosedIota!AtEnd(view, ClosedIota!At(view, p)) <=> p = Size
      BY <1>6 DEF ClosedIota!AtEnd
    <2> QED
      BY <1>1, <1>3, <2>1 DEF EndIsTold
  <1> QED
    BY <1>7, <1>8, <1>10, <1>11, <1>13, <1>14, <1>15, <1>16, <1>17, <1>18 DEF Contract

\* A sliding_view: what trails, leads or is cached stays a window away.
LEMMA SlidingKeepsContract ==
  ASSUME kind = "sliding", Sound(kind, view)
  PROVE  Contract
  <1>0. SlidingSound(view)
    BY DEF Sound
  <1>1. /\ Begins = {Sliding!Begin(view)} /\ AfterBegin = Sliding!AfterBegin(view)
        /\ FromEnd = Sliding!End(view) /\ AfterEnd = Sliding!AfterEnd(view)
        /\ Size = Sliding!Size(view)
        /\ (Common <=> view.mode \in {"none", "last"})
        /\ (RandomAccess <=> view.mode \in {"none", "first"})
        /\ ~LeavesATrace /\ Copied = [view EXCEPT !.cache = Sliding!NotCached]
        /\ \A c : /\ Steps(c) = {Sliding!Next(view, c)} /\ AfterStep(c) = view
                  /\ SteppedBack(c) = Sliding!Prev(view, c)
                  /\ NextExpects(c) /\ PrevExpects(c)
                  /\ ReadExpects(c) <=> Sliding!ReadExpects(view, c)
                  /\ ReadAt(c) = Sliding!Read(view, c)
                  /\ AtEnd(c) <=> Sliding!AtEnd(view, c)
        /\ \A c, n : /\ Advanced(c, n) = Sliding!Advance(view, c, n) /\ AfterAdvance(c, n) = view
                     /\ AdvanceExpects(c, n)
        /\ \A c, d : /\ Difference(c, d) = Sliding!Distance(view, c, d)
                     /\ Equal(c, d) <=> Sliding!Equal(c, d)
        /\ \A p : Element(p) = Sliding!Element(view, p)
    BY DEF Begins, FromBegin, AfterBegin, FromEnd, AfterEnd, Size, Common, RandomAccess,
       LeavesATrace, Copied,
       Steps, Stepped, AfterStep, SteppedBack, NextExpects, ReadExpects, PrevExpects,
       ReadAt, AtEnd, Advanced, AfterAdvance, AdvanceExpects, Difference, Equal, Element
  <1>2. Kept(view) /\ kind \notin OnePass
    BY SameIsKept DEF OnePass
  <1>3. \A v, c, p : Stands(kind, v, c, p) <=> p \in 0 .. Sliding!Size(v) /\ SlidingStands(v, c, p)
    BY DEF Stands, Looks, Places
  <1>4. /\ view \in [len : Nat, n : Nat \ {0}, mode : Sliding!Modes, cache : Int]
        /\ view.len \in Nat /\ view.n \in Nat \ {0} /\ Sliding!NotCached = -1
        /\ view.mode \in {"none", "last", "trailing", "first"}
        /\ Sliding!AtBack(view) <=> view.mode \in {"trailing", "first"}
        /\ Sliding!Trails(view) <=> view.mode = "trailing"
    BY <1>0 DEF SlidingSound, Sliding!NotCached, Sliding!Modes, Sliding!AtBack, Sliding!Trails
  <1> DEFINE E == Sliding!EndOffset(view)
  <1>5. /\ E \in Nat /\ Size \in Nat /\ Size + E = view.len
        /\ Size > 0 => E = view.n - 1
        /\ view.n - 1 < view.len => E = view.n - 1
        /\ view.len =< view.n - 1 => E = view.len
    BY <1>1, <1>4 DEF Sliding!EndOffset, Sliding!Lesser, Sliding!Size
  \* what is cached is what would be computed
  <1>6. Sliding!AtBack(view) => Sliding!FirstEnd(view) = E
    <2>1. Sliding!Stop(0, view.n - 1, view.len) = E
      BY <1>4, <1>5 DEF Sliding!Stop
    <2> QED
      BY <1>0, <2>1 DEF Sliding!FirstEnd, SlidingSound
  <1>7. view.mode = "last" => Sliding!Last(view) = Size
    <2>1. SUFFICES ASSUME view.mode = "last"
                   PROVE  Sliding!Last(view) = Size
      OBVIOUS
    <2>2. view.len = 0 => view.n = 1
      BY <1>0, <1>4, <2>1 DEF SlidingSound, Sliding!RunsOff
    <2>3. Sliding!StopBack(view.len, -(view.n - 1), 0) = Size
      BY <1>4, <1>5, <2>2 DEF Sliding!StopBack
    <2> QED
      BY <1>0, <1>1, <1>4, <2>1, <2>3 DEF Sliding!Last, SlidingSound
  <1> HIDE DEF E
  <1>8. ASSUME NEW b \in {Sliding!NotCached, IF Sliding!AtBack(view) THEN E ELSE Size}
        PROVE  Kept([view EXCEPT !.cache = b])
    <2> DEFINE w == [view EXCEPT !.cache = b]
    <2>1. /\ w \in [len : Nat, n : Nat \ {0}, mode : Sliding!Modes, cache : Int]
          /\ w.len = view.len /\ w.n = view.n /\ w.mode = view.mode /\ w.cache = b
      BY <1>4, <1>5
    <2> HIDE DEF w
    <2>2. /\ Sliding!Size(w) = Size /\ Sliding!EndOffset(w) = E
          /\ Sliding!AtBack(w) <=> Sliding!AtBack(view)
          /\ Sliding!Trails(w) <=> Sliding!Trails(view)
          /\ Sliding!RunsOff(w) <=> Sliding!RunsOff(view)
      BY <1>1, <2>1 DEF Sliding!Size, Sliding!EndOffset, Sliding!AtBack, Sliding!Trails,
         Sliding!RunsOff, E
    <2>3. Sound(kind, w)
      BY <1>0, <2>1, <2>2 DEF Sound, SlidingSound
    <2>4. \A c, p : SlidingStands(view, c, p) => SlidingStands(w, c, p)
      BY <2>2 DEF SlidingStands, E
    <2> QED
      BY <1>1, <1>3, <2>2, <2>3, <2>4 DEF Kept, w
  <1>9. \A c, p : Stands(kind, view, c, p) <=>
          /\ p \in 0 .. Size
          /\ c = [it |-> IF Sliding!AtBack(view) THEN p + E ELSE p, trail |-> IF Sliding!Trails(view) THEN p ELSE 0]
    BY <1>1, <1>3 DEF SlidingStands, E
  <1>10. FrontIsFirst
    <2>1. Kept(AfterBegin)
      BY <1>1, <1>2, <1>6, <1>8 DEF Sliding!AfterBegin
    <2>2. Stands(kind, view, Sliding!Begin(view), 0)
      BY <1>5, <1>6, <1>9 DEF Sliding!Begin
    <2> QED
      BY <1>1, <1>2, <2>1, <2>2 DEF FrontIsFirst, Kept
  <1>11. EndIsLast
    <2>1. SUFFICES ASSUME view.mode \in {"none", "last"}
                   PROVE  Kept(AfterEnd) /\ Stands(kind, view, FromEnd, Size)
      BY <1>1, <1>2 DEF EndIsLast, Kept
    <2>2. ~Sliding!AtBack(view) /\ ~Sliding!Trails(view)
      BY <1>4, <2>1
    <2>3. Kept(AfterEnd)
      BY <1>1, <1>2, <1>7, <1>8, <2>2 DEF Sliding!AfterEnd
    <2>4. Sliding!End(view) = [it |-> Size, trail |-> 0]
      BY <1>4, <1>5, <1>7 DEF Sliding!End, E
    <2> QED
      BY <1>1, <1>5, <1>9, <2>2, <2>3, <2>4
  <1>12. StepsGoOn
    <2>1. ASSUME NEW c, NEW p, Stands(kind, view, c, p), p < Size
          PROVE  Stands(kind, view, Sliding!Next(view, c), p + 1)
      BY <1>4, <1>5, <1>9, <2>1 DEF Sliding!Next
    <2> QED
      BY <1>1, <1>2, <2>1 DEF StepsGoOn
  <1>13. StepsGoBack
    <2>1. ASSUME NEW c, NEW p, Stands(kind, view, c, p), p > 0
          PROVE  Stands(kind, view, Sliding!Prev(view, c), p - 1)
      BY <1>4, <1>5, <1>9, <2>1 DEF Sliding!Prev
    <2> QED
      BY <1>1, <2>1 DEF StepsGoBack
  <1>14. JumpsLand
    <2>1. ASSUME NEW c, NEW p, NEW n \in Int, Stands(kind, view, c, p), p + n \in 0 .. Size,
                 view.mode \in {"none", "first"}
          PROVE  Stands(kind, view, Sliding!Advance(view, c, n), p + n)
      <3>1. ~Sliding!Trails(view)
        BY <1>4, <2>1
      <3> QED
        BY <1>4, <1>5, <1>9, <2>1, <3>1 DEF Sliding!Advance
    <2> QED
      BY <1>1, <1>2, <2>1 DEF JumpsLand
  <1>15. TracesAreSound /\ EndsAreLearnt
    BY <1>1 DEF TracesAreSound, EndsAreLearnt
  <1>16. CopiesAreSound
    BY <1>1, <1>8 DEF CopiesAreSound, Kept
  <1>17. \A c, p : Stands(kind, view, c, p) /\ p < Size => Sliding!Front(view, c) = p /\ p + view.n =< view.len
    <2>1. SUFFICES ASSUME NEW c, NEW p, Stands(kind, view, c, p), p < Size
                   PROVE  Sliding!Front(view, c) = p /\ p + view.n =< view.len
      OBVIOUS
    <2>2. p \in Int /\ E = view.n - 1 /\ p + view.n =< view.len
      BY <1>4, <1>5, <1>9, <2>1
    <2>3. CASE view.mode = "trailing"
      BY <1>4, <1>9, <2>1, <2>2, <2>3 DEF Sliding!Front
    <2>4. CASE view.mode = "first"
      BY <1>4, <1>9, <2>1, <2>2, <2>4 DEF Sliding!Front
    <2>5. CASE view.mode \in {"none", "last"}
      BY <1>4, <1>9, <2>1, <2>2, <2>5 DEF Sliding!Front
    <2> QED
      BY <1>4, <2>3, <2>4, <2>5
  <1>18. AssertionsHold
    <2>1. \A c, p : Stands(kind, view, c, p) /\ p < Size => Sliding!ReadExpects(view, c)
      BY <1>5, <1>9, <1>17 DEF Sliding!ReadExpects
    <2> QED
      BY <1>1, <2>1 DEF AssertionsHold
  <1>19. ReadsArePromised
    BY <1>1, <1>17 DEF ReadsArePromised, Sliding!Read, Sliding!Element
  <1>20. PlacesAreTold
    <2>1. \A c, d, p, q : Stands(kind, view, c, p) /\ Stands(kind, view, d, q) =>
            Sliding!Distance(view, c, d) = q - p /\ (Sliding!Equal(c, d) <=> p = q)
      BY <1>5, <1>9 DEF Sliding!Distance, Sliding!Equal
    <2> QED
      BY <1>1, <2>1 DEF PlacesAreTold
  <1>21. EndIsTold
    <2>1. ~Sliding!AtBack(view) => Sliding!End(view).it = Size
      BY <1>4, <1>5, <1>7 DEF Sliding!End, E
    <2>2. \A c, p : Stands(kind, view, c, p) => (Sliding!AtEnd(view, c) <=> p = Size)
      BY <1>4, <1>5, <1>9, <2>1 DEF Sliding!AtEnd
    <2> QED
      BY <1>1, <2>2 DEF EndIsTold
  <1> QED
    BY <1>10, <1>11, <1>12, <1>13, <1>14, <1>15, <1>16, <1>18, <1>19, <1>20, <1>21 DEF Contract

\* A chunk_view of a forward range: the offset is what the last chunk is short of.
LEMMA ChunkKeepsContract ==
  ASSUME kind = "chunk", Sound(kind, view)
  PROVE  Contract
  <1>0. view.len \in Nat /\ view.n \in Nat \ {0}
    BY DEF Sound, ChunkSound
  <1>1. /\ Begins = {Chunk!Begin(view)} /\ AfterBegin = view
        /\ Size = Chunk!Size(view)
        /\ ~Common /\ ~LeavesATrace /\ Copied = view
        /\ \A c : /\ Steps(c) = {Chunk!Next(view, c)} /\ AfterStep(c) = view
                  /\ SteppedBack(c) = Chunk!Prev(view, c)
                  /\ NextExpects(c) <=> Chunk!NextExpects(view, c)
                  /\ PrevExpects(c) <=> Chunk!OffsetExpects(view, c)
                  /\ ReadExpects(c) <=> Chunk!ReadExpects(view, c)
                  /\ ReadAt(c) = Chunk!Read(view, c)
                  /\ AtEnd(c) <=> Chunk!AtEnd(view, c)
        /\ \A c, n : /\ Advanced(c, n) = Chunk!Advance(view, c, n) /\ AfterAdvance(c, n) = view
                     /\ AdvanceExpects(c, n) <=> Chunk!AdvanceExpects(view, c, n)
        /\ \A c, d : /\ Difference(c, d) = Chunk!Distance(view, c, d)
                     /\ Equal(c, d) <=> Chunk!Equal(c, d)
        /\ \A p : Element(p) = Chunk!Element(view, p)
    BY DEF Begins, FromBegin, AfterBegin, Size, Common, LeavesATrace, Copied,
       Steps, Stepped, AfterStep, SteppedBack, NextExpects, ReadExpects, PrevExpects,
       ReadAt, AtEnd, Advanced, AfterAdvance, AdvanceExpects, Difference, Equal, Element
  <1>2. Kept(view) /\ kind \notin OnePass
    BY SameIsKept DEF OnePass
  <1> DEFINE L == view.len
             N == view.n
             R(p) == Reached(L, N, Size, p)
             O(p) == IF p = Size THEN p * N - L ELSE 0
  <1>3. \A c, p : Stands(kind, view, c, p) <=> p \in 0 .. Size /\ c = [it |-> R(p), offset |-> O(p)]
    BY <1>1 DEF Stands, Looks, Places, ChunkStands, Reached
  <1>4. Size \in Int /\ L =< Size * N /\ Size * N < L + N
    <2> DEFINE q == L \div N
    <2>1. q \in Int /\ q * N =< L /\ L < q * N + N /\ L % N = L - q * N
      <3>1. L \in Int /\ N \in Nat \ {0}
        BY <1>0
      <3> QED
        BY <3>1, QuotientOf
    <2>2. (q + 1) * N = q * N + N
      BY <1>0, <2>1
    <2>3. Size = q + (IF L % N # 0 THEN 1 ELSE 0)
      BY <1>1 DEF Chunk!Size
    <2> HIDE DEF q
    <2>4. CASE L % N = 0
      <3>1. Size = q
        BY <2>1, <2>3, <2>4
      <3> QED
        BY <1>0, <2>1, <2>4, <3>1
    <2>5. CASE L % N # 0
      <3>1. Size = q + 1
        BY <2>3, <2>5
      <3>2. q * N # L
        BY <1>0, <2>1, <2>5
      <3> QED
        BY <1>0, <2>1, <2>2, <3>1, <3>2
    <2> QED
      BY <2>4, <2>5
  <1>5. /\ L \in Nat /\ N \in Nat \ {0} /\ Size \in Nat /\ (Size = 0 <=> L = 0)
        /\ \A p \in 0 .. Size : /\ p * N \in Nat /\ (p < Size <=> p * N < L)
                                /\ R(p) \in 0 .. L /\ (R(p) = L <=> p = Size)
                                /\ p < Size => R(p) = p * N
    BY <1>0, <1>4, StepsThroughARange
  <1> HIDE DEF L, N, R
  \* what the last chunk lacks makes up the places of the others
  <1>6. \A p \in 0 .. Size : /\ O(p) \in 0 .. N - 1 /\ R(p) + O(p) = p * N
                             /\ p # Size => O(p) = 0
    <2>1. \A p \in 0 .. Size : p = Size => p * N - L \in 0 .. N - 1 /\ R(p) = L
      BY <1>4, <1>5
    <2> QED
      BY <1>5, <2>1
  <1> HIDE DEF O
  <1>7. FrontIsFirst
    <2>1. 0 * N = 0 /\ 0 \in 0 .. Size
      BY <1>5
    <2>2. R(0) = 0 /\ O(0) = 0
      BY <1>5, <1>6, <2>1
    <2> QED
      BY <1>1, <1>2, <1>3, <2>1, <2>2 DEF FrontIsFirst, Chunk!Begin
  <1>8. EndIsLast /\ TracesAreSound /\ EndsAreLearnt /\ CopiesAreSound
    BY <1>1 DEF EndIsLast, TracesAreSound, EndsAreLearnt, CopiesAreSound
  \* m steps on, m of them at once
  <1>9. ASSUME NEW p \in 0 .. Size, NEW m \in Int, 0 < m, p + m \in 0 .. Size
        PROVE  /\ Chunk!Stop(R(p), m * N, L) = R(p + m)
               /\ Chunk!Rest(R(p), m * N, L) = O(p + m)
    <2>1. p < Size /\ R(p) = p * N /\ p * N \in Nat
      BY <1>5, <1>9
    <2>2. m * N \in Int /\ (p + m) * N = p * N + m * N
      BY <1>5, Products
    <2>3. 0 < m * N
      <3>1. 0 * N < m * N /\ 0 * N = 0
        BY <1>5, <1>9, Products
      <3> QED
        BY <3>1
    <2> DEFINE x == p * N
               y == m * N
               z == (p + m) * N
    <2>4. x \in Nat /\ y \in Int /\ 0 < y /\ z = x + y /\ R(p) = x
      BY <2>1, <2>2, <2>3
    <2>5. /\ R(p + m) \in 0 .. L /\ (p + m < Size <=> z < L) /\ (p + m = Size => R(p + m) = L)
          /\ p + m # Size => R(p + m) = z /\ z < L
          /\ O(p + m) \in Int /\ R(p + m) + O(p + m) = z
      BY <1>5, <1>6, <1>9
    <2> HIDE DEF x, y, z
    <2>6. Chunk!Stop(x, y, L) = R(p + m)
      BY <1>5, <1>9, <2>4, <2>5 DEF Chunk!Stop
    <2> QED
      BY <2>4, <2>5, <2>6 DEF Chunk!Rest, y
  <1>10. StepsGoOn
    <2>1. ASSUME NEW c, NEW p, Stands(kind, view, c, p), p < Size
          PROVE  Stands(kind, view, Chunk!Next(view, c), p + 1)
      <3>1. p \in 0 .. Size /\ c = [it |-> R(p), offset |-> O(p)] /\ p + 1 \in 0 .. Size /\ 1 * N = N
        BY <1>3, <1>5, <2>1
      <3>2. Chunk!Stop(R(p), N, L) = R(p + 1) /\ Chunk!Rest(R(p), N, L) = O(p + 1)
        BY <1>9, <3>1
      <3> QED
        BY <1>3, <3>1, <3>2 DEF Chunk!Next, L, N
    <2> QED
      BY <1>1, <1>2, <2>1 DEF StepsGoOn
  <1>11. \A p, q \in 0 .. Size : q < Size => R(p) + (q - p) * N + O(p) = R(q) /\ (q - p) * N \in Int
    <2>1. SUFFICES ASSUME NEW p \in 0 .. Size, NEW q \in 0 .. Size, q < Size
                   PROVE  R(p) + (q - p) * N + O(p) = R(q) /\ (q - p) * N \in Int
      OBVIOUS
    <2>2. (q - p) * N = q * N - p * N /\ q * N \in Int /\ p * N \in Int
      BY <1>5, Products
    <2>3. R(p) \in Int /\ O(p) \in Int /\ R(p) + O(p) = p * N /\ R(q) = q * N
      BY <1>5, <1>6, <2>1
    <2> QED
      BY <2>2, <2>3
  <1>12. StepsGoBack
    <2>1. ASSUME NEW c, NEW p, Stands(kind, view, c, p), p > 0
          PROVE  Stands(kind, view, Chunk!Prev(view, c), p - 1)
      <3>1. p \in 0 .. Size /\ c = [it |-> R(p), offset |-> O(p)] /\ p - 1 \in 0 .. Size /\ p - 1 < Size
        BY <1>3, <1>5, <2>1
      <3>2. R(p) + ((p - 1) - p) * N + O(p) = R(p - 1) /\ O(p - 1) = 0
        BY <1>6, <1>11, <3>1
      <3>3. ((p - 1) - p) * N = -N
        BY <1>5, <3>1
      <3>4. R(p) \in Int /\ O(p) \in Int
        BY <1>5, <1>6, <3>1
      <3>5. R(p) - N + O(p) = R(p - 1)
        BY <1>5, <3>2, <3>3, <3>4
      <3> QED
        BY <1>3, <3>1, <3>2, <3>5 DEF Chunk!Prev, N
    <2> QED
      BY <1>1, <2>1 DEF StepsGoBack
  <1>13. JumpsLand
    <2>1. ASSUME NEW c, NEW p, NEW n \in Int, Stands(kind, view, c, p), p + n \in 0 .. Size
          PROVE  Stands(kind, view, Chunk!Advance(view, c, n), p + n)
      <3>1. p \in 0 .. Size /\ c = [it |-> R(p), offset |-> O(p)]
        BY <1>3, <2>1
      <3>2. CASE n > 0
        <4>1. Chunk!Stop(R(p), n * N, L) = R(p + n) /\ Chunk!Rest(R(p), n * N, L) = O(p + n)
          BY <1>9, <2>1, <3>1, <3>2
        <4>2. Chunk!Mod(O(p + n), N) = O(p + n)
          <5>1. O(p + n) \in 0 .. N - 1
            BY <1>6, <2>1
          <5>2. O(p + n) \div N = 0
            BY <1>5, <5>1, NoWholeStep
          <5> QED
            BY <1>5, <5>1, <5>2 DEF Chunk!Mod, Chunk!Div
        <4>3. Chunk!Advance(view, c, n) = [it |-> R(p + n), offset |-> O(p + n)]
          BY <3>1, <3>2, <4>1, <4>2 DEF Chunk!Advance, L, N
        <4> QED
          BY <1>3, <2>1, <4>3
      <3>3. CASE n < 0
        <4>1. p + n < Size /\ (p + n) - p = n
          BY <1>5, <2>1, <3>1, <3>3
        <4>2. R(p) + n * N + O(p) = R(p + n) /\ O(p + n) = 0
          BY <1>6, <1>11, <2>1, <3>1, <4>1
        <4>3. Chunk!Advance(view, c, n) = [it |-> R(p + n), offset |-> O(p + n)]
          BY <3>1, <3>3, <4>2 DEF Chunk!Advance, N
        <4> QED
          BY <1>3, <2>1, <4>3
      <3>4. CASE n = 0
        BY <2>1, <3>1, <3>4 DEF Chunk!Advance
      <3> QED
        BY <3>2, <3>3, <3>4
    <2> QED
      BY <1>1, <1>2, <2>1 DEF JumpsLand
  <1>14. AssertionsHold
    <2>1. ASSUME NEW c, NEW p, Stands(kind, view, c, p)
          PROVE  /\ Chunk!OffsetExpects(view, c)
                 /\ p < Size => Chunk!ReadExpects(view, c) /\ c.offset = 0
      <3>1. p \in 0 .. Size /\ c = [it |-> R(p), offset |-> O(p)]
        BY <1>3, <2>1
      <3>2. O(p) \in 0 .. N - 1 /\ (p # Size => O(p) = 0 /\ R(p) # L)
        BY <1>5, <1>6, <3>1
      <3> QED
        BY <1>5, <3>1, <3>2 DEF Chunk!OffsetExpects, Chunk!ReadExpects, L, N
    <2>2. ASSUME NEW c, NEW p, NEW n \in Int, Stands(kind, view, c, p), p + n \in 0 .. Size
          PROVE  Chunk!AdvanceExpects(view, c, n)
      <3>1. n > 0 => p < Size
        BY <1>3, <1>5, <2>2
      <3> QED
        BY <2>1, <2>2, <3>1 DEF Chunk!AdvanceExpects
    <2> QED
      BY <1>1, <2>1, <2>2 DEF AssertionsHold, Chunk!NextExpects
  <1>15. ReadsArePromised
    <2>1. ASSUME NEW c, NEW p, Stands(kind, view, c, p), p < Size
          PROVE  Chunk!Read(view, c) = Chunk!Element(view, p)
      <3>1. p \in 0 .. Size /\ c = [it |-> R(p), offset |-> O(p)] /\ p + 1 \in 0 .. Size
        BY <1>3, <1>5, <2>1
      <3>2. /\ R(p) = p * N /\ p * N \in Nat /\ (p + 1) * N \in Nat /\ (p + 1) * N = p * N + N
            /\ (p + 1 < Size <=> (p + 1) * N < L)
        BY <1>5, <2>1, <3>1, Products
      <3>3. Chunk!Lesser(N, L - p * N) = IF p + 1 < Size THEN N ELSE L - p * N
        <4> DEFINE x == p * N
        <4>1. x \in Nat /\ (p + 1 < Size <=> x + N < L)
          BY <3>2
        <4> HIDE DEF x
        <4>2. Chunk!Lesser(N, L - x) = IF p + 1 < Size THEN N ELSE L - x
          BY <1>5, <4>1 DEF Chunk!Lesser
        <4> QED
          BY <4>2 DEF x
      <3> QED
        BY <1>1, <3>1, <3>2, <3>3 DEF Chunk!Read, Chunk!Element, L, N
    <2> QED
      BY <1>1, <2>1 DEF ReadsArePromised
  <1>16. PlacesAreTold
    <2>1. ASSUME NEW c, NEW d, NEW p, NEW q, Stands(kind, view, c, p), Stands(kind, view, d, q)
          PROVE  /\ Chunk!Equal(c, d) <=> p = q
                 /\ Chunk!Distance(view, c, d) = q - p
                 /\ Chunk!DistanceExpects(view, c, d)
      <3>1. /\ p \in 0 .. Size /\ c = [it |-> R(p), offset |-> O(p)]
            /\ q \in 0 .. Size /\ d = [it |-> R(q), offset |-> O(q)]
        BY <1>3, <2>1
      <3>2. /\ R(p) \in Int /\ R(q) \in Int /\ O(p) \in 0 .. N - 1 /\ O(q) \in 0 .. N - 1
            /\ R(p) + O(p) = p * N /\ R(q) + O(q) = q * N
        BY <1>5, <1>6, <3>1
      <3>3. (q - p) * N = q * N - p * N /\ p * N \in Int /\ q * N \in Int /\ q - p \in Int
        <4>1. p \in Int /\ q \in Int
          BY <3>1
        <4> QED
          BY <1>5, <4>1, Products
      <3>4. Chunk!Delta(c, d) = (q - p) * N
        BY <3>1, <3>2, <3>3 DEF Chunk!Delta
      <3>5. Chunk!Div((q - p) * N, N) = q - p /\ Chunk!Mod((q - p) * N, N) = 0
        BY <1>5, <3>3, WholeSteps
      <3>6. R(p) = R(q) <=> p = q
        <4>1. CASE p = Size \/ q = Size
          BY <1>5, <3>1, <4>1
        <4>2. CASE p # Size /\ q # Size
          <5>1. R(p) = p * N /\ R(q) = q * N
            BY <1>5, <3>1, <4>2
          <5>2. (p =< q <=> p * N =< q * N) /\ (q =< p <=> q * N =< p * N)
            <6>1. p \in Int /\ q \in Int
              BY <3>1
            <6> QED
              BY <1>5, <6>1, Products
          <5> QED
            BY <3>1, <3>3, <5>1, <5>2
        <4> QED
          BY <4>1, <4>2
      <3>7. Chunk!OffsetExpects(view, c) /\ Chunk!OffsetExpects(view, d)
        BY <1>5, <3>1, <3>2 DEF Chunk!OffsetExpects, N
      <3>8. Chunk!Distance(view, c, d) = q - p /\ Chunk!DistanceExpects(view, c, d)
        BY <3>4, <3>5, <3>7 DEF Chunk!Distance, Chunk!DistanceExpects, N
      <3> QED
        BY <3>1, <3>6, <3>8 DEF Chunk!Equal
    <2> QED
      BY <1>1, <2>1 DEF PlacesAreTold
  <1>17. EndIsTold
    <2>1. \A c, p : Stands(kind, view, c, p) => (Chunk!AtEnd(view, c) <=> p = Size)
      BY <1>3, <1>5 DEF Chunk!AtEnd, L
    <2> QED
      BY <1>1, <2>1 DEF EndIsTold
  <1> QED
    BY <1>7, <1>8, <1>10, <1>12, <1>13, <1>14, <1>15, <1>16, <1>17 DEF Contract

\* A stride_view: the offset is what the last stride overshoots by, and is known
\* where it is needed.
LEMMA StrideKeepsContract ==
  ASSUME kind = "stride", Sound(kind, view)
  PROVE  Contract
  <1>0. StrideSound(view)
    BY DEF Sound
  <1>1. /\ Begins = {Stride!Begin(view)} /\ AfterBegin = view
        /\ FromEnd = Stride!End(view) /\ AfterEnd = view
        /\ Size = Stride!Size(view)
        /\ (Common <=> view.sized) /\ ~LeavesATrace /\ Copied = view
        /\ \A c : /\ Steps(c) = {Stride!Next(view, c)} /\ AfterStep(c) = Stride!AfterNext(view, c)
                  /\ SteppedBack(c) = Stride!Prev(view, c)
                  /\ NextExpects(c) <=> Stride!NextExpects(view, c)
                  /\ PrevExpects(c) <=> Stride!PrevExpects(view, c)
                  /\ ReadExpects(c)
                  /\ ReadAt(c) = Stride!Read(view, c)
                  /\ AtEnd(c) <=> Stride!AtEnd(view, c)
        /\ \A c, n : /\ Advanced(c, n) = Stride!Advance(view, c, n)
                     /\ AfterAdvance(c, n) = Stride!AfterAdvance(view, c, n)
                     /\ AdvanceExpects(c, n) <=> Stride!AdvanceExpects(view, c, n)
        /\ \A c, d : /\ Difference(c, d) = Stride!Distance(view, c, d)
                     /\ Equal(c, d) <=> Stride!Equal(c, d)
        /\ \A p : Element(p) = Stride!Element(view, p)
    BY DEF Begins, FromBegin, AfterBegin, FromEnd, AfterEnd, Size, Common, LeavesATrace, Copied,
       Steps, Stepped, AfterStep, SteppedBack, NextExpects, ReadExpects, PrevExpects,
       ReadAt, AtEnd, Advanced, AfterAdvance, AdvanceExpects, Difference, Equal, Element
  <1>2. Kept(view) /\ kind \notin OnePass
    BY SameIsKept DEF OnePass
  <1> DEFINE L == view.len
             N == view.stride
             R(p) == Reached(L, N, Size, p)
             O == Stride!Offset(L, N)
  <1>3. /\ view \in [len : Nat, stride : Nat \ {0}, sized : BOOLEAN, offset : Int]
        /\ L \in Nat /\ N \in Nat \ {0} /\ view.offset \in Int /\ Stride!Unknown = -1
        /\ view.offset \in {-1, O} /\ (view.sized => view.offset # -1)
    BY <1>0 DEF StrideSound, Stride!Unknown
  <1>a. L \in Nat /\ N \in Nat \ {0} /\ L \in Int
    BY <1>3
  <1>4. \A c, p : Stands(kind, view, c, p) <=>
          /\ p \in 0 .. Size /\ c = [it |-> R(p)]
          /\ p > 0 /\ p = Size => view.offset # -1
    BY <1>1, <1>3 DEF Stands, Looks, Places, StrideStands, Reached
  <1>5. /\ Size \in Int /\ L =< Size * N /\ Size * N < L + N
        /\ O = Size * N - L
    <2> DEFINE q == L \div N
               s == (L + N - 1) \div N
    <2>1. q \in Int /\ q * N =< L /\ L < q * N + N /\ L % N = L - q * N
      BY <1>a, QuotientOf
    <2>2. s \in Int /\ s * N =< L + N - 1 /\ L + N - 1 < s * N + N
      <3>1. L + N - 1 \in Int
        BY <1>3
      <3> QED
        BY <1>3, <3>1, QuotientOf
    <2>3. s = Size
      BY <1>1 DEF Stride!Size
    <2> HIDE DEF q, s
    <2>4. s * N \in Int /\ q * N \in Int /\ (q + 1) * N = q * N + N
      BY <1>3, <2>1, <2>2, Products
    <2>5. L =< s * N /\ s * N < L + N
      BY <1>3, <2>2, <2>4
    <2>6. CASE L % N = 0
      <3>1. q * N = L
        BY <1>3, <2>1, <2>4, <2>6
      <3>2. s = q
        <4>1. q * N < s * N + N /\ s * N < q * N + N
          BY <1>3, <2>4, <2>5, <3>1
        <4>2. (q < s => q * N + N =< s * N) /\ (s < q => s * N + N =< q * N)
          BY <1>3, <2>1, <2>2, Products
        <4>3. ~(q < s) /\ ~(s < q)
          BY <1>3, <2>4, <2>5, <3>1, <4>1, <4>2
        <4> QED
          BY <2>1, <2>2, <4>3
      <3> QED
        BY <1>3, <2>2, <2>3, <2>5, <2>6, <3>1, <3>2 DEF Stride!Offset
    <2>7. CASE L % N # 0
      <3>1. q * N < L /\ O = N - (L - q * N)
        BY <1>3, <2>1, <2>4, <2>7 DEF Stride!Offset
      <3>2. s = q + 1
        <4>1. (q + 1 < s => (q + 1) * N + N =< s * N) /\ (s < q + 1 => s * N + N =< (q + 1) * N)
          <5>1. q + 1 \in Int
            BY <2>1
          <5> QED
            BY <1>3, <2>2, <5>1, Products
        <4>2. ~(q + 1 < s) /\ ~(s < q + 1)
          BY <1>3, <2>1, <2>4, <2>5, <3>1, <4>1
        <4> QED
          BY <2>1, <2>2, <4>2
      <3> QED
        BY <1>3, <2>2, <2>3, <2>4, <2>5, <3>1, <3>2
    <2> QED
      BY <2>6, <2>7
  <1> HIDE DEF L, N, R, O
  <1>6. /\ Size \in Nat /\ Size * N \in Nat /\ (Size = 0 <=> L = 0)
        /\ \A p \in 0 .. Size : /\ p * N \in Nat /\ (p < Size <=> p * N < L)
                                /\ R(p) \in 0 .. L /\ (R(p) = L <=> p = Size)
                                /\ p < Size => R(p) = p * N
    BY <1>5, <1>a, StepsThroughARange DEF R
  <1>7. O \in 0 .. N - 1
    BY <1>3, <1>5, <1>6
  \* the offset is learnt once, and is what it is
  <1>8. /\ Kept(Stride!WithOffset(view, O))
        /\ Stride!WithOffset(view, O).offset = O
        /\ \A c, p : /\ p \in 0 .. Size /\ c = [it |-> R(p)] => Stands(kind, Stride!WithOffset(view, O), c, p)
        /\ Stride!SetExpects(view, O)
    <2> DEFINE w == Stride!WithOffset(view, O)
    <2>1. /\ w \in [len : Nat, stride : Nat \ {0}, sized : BOOLEAN, offset : Int]
          /\ w.len = view.len /\ w.stride = view.stride /\ w.sized = view.sized /\ w.offset = O
      <3>1. CASE view.offset = -1
        BY <1>3, <1>7, <3>1 DEF Stride!WithOffset
      <3>2. CASE view.offset = O
        BY <1>3, <1>7, <3>2 DEF Stride!WithOffset
      <3> QED
        BY <1>3, <3>1, <3>2
    <2> HIDE DEF w
    <2>2. Stride!Size(w) = Size
      BY <1>1, <2>1 DEF Stride!Size
    <2>3. Sound(kind, w)
      BY <1>3, <1>7, <2>1 DEF Sound, StrideSound, O, L, N
    <2>4. \A c, p : p \in 0 .. Size /\ c = [it |-> R(p)] => Stands(kind, w, c, p)
      BY <1>3, <1>7, <2>1, <2>2 DEF Stands, Looks, Places, StrideStands, Reached, R, L, N
    <2>5. Stride!SetExpects(view, O)
      BY <1>3, <1>7 DEF Stride!SetExpects, N
    <2> QED
      BY <1>4, <2>1, <2>3, <2>4, <2>5 DEF Kept, w
  <1>9. FrontIsFirst
    <2>1. 0 * N = 0 /\ 0 \in 0 .. Size /\ R(0) = 0
      BY <1>3, <1>6
    <2> QED
      BY <1>1, <1>2, <1>4, <2>1 DEF FrontIsFirst, Stride!Begin
  <1>10. EndIsLast
    <2>1. R(Size) = L /\ Size \in 0 .. Size
      BY <1>6
    <2> QED
      BY <1>1, <1>2, <1>3, <1>4, <2>1 DEF EndIsLast, Stride!End, L
  <1>11. TracesAreSound /\ EndsAreLearnt /\ CopiesAreSound
    BY <1>1 DEF TracesAreSound, EndsAreLearnt, CopiesAreSound
  \* m strides on
  <1>12. ASSUME NEW p \in 0 .. Size, NEW m \in Int, 0 < m, p + m \in 0 .. Size
         PROVE  /\ m * N \in Int /\ 0 < m * N
                /\ Stride!Stop(R(p), m * N, L) = R(p + m)
                /\ p + m = Size => Stride!Rest(R(p), m * N, L) = O
    <2>1. p < Size /\ R(p) = p * N /\ p * N \in Nat
      BY <1>6, <1>12
    <2>2. m * N \in Int /\ (p + m) * N = p * N + m * N
      BY <1>3, Products
    <2>3. 0 < m * N
      <3>1. 0 * N < m * N /\ 0 * N = 0
        BY <1>3, <1>12, Products
      <3> QED
        BY <3>1
    <2> DEFINE x == p * N
               y == m * N
               z == (p + m) * N
    <2>4. x \in Nat /\ y \in Int /\ 0 < y /\ z = x + y /\ R(p) = x
      BY <2>1, <2>2, <2>3
    <2>5. /\ R(p + m) \in 0 .. L /\ (p + m < Size <=> z < L) /\ (p + m = Size => R(p + m) = L)
          /\ p + m # Size => R(p + m) = z /\ z < L
          /\ p + m = Size => O = z - L
      BY <1>5, <1>6, <1>12
    <2> HIDE DEF x, y, z
    <2>6. Stride!Stop(x, y, L) = R(p + m)
      BY <1>3, <1>6, <1>12, <2>4, <2>5 DEF Stride!Stop
    <2>7. p + m = Size => Stride!Rest(x, y, L) = O
      BY <1>3, <2>4, <2>5, <2>6 DEF Stride!Rest
    <2> QED
      BY <2>4, <2>6, <2>7 DEF y
  <1>13. ASSUME NEW c, NEW p, Stands(kind, view, c, p), p < Size
         PROVE  /\ Stride!Next(view, c) = [it |-> R(p + 1)]
                /\ Stride!AfterNext(view, c) = IF p + 1 = Size THEN Stride!WithOffset(view, O) ELSE view
                /\ Stride!NextExpects(view, c)
    <2>1. p \in 0 .. Size /\ c = [it |-> R(p)] /\ p + 1 \in 0 .. Size /\ 1 * N = N /\ R(p) # L
      BY <1>3, <1>4, <1>6, <1>13
    <2>2. /\ Stride!Stop(R(p), N, L) = R(p + 1)
          /\ p + 1 = Size => Stride!Rest(R(p), N, L) = O
      BY <1>12, <2>1
    <2>3. R(p + 1) = L <=> p + 1 = Size
      BY <1>6, <2>1
    <2>4. Stride!Next(view, c) = [it |-> R(p + 1)]
      BY <2>1, <2>2 DEF Stride!Next, L, N
    <2>5. Stride!AfterNext(view, c) = IF p + 1 = Size THEN Stride!WithOffset(view, O) ELSE view
      BY <2>1, <2>2, <2>3, <2>4 DEF Stride!AfterNext, L, N
    <2>6. Stride!NextExpects(view, c)
      BY <1>8, <2>1, <2>2, <2>3 DEF Stride!NextExpects, L, N
    <2> QED
      BY <2>4, <2>5, <2>6
  <1>14. StepsGoOn
    <2>1. ASSUME NEW c, NEW p, Stands(kind, view, c, p), p < Size
          PROVE  /\ Kept(Stride!AfterNext(view, c))
                 /\ Stands(kind, Stride!AfterNext(view, c), Stride!Next(view, c), p + 1)
      <3>1. p + 1 \in 0 .. Size /\ p \in Int
        BY <1>4, <1>6, <2>1
      <3>2. CASE p + 1 = Size
        BY <1>8, <1>13, <2>1, <3>1, <3>2
      <3>3. CASE p + 1 # Size
        BY <1>2, <1>4, <1>13, <2>1, <3>1, <3>3
      <3> QED
        BY <3>2, <3>3
    <2> QED
      BY <1>1, <2>1 DEF StepsGoOn
  \* m strides back, the last of which may be short
  <1>15. ASSUME NEW c, NEW p, NEW m \in Int, Stands(kind, view, c, p), m < 0, p + m \in 0 .. Size
         PROVE  /\ Stride!Steps(view, c, m) \in Int /\ Stride!Steps(view, c, m) < 0
                /\ Stride!Steps(view, c, m) = m * N + (IF c.it = L THEN view.offset ELSE 0)
                /\ c.it + Stride!Steps(view, c, m) = R(p + m) /\ 0 =< R(p + m)
                /\ c.it = L => view.offset >= 0
    <2>1. p \in 0 .. Size /\ c = [it |-> R(p)] /\ p + m < Size /\ (p = Size => view.offset = O)
      BY <1>3, <1>4, <1>6, <1>15
    <2>2. c.it = L <=> p = Size
      BY <1>6, <2>1
    <2> DEFINE o == IF c.it = L THEN view.offset ELSE 0
    <2>3. /\ o \in 0 .. N - 1 /\ R(p) \in Int /\ R(p) + o = p * N
          /\ c.it = L => view.offset >= 0
      <3>1. CASE p = Size
        BY <1>3, <1>5, <1>6, <1>7, <2>1, <2>2, <3>1
      <3>2. CASE p # Size
        BY <1>3, <1>6, <2>1, <2>2, <3>2
      <3> QED
        BY <3>1, <3>2
    <2>4. (p + m) * N = p * N + m * N /\ p * N \in Int /\ m * N \in Int
      BY <1>3, <2>1, Products
    <2>5. m * N + N =< 0
      <3>1. m * N + N =< 0 * N /\ 0 * N = 0
        BY <1>3, <1>15, Products
      <3> QED
        BY <3>1
    <2>6. R(p + m) = (p + m) * N /\ 0 =< R(p + m)
      BY <1>6, <1>15, <2>1
    <2>7. Stride!Steps(view, c, m) = m * N + o
      BY DEF Stride!Steps, L, N
    <2> HIDE DEF o
    <2>8. m * N + o \in Int /\ m * N + o < 0 /\ R(p) + (m * N + o) = R(p + m)
      BY <1>3, <2>3, <2>4, <2>5, <2>6
    <2> QED
      BY <2>1, <2>3, <2>6, <2>7, <2>8 DEF o
  <1>16. StepsGoBack
    <2>1. ASSUME NEW c, NEW p, Stands(kind, view, c, p), p > 0
          PROVE  Stands(kind, view, Stride!Prev(view, c), p - 1)
      <3>1. p \in 0 .. Size /\ c = [it |-> R(p)] /\ R(p) \in Int /\ p - 1 \in 0 .. Size /\ p - 1 < Size /\ p - 1 = p + (-1)
        BY <1>4, <1>6, <2>1
      <3>2. (-1) * N = -N
        BY <1>3
      <3>3. c.it + ((-1) * N + (IF c.it = L THEN view.offset ELSE 0)) = R(p - 1)
        <4>1. -1 \in Int /\ -1 < 0 /\ p + (-1) \in 0 .. Size
          BY <3>1
        <4>2. /\ Stride!Steps(view, c, -1) = (-1) * N + (IF c.it = L THEN view.offset ELSE 0)
              /\ c.it + Stride!Steps(view, c, -1) = R(p + (-1))
          BY <1>15, <2>1, <4>1
        <4> QED
          BY <3>1, <4>2
      <3>4. c.it - N + (IF c.it = L THEN view.offset ELSE 0) = R(p - 1)
        BY <1>3, <3>1, <3>2, <3>3
      <3>5. Stride!Prev(view, c) = [it |-> R(p - 1)]
        BY <3>4 DEF Stride!Prev, L, N
      <3> QED
        BY <1>4, <3>1, <3>5
    <2> QED
      BY <1>1, <2>1 DEF StepsGoBack
  <1>17. ASSUME NEW c, NEW p, NEW m \in Int, Stands(kind, view, c, p), 0 < m, p + m \in 0 .. Size
         PROVE  /\ Stride!Advance(view, c, m) = [it |-> R(p + m)]
                /\ Stride!AfterAdvance(view, c, m) = IF p + m = Size THEN Stride!WithOffset(view, O) ELSE view
                /\ Stride!AdvanceExpects(view, c, m)
    <2>1. p \in 0 .. Size /\ c = [it |-> R(p)] /\ p < Size /\ R(p) # L
      BY <1>4, <1>6, <1>17
    <2>2. /\ m * N \in Int /\ 0 < m * N
          /\ Stride!Stop(R(p), m * N, L) = R(p + m)
          /\ p + m = Size => Stride!Rest(R(p), m * N, L) = O
      BY <1>12, <1>17, <2>1
    <2>3. Stride!Steps(view, c, m) = m * N
      BY <2>1, <2>2 DEF Stride!Steps, L, N
    <2>4. Stride!Advance(view, c, m) = [it |-> R(p + m)]
      BY <1>17, <2>1, <2>2, <2>3 DEF Stride!Advance, L
    <2>5. R(p + m) = L <=> p + m = Size
      BY <1>6, <1>17
    <2>6. Stride!Mod(O, N) = O
      <3>2. O \div N = 0
        BY <1>7, <1>a, NoWholeStep
      <3> QED
        BY <1>3, <1>7, <3>2 DEF Stride!Mod, Stride!Div
    <2>7. p + m = Size => Stride!Mod(Stride!Rest(c.it, Stride!Steps(view, c, m), L), N) = O
      BY <2>1, <2>2, <2>3, <2>6
    <2>8. Stride!AfterAdvance(view, c, m) = IF p + m = Size THEN Stride!WithOffset(view, O) ELSE view
      BY <1>17, <2>4, <2>5, <2>7 DEF Stride!AfterAdvance, L, N
    <2>9. Stride!AdvanceExpects(view, c, m)
      BY <1>8, <1>17, <2>1, <2>4, <2>5, <2>7 DEF Stride!AdvanceExpects, L, N
    <2> QED
      BY <2>4, <2>8, <2>9
  <1>18. ASSUME NEW c, NEW p, NEW m \in Int, Stands(kind, view, c, p), m < 0, p + m \in 0 .. Size
         PROVE  /\ Stride!Advance(view, c, m) = [it |-> R(p + m)]
                /\ Stride!AfterAdvance(view, c, m) = view
                /\ Stride!AdvanceExpects(view, c, m)
    <2>1. /\ Stride!Steps(view, c, m) \in Int /\ Stride!Steps(view, c, m) < 0
          /\ c.it + Stride!Steps(view, c, m) = R(p + m) /\ 0 =< R(p + m)
          /\ c.it = L => view.offset >= 0
      BY <1>15, <1>18
    <2> QED
      BY <1>18, <2>1 DEF Stride!Advance, Stride!AfterAdvance, Stride!AdvanceExpects, L
  <1>19. ASSUME NEW c, NEW p, Stands(kind, view, c, p)
         PROVE  /\ Stride!Advance(view, c, 0) = c
                /\ Stride!AfterAdvance(view, c, 0) = view
                /\ Stride!AdvanceExpects(view, c, 0)
    BY DEF Stride!Advance, Stride!AfterAdvance, Stride!AdvanceExpects
  <1>20. JumpsLand
    <2>1. ASSUME NEW c, NEW p, NEW n \in Int, Stands(kind, view, c, p), p + n \in 0 .. Size
          PROVE  /\ Kept(Stride!AfterAdvance(view, c, n))
                 /\ Stands(kind, Stride!AfterAdvance(view, c, n), Stride!Advance(view, c, n), p + n)
      <3>1. CASE 0 < n
        <4>1. CASE p + n = Size
          BY <1>8, <1>17, <2>1, <3>1, <4>1
        <4>2. CASE p + n # Size
          BY <1>2, <1>4, <1>17, <2>1, <3>1, <4>2
        <4> QED
          BY <4>1, <4>2
      <3>2. CASE n < 0
        <4>1. p + n # Size
          BY <1>4, <1>6, <2>1, <3>2
        <4> QED
          BY <1>2, <1>4, <1>18, <2>1, <3>2, <4>1
      <3>3. CASE n = 0
        <4>1. p + n = p
          BY <1>4, <2>1, <3>3
        <4> QED
          BY <1>2, <1>19, <2>1, <3>3, <4>1
      <3> QED
        BY <3>1, <3>2, <3>3
    <2> QED
      BY <1>1, <2>1 DEF JumpsLand
  <1>21. AssertionsHold
    <2>1. ASSUME NEW c, NEW p, Stands(kind, view, c, p), p > 0
          PROVE  Stride!PrevExpects(view, c)
      <3>1. p \in 0 .. Size /\ c = [it |-> R(p)] /\ p * N \in Nat
        BY <1>4, <1>6, <2>1
      <3>2. 0 * N < p * N /\ 0 * N = 0
        <4>1. p \in Int /\ 0 < p
          BY <2>1, <3>1
        <4> QED
          BY <1>3, <4>1, Products
      <3>3. R(p) # 0
        BY <1>3, <1>6, <2>1, <3>1, <3>2
      <3>4. R(p) = L => view.offset >= 0
        BY <1>3, <1>4, <1>6, <1>7, <2>1, <3>1
      <3> QED
        BY <3>1, <3>3, <3>4 DEF Stride!PrevExpects, L
    <2>2. ASSUME NEW c, NEW p, NEW n \in Int, Stands(kind, view, c, p), p + n \in 0 .. Size
          PROVE  Stride!AdvanceExpects(view, c, n)
      BY <1>17, <1>18, <1>19, <2>2
    <2> QED
      BY <1>1, <1>13, <2>1, <2>2 DEF AssertionsHold
  <1>22. ReadsArePromised
    BY <1>1, <1>4, <1>6 DEF ReadsArePromised, Stride!Read, Stride!Element, N
  \* what lies between two places, rounded up to whole strides
  <1>23. ASSUME NEW p \in 0 .. Size, NEW q \in 0 .. Size, p =< q
         PROVE  (R(q) - R(p) + (N - 1)) \div N = q - p /\ R(p) =< R(q) /\ (p < q => R(p) < R(q))
    <2>1. /\ R(p) \in 0 .. L /\ R(q) \in 0 .. L /\ q - p \in Int /\ p \in Int /\ q \in Int
          /\ p * N \in Nat /\ q * N \in Nat /\ (q - p) * N = q * N - p * N
      <3>1. p \in Int /\ q \in Int
        OBVIOUS
      <3> QED
        BY <1>3, <1>6, <3>1, Products
    <2>2. CASE p = q
      <3> DEFINE r == N - 1
      <3>1. r \in 0 .. N - 1
        BY <1>a
      <3>3. R(q) - R(p) + (N - 1) = r
        BY <1>3, <2>1, <2>2
      <3> HIDE DEF r
      <3>2. r \div N = 0
        BY <1>a, <3>1, NoWholeStep
      <3> QED
        BY <2>1, <2>2, <3>2, <3>3
    <2>3. CASE p < q
      <3>1. R(p) = p * N
        BY <1>6, <2>3
      <3>2. R(q) =< q * N /\ q * N < R(q) + N
        <4>1. CASE q = Size
          BY <1>3, <1>5, <1>6, <4>1
        <4>2. CASE q # Size
          BY <1>3, <1>6, <4>2
        <4> QED
          BY <4>1, <4>2
      <3> DEFINE x == p * N
                 y == q * N
                 z == (q - p) * N
                 a == R(q)
      <3>3. x \in Nat /\ y \in Nat /\ z = y - x /\ a \in Nat /\ a =< y /\ y < a + N
        BY <2>1, <3>2
      <3>4. x + N =< y
        BY <1>3, <2>1, <2>3, Products
      <3> HIDE DEF x, y, z, a
      <3>5. z =< a - x + (N - 1) /\ a - x + (N - 1) < z + N /\ a - x + (N - 1) \in Int /\ x < a
        BY <1>3, <3>3, <3>4
      <3>6. (a - x + (N - 1)) \div N = q - p
        BY <1>3, <2>1, <3>5, QuotientIsTold DEF z
      <3> QED
        BY <3>1, <3>3, <3>5, <3>6 DEF a, x
    <2> QED
      BY <1>23, <2>1, <2>2, <2>3
  <1>24. PlacesAreTold
    <2>1. ASSUME NEW c, NEW d, NEW p, NEW q, Stands(kind, view, c, p), Stands(kind, view, d, q)
          PROVE  /\ Stride!Equal(c, d) <=> p = q
                 /\ Stride!Distance(view, c, d) = q - p
      <3>1. /\ p \in 0 .. Size /\ c.it = R(p) /\ R(p) \in Int /\ p \in Int
            /\ q \in 0 .. Size /\ d.it = R(q) /\ R(q) \in Int /\ q \in Int
        BY <1>4, <1>6, <2>1
      <3> DEFINE delta == R(q) - R(p)
      <3>2. Stride!Distance(view, c, d) =
              IF delta < 0 THEN Stride!Div(delta - (N - 1), N) ELSE Stride!Div(delta + (N - 1), N)
        BY <3>1 DEF Stride!Distance, N
      <3>3. CASE p =< q
        <4>1. (delta + (N - 1)) \div N = q - p /\ delta >= 0 /\ delta + (N - 1) >= 0 /\ (p < q => R(p) # R(q))
          BY <1>3, <1>23, <3>1, <3>3
        <4>2. Stride!Distance(view, c, d) = q - p
          BY <1>3, <3>1, <3>2, <4>1 DEF Stride!Div
        <4> QED
          BY <3>1, <3>3, <4>1, <4>2 DEF Stride!Equal
      <3>4. CASE q < p
        <4>1. (R(p) - R(q) + (N - 1)) \div N = p - q /\ R(q) < R(p)
          BY <1>23, <3>1, <3>4
        <4>2. /\ delta < 0 /\ delta - (N - 1) < 0 /\ -(delta - (N - 1)) = R(p) - R(q) + (N - 1)
              /\ delta - (N - 1) \in Int
          BY <1>3, <3>1, <4>1
        <4>3. Stride!Distance(view, c, d) = -(p - q)
          BY <3>2, <4>1, <4>2 DEF Stride!Div
        <4> QED
          BY <3>1, <3>4, <4>1, <4>3 DEF Stride!Equal
      <3> QED
        BY <3>1, <3>3, <3>4
    <2> QED
      BY <1>1, <2>1 DEF PlacesAreTold
  <1>25. EndIsTold
    <2>1. \A c, p : Stands(kind, view, c, p) => (Stride!AtEnd(view, c) <=> p = Size)
      BY <1>4, <1>6 DEF Stride!AtEnd, L
    <2> QED
      BY <1>1, <2>1 DEF EndIsTold
  <1> QED
    BY <1>9, <1>10, <1>11, <1>14, <1>16, <1>20, <1>21, <1>22, <1>24, <1>25 DEF Contract

\* A cycled_view: laps and iterator are the quotient and the remainder of the
\* place.
LEMMA CycleKeepsContract ==
  ASSUME kind = "cycle", Known = {}, Sound(kind, view)
  PROVE  Contract
  <1>0. CycleSound(view)
    BY DEF Sound
  <1>1. /\ Begins = {Cycle!Begin(view)} /\ AfterBegin = view
        /\ Size = MaxPos /\ ~Common /\ ~LeavesATrace /\ Copied = [view EXCEPT !.end = Cycle!NotCached]
        /\ \A c : /\ Steps(c) = {Cycle!Next(view, c)} /\ AfterStep(c) = Cycle!AfterNext(view, c)
                  /\ SteppedBack(c) = Cycle!Prev(view, c)
                  /\ NextExpects(c) <=> Cycle!NextExpects(view, c)
                  /\ PrevExpects(c) <=> Cycle!PrevExpects(view, c)
                  /\ ReadExpects(c)
                  /\ ReadAt(c) = Cycle!Read(view, c)
        /\ \A c, n : /\ Advanced(c, n) = Cycle!Advance(view, c, n) /\ AfterAdvance(c, n) = Cycle!WithEnd(view)
                     /\ MayAdvance(c, n) => Cycle!StaysAligned(view, c, n)
                     /\ AdvanceExpects(c, n) <=> Cycle!AdvanceExpects(view, c, n)
        /\ \A c, d : /\ Difference(c, d) = Cycle!Distance(view, c, d)
                     /\ Equal(c, d) <=> Cycle!Equal(c, d)
        /\ \A p : Element(p) = Cycle!Element(view, p)
    BY DEF Begins, FromBegin, AfterBegin, Size, Common, LeavesATrace, Copied,
       Steps, Stepped, AfterStep, SteppedBack, NextExpects, ReadExpects, PrevExpects, MayAdvance,
       ReadAt, Advanced, AfterAdvance, AdvanceExpects, Difference, Equal, Element
  <1>2. Kept(view) /\ kind \notin OnePass
    BY SameIsKept DEF OnePass
  <1>3. \A v, c, p : Stands(kind, v, c, p) <=> p \in 0 .. MaxPos /\ CycleStands(v, c, p)
    BY DEF Stands, Looks, Places
  <1> DEFINE L == view.len
  <1>4. /\ view \in [len : Nat \ {0}, common : BOOLEAN, end : Int] /\ L \in Nat \ {0} /\ MaxPos \in Nat
        /\ Cycle!NotCached = -1 /\ view.end \in {-1, L}
    BY <1>0, BoundsAreNatural DEF CycleSound, Cycle!NotCached
  <1>a. L \in Nat \ {0}
    BY <1>4
  \* whatever is known of the end is right, and who stood stands when it is
  <1>5. /\ Kept(Cycle!WithEnd(view))
        /\ \A c, p : /\ p \in 0 .. MaxPos /\ c \in [it : Int, n : Int]
                     /\ 0 =< c.it /\ c.it < L /\ 0 =< c.n /\ p = c.n * L + c.it
                     => Stands(kind, Cycle!WithEnd(view), c, p)
    <2> DEFINE w == Cycle!WithEnd(view)
    <2>1. /\ w \in [len : Nat \ {0}, common : BOOLEAN, end : Int]
          /\ w.len = L /\ w.common = view.common /\ w.end \in {-1, L}
          /\ w.common \/ w.end = L
      <3>1. CASE view.common
        BY <1>4, <3>1 DEF Cycle!WithEnd
      <3>2. CASE ~view.common
        BY <1>4, <3>2 DEF Cycle!WithEnd
      <3> QED
        BY <3>1, <3>2
    <2> HIDE DEF w
    <2>2. Sound(kind, w)
      BY <2>1 DEF Sound, CycleSound, Cycle!NotCached
    <2>3. \A c, p : /\ p \in 0 .. MaxPos /\ c \in [it : Int, n : Int]
                    /\ 0 =< c.it /\ c.it < L /\ 0 =< c.n /\ p = c.n * L + c.it
                    => Stands(kind, w, c, p)
      BY <1>3, <2>1 DEF CycleStands
    <2>4. \A c, p : Stands(kind, view, c, p) => Stands(kind, w, c, p)
      BY <1>3, <2>3 DEF CycleStands
    <2> QED
      BY <2>2, <2>3, <2>4 DEF Kept, w
  <1>6. \A c, p : Stands(kind, view, c, p) =>
          /\ p \in Int /\ 0 =< p /\ p =< MaxPos
          /\ c \in [it : Int, n : Int] /\ c.it \in Int /\ c.n \in Int
          /\ 0 =< c.it /\ c.it < L /\ 0 =< c.n /\ p = c.n * L + c.it
          /\ c.n > 0 => view.common \/ view.end = L
    BY <1>3, <1>4 DEF CycleStands
  <1>7. \A c, p : /\ p \in 0 .. MaxPos /\ c \in [it : Int, n : Int]
                  /\ 0 =< c.it /\ c.it < L /\ 0 =< c.n /\ p = c.n * L + c.it
                  /\ c.n > 0 => view.common \/ view.end = L
                  => Stands(kind, view, c, p)
    BY <1>3 DEF CycleStands
  <1> HIDE DEF L
  <1>8. FrontIsFirst
    <2>1. 0 * L + 0 = 0 /\ 0 \in 0 .. MaxPos
      BY <1>4
    <2>2. Stands(kind, view, [it |-> 0, n |-> 0], 0)
      BY <1>4, <1>7, <2>1
    <2> QED
      BY <1>1, <1>2, <2>2 DEF FrontIsFirst, Cycle!Begin
  <1>9. EndIsLast /\ TracesAreSound
    BY <1>1 DEF EndIsLast, TracesAreSound
  <1>10. EndsAreLearnt
    BY <1>5 DEF EndsAreLearnt
  <1>11. CopiesAreSound
    BY <1>1, <1>4 DEF CopiesAreSound, Sound, CycleSound
  <1>12. StepsGoOn
    <2>1. ASSUME NEW c, NEW p, Stands(kind, view, c, p), p < MaxPos
          PROVE  /\ Kept(Cycle!AfterNext(view, c))
                 /\ Stands(kind, Cycle!AfterNext(view, c), Cycle!Next(view, c), p + 1)
      <3>1. p + 1 \in 0 .. MaxPos /\ (c.n + 1) * L = c.n * L + L
        BY <1>4, <1>6, <2>1
      <3>2. CASE c.it + 1 = L
        <4> DEFINE d == [it |-> 0, n |-> c.n + 1]
        <4>1. Cycle!Next(view, c) = d /\ Cycle!AfterNext(view, c) = Cycle!WithEnd(view)
          BY <3>2 DEF Cycle!Next, Cycle!AfterNext, L
        <4>2. d \in [it : Int, n : Int] /\ d.it = 0 /\ d.n = c.n + 1
          BY <1>6, <2>1
        <4> HIDE DEF d
        <4>3. p + 1 = d.n * L + d.it /\ 0 < L /\ 0 =< d.n
          <5> DEFINE x == c.n * L
          <5>1. x \in Int
            BY <1>4, <1>6, <2>1
          <5>2. p = x + c.it /\ (c.n + 1) * L = x + L /\ c.it \in Int /\ L \in Nat \ {0}
            BY <1>4, <1>6, <2>1, <3>1
          <5> HIDE DEF x
          <5> QED
            BY <1>6, <2>1, <3>2, <4>2, <5>1, <5>2
        <4> QED
          BY <1>5, <3>1, <4>1, <4>2, <4>3
      <3>3. CASE c.it + 1 # L
        <4> DEFINE d == [c EXCEPT !.it = c.it + 1]
        <4>1. Cycle!Next(view, c) = d /\ Cycle!AfterNext(view, c) = view
          BY <3>3 DEF Cycle!Next, Cycle!AfterNext, L
        <4>2. d \in [it : Int, n : Int] /\ d.it = c.it + 1 /\ d.n = c.n
          BY <1>6, <2>1
        <4> HIDE DEF d
        <4>3. p + 1 = d.n * L + d.it /\ d.it < L
          <5>1. c.n * L \in Int
            BY <1>4, <1>6, <2>1
          <5> QED
            BY <1>4, <1>6, <2>1, <3>3, <4>2, <5>1
        <4>4. 0 =< d.it /\ 0 =< d.n /\ (d.n > 0 => view.common \/ view.end = L)
          BY <1>6, <2>1, <4>2
        <4> QED
          BY <1>2, <1>7, <3>1, <4>1, <4>2, <4>3, <4>4
      <3> QED
        BY <3>2, <3>3
    <2> QED
      BY <1>1, <2>1 DEF StepsGoOn
  \* stepping back over the front of the base takes an end, which is known
  <1>13. ASSUME NEW c, NEW p, Stands(kind, view, c, p), p > 0, c.it = 0
         PROVE  c.n > 0 /\ Cycle!End(view) = L
    <2>1. c.n # 0
      <3>1. 0 * L = 0
        BY <1>4
      <3> QED
        BY <1>6, <1>13, <3>1
    <2> QED
      BY <1>6, <1>13, <2>1 DEF Cycle!End, L
  <1>14. StepsGoBack
    <2>1. ASSUME NEW c, NEW p, Stands(kind, view, c, p), p > 0
          PROVE  Stands(kind, view, Cycle!Prev(view, c), p - 1)
      <3>1. p - 1 \in 0 .. MaxPos /\ (c.n - 1) * L = c.n * L - L /\ c.n * L \in Int
        BY <1>4, <1>6, <2>1
      <3>2. CASE c.it = 0
        <4> DEFINE d == [it |-> L - 1, n |-> c.n - 1]
        <4>1. Cycle!Prev(view, c) = d /\ c.n > 0
          BY <1>13, <2>1, <3>2 DEF Cycle!Prev
        <4>2. d \in [it : Int, n : Int] /\ d.it = L - 1 /\ d.n = c.n - 1
          BY <1>4, <1>6, <2>1
        <4> HIDE DEF d
        <4>3. 0 =< d.it /\ d.it < L /\ 0 =< d.n /\ (view.common \/ view.end = L)
          BY <1>4, <1>6, <2>1, <4>1, <4>2
        <4>4. p - 1 = d.n * L + d.it
          <5> DEFINE x == c.n * L
          <5>1. x \in Int /\ p = x + 0 /\ (c.n - 1) * L = x - L /\ L \in Int
            BY <1>4, <1>6, <2>1, <3>1, <3>2
          <5> HIDE DEF x
          <5> QED
            BY <4>2, <5>1
        <4> QED
          BY <1>7, <3>1, <4>1, <4>2, <4>3, <4>4
      <3>3. CASE c.it # 0
        <4> DEFINE d == [c EXCEPT !.it = c.it - 1]
        <4>1. Cycle!Prev(view, c) = d
          BY <3>3 DEF Cycle!Prev
        <4>2. d \in [it : Int, n : Int] /\ d.it = c.it - 1 /\ d.n = c.n
          BY <1>6, <2>1
        <4> HIDE DEF d
        <4>3. p - 1 = d.n * L + d.it /\ 0 =< d.it /\ d.it < L /\ 0 =< d.n /\ (d.n > 0 => view.common \/ view.end = L)
          <5>1. 0 =< d.it /\ d.it < L /\ 0 =< d.n /\ (d.n > 0 => view.common \/ view.end = L)
            BY <1>6, <1>a, <2>1, <3>3, <4>2
          <5>2. p - 1 = d.n * L + d.it
            <6> DEFINE x == c.n * L
            <6>1. x \in Int /\ p = x + c.it /\ c.it \in Int
              BY <1>6, <2>1, <3>1
            <6> HIDE DEF x
            <6>2. p - 1 = x + d.it
              BY <4>2, <6>1
            <6> QED
              BY <4>2, <6>2 DEF x
          <5> QED
            BY <5>1, <5>2
        <4> QED
          BY <1>7, <3>1, <4>1, <4>2, <4>3
      <3> QED
        BY <3>2, <3>3
    <2> QED
      BY <1>1, <2>1 DEF StepsGoBack
  \* where a jump that stays aligned comes to
  <1>15. ASSUME NEW c, NEW p, NEW n \in Int, Stands(kind, view, c, p), p + n \in 0 .. MaxPos,
                Cycle!StaysAligned(view, c, n)
         PROVE  \E k \in Int, r \in 0 .. L - 1 :
                  /\ c.it + n = k * L + r /\ 0 =< c.n + k
                  /\ Cycle!Div(c.it + n, L) = k /\ Cycle!Mod(c.it + n, L) = r
    <2> DEFINE a == c.it + n
    <2>1. a \in Int /\ c.n \in Int /\ c.n * L \in Int /\ p + n = c.n * L + a /\ 0 =< p + n
      BY <1>4, <1>6, <1>15
    <2>2. a >= 0 \/ Cycle!Mod(a, L) = 0
      BY <1>15 DEF Cycle!StaysAligned, L
    <2> HIDE DEF a
    <2>3. ASSUME NEW k \in Int, NEW r \in 0 .. L - 1, a = k * L + r
          PROVE  0 =< c.n + k
      <3>1. (c.n + k) * L = c.n * L + k * L /\ k * L \in Int /\ (c.n + k < 0 => (c.n + k) * L + L =< 0 * L) /\ 0 * L = 0
        <4>1. c.n + k \in Int /\ 0 \in Int
          BY <2>1
        <4> QED
          BY <1>a, <2>1, <4>1, Products
      <3>2. (c.n + k) * L + r = p + n
        BY <2>1, <2>3, <3>1
      <3>3. (c.n + k) * L \in Int
        BY <2>1, <3>1
      <3> QED
        BY <1>a, <2>1, <3>1, <3>2, <3>3
    <2>4. CASE a >= 0
      <3> DEFINE k == a \div L
                 r == a - k * L
      <3>1. k \in Int /\ k * L =< a /\ a < k * L + L
        BY <1>a, <2>1, QuotientOf
      <3>2. Cycle!Div(a, L) = k
        BY <2>4 DEF Cycle!Div
      <3> HIDE DEF k
      <3>3. k * L \in Int /\ L * k = k * L
        BY <1>a, <3>1
      <3>4. r \in 0 .. L - 1 /\ a = k * L + r /\ Cycle!Mod(a, L) = r
        BY <1>a, <2>1, <3>1, <3>2, <3>3 DEF Cycle!Mod
      <3> QED
        BY <2>3, <3>1, <3>2, <3>4 DEF a
    <2>5. CASE ~(a >= 0)
      <3> DEFINE k == Cycle!Div(a, L)
      <3>1. k \in Int
        <4>1. -a \in Int
          BY <2>1
        <4> QED
          BY <1>a, <2>5, <4>1, QuotientOf DEF Cycle!Div
      <3> HIDE DEF k
      <3>2. a - L * k = 0
        BY <2>2, <2>5 DEF Cycle!Mod, k
      <3>3. a = k * L + 0
        BY <1>a, <2>1, <3>1, <3>2
      <3>4. 0 \in 0 .. L - 1
        BY <1>a
      <3> QED
        BY <2>2, <2>3, <2>5, <3>1, <3>3, <3>4 DEF a, k
    <2> QED
      BY <2>4, <2>5
  <1>16. JumpsLand
    <2>1. ASSUME NEW c, NEW p, NEW n \in Int, Stands(kind, view, c, p), p + n \in 0 .. MaxPos,
                 Cycle!StaysAligned(view, c, n)
          PROVE  Stands(kind, Cycle!WithEnd(view), Cycle!Advance(view, c, n), p + n)
      <3>1. PICK k \in Int, r \in 0 .. L - 1 :
              /\ c.it + n = k * L + r /\ 0 =< c.n + k
              /\ Cycle!Div(c.it + n, L) = k /\ Cycle!Mod(c.it + n, L) = r
        BY <1>15, <2>1
      <3> DEFINE d == [it |-> r, n |-> c.n + k]
      <3>2. Cycle!Advance(view, c, n) = d
        <4>1. ~(r < 0)
          BY <1>a
        <4> QED
          BY <3>1, <4>1 DEF Cycle!Advance, L
      <3>3. d \in [it : Int, n : Int] /\ d.it = r /\ d.n = c.n + k
        BY <1>6, <2>1
      <3> HIDE DEF d
      <3>4. p + n = d.n * L + d.it
        <4>1. (c.n + k) * L = c.n * L + k * L /\ c.n * L \in Int /\ k * L \in Int
          BY <1>6, <1>a, <2>1
        <4>2. p + n = c.n * L + (c.it + n)
          BY <1>6, <2>1, <4>1
        <4>3. p + n = c.n * L + (k * L + r)
          BY <3>1, <4>2
        <4> QED
          BY <3>3, <4>1, <4>3
      <3>5. 0 =< d.it /\ d.it < L /\ 0 =< d.n
        BY <1>a, <3>1, <3>3
      <3> QED
        BY <1>5, <2>1, <3>2, <3>3, <3>4, <3>5
    <2> QED
      BY <1>1, <1>5, <2>1 DEF JumpsLand
  <1>17. AssertionsHold
    <2>1. ASSUME NEW c, NEW p, Stands(kind, view, c, p)
          PROVE  /\ Cycle!NextExpects(view, c)
                 /\ p > 0 => Cycle!PrevExpects(view, c)
      <3>1. Cycle!NextExpects(view, c)
        BY <1>6, <1>a, <2>1 DEF Cycle!NextExpects, L
      <3>2. p > 0 => Cycle!PrevExpects(view, c)
        <4>1. L # -1
          BY <1>a
        <4> QED
          BY <1>4, <1>13, <2>1, <4>1 DEF Cycle!PrevExpects
      <3> QED
        BY <3>1, <3>2
    <2>2. ASSUME NEW c, NEW p, NEW n \in Int, Stands(kind, view, c, p), p + n \in 0 .. MaxPos,
                 Cycle!StaysAligned(view, c, n)
          PROVE  Cycle!AdvanceExpects(view, c, n)
      BY <1>6, <1>15, <2>2 DEF Cycle!AdvanceExpects, L
    <2> QED
      BY <1>1, <2>1, <2>2 DEF AssertionsHold
  <1>18. ReadsArePromised
    <2>1. ASSUME NEW c, NEW p, Stands(kind, view, c, p)
          PROVE  p % L = c.it
      <3>1. p \in Int /\ c.n \in Int /\ c.n * L \in Int /\ c.n * L =< p /\ p < c.n * L + L /\ p - c.n * L = c.it
        BY <1>6, <1>a, <2>1
      <3> QED
        BY <1>a, <3>1, QuotientIsTold
    <2> QED
      BY <1>1, <2>1 DEF ReadsArePromised, Cycle!Read, Cycle!Element, L
  <1>19. PlacesAreTold
    <2>1. ASSUME NEW c, NEW d, NEW p, NEW q, Stands(kind, view, c, p), Stands(kind, view, d, q)
          PROVE  /\ Cycle!Equal(c, d) <=> p = q
                 /\ Cycle!Distance(view, c, d) = q - p
      <3>1. /\ p \in Int /\ c.n \in Int /\ c.it \in Int /\ 0 =< c.it /\ c.it < L /\ p = c.n * L + c.it
            /\ q \in Int /\ d.n \in Int /\ d.it \in Int /\ 0 =< d.it /\ d.it < L /\ q = d.n * L + d.it
        BY <1>6, <2>1
      <3>2. /\ c.n * L \in Int /\ d.n * L \in Int /\ (d.n - c.n) * L = d.n * L - c.n * L
            /\ c.n < d.n => c.n * L + L =< d.n * L
        BY <1>a, <3>1, Products
      <3>3. d.n < c.n => d.n * L + L =< c.n * L
        BY <1>a, <3>1, Products
      <3>4. Cycle!Distance(view, c, d) = q - p
        BY <3>1, <3>2 DEF Cycle!Distance, L
      <3>5. p = q => c.n = d.n /\ c.it = d.it
        <4>1. p = q => ~(c.n < d.n) /\ ~(d.n < c.n)
          BY <1>a, <3>1, <3>2, <3>3
        <4>2. p = q => c.n = d.n
          BY <3>1, <4>1
        <4> QED
          BY <3>1, <3>2, <4>2
      <3>6. c.n = d.n /\ c.it = d.it => p = q
        BY <3>1
      <3> QED
        BY <3>4, <3>5, <3>6 DEF Cycle!Equal
    <2> QED
      BY <1>1, <2>1 DEF PlacesAreTold
  <1>20. EndIsTold
    BY DEF EndIsTold
  <1> QED
    BY <1>8, <1>9, <1>10, <1>11, <1>12, <1>14, <1>16, <1>17, <1>18, <1>19, <1>20 DEF Contract

\* A number written with a digit r to the base n.
LEMMA DigitIsTold ==
  ASSUME NEW n \in Nat \ {0}, NEW q \in Int, NEW r \in 0 .. n - 1
  PROVE  (q * n + r) \div n = q /\ (q * n + r) % n = r
  <1>1. q * n \in Int /\ q * n + r \in Int /\ q * n =< q * n + r /\ q * n + r < q * n + n
    BY Products
  <1>2. (q * n + r) \div n = q /\ (q * n + r) % n = (q * n + r) - q * n
    BY <1>1, QuotientIsTold
  <1> QED
    BY <1>1, <1>2

\* Numbers with a digit are ordered by what is ahead of it.
LEMMA DigitsAreOrdered ==
  ASSUME NEW n \in Nat \ {0}, NEW q \in Int, NEW s \in Int, NEW r \in 0 .. n - 1, NEW t \in 0 .. n - 1
  PROVE  /\ q * n + r \in Int /\ s * n + t \in Int
         /\ q < s => q * n + r < s * n + t
         /\ q * n + r = s * n + t <=> q = s /\ r = t
         /\ 0 =< q <=> 0 =< q * n + r
         /\ q < s <=> q * n + r < s * n
  <1> DEFINE x == q * n
             y == s * n
  <1>1. /\ x \in Int /\ y \in Int
        /\ q < s => x + n =< y
        /\ s < q => y + n =< x
        /\ q = s => x = y
        /\ 0 =< q <=> 0 =< x
        /\ q < 0 => x + n =< 0
    <2>1. 0 * n = 0 /\ (0 =< q <=> 0 * n =< q * n) /\ (q < 0 => q * n + n =< 0 * n)
      BY Products
    <2>2. x \in Int /\ y \in Int /\ (q < s => x + n =< y) /\ (s < q => y + n =< x)
      BY Products
    <2> QED
      BY <2>1, <2>2
  <1> HIDE DEF x, y
  <1>2. /\ x + r \in Int /\ y + t \in Int
        /\ q < s => x + r < y + t
        /\ x + r = y + t <=> q = s /\ r = t
        /\ 0 =< q <=> 0 =< x + r
        /\ q < s <=> x + r < y
    BY <1>1
  <1> QED
    BY <1>2 DEF x, y

\* The greatest of a set that is told by where it ends.
LEMMA GreatestIsMax ==
  ASSUME NEW S \in SUBSET Int, NEW m \in S, \A x \in S : x =< m
  PROVE  Cartesian!Max(S) = m
  <1>1. m \in S /\ \A y \in S : m >= y
    OBVIOUS
  <1>2. Cartesian!Max(S) \in S /\ \A y \in S : Cartesian!Max(S) >= y
    BY <1>1 DEF Cartesian!Max
  <1>3. Cartesian!Max(S) \in Int /\ m \in Int
    BY <1>2
  <1> QED
    BY <1>1, <1>2, <1>3

\* A cartesian_product_view: the iterators are the digits of the place, and one
\* place is behind the last of them.
LEMMA CartesianKeepsContract ==
  ASSUME kind = "cartesian", Known = {}, Sound(kind, view)
  PROVE  Contract
  <1>0. view.lens \in [1 .. 3 -> Nat] /\ view.common \in BOOLEAN /\ ~Cartesian!EndRunsOff(view)
    BY DEF Sound, CartesianSound
  <1>1. /\ Begins = {Cartesian!Begin(view)} /\ AfterBegin = view
        /\ FromEnd = Cartesian!End(view) /\ AfterEnd = view
        /\ Size = Cartesian!Size(view)
        /\ ~LeavesATrace /\ Copied = view
        /\ \A c : /\ Steps(c) = {Cartesian!Next(view, c)} /\ AfterStep(c) = view
                  /\ SteppedBack(c) = Cartesian!Prev(view, c)
                  /\ NextExpects(c) <=> Cartesian!NextExpects(view, c)
                  /\ PrevExpects(c) <=> Cartesian!PrevExpects(view, c)
                  /\ ReadExpects(c) <=> Cartesian!ReadExpects(view, c)
                  /\ ReadAt(c) = Cartesian!Read(view, c)
                  /\ AtEnd(c) <=> Cartesian!AtEnd(view, c)
        /\ \A c, n : /\ Advanced(c, n) = Cartesian!Advance(view, c, n) /\ AfterAdvance(c, n) = view
                     /\ AdvanceExpects(c, n) <=> Cartesian!AdvanceExpects(view, c, n)
        /\ \A c, d : /\ Difference(c, d) = Cartesian!Distance(view, c, d)
                     /\ Equal(c, d) <=> Cartesian!Equal(c, d)
        /\ \A p : Element(p) = Cartesian!Element(view, p)
    BY DEF Begins, FromBegin, AfterBegin, FromEnd, AfterEnd, Size, SinglePass,
       LeavesATrace, Copied, Steps, Stepped, AfterStep, SteppedBack, NextExpects, ReadExpects, PrevExpects,
       ReadAt, AtEnd, Advanced, AfterAdvance, AdvanceExpects, Difference, Equal, Element
  <1>2. Kept(view) /\ kind \notin OnePass
    BY SameIsKept DEF OnePass
  <1> DEFINE L == view.lens[1]
             M == view.lens[2]
             N == view.lens[3]
             At(x, y, z) == (x * M + y) * N + z
             In(x, y, z) == 0 =< x /\ x < L /\ 0 =< y /\ y < M /\ 0 =< z /\ z < N
             Last(x, y, z) == x = L /\ y = 0 /\ z = 0
  <1>3. /\ L \in Nat /\ M \in Nat /\ N \in Nat /\ 1 .. 3 = {1, 2, 3} /\ Cartesian!Factors = 3
        /\ Size = L * M * N /\ Size \in Nat /\ (Size = 0 <=> L = 0 \/ M = 0 \/ N = 0)
    <2>1. L \in Nat /\ M \in Nat /\ N \in Nat /\ 1 .. 3 = {1, 2, 3} /\ Cartesian!Factors = 3
      BY <1>0 DEF Cartesian!Factors
    <2>2. Size = L * M * N
      BY <1>1 DEF Cartesian!Size
    <2> HIDE DEF L, M, N
    <2>3. \A a, b \in Nat : a * b \in Nat /\ (a * b = 0 <=> a = 0 \/ b = 0)
      <3>1. SUFFICES ASSUME NEW a \in Nat, NEW b \in Nat
                     PROVE  a * b \in Nat /\ (a * b = 0 <=> a = 0 \/ b = 0)
        OBVIOUS
      <3>2. CASE b = 0
        BY <3>1, <3>2
      <3>3. CASE b # 0
        <4>1. b \in Nat \ {0}
          BY <3>1, <3>3
        <4>2. a * b \in Int /\ 0 * b = 0 /\ (0 < a <=> 0 * b < a * b)
          BY <3>1, <4>1, Products
        <4> QED
          BY <3>1, <3>3, <4>2
      <3> QED
        BY <3>2, <3>3
    <2>4. L * M \in Nat /\ (L * M = 0 <=> L = 0 \/ M = 0)
      BY <2>1, <2>3
    <2>5. (L * M) * N \in Nat /\ ((L * M) * N = 0 <=> L * M = 0 \/ N = 0)
      BY <2>1, <2>3, <2>4
    <2> QED
      BY <2>1, <2>2, <2>4, <2>5
  \* what stands at a place, one factor at a time
  <1>4. \A c, p : Stands(kind, view, c, p) <=>
          /\ p \in 0 .. Size /\ c \in [1 .. 3 -> Int]
          /\ In(c[1], c[2], c[3]) \/ Last(c[1], c[2], c[3])
          /\ p = At(c[1], c[2], c[3])
    <2>1. \A c, p : Stands(kind, view, c, p) <=> p \in 0 .. Size /\ CartesianStands(view, c, p)
      BY <1>1 DEF Stands, Looks, Places
    <2>2. \A c : (\A k \in 1 .. 3 : 0 =< c[k] /\ c[k] < view.lens[k]) <=> In(c[1], c[2], c[3])
      BY <1>3
    <2> QED
      BY <2>1, <2>2 DEF CartesianStands
  <1> HIDE DEF L, M, N
  <1>5. \A x, y, z \in Int : At(x, y, z) \in Int
    BY <1>3
  \* of the places, those inside are the ones ahead of the end, in order
  <1>6. \A x, y, z \in Int : In(x, y, z) => 0 =< At(x, y, z) /\ At(x, y, z) < Size
    <2>1. SUFFICES ASSUME NEW x \in Int, NEW y \in Int, NEW z \in Int, In(x, y, z)
                   PROVE  0 =< At(x, y, z) /\ At(x, y, z) < Size
      OBVIOUS
    <2>2. M \in Nat \ {0} /\ N \in Nat \ {0} /\ y \in 0 .. M - 1 /\ z \in 0 .. N - 1 /\ L \in Int
      BY <1>3, <2>1
    <2>3. x * M + y \in Int /\ 0 =< x * M + y /\ x * M + y < L * M /\ L * M \in Int
      BY <1>3, <2>1, <2>2, DigitsAreOrdered
    <2> DEFINE s == x * M + y
               t == L * M
    <2>4. s \in Int /\ t \in Int /\ 0 =< s /\ s < t
      BY <2>3
    <2>5. Size = t * N
      BY <1>3
    <2> HIDE DEF s, t
    <2>6. 0 =< s * N + z /\ s * N + z < t * N
      BY <2>2, <2>4, DigitsAreOrdered
    <2> QED
      BY <2>5, <2>6 DEF s
  <1>7. \A x, y, z \in Int : Last(x, y, z) => At(x, y, z) = Size
    BY <1>3
  <1>8. \A x, y, z, u, v, w \in Int :
          (In(x, y, z) \/ Last(x, y, z)) /\ (In(u, v, w) \/ Last(u, v, w)) =>
            (At(x, y, z) = At(u, v, w) <=> x = u /\ y = v /\ z = w)
    <2> SUFFICES ASSUME NEW x \in Int, NEW y \in Int, NEW z \in Int,
                        NEW u \in Int, NEW v \in Int, NEW w \in Int,
                        In(x, y, z) \/ Last(x, y, z), In(u, v, w) \/ Last(u, v, w)
                 PROVE  At(x, y, z) = At(u, v, w) <=> x = u /\ y = v /\ z = w
      OBVIOUS
    <2>1. CASE In(x, y, z) /\ In(u, v, w)
      <3>1. SUFFICES ASSUME At(x, y, z) = At(u, v, w) PROVE x = u /\ y = v /\ z = w
        OBVIOUS
      <3>2. M \in Nat \ {0} /\ N \in Nat \ {0} /\ y \in 0 .. M - 1 /\ z \in 0 .. N - 1
            /\ v \in 0 .. M - 1 /\ w \in 0 .. N - 1
        BY <1>3, <2>1
      <3>3. x * M + y \in Int /\ u * M + v \in Int /\ (x * M + y = u * M + v <=> x = u /\ y = v)
        BY <3>2, DigitsAreOrdered
      <3> DEFINE s == x * M + y
                 t == u * M + v
      <3>4. s \in Int /\ t \in Int /\ s * N + z = t * N + w
        BY <3>1, <3>3
      <3> HIDE DEF s, t
      <3>5. s = t /\ z = w
        BY <3>2, <3>4, DigitsAreOrdered
      <3> QED
        BY <3>3, <3>5 DEF s, t
    <2>2. CASE Last(x, y, z) /\ Last(u, v, w)
      BY <2>2
    <2>3. ASSUME (In(x, y, z) /\ Last(u, v, w)) \/ (Last(x, y, z) /\ In(u, v, w))
          PROVE  At(x, y, z) # At(u, v, w) /\ x # u
      <3>1. x # u
        BY <1>3, <2>3
      <3> HIDE DEF In, Last, At
      <3>2. /\ In(x, y, z) => At(x, y, z) < Size
            /\ Last(x, y, z) => At(x, y, z) = Size
            /\ In(u, v, w) => At(u, v, w) < Size
            /\ Last(u, v, w) => At(u, v, w) = Size
        BY <1>6, <1>7
      <3>3. At(x, y, z) \in Int /\ At(u, v, w) \in Int /\ Size \in Int
        BY <1>3, <1>5
      <3> QED
        BY <2>3, <3>1, <3>2, <3>3
    <2> HIDE DEF In, Last, At
    <2> QED
      BY <2>1, <2>2, <2>3
  <1>9. \A c, p : Stands(kind, view, c, p) =>
          /\ p \in Int /\ 0 =< p /\ p =< Size /\ c \in [1 .. 3 -> Int]
          /\ c[1] \in Int /\ c[2] \in Int /\ c[3] \in Int /\ p = At(c[1], c[2], c[3])
          /\ IF p < Size THEN In(c[1], c[2], c[3]) ELSE p = Size /\ Last(c[1], c[2], c[3])
    <2>1. SUFFICES ASSUME NEW c, NEW p, Stands(kind, view, c, p)
                   PROVE  /\ p \in Int /\ 0 =< p /\ p =< Size /\ c \in [1 .. 3 -> Int]
                          /\ c[1] \in Int /\ c[2] \in Int /\ c[3] \in Int /\ p = At(c[1], c[2], c[3])
                          /\ IF p < Size THEN In(c[1], c[2], c[3]) ELSE p = Size /\ Last(c[1], c[2], c[3])
      OBVIOUS
    <2>2. /\ p \in 0 .. Size /\ c \in [1 .. 3 -> Int]
          /\ In(c[1], c[2], c[3]) \/ Last(c[1], c[2], c[3])
          /\ p = At(c[1], c[2], c[3])
      BY <1>4, <2>1
    <2>3. c[1] \in Int /\ c[2] \in Int /\ c[3] \in Int
      BY <1>3, <2>2
    <2> HIDE DEF In, Last, At
    <2>4. In(c[1], c[2], c[3]) => p < Size
      BY <1>6, <2>2, <2>3
    <2>5. Last(c[1], c[2], c[3]) => p = Size
      BY <1>7, <2>2, <2>3
    <2> QED
      BY <1>3, <2>2, <2>3, <2>4, <2>5
  <1>10. \A x, y, z \in Int :
           \A d : /\ d \in [1 .. 3 -> Int] /\ d[1] = x /\ d[2] = y /\ d[3] = z
                  /\ In(x, y, z) \/ Last(x, y, z)
                  => Stands(kind, view, d, At(x, y, z))
    <2>1. SUFFICES ASSUME NEW x \in Int, NEW y \in Int, NEW z \in Int, NEW d,
                          d \in [1 .. 3 -> Int], d[1] = x, d[2] = y, d[3] = z,
                          In(x, y, z) \/ Last(x, y, z)
                   PROVE  Stands(kind, view, d, At(x, y, z))
      OBVIOUS
    <2> DEFINE p == At(x, y, z)
    <2>2. p \in Int /\ (In(x, y, z) => 0 =< p /\ p < Size) /\ (Last(x, y, z) => p = Size)
      BY <1>5, <1>6, <1>7
    <2>3. p = At(d[1], d[2], d[3]) /\ (In(d[1], d[2], d[3]) \/ Last(d[1], d[2], d[3]))
      BY <2>1
    <2> HIDE DEF In, Last, At, p
    <2>4. p \in 0 .. Size
      BY <1>3, <2>1, <2>2
    <2> QED
      BY <1>4, <2>1, <2>3, <2>4 DEF p
  <1>11. FrontIsFirst /\ EndIsLast
    <2> DEFINE b == Cartesian!Begin(view)
               e == Cartesian!End(view)
    <2>1. b \in [1 .. 3 -> Int] /\ b[2] = 0 /\ b[3] = 0 /\ b[1] = IF Size = 0 THEN L ELSE 0
      <3>1. /\ Cartesian!AtFront \in [1 .. 3 -> Int]
            /\ Cartesian!AtFront[1] = 0 /\ Cartesian!AtFront[2] = 0 /\ Cartesian!AtFront[3] = 0
        BY <1>3 DEF Cartesian!AtFront
      <3>2. (\E k \in 1 .. 3 : Cartesian!AtFront[k] = view.lens[k]) <=> Size = 0
        BY <1>3, <3>1 DEF L, M, N
      <3>3. b = IF Size = 0 THEN [Cartesian!AtFront EXCEPT ![1] = L] ELSE Cartesian!AtFront
        BY <1>3, <3>2 DEF Cartesian!Begin, Cartesian!Checked, L
      <3> QED
        BY <1>3, <3>1, <3>3
    <2>2. e \in [1 .. 3 -> Int] /\ e[2] = 0 /\ e[3] = 0 /\ e[1] = L
      <3> DEFINE f == IF view.common THEN L ELSE b[1] + L
      <3>1. e = [b EXCEPT ![1] = f]
        BY <2>1 DEF Cartesian!End, L
      <3>2. ~view.common => L = 0 \/ (M # 0 /\ N # 0)
        <4>1. view.common \/ ~(L > 0) \/ \A k \in 2 .. 3 : view.lens[k] # 0
          BY <1>0, <1>3 DEF Cartesian!EndRunsOff, L
        <4> QED
          BY <1>3, <4>1 DEF M, N
      <3>3. f = L
        BY <1>3, <2>1, <3>2
      <3> QED
        BY <1>3, <2>1, <3>1, <3>3
    <2> HIDE DEF b, e
    <2>3. Stands(kind, view, b, At(b[1], b[2], b[3])) /\ At(b[1], b[2], b[3]) = 0
      <3>1. In(b[1], b[2], b[3]) \/ Last(b[1], b[2], b[3])
        BY <1>3, <2>1
      <3>2. b[1] \in Int /\ b[2] \in Int /\ b[3] \in Int
        BY <1>3, <2>1
      <3>3. CASE Size = 0
        <4>1. Last(b[1], b[2], b[3])
          BY <2>1, <3>3
        <4> HIDE DEF In, Last, At
        <4> QED
          BY <1>7, <1>10, <2>1, <3>1, <3>2, <3>3, <4>1
      <3>4. CASE Size # 0
        <4>1. At(b[1], b[2], b[3]) = 0
          BY <1>3, <2>1, <3>4
        <4> HIDE DEF In, Last, At
        <4> QED
          BY <1>10, <2>1, <3>1, <3>2, <4>1
      <3> QED
        BY <3>3, <3>4
    <2>4. Stands(kind, view, e, At(e[1], e[2], e[3])) /\ At(e[1], e[2], e[3]) = Size
      <3>1. Last(e[1], e[2], e[3]) /\ e[1] \in Int /\ e[2] \in Int /\ e[3] \in Int
        BY <1>3, <2>2
      <3> HIDE DEF In, Last, At
      <3> QED
        BY <1>7, <1>10, <2>2, <3>1
    <2> HIDE DEF At
    <2> QED
      BY <1>1, <1>2, <2>3, <2>4 DEF FrontIsFirst, EndIsLast, b, e
  <1>12. ASSUME NEW c, NEW p, Stands(kind, view, c, p), p < Size
         PROVE  /\ Stands(kind, view, Cartesian!Next(view, c), p + 1)
                /\ Cartesian!NextExpects(view, c)
    <2>1. /\ p = At(c[1], c[2], c[3]) /\ In(c[1], c[2], c[3]) /\ c \in [1 .. 3 -> Int]
          /\ c[1] \in Int /\ c[2] \in Int /\ c[3] \in Int
      BY <1>9, <1>12
    <2> DEFINE m == Cartesian!Moving(view, c)
               d == Cartesian!Next(view, c)
               S == { k \in 2 .. 3 : c[k] + 1 < view.lens[k] } \cup {1}
    <2>2. m = IF c[3] + 1 < N THEN 3 ELSE IF c[2] + 1 < M THEN 2 ELSE 1
      <3>1. /\ 1 \in S /\ (2 \in S <=> c[2] + 1 < M) /\ (3 \in S <=> c[3] + 1 < N)
            /\ \A x \in S : x \in {1, 2, 3}
        BY DEF M, N
      <3>2. m = Cartesian!Max(S)
        BY <1>3 DEF Cartesian!Moving
      <3> HIDE DEF S, m
      <3>3. S \in SUBSET Int
        BY <3>1
      <3> DEFINE g == IF c[3] + 1 < N THEN 3 ELSE IF c[2] + 1 < M THEN 2 ELSE 1
      <3>4. g \in S /\ \A x \in S : x =< g
        BY <3>1
      <3> HIDE DEF g
      <3>5. Cartesian!Max(S) = g
        BY <3>3, <3>4, GreatestIsMax
      <3> QED
        BY <3>2, <3>5 DEF g
    <2>8. Cartesian!NextExpects(view, c)
      <3>1. m \in {1, 2, 3}
        BY <2>2
      <3>2. \A k \in {1, 2, 3} : c[k] # view.lens[k]
        BY <1>3, <2>1 DEF L, M, N
      <3> HIDE DEF m
      <3>3. \A k \in m .. 3 : k \in {1, 2, 3}
        BY <3>1
      <3> QED
        BY <1>3, <3>2, <3>3 DEF Cartesian!NextExpects, m
    <2>3. d = [k \in 1 .. 3 |-> IF k < m THEN c[k] ELSE IF k = m THEN c[k] + 1 ELSE 0]
      BY <1>3 DEF Cartesian!Next
    <2> HIDE DEF m, d
    <2>4. /\ d \in [1 .. 3 -> Int]
          /\ d[3] = IF c[3] + 1 < N THEN c[3] + 1 ELSE 0
          /\ d[2] = IF c[3] + 1 < N THEN c[2] ELSE IF c[2] + 1 < M THEN c[2] + 1 ELSE 0
          /\ d[1] = IF c[3] + 1 < N \/ c[2] + 1 < M THEN c[1] ELSE c[1] + 1
      BY <1>3, <2>1, <2>2, <2>3
    <2>5. At(d[1], d[2], d[3]) = p + 1
      <3>1. CASE c[3] + 1 < N
        BY <1>3, <2>1, <2>4, <3>1
      <3>2. CASE c[3] + 1 = N /\ c[2] + 1 < M
        BY <1>3, <2>1, <2>4, <3>2
      <3>3. CASE c[3] + 1 = N /\ c[2] + 1 = M
        BY <1>3, <2>1, <2>4, <3>3
      <3>4. c[3] + 1 < N \/ (c[3] + 1 = N /\ (c[2] + 1 < M \/ c[2] + 1 = M))
        BY <1>3, <2>1
      <3> QED
        BY <3>1, <3>2, <3>3, <3>4
    <2>6. In(d[1], d[2], d[3]) \/ Last(d[1], d[2], d[3])
      <3>1. CASE c[3] + 1 < N
        BY <1>3, <2>1, <2>4, <3>1
      <3>2. CASE c[3] + 1 = N /\ c[2] + 1 < M
        BY <1>3, <2>1, <2>4, <3>2
      <3>3. CASE c[3] + 1 = N /\ c[2] + 1 = M
        BY <1>3, <2>1, <2>4, <3>3
      <3>4. c[3] + 1 < N \/ (c[3] + 1 = N /\ (c[2] + 1 < M \/ c[2] + 1 = M))
        BY <1>3, <2>1
      <3> HIDE DEF In, Last
      <3> QED
        BY <3>1, <3>2, <3>3, <3>4
    <2>7. d[1] \in Int /\ d[2] \in Int /\ d[3] \in Int
      BY <1>3, <2>4
    <2> HIDE DEF In, Last, At
    <2> QED
      BY <1>10, <2>4, <2>5, <2>6, <2>7, <2>8 DEF d
  <1>13. ASSUME NEW c, NEW p, Stands(kind, view, c, p), p > 0
         PROVE  /\ Stands(kind, view, Cartesian!Prev(view, c), p - 1)
                /\ Cartesian!PrevExpects(view, c)
    <2>1. /\ p = At(c[1], c[2], c[3]) /\ c \in [1 .. 3 -> Int] /\ p \in Int
          /\ c[1] \in Int /\ c[2] \in Int /\ c[3] \in Int
          /\ In(c[1], c[2], c[3]) \/ Last(c[1], c[2], c[3])
      BY <1>9, <1>13
    <2>0. Size # 0 /\ L # 0 /\ M # 0 /\ N # 0
      BY <1>3, <1>9, <1>13
    <2>2. c[1] > 0 \/ c[2] > 0 \/ c[3] > 0
      BY <1>3, <1>13, <2>1
    <2> DEFINE m == Cartesian!Borrowing(c)
               d == Cartesian!Prev(view, c)
               S == { k \in 1 .. 3 : c[k] > 0 } \cup {0}
    <2>3. m = IF c[3] > 0 THEN 3 ELSE IF c[2] > 0 THEN 2 ELSE 1
      <3>1. /\ (1 \in S <=> c[1] > 0) /\ (2 \in S <=> c[2] > 0) /\ (3 \in S <=> c[3] > 0)
            /\ \A x \in S : x \in {0, 1, 2, 3}
        BY <1>3
      <3>2. m = Cartesian!Max(S)
        BY <1>3 DEF Cartesian!Borrowing
      <3> HIDE DEF S, m
      <3>3. S \in SUBSET Int
        BY <3>1
      <3> DEFINE g == IF c[3] > 0 THEN 3 ELSE IF c[2] > 0 THEN 2 ELSE 1
      <3>4. g \in S /\ \A x \in S : x =< g
        BY <2>2, <3>1
      <3> HIDE DEF g
      <3>5. Cartesian!Max(S) = g
        BY <3>3, <3>4, GreatestIsMax
      <3> QED
        BY <3>2, <3>5 DEF g
    <2>4. d = [k \in 1 .. 3 |-> IF k < m THEN c[k] ELSE IF k = m THEN c[k] - 1 ELSE view.lens[k] - 1]
      BY <1>3 DEF Cartesian!Prev
    <2>8. Cartesian!PrevExpects(view, c)
      BY <2>3 DEF Cartesian!PrevExpects
    <2> HIDE DEF m, d
    <2>5. /\ d \in [1 .. 3 -> Int]
          /\ d[3] = IF c[3] > 0 THEN c[3] - 1 ELSE N - 1
          /\ d[2] = IF c[3] > 0 THEN c[2] ELSE IF c[2] > 0 THEN c[2] - 1 ELSE M - 1
          /\ d[1] = IF c[3] > 0 \/ c[2] > 0 THEN c[1] ELSE c[1] - 1
      <3>1. d = [k \in 1 .. 3 |-> IF k < m THEN c[k] ELSE IF k = m THEN c[k] - 1
                                  ELSE IF k = 1 THEN L - 1 ELSE IF k = 2 THEN M - 1 ELSE N - 1]
        BY <1>3, <2>4 DEF L, M, N
      <3> QED
        BY <1>3, <2>1, <2>2, <2>3, <3>1
    <2>6. At(d[1], d[2], d[3]) = p - 1
      <3>1. CASE c[3] > 0
        BY <1>3, <2>1, <2>5, <3>1
      <3>2. CASE c[3] = 0 /\ c[2] > 0
        BY <1>3, <2>1, <2>5, <3>2
      <3>3. CASE c[3] = 0 /\ c[2] = 0
        <4>1. d[1] = c[1] - 1 /\ d[2] = M - 1 /\ d[3] = N - 1
          BY <2>5, <3>3
        <4>2. p = (c[1] * M) * N
          BY <1>3, <2>1, <3>3
        <4>3. ((c[1] - 1) * M + (M - 1)) * N + (N - 1) = (c[1] * M) * N - 1
          <5> DEFINE x == c[1]
          <5>1. x \in Int
            BY <2>1
          <5> HIDE DEF x
          <5>2. ((x - 1) * M + (M - 1)) * N + (N - 1) = (x * M) * N - 1
            BY <1>3, <5>1
          <5> QED
            BY <5>2 DEF x
        <4>4. At(d[1], d[2], d[3]) = ((c[1] - 1) * M + (M - 1)) * N + (N - 1)
          BY <4>1
        <4> HIDE DEF At
        <4> QED
          BY <4>2, <4>3, <4>4
      <3>4. c[3] > 0 \/ (c[3] = 0 /\ (c[2] > 0 \/ c[2] = 0))
        BY <1>3, <2>1
      <3> HIDE DEF At
      <3> QED
        BY <3>1, <3>2, <3>3, <3>4
    <2>7. In(d[1], d[2], d[3])
      BY <1>3, <2>0, <2>1, <2>2, <2>5
    <2>9. d[1] \in Int /\ d[2] \in Int /\ d[3] \in Int
      BY <1>3, <2>5
    <2> HIDE DEF In, Last, At
    <2> QED
      BY <1>10, <2>5, <2>6, <2>7, <2>8, <2>9 DEF d
  <1> HIDE DEF In, Last, At
  <1>14. StepsGoOn /\ StepsGoBack /\ TracesAreSound /\ EndsAreLearnt /\ CopiesAreSound
    BY <1>1, <1>2, <1>12, <1>13
       DEF StepsGoOn, StepsGoBack, TracesAreSound, EndsAreLearnt, CopiesAreSound, Kept
  \* what is carried, and where that leads
  <1>15. ASSUME NEW c, NEW p, NEW n \in Int, Stands(kind, view, c, p), p + n \in 0 .. Size
         PROVE  /\ Stands(kind, view, Cartesian!Advance(view, c, n), p + n)
                /\ Cartesian!AdvanceExpects(view, c, n)
    <2> DEFINE carry == Cartesian!Carried(view, c, n)
               d == Cartesian!Advance(view, c, n)
               second == IF n = 0 THEN 0 ELSE (n + c[3]) \div N
               first == IF second = 0 THEN 0 ELSE (second + c[2]) \div M
    <2>1. /\ c \in [1 .. 3 -> Int] /\ c[1] \in Int /\ c[2] \in Int /\ c[3] \in Int
          /\ p \in Int /\ 0 =< p /\ p =< Size /\ p = At(c[1], c[2], c[3])
          /\ IF p < Size THEN In(c[1], c[2], c[3]) ELSE p = Size /\ Last(c[1], c[2], c[3])
      BY <1>9, <1>15
    <2>2. carry[3] = n /\ carry[2] = second /\ carry[1] = first
      <3> DEFINE rule(f) == [k \in 1 .. 3 |->
                   IF k = 3 THEN n
                   ELSE IF f[k + 1] = 0 THEN 0 ELSE (f[k + 1] + c[k + 1]) \div view.lens[k + 1]]
                 told == [k \in 1 .. 3 |-> IF k = 3 THEN n ELSE IF k = 2 THEN second ELSE first]
      <3>1. told = rule(told)
        <4>1. told[3] = n /\ told[2] = second /\ told[1] = first
          BY <1>3
        <4>2. rule(told)[3] = n /\ rule(told)[2] = second /\ rule(told)[1] = first
          BY <1>3, <4>1 DEF M, N
        <4>3. \A k \in 1 .. 3 : told[k] = rule(told)[k]
          BY <1>3, <4>1, <4>2
        <4> QED
          BY <4>3
      <3>2. carry = CHOOSE f : f = rule(f)
        BY <1>3 DEF Cartesian!Carried
      <3> HIDE DEF carry, told
      <3>3. carry = rule(carry)
        BY <3>1, <3>2, Zenon
      <3> QED
        BY <1>3, <3>3 DEF M, N
    <2>3. /\ d \in [1 .. 3 -> {d[k] : k \in 1 .. 3}]
          /\ d[3] = IF n = 0 THEN c[3] ELSE (n + c[3]) % N
          /\ d[2] = IF second = 0 THEN c[2] ELSE (second + c[2]) % M
          /\ d[1] = IF first = 0 THEN c[1]
                    ELSE IF Cartesian!Div(first + c[1], L) > 0 THEN L ELSE Cartesian!Mod(first + c[1], L)
      <3>1. d = [k \in 1 .. 3 |->
                  IF carry[k] = 0 THEN c[k]
                  ELSE IF k = 1 THEN IF Cartesian!Div(carry[1] + c[1], view.lens[1]) > 0 THEN view.lens[1]
                                     ELSE Cartesian!Mod(carry[1] + c[1], view.lens[1])
                  ELSE (carry[k] + c[k]) % view.lens[k]]
        BY <1>3 DEF Cartesian!Advance
      <3> HIDE DEF carry, second, first
      <3> QED
        BY <1>3, <2>2, <3>1 DEF L, M, N
    <2>4. Cartesian!AdvanceExpects(view, c, n) <=>
            /\ n # 0 => c[3] < N
            /\ second # 0 => c[2] < M
            /\ first # 0 =>
                 /\ c[1] < L \/ (c[1] = L /\ first < 0)
                 /\ Cartesian!Mod(first + c[1], L) >= 0
                 /\ \/ Cartesian!Div(first + c[1], L) = 0
                    \/ Cartesian!Div(first + c[1], L) = 1 /\ Cartesian!Mod(first + c[1], L) = 0
      <3>1. Cartesian!AdvanceExpects(view, c, n) <=>
              \A k \in {1, 2, 3} :
                carry[k] # 0 =>
                  /\ c[k] < view.lens[k] \/ (k = 1 /\ c[1] = view.lens[1] /\ carry[1] < 0)
                  /\ k = 1 => LET quotient == Cartesian!Div(carry[1] + c[1], view.lens[1])
                                  remainder == Cartesian!Mod(carry[1] + c[1], view.lens[1])
                              IN remainder >= 0 /\ (quotient = 0 \/ (quotient = 1 /\ remainder = 0))
        BY <1>3 DEF Cartesian!AdvanceExpects
      <3> HIDE DEF carry, second, first
      <3> QED
        BY <2>2, <3>1 DEF L, M, N
    <2> HIDE DEF carry, d
    <2>5. CASE Size = 0
      <3>1. n = 0 /\ second = 0 /\ first = 0
        BY <1>3, <1>15, <2>1, <2>5
      <3>2. d[1] = c[1] /\ d[2] = c[2] /\ d[3] = c[3] /\ Cartesian!AdvanceExpects(view, c, n)
        BY <2>3, <2>4, <3>1
      <3>3. d = c
        BY <1>3, <2>1, <2>3, <3>2
      <3>4. p + n = p
        BY <2>1, <3>1
      <3> QED
        BY <1>15, <3>2, <3>3, <3>4 DEF d
    <2>6. CASE Size # 0
      <3> DEFINE x == c[1]
                 y == c[2]
                 z == c[3]
      <3>1. /\ L \in Nat \ {0} /\ M \in Nat \ {0} /\ N \in Nat \ {0}
            /\ x \in Int /\ y \in 0 .. M - 1 /\ z \in 0 .. N - 1 /\ x =< L
            /\ p = At(x, y, z)
        BY <1>3, <2>1, <2>6 DEF In, Last
      <3> HIDE DEF x, y, z
      \* the last factor
      <3> DEFINE q == (n + z) \div N
                 r == (n + z) % N
      <3>2. q \in Int /\ r \in 0 .. N - 1 /\ n + z = q * N + r
        <4>1. n + z \in Int
          BY <3>1
        <4>2. /\ q \in Int /\ r = (n + z) - q * N /\ q * N =< n + z /\ n + z < q * N + N
              /\ q * N \in Int
          BY <3>1, <4>1, QuotientOf, Products
        <4> HIDE DEF q, r
        <4> QED
          BY <3>1, <4>1, <4>2
      <3>3. second = q /\ d[3] = r
        <4>1. n = 0 => q = 0 /\ r = z
          <5>1. 0 * N + z = z /\ 0 \in Int
            BY <3>1
          <5>2. (0 * N + z) \div N = 0 /\ (0 * N + z) % N = z
            BY <3>1, <5>1, DigitIsTold
          <5> QED
            BY <3>1, <5>1, <5>2
        <4> QED
          BY <2>3, <4>1 DEF z
      <3> HIDE DEF q, r, second
      \* the one before it
      <3> DEFINE s == (q + y) \div M
                 t == (q + y) % M
      <3>4. s \in Int /\ t \in 0 .. M - 1 /\ q + y = s * M + t
        <4>1. q + y \in Int
          BY <3>1, <3>2
        <4>2. /\ s \in Int /\ t = (q + y) - s * M /\ s * M =< q + y /\ q + y < s * M + M
              /\ s * M \in Int
          BY <3>1, <4>1, QuotientOf, Products
        <4> HIDE DEF s, t
        <4> QED
          BY <3>1, <4>1, <4>2
      <3>5. first = s /\ d[2] = t
        <4>1. q = 0 => s = 0 /\ t = y
          <5>1. 0 * M + y = y /\ 0 \in Int
            BY <3>1
          <5>2. (0 * M + y) \div M = 0 /\ (0 * M + y) % M = y
            BY <3>1, <5>1, DigitIsTold
          <5> QED
            BY <3>1, <5>1, <5>2
        <4> QED
          BY <2>3, <3>3, <4>1 DEF y
      <3> HIDE DEF s, t, first
      <3>6. p + n = At(x + s, t, r)
        <4>1. p + n = ((x * M + y) * N + z) + n
          BY <3>1 DEF At
        <4>2. ((x * M + y) * N + z) + n = (x * M + y) * N + (q * N + r)
          BY <3>1, <3>2
        <4>3. (x * M + y) * N + (q * N + r) = (x * M + (q + y)) * N + r
          BY <3>1, <3>2
        <4>4. (x * M + (s * M + t)) * N + r = ((x + s) * M + t) * N + r
          BY <3>1, <3>2, <3>4
        <4> QED
          BY <3>4, <4>1, <4>2, <4>3, <4>4 DEF At
      <3>7. In(x + s, t, r) \/ Last(x + s, t, r)
        <4> DEFINE u == x + s
                   v == u * M + t
                   w == L * M
        <4>1. u \in Int /\ v \in Int /\ w \in Int /\ 0 \in 0 .. M - 1 /\ 0 \in 0 .. N - 1 /\ L \in Int
          BY <3>1, <3>4, DigitsAreOrdered
        <4>2. (0 =< u <=> 0 =< v) /\ (u < L <=> v < w) /\ (v = w <=> u = L /\ t = 0)
          <5>1. (v = L * M + 0 <=> u = L /\ t = 0) /\ L * M + 0 = L * M
            BY <3>4, <4>1, <3>1, DigitsAreOrdered
          <5>2. (0 =< u <=> 0 =< v) /\ (u < L <=> v < w)
            BY <3>1, <3>4, <4>1, DigitsAreOrdered
          <5> QED
            BY <5>1, <5>2
        <4>3. p + n = v * N + r /\ Size = w * N
          BY <1>3, <3>6 DEF At
        <4> HIDE DEF u, v, w
        <4>4. /\ 0 =< v <=> 0 =< v * N + r
              /\ v < w <=> v * N + r < w * N
              /\ v * N + r = w * N <=> v = w /\ r = 0
          <5>1. (v * N + r = w * N + 0 <=> v = w /\ r = 0) /\ w * N + 0 = w * N
            BY <3>1, <3>2, <4>1, DigitsAreOrdered
          <5>2. (0 =< v <=> 0 =< v * N + r) /\ (v < w <=> v * N + r < w * N)
            BY <3>1, <3>2, <4>1, DigitsAreOrdered
          <5> QED
            BY <5>1, <5>2
        <4>5. 0 =< p + n /\ (p + n < Size \/ p + n = Size)
          BY <1>3, <1>15, <2>1
        <4>6. In(u, t, r) \/ Last(u, t, r)
          <5>1. 0 =< u /\ (u < L \/ (u = L /\ t = 0 /\ r = 0))
            <6> DEFINE a == v * N + r
                       b == w * N
            <6>1. p + n = a /\ Size = b
              BY <4>3
            <6>2. (0 =< v <=> 0 =< a) /\ (v < w <=> a < b) /\ (a = b <=> v = w /\ r = 0)
              BY <4>4
            <6> HIDE DEF a, b
            <6> QED
              BY <4>2, <4>5, <6>1, <6>2
          <5> QED
            BY <1>3, <3>2, <3>4, <4>1, <5>1 DEF In, Last
        <4> QED
          BY <4>6 DEF u
      \* the first factor, which the division is not corrected for
      <3>8. x + s \in 0 .. L /\ s + x = x + s
        BY <3>1, <3>4, <3>7 DEF In, Last
      <3>9. /\ x + s < L => Cartesian!Div(s + x, L) = 0 /\ Cartesian!Mod(s + x, L) = s + x
            /\ x + s = L => Cartesian!Div(s + x, L) = 1 /\ Cartesian!Mod(s + x, L) = 0
        <4> DEFINE u == s + x
        <4>1. u \in 0 .. L /\ u = x + s
          BY <3>8
        <4> HIDE DEF u
        <4>2. u < L => u \div L = 0
          BY <3>1, <4>1, NoWholeStep
        <4>3. L \div L = 1
          <5>1. 1 * L + 0 = L /\ 0 \in 0 .. L - 1 /\ 1 \in Int
            BY <3>1
          <5>2. (1 * L + 0) \div L = 1
            BY <3>1, <5>1, DigitIsTold
          <5> QED
            BY <5>1, <5>2
        <4>4. u < L => Cartesian!Div(u, L) = 0 /\ Cartesian!Mod(u, L) = u
          BY <3>1, <4>1, <4>2 DEF Cartesian!Div, Cartesian!Mod
        <4>5. u = L => Cartesian!Div(u, L) = 1 /\ Cartesian!Mod(u, L) = 0
          BY <3>1, <4>1, <4>3 DEF Cartesian!Div, Cartesian!Mod
        <4> QED
          BY <4>1, <4>4, <4>5 DEF u
      <3>10. d[1] = x + s
        <4>1. s = 0 => x = x + s
          BY <3>1
        <4>2. x + s < L \/ x + s = L
          BY <3>1, <3>8
        <4>3. d[1] = IF s = 0 THEN x
                     ELSE IF Cartesian!Div(s + x, L) > 0 THEN L ELSE Cartesian!Mod(s + x, L)
          BY <2>3, <3>5 DEF x
        <4> QED
          BY <3>8, <3>9, <4>1, <4>2, <4>3
      <3>11. Cartesian!AdvanceExpects(view, c, n)
        <4>1. z < N /\ y < M
          BY <3>1
        <4>2. s # 0 => x < L \/ (x = L /\ s < 0)
          BY <3>1, <3>4, <3>8
        <4>3. x + s < L \/ x + s = L
          BY <3>1, <3>8
        <4>4. /\ Cartesian!Mod(s + x, L) >= 0
              /\ \/ Cartesian!Div(s + x, L) = 0
                 \/ Cartesian!Div(s + x, L) = 1 /\ Cartesian!Mod(s + x, L) = 0
          BY <3>8, <3>9, <4>3
        <4> QED
          BY <2>4, <3>5, <4>1, <4>2, <4>4 DEF x, y, z
      <3>12. d[1] \in Int /\ d[2] \in Int /\ d[3] \in Int /\ d \in [1 .. 3 -> Int]
        <4>1. d[1] \in Int /\ d[2] \in Int /\ d[3] \in Int
          BY <3>2, <3>3, <3>4, <3>5, <3>8, <3>10
        <4> QED
          BY <1>3, <2>3, <4>1
      <3>13. Stands(kind, view, d, At(x + s, t, r))
        BY <1>10, <3>3, <3>5, <3>7, <3>10, <3>12
      <3> QED
        BY <3>6, <3>11, <3>13 DEF d
    <2> QED
      BY <2>5, <2>6
  <1>16. JumpsLand
    BY <1>1, <1>2, <1>15 DEF JumpsLand
  <1>17. ASSUME NEW c, NEW p, Stands(kind, view, c, p), p < Size
         PROVE  /\ Cartesian!ReadExpects(view, c)
                /\ Cartesian!Read(view, c) = Cartesian!Element(view, p)
    <2>1. /\ c \in [1 .. 3 -> Int] /\ In(c[1], c[2], c[3]) /\ p = At(c[1], c[2], c[3])
          /\ c[1] \in Int /\ c[2] \in Int /\ c[3] \in Int
      BY <1>9, <1>17
    <2>2. Cartesian!ReadExpects(view, c)
      BY <1>3, <2>1 DEF Cartesian!ReadExpects, In, L, M, N
    <2> DEFINE x == c[1]
               y == c[2]
               z == c[3]
    <2>3. /\ x \in 0 .. L - 1 /\ y \in 0 .. M - 1 /\ z \in 0 .. N - 1
          /\ L \in Nat \ {0} /\ M \in Nat \ {0} /\ N \in Nat \ {0} /\ p = (x * M + y) * N + z
      BY <1>3, <2>1 DEF In, At
    <2> HIDE DEF x, y, z
    <2>4. (p \div 1) % N = z
      <3>1. x * M + y \in Int
        BY <2>3
      <3>2. p \in Int /\ p % N = z
        BY <2>3, <3>1, DigitIsTold
      <3> QED
        BY <3>2
    <2>5. (p \div N) % M = y
      <3>1. x * M + y \in Int /\ x \in Int
        BY <2>3
      <3>2. p \div N = x * M + y
        BY <2>3, <3>1, DigitIsTold
      <3>3. (x * M + y) % M = y
        BY <2>3, <3>1, DigitIsTold
      <3> QED
        BY <3>2, <3>3
    <2>6. (p \div (M * N)) % L = x
      <3> DEFINE k == M * N
                 r == y * N + z
      <3>1. p = x * k + r
        BY <2>3
      <3>2. r \in Int /\ 0 =< r /\ r < k /\ k \in Int
        <4>1. y \in Int /\ M \in Int
          BY <2>3
        <4> QED
          BY <2>3, <4>1, DigitsAreOrdered
      <3> HIDE DEF k, r
      <3>3. k \in Nat \ {0} /\ r \in 0 .. k - 1 /\ x \in Int
        BY <2>3, <3>2
      <3>4. p \div k = x
        BY <3>1, <3>3, DigitIsTold
      <3>5. 0 * L + x = x /\ 0 \in Int
        BY <2>3
      <3>6. x % L = x
        BY <2>3, <3>5, DigitIsTold
      <3> QED
        BY <3>4, <3>6 DEF k
    <2>7. Cartesian!Element(view, p) = [k \in 1 .. 3 |-> c[k]]
      <3>1. Cartesian!Element(view, p) =
              [k \in 1 .. 3 |-> (p \div (IF k = 3 THEN 1 ELSE IF k = 2 THEN N ELSE M * N)) % view.lens[k]]
        BY <1>3 DEF Cartesian!Element, M, N
      <3>2. \A k \in 1 .. 3 :
              (p \div (IF k = 3 THEN 1 ELSE IF k = 2 THEN N ELSE M * N)) % view.lens[k] = c[k]
        BY <1>3, <2>4, <2>5, <2>6 DEF L, M, N, x, y, z
      <3> QED
        BY <3>1, <3>2
    <2> QED
      BY <2>1, <2>2, <2>7 DEF Cartesian!Read
  <1>18. AssertionsHold
    BY <1>1, <1>12, <1>13, <1>15, <1>17 DEF AssertionsHold
  <1>19. ReadsArePromised
    BY <1>1, <1>17 DEF ReadsArePromised
  <1>20. ASSUME NEW c, NEW d, NEW p, NEW q, Stands(kind, view, c, p), Stands(kind, view, d, q)
         PROVE  /\ c = d <=> p = q
                /\ Cartesian!Distance(view, c, d) = q - p
    <2>1. /\ c \in [1 .. 3 -> Int] /\ p = At(c[1], c[2], c[3])
          /\ c[1] \in Int /\ c[2] \in Int /\ c[3] \in Int
          /\ In(c[1], c[2], c[3]) \/ Last(c[1], c[2], c[3])
      BY <1>9, <1>20
    <2>2. /\ d \in [1 .. 3 -> Int] /\ q = At(d[1], d[2], d[3])
          /\ d[1] \in Int /\ d[2] \in Int /\ d[3] \in Int
          /\ In(d[1], d[2], d[3]) \/ Last(d[1], d[2], d[3])
      BY <1>9, <1>20
    <2>3. p = q <=> c[1] = d[1] /\ c[2] = d[2] /\ c[3] = d[3]
      BY <1>8, <2>1, <2>2
    <2>4. c = d <=> c[1] = d[1] /\ c[2] = d[2] /\ c[3] = d[3]
      BY <1>3, <2>1, <2>2
    <2>5. Cartesian!Distance(view, c, d) = ((d[1] - c[1]) * M + (d[2] - c[2])) * N + (d[3] - c[3])
      <3> DEFINE rule(f) == [k \in 1 .. 3 |->
                   IF k = 1 THEN d[1] - c[1] ELSE f[k - 1] * view.lens[k] + (d[k] - c[k])]
                 one == d[1] - c[1]
                 two == one * M + (d[2] - c[2])
                 three == two * N + (d[3] - c[3])
                 told == [k \in 1 .. 3 |-> IF k = 1 THEN one ELSE IF k = 2 THEN two ELSE three]
                 dist == CHOOSE f : f = rule(f)
      <3>1. told = rule(told)
        <4>1. told[1] = one /\ told[2] = two /\ told[3] = three
          BY <1>3
        <4>2. rule(told)[1] = one /\ rule(told)[2] = two /\ rule(told)[3] = three
          BY <1>3, <4>1 DEF M, N
        <4>3. \A k \in 1 .. 3 : told[k] = rule(told)[k]
          BY <1>3, <4>1, <4>2
        <4> QED
          BY <4>3
      <3>2. Cartesian!Distance(view, c, d) = dist[3]
        BY <1>3 DEF Cartesian!Distance
      <3>3. \E f : f = rule(f)
        BY <3>1
      <3> HIDE DEF told
      <3>4. dist = rule(dist)
        BY <3>3
      <3> HIDE DEF dist
      <3>5. dist[1] = one /\ dist[2] = dist[1] * M + (d[2] - c[2]) /\ dist[3] = dist[2] * N + (d[3] - c[3])
        BY <1>3, <3>4 DEF M, N
      <3> QED
        BY <3>2, <3>5
    <2>6. ((d[1] - c[1]) * M + (d[2] - c[2])) * N + (d[3] - c[3]) = q - p
      <3> DEFINE x == c[1]
                 y == c[2]
                 z == c[3]
                 u == d[1]
                 v == d[2]
                 w == d[3]
      <3>1. x \in Int /\ y \in Int /\ z \in Int /\ u \in Int /\ v \in Int /\ w \in Int
            /\ p = (x * M + y) * N + z /\ q = (u * M + v) * N + w
        BY <2>1, <2>2 DEF At
      <3> HIDE DEF x, y, z, u, v, w
      <3>2. ((u - x) * M + (v - y)) * N + (w - z) = q - p
        BY <1>3, <3>1
      <3> QED
        BY <3>2 DEF x, y, z, u, v, w
    <2> QED
      BY <2>3, <2>4, <2>5, <2>6
  <1>21. PlacesAreTold
    BY <1>1, <1>20 DEF PlacesAreTold, Cartesian!Equal
  <1>22. EndIsTold
    <2>1. ASSUME NEW c, NEW p, Stands(kind, view, c, p)
          PROVE  Cartesian!AtEnd(view, c) <=> p = Size
      BY <1>3, <1>9, <2>1 DEF Cartesian!AtEnd, In, Last, L
    <2> QED
      BY <1>1, <2>1 DEF EndIsTold
  <1> QED
    BY <1>11, <1>14, <1>16, <1>18, <1>19, <1>21, <1>22 DEF Contract

\* The least and the greatest of a set that is told by where it ends.
LEMMA EndsOfASet ==
  ASSUME NEW S \in SUBSET Int, NEW m \in S
  PROVE  /\ (\A x \in S : m =< x) => Concat!Min(S) = m
         /\ (\A x \in S : x =< m) => Concat!Max(S) = m
  <1>1. ASSUME \A x \in S : m =< x PROVE Concat!Min(S) = m
    <2>1. Concat!Min(S) \in S /\ \A y \in S : Concat!Min(S) =< y
      BY <1>1 DEF Concat!Min
    <2>2. Concat!Min(S) \in Int /\ m \in Int
      BY <2>1
    <2> QED
      BY <1>1, <2>1, <2>2
  <1>2. ASSUME \A x \in S : x =< m PROVE Concat!Max(S) = m
    <2>0. m \in S /\ \A y \in S : m >= y
      BY <1>2
    <2>1. Concat!Max(S) \in S /\ \A y \in S : Concat!Max(S) >= y
      BY <2>0 DEF Concat!Max
    <2>2. Concat!Max(S) \in Int /\ m \in Int
      BY <2>1
    <2> QED
      BY <1>2, <2>1, <2>2
  <1> QED
    BY <1>1, <1>2

\* Three sequences, one behind the other.
LEMMA ThreeInARow ==
  ASSUME NEW S
  PROVE  \A a, b, c \in Seq(S) :
           /\ Len((a \o b) \o c) = Len(a) + Len(b) + Len(c)
           /\ \A i \in 1 .. Len(a) : ((a \o b) \o c)[i] = a[i]
           /\ \A i \in 1 .. Len(b) : ((a \o b) \o c)[Len(a) + i] = b[i]
           /\ \A i \in 1 .. Len(c) : ((a \o b) \o c)[Len(a) + Len(b) + i] = c[i]
  <1> SUFFICES ASSUME NEW a \in Seq(S), NEW b \in Seq(S), NEW c \in Seq(S)
               PROVE  /\ Len((a \o b) \o c) = Len(a) + Len(b) + Len(c)
                      /\ \A i \in 1 .. Len(a) : ((a \o b) \o c)[i] = a[i]
                      /\ \A i \in 1 .. Len(b) : ((a \o b) \o c)[Len(a) + i] = b[i]
                      /\ \A i \in 1 .. Len(c) : ((a \o b) \o c)[Len(a) + Len(b) + i] = c[i]
    BY Zenon
  <1>1. Len(a) \in Nat /\ Len(b) \in Nat /\ Len(c) \in Nat
    BY LenProperties
  <1> DEFINE q == a \o b
             e == q \o c
  <1>2. /\ q \in Seq(S) /\ Len(q) = Len(a) + Len(b)
        /\ \A i \in 1 .. Len(a) + Len(b) : q[i] = IF i <= Len(a) THEN a[i] ELSE b[i - Len(a)]
    BY ConcatProperties, Zenon
  <1> HIDE DEF q
  <1>3. /\ Len(e) = Len(q) + Len(c)
        /\ \A i \in 1 .. Len(q) + Len(c) : e[i] = IF i <= Len(q) THEN q[i] ELSE c[i - Len(q)]
    <2>1. \A x \in Seq(S) :
            /\ Len(x \o c) = Len(x) + Len(c)
            /\ \A i \in 1 .. Len(x) + Len(c) :
                 (x \o c)[i] = IF i <= Len(x) THEN x[i] ELSE c[i - Len(x)]
      BY ConcatProperties, Zenon
    <2>2. q \in Seq(S)
      BY <1>2
    <2> QED
      BY <2>1, <2>2, Zenon
  <1>4. \A i \in 1 .. Len(a) : e[i] = q[i] /\ q[i] = a[i]
    BY <1>1, <1>2, <1>3
  <1>5. \A i \in 1 .. Len(b) : e[Len(a) + i] = q[Len(a) + i] /\ q[Len(a) + i] = b[i]
    BY <1>1, <1>2, <1>3
  <1>6. \A i \in 1 .. Len(c) : e[Len(a) + Len(b) + i] = c[i]
    <2>1. ASSUME NEW i \in 1 .. Len(c) PROVE e[Len(a) + Len(b) + i] = c[i]
      <3> DEFINE k == Len(a) + Len(b) + i
      <3>1. k \in 1 .. Len(q) + Len(c) /\ ~(k <= Len(q)) /\ k - Len(q) = i
        BY <1>1, <1>2
      <3> HIDE DEF k
      <3>2. e[k] = c[k - Len(q)]
        BY <1>3, <3>1
      <3> QED
        BY <3>1, <3>2 DEF k
    <2> QED
      BY <2>1
  <1>7. Len(e) = Len(a) + Len(b) + Len(c)
    BY <1>2, <1>3
  <1> QED
    BY <1>4, <1>5, <1>6, <1>7 DEF e, q

\* A concat_view: no iterator rests at the end of a range that is not the last.
LEMMA ConcatKeepsContract ==
  ASSUME kind = "concat", Known = {}, Sound(kind, view)
  PROVE  Contract
  <1>0. view.lens \in [1 .. 3 -> Nat]
    BY DEF Sound, ConcatSound
  <1>1. /\ Begins = {Concat!Begin(view)} /\ AfterBegin = view
        /\ FromEnd = Concat!End(view) /\ AfterEnd = view
        /\ Size = Concat!Size(view)
        /\ ~LeavesATrace /\ Copied = view
        /\ \A c : /\ Steps(c) = {Concat!Next(view, c)} /\ AfterStep(c) = view
                  /\ SteppedBack(c) = Concat!Prev(view, c)
                  /\ NextExpects(c) <=> Concat!NextExpects(view, c)
                  /\ PrevExpects(c) <=> Concat!PrevExpects(view, c)
                  /\ ReadExpects(c) <=> Concat!ReadExpects(view, c)
                  /\ ReadAt(c) = Concat!Read(view, c)
                  /\ AtEnd(c) <=> Concat!Equal(c, Concat!End(view))
        /\ \A c, n : /\ Advanced(c, n) = Concat!Advance(view, c, n) /\ AfterAdvance(c, n) = view
                     /\ AdvanceExpects(c, n)
        /\ \A c, d : /\ Difference(c, d) = Concat!Distance(view, c, d)
                     /\ Equal(c, d) <=> Concat!Equal(c, d)
        /\ \A p : Element(p) = Concat!Element(view, p)
    BY DEF Begins, FromBegin, AfterBegin, FromEnd, AfterEnd, Size, SinglePass,
       LeavesATrace, Copied, Steps, Stepped, AfterStep, SteppedBack, NextExpects, ReadExpects, PrevExpects,
       ReadAt, AtEnd, Advanced, AfterAdvance, AdvanceExpects, Difference, Equal, Element
  <1>2. Kept(view) /\ kind \notin OnePass
    BY SameIsKept DEF OnePass
  <1> DEFINE L == view.lens[1]
             M == view.lens[2]
             N == view.lens[3]
             len(w) == view.lens[w]
             At(w, i) == [which |-> w, it |-> i]
             Place(w, i) == (IF w = 1 THEN 0 ELSE IF w = 2 THEN L ELSE L + M) + i
             In(w, i) == i < len(w) \/ (w = 3 /\ i = N)
  <1>3. /\ L \in Nat /\ M \in Nat /\ N \in Nat /\ 1 .. 3 = {1, 2, 3} /\ Concat!Ranges = 3
        /\ len(1) = L /\ len(2) = M /\ len(3) = N
    BY <1>0 DEF Concat!Ranges
  <1> HIDE DEF L, M, N, len
  \* the elements of all of them
  <1>4. /\ Size = L + M + N /\ Size \in Nat
        /\ \A w \in 1 .. 3 : \A i \in Nat : i < len(w) =>
             /\ Place(w, i) \in 0 .. Size - 1
             /\ Concat!Element(view, Place(w, i)) = <<w, i>>
    <2> DEFINE P1 == [i \in 1 .. L |-> <<1, i - 1>>]
               P2 == [i \in 1 .. M |-> <<2, i - 1>>]
               P3 == [i \in 1 .. N |-> <<3, i - 1>>]
               S == Int \X Int
    <2>1. /\ P1 \in Seq(S) /\ P2 \in Seq(S) /\ P3 \in Seq(S)
          /\ Len(P1) = L /\ Len(P2) = M /\ Len(P3) = N
          /\ \A i \in 1 .. L : P1[i] = <<1, i - 1>>
          /\ \A i \in 1 .. M : P2[i] = <<2, i - 1>>
          /\ \A i \in 1 .. N : P3[i] = <<3, i - 1>>
      BY <1>3
    <2>2. Concat!Elements(view) = (P1 \o P2) \o P3
      BY <1>3 DEF Concat!Elements, Concat!Part, L, M, N
    <2> HIDE DEF P1, P2, P3, S
    <2> DEFINE E == (P1 \o P2) \o P3
    <2>3. /\ Len(E) = Len(P1) + Len(P2) + Len(P3)
          /\ \A i \in 1 .. Len(P1) : E[i] = P1[i]
          /\ \A i \in 1 .. Len(P2) : E[Len(P1) + i] = P2[i]
          /\ \A i \in 1 .. Len(P3) : E[Len(P1) + Len(P2) + i] = P3[i]
      <3>1. P1 \in Seq(S) /\ P2 \in Seq(S) /\ P3 \in Seq(S)
        BY <2>1
      <3> QED
        BY <3>1, ThreeInARow, SMT
    <2> HIDE DEF E
    <2>4. /\ Len(E) = L + M + N
          /\ \A i \in 1 .. L : E[i] = <<1, i - 1>>
          /\ \A i \in 1 .. M : E[L + i] = <<2, i - 1>>
          /\ \A i \in 1 .. N : E[L + M + i] = <<3, i - 1>>
      BY <2>1, <2>3
    <2>5. Size = L + M + N
      BY <1>1, <2>2, <2>4 DEF Concat!Size, E
    <2>6. \A i \in Nat : /\ i < L => E[i + 1] = <<1, i>>
                         /\ i < M => E[L + i + 1] = <<2, i>>
                         /\ i < N => E[L + M + i + 1] = <<3, i>>
      <3>1. SUFFICES ASSUME NEW i \in Nat
                     PROVE  /\ i < L => E[i + 1] = <<1, i>>
                            /\ i < M => E[L + i + 1] = <<2, i>>
                            /\ i < N => E[L + M + i + 1] = <<3, i>>
        OBVIOUS
      <3> DEFINE h == i + 1
      <3>2. /\ h \in Nat /\ 1 =< h /\ h - 1 = i /\ L + i + 1 = L + h /\ L + M + i + 1 = L + M + h
            /\ i < L => h \in 1 .. L
            /\ i < M => h \in 1 .. M
            /\ i < N => h \in 1 .. N
        BY <1>3
      <3>3. i + 1 = h
        OBVIOUS
      <3> HIDE DEF h
      <3> QED
        BY <2>4, <3>2, <3>3
    <2>7. \A p : Concat!Element(view, p) = E[p + 1]
      BY <2>2 DEF Concat!Element, E
    <2>8. \A w \in 1 .. 3 : \A i \in Nat : i < len(w) =>
             Place(w, i) \in 0 .. Size - 1 /\ Concat!Element(view, Place(w, i)) = <<w, i>>
      <3>1. SUFFICES ASSUME NEW w \in 1 .. 3, NEW i \in Nat, i < len(w)
                     PROVE  Place(w, i) \in 0 .. Size - 1 /\ E[Place(w, i) + 1] = <<w, i>>
        BY <2>7
      <3>2. CASE w = 1
        BY <1>3, <2>5, <2>6, <3>1, <3>2
      <3>3. CASE w = 2
        BY <1>3, <2>5, <2>6, <3>1, <3>3
      <3>4. CASE w = 3
        BY <1>3, <2>5, <2>6, <3>1, <3>4
      <3> QED
        BY <1>3, <3>2, <3>3, <3>4
    <2> QED
      BY <1>3, <2>5, <2>8
  <1>5. \A c, p : Stands(kind, view, c, p) <=>
          \E w \in 1 .. 3 : \E i \in Nat : c = At(w, i) /\ In(w, i) /\ p = Place(w, i)
    <2>1. \A c, p : Stands(kind, view, c, p) <=> p \in 0 .. Size /\ ConcatStands(view, c, p)
      BY <1>1 DEF Stands, Looks, Places
    <2>2. Concat!End(view) = At(3, N)
      BY <1>3 DEF Concat!End, N
    <2>3. \A w \in 1 .. 3 : \A i \in Nat : ConcatStart(view, w) + i = Place(w, i)
      BY <1>3 DEF ConcatStart, L, M
    <2>4. ASSUME NEW c, NEW p, Stands(kind, view, c, p)
          PROVE  \E w \in 1 .. 3 : \E i \in Nat : c = At(w, i) /\ In(w, i) /\ p = Place(w, i)
      <3>1. /\ c \in [which : 1 .. 3, it : Nat] /\ (c.it < view.lens[c.which] \/ c = At(3, N))
            /\ p = ConcatStart(view, c.which) + c.it
        BY <2>1, <2>2, <2>4 DEF ConcatStands
      <3>2. c.which \in 1 .. 3 /\ c.it \in Nat /\ c = At(c.which, c.it)
        BY <3>1
      <3>3. In(c.which, c.it) /\ p = Place(c.which, c.it)
        BY <2>3, <3>1, <3>2 DEF len
      <3> QED
        BY <3>2, <3>3
    <2>5. ASSUME NEW w \in 1 .. 3, NEW i \in Nat, In(w, i)
          PROVE  Stands(kind, view, At(w, i), Place(w, i))
      <3>1. Place(w, i) \in 0 .. Size
        BY <1>3, <1>4, <2>5
      <3>2. ConcatStands(view, At(w, i), Place(w, i))
        BY <2>2, <2>3, <2>5 DEF ConcatStands, len
      <3> QED
        BY <2>1, <3>1, <3>2
    <2> QED
      BY <2>4, <2>5
  <1>6. \A w \in 1 .. 3 : \A i \in Nat : In(w, i) => Stands(kind, view, At(w, i), Place(w, i))
    BY <1>5
  \* off the end of every range but the last
  <1>7. ASSUME NEW w \in 1 .. 3, NEW i \in Nat, i =< len(w)
        PROVE  \E j \in w .. 3 : \E k \in Nat :
                 /\ Concat!Satisfied(view, At(w, i)) = At(j, k)
                 /\ In(j, k) /\ Place(j, k) = Place(w, i)
                 /\ i = len(w) /\ w # 3 => j > w
    <2> DEFINE s == Concat!Satisfied(view, At(w, i))
               later == { j \in w + 1 .. 3 : view.lens[j] > 0 } \cup {3}
    <2>1. s = IF i < len(w) \/ w = 3 THEN At(w, i) ELSE At(Concat!Min(later), 0)
      BY <1>3 DEF Concat!Satisfied, len
    <2> HIDE DEF s
    <2>2. CASE i < len(w) \/ w = 3
      <3>1. s = At(w, i) /\ In(w, i) /\ (i = len(w) /\ w # 3 => FALSE) /\ w \in w .. 3
        BY <1>3, <1>7, <2>1, <2>2
      <3> QED
        BY <3>1 DEF s
    <2>3. CASE ~(i < len(w)) /\ w # 3
      <3> DEFINE j == IF w = 1 /\ M > 0 THEN 2 ELSE 3
      <3>0. i = len(w) /\ (w = 1 \/ w = 2)
        BY <1>3, <1>7, <2>3
      <3>1. later \in SUBSET Int /\ j \in later /\ \A x \in later : j =< x
        BY <1>3, <3>0 DEF M
      <3> HIDE DEF later
      <3>2. s = At(j, 0)
        BY <2>1, <2>3, <3>1, EndsOfASet
      <3>3. j \in w .. 3 /\ j > w /\ In(j, 0) /\ Place(j, 0) = Place(w, i)
        BY <1>3, <3>0
      <3> HIDE DEF j
      <3>4. 0 \in Nat
        OBVIOUS
      <3> QED
        BY <3>2, <3>3, <3>4 DEF s
    <2> QED
      BY <2>2, <2>3
  <1>8. FrontIsFirst /\ EndIsLast
    <2>1. Stands(kind, view, Concat!Begin(view), 0)
      <3>1. 1 \in 1 .. 3 /\ 0 \in Nat /\ 0 =< len(1) /\ Place(1, 0) = 0
        BY <1>3
      <3>2. PICK j \in 1 .. 3 : \E k \in Nat :
              /\ Concat!Satisfied(view, At(1, 0)) = At(j, k)
              /\ In(j, k) /\ Place(j, k) = Place(1, 0)
        BY <1>7, <3>1
      <3>3. PICK k \in Nat :
              /\ Concat!Satisfied(view, At(1, 0)) = At(j, k)
              /\ In(j, k) /\ Place(j, k) = Place(1, 0)
        BY <3>2
      <3>4. Concat!Begin(view) = Concat!Satisfied(view, At(1, 0))
        BY DEF Concat!Begin
      <3> HIDE DEF In, Place, At
      <3> QED
        BY <1>6, <3>1, <3>3, <3>4
    <2>2. Stands(kind, view, Concat!End(view), Size)
      <3>1. Concat!End(view) = At(3, N) /\ In(3, N) /\ Place(3, N) = Size /\ 3 \in 1 .. 3 /\ N \in Nat
        BY <1>3, <1>4 DEF Concat!End, N
      <3> HIDE DEF In, Place, At
      <3> QED
        BY <1>6, <3>1
    <2> QED
      BY <1>1, <1>2, <2>1, <2>2 DEF FrontIsFirst, EndIsLast
  <1>9. ASSUME NEW c, NEW p, Stands(kind, view, c, p), p < Size
        PROVE  /\ Stands(kind, view, Concat!Next(view, c), p + 1)
               /\ Concat!NextExpects(view, c) /\ Concat!ReadExpects(view, c)
               /\ Concat!Read(view, c) = Concat!Element(view, p)
    <2>1. PICK w \in 1 .. 3 : \E i \in Nat : c = At(w, i) /\ In(w, i) /\ p = Place(w, i)
      BY <1>5, <1>9
    <2>2. PICK i \in Nat : c = At(w, i) /\ In(w, i) /\ p = Place(w, i)
      BY <2>1
    <2>3. i < len(w) /\ c.which = w /\ c.it = i
      BY <1>3, <1>4, <1>9, <2>2
    <2>4. Concat!NextExpects(view, c) /\ Concat!ReadExpects(view, c)
      BY <1>3, <2>3 DEF Concat!NextExpects, Concat!ReadExpects, len
    <2>5. Concat!Read(view, c) = Concat!Element(view, p)
      BY <1>4, <2>2, <2>3 DEF Concat!Read
    <2>6. Concat!Next(view, c) = Concat!Satisfied(view, At(w, i + 1))
      <3>1. [c EXCEPT !.it = @ + 1] = At(w, i + 1)
        BY <2>2
      <3> QED
        BY <3>1 DEF Concat!Next
    <2>7. i + 1 \in Nat /\ i + 1 =< len(w) /\ Place(w, i + 1) = p + 1
      BY <1>3, <2>2, <2>3
    <2>8. PICK j \in w .. 3 : \E k \in Nat :
            /\ Concat!Satisfied(view, At(w, i + 1)) = At(j, k)
            /\ In(j, k) /\ Place(j, k) = Place(w, i + 1)
      <3> DEFINE n == i + 1
      <3>1. n \in Nat /\ n =< len(w)
        BY <2>7
      <3> HIDE DEF In, Place, At, n
      <3>2. \E j \in w .. 3 : \E k \in Nat :
              /\ Concat!Satisfied(view, At(w, n)) = At(j, k)
              /\ In(j, k) /\ Place(j, k) = Place(w, n)
        BY <1>7, <3>1
      <3> QED
        BY <3>2 DEF n
    <2>9. PICK k \in Nat :
            /\ Concat!Satisfied(view, At(w, i + 1)) = At(j, k)
            /\ In(j, k) /\ Place(j, k) = Place(w, i + 1)
      BY <2>8
    <2>10. j \in 1 .. 3
      OBVIOUS
    <2> HIDE DEF In, Place, At
    <2> QED
      BY <1>6, <2>4, <2>5, <2>6, <2>7, <2>9, <2>10
  <1>10. ASSUME NEW c, NEW p, Stands(kind, view, c, p), p > 0
         PROVE  /\ Stands(kind, view, Concat!Prev(view, c), p - 1)
                /\ Concat!PrevExpects(view, c)
    <2>1. PICK w \in 1 .. 3 : \E i \in Nat : c = At(w, i) /\ In(w, i) /\ p = Place(w, i)
      BY <1>5, <1>10
    <2>2. PICK i \in Nat : c = At(w, i) /\ In(w, i) /\ p = Place(w, i)
      BY <2>1
    <2> SUFFICES \E j \in 1 .. 3 : \E k \in Nat :
                   Concat!Prev(view, c) = At(j, k) /\ In(j, k) /\ Place(j, k) = p - 1
      <3>1. PICK j \in 1 .. 3 : \E k \in Nat :
                   Concat!Prev(view, c) = At(j, k) /\ In(j, k) /\ Place(j, k) = p - 1
        OBVIOUS
      <3>2. PICK k \in Nat : Concat!Prev(view, c) = At(j, k) /\ In(j, k) /\ Place(j, k) = p - 1
        BY <3>1
      <3>3. Concat!PrevExpects(view, c)
        BY <3>2 DEF Concat!PrevExpects
      <3> HIDE DEF In, Place, At
      <3> QED
        BY <1>6, <3>2, <3>3
    <2>3. CASE i # 0 \/ w = 1
      <3>1. i # 0
        BY <1>10, <2>2, <2>3
      <3>2. Concat!Prev(view, c) = At(w, i - 1)
        <4>1. c.it # 0 /\ [c EXCEPT !.it = @ - 1] = At(w, i - 1)
          BY <2>2, <3>1
        <4> QED
          BY <4>1 DEF Concat!Prev
      <3>3. i - 1 \in Nat /\ In(w, i - 1) /\ Place(w, i - 1) = p - 1
        BY <1>3, <2>2, <3>1
      <3> QED
        BY <3>2, <3>3
    <2>4. CASE i = 0 /\ w # 1
      <3> DEFINE before == { k \in 1 .. w - 1 : view.lens[k] > 0 } \cup {1}
                 j == IF w = 3 /\ M > 0 THEN 2 ELSE 1
      <3>1. before \in SUBSET Int /\ j \in before /\ \A x \in before : x =< j
        BY <1>3, <2>4 DEF M
      <3>2. Concat!PrevEnd(view, c) = At(Concat!Max(before), view.lens[Concat!Max(before)])
        BY <2>2 DEF Concat!PrevEnd
      <3> HIDE DEF before
      <3>3. Concat!PrevEnd(view, c) = At(j, len(j))
        BY <3>1, <3>2, EndsOfASet DEF len
      <3>4. Concat!Prev(view, c) = [Concat!PrevEnd(view, c) EXCEPT !.it = @ - 1]
        BY <2>2, <2>4 DEF Concat!Prev
      <3>5. j \in 1 .. 3 /\ len(j) \in Nat /\ len(j) - 1 \in Nat /\ In(j, len(j) - 1)
            /\ Place(j, len(j) - 1) = p - 1
        BY <1>3, <1>10, <2>2, <2>4
      <3> HIDE DEF j
      <3>6. Concat!Prev(view, c) = At(j, len(j) - 1)
        BY <3>3, <3>4
      <3> QED
        BY <3>5, <3>6
    <2> QED
      BY <2>3, <2>4
  \* one call forward ends the walk or comes to a later range
  <1>11. ASSUME NEW w \in 1 .. 3, NEW i \in Nat, NEW r \in Nat, In(w, i), Place(w, i) + r =< Size
         PROVE  \E j \in w .. 3 : \E k \in Nat : \E t \in Nat :
                  /\ Concat!Forward(view, [at |-> At(w, i), rest |-> r]) = [at |-> At(j, k), rest |-> t]
                  /\ In(j, k) /\ Place(j, k) + t = Place(w, i) + r
                  /\ t = 0 \/ j > w
    <2> DEFINE s == [at |-> At(w, i), rest |-> r]
    <2>0. s.at = At(w, i) /\ s.rest = r /\ s.at.which = w /\ s.at.it = i
      OBVIOUS
    <2> HIDE DEF s
    <2> SUFFICES \E j \in w .. 3 : \E k \in Nat : \E t \in Nat :
                   /\ Concat!Forward(view, s) = [at |-> At(j, k), rest |-> t]
                   /\ In(j, k) /\ Place(j, k) + t = Place(w, i) + r
                   /\ t = 0 \/ j > w
      BY DEF s
    <2>1. CASE r = 0
      <3>1. Concat!Forward(view, s) = [at |-> At(w, i), rest |-> r]
        BY <2>0, <2>1 DEF Concat!Forward, s
      <3>2. w \in w .. 3
        BY <1>3
      <3> HIDE DEF In, Place, At
      <3> QED
        BY <1>11, <2>1, <3>1, <3>2
    <2>2. CASE r # 0 /\ w = 3
      <3>1. [s.at EXCEPT !.it = @ + s.rest] = At(3, i + r)
        BY <2>0, <2>2
      <3>2. Concat!Forward(view, s) = [at |-> At(3, i + r), rest |-> 0]
        BY <1>3, <2>0, <2>2, <3>1 DEF Concat!Forward
      <3>3. In(3, i + r) /\ Place(3, i + r) + 0 = Place(w, i) + r /\ i + r \in Nat
            /\ 3 \in w .. 3 /\ 0 \in Nat
        BY <1>3, <1>4, <1>11, <2>2
      <3> HIDE DEF In, Place, At
      <3> QED
        BY <3>2, <3>3
    <2>3. CASE r # 0 /\ w # 3
      <3> DEFINE e == IF len(w) =< i + r THEN len(w) ELSE i + r
                 t == r - (e - i)
      <3>0. w = 1 \/ w = 2
        BY <1>3, <2>3
      <3>1. i < len(w) /\ len(w) \in Nat /\ e \in Nat /\ e =< len(w) /\ t \in Nat
            /\ (t = 0 \/ e = len(w)) /\ Place(w, e) + t = Place(w, i) + r
        BY <1>3, <1>11, <2>3, <3>0
      <3>2. Concat!Stop(i, r, len(w)) = e /\ Concat!Rest(i, r, len(w)) = t
        BY <2>3, <3>1 DEF Concat!Stop, Concat!Rest
      <3> HIDE DEF e, t
      <3>3. Concat!Forward(view, s) = [at |-> Concat!Satisfied(view, At(w, e)), rest |-> t]
        <4>1. [s.at EXCEPT !.it = Concat!Stop(@, s.rest, len(w))] = At(w, e)
          BY <2>0, <3>2
        <4> QED
          BY <1>3, <2>0, <2>3, <3>2, <4>1 DEF Concat!Forward, len
      <3> HIDE DEF In, Place, At
      <3>4. \E j \in w .. 3 : \E k \in Nat :
              /\ Concat!Satisfied(view, At(w, e)) = At(j, k)
              /\ In(j, k) /\ Place(j, k) = Place(w, e)
              /\ e = len(w) /\ w # 3 => j > w
        BY <1>7, <3>1
      <3> QED
        BY <2>3, <3>1, <3>3, <3>4
    <2> QED
      BY <2>1, <2>2, <2>3
  <1>12. ASSUME NEW c, NEW p, NEW n \in Nat, Stands(kind, view, c, p), p + n =< Size
         PROVE  Stands(kind, view, Concat!AdvanceForward(view, c, n), p + n)
    <2> DEFINE start == [at |-> c, rest |-> n]
               rule(f) == [k \in 0 .. 3 |-> IF k = 0 THEN start ELSE Concat!Forward(view, f[k - 1])]
               call == CHOOSE f : f = rule(f)
    <2>1. Concat!AdvanceForward(view, c, n) = call[3].at
      BY <1>3 DEF Concat!AdvanceForward
    <2>2. call = rule(call)
      <3> DEFINE one == Concat!Forward(view, start)
                 two == Concat!Forward(view, one)
                 three == Concat!Forward(view, two)
                 told == [k \in 0 .. 3 |-> IF k = 0 THEN start ELSE IF k = 1 THEN one
                                           ELSE IF k = 2 THEN two ELSE three]
      <3> HIDE DEF start
      <3>1. told = rule(told)
        <4> HIDE DEF one, two, three
        <4>1. told[0] = start /\ told[1] = one /\ told[2] = two /\ told[3] = three
          OBVIOUS
        <4>2. /\ rule(told)[0] = start /\ rule(told)[1] = one
              /\ rule(told)[2] = two /\ rule(told)[3] = three
          BY <4>1 DEF one, two, three
        <4>3. \A k \in 0 .. 3 : told[k] = rule(told)[k]
          BY <4>1, <4>2
        <4> QED
          BY <4>3
      <3> HIDE DEF told
      <3> QED
        BY <3>1
    <2> HIDE DEF call
    <2>3. /\ call[0] = start /\ call[1] = Concat!Forward(view, call[0])
          /\ call[2] = Concat!Forward(view, call[1]) /\ call[3] = Concat!Forward(view, call[2])
      <3> HIDE DEF start
      <3> QED
        BY <2>2
    <2> DEFINE There(s, m) ==
                 \E w \in 1 .. 3 : \E i \in Nat : \E r \in Nat :
                   /\ s = [at |-> At(w, i), rest |-> r]
                   /\ In(w, i) /\ Place(w, i) + r = p + n
                   /\ r = 0 \/ w >= m
    <2>4. There(call[0], 1)
      <3>1. \E w \in 1 .. 3 : \E i \in Nat : c = At(w, i) /\ In(w, i) /\ p = Place(w, i)
        BY <1>5, <1>12
      <3> HIDE DEF At, In, Place
      <3> QED
        BY <2>3, <3>1
    <2>5. ASSUME NEW s, NEW m \in 1 .. 3, There(s, m)
          PROVE  There(Concat!Forward(view, s), m + 1)
      <3>1. PICK w \in 1 .. 3, i \in Nat, r \in Nat :
              /\ s = [at |-> At(w, i), rest |-> r]
              /\ In(w, i) /\ Place(w, i) + r = p + n
              /\ r = 0 \/ w >= m
        BY <2>5
      <3> HIDE DEF At, In, Place
      <3>2. PICK j \in w .. 3 : \E k \in Nat : \E t \in Nat :
              /\ Concat!Forward(view, [at |-> At(w, i), rest |-> r]) = [at |-> At(j, k), rest |-> t]
              /\ In(j, k) /\ Place(j, k) + t = Place(w, i) + r
              /\ t = 0 \/ j > w
        <4>1. Place(w, i) + r =< Size /\ In(w, i)
          BY <1>12, <3>1
        <4> QED
          BY <1>11, <4>1, ZenonT(40)
      <3>3. PICK k \in Nat, t \in Nat :
              /\ Concat!Forward(view, s) = [at |-> At(j, k), rest |-> t]
              /\ In(j, k) /\ Place(j, k) + t = p + n
              /\ t = 0 \/ j > w
        BY <3>1, <3>2
      <3>4. CASE t = 0 \/ r # 0
        <4>1. j \in 1 .. 3 /\ (t = 0 \/ j >= m + 1)
          BY <3>1, <3>3, <3>4
        <4> QED
          BY <3>3, <4>1
      <3>5. CASE r = 0
        <4>1. Concat!Forward(view, s) = s
          BY <3>1, <3>5 DEF Concat!Forward
        <4> QED
          BY <3>1, <3>5, <4>1
      <3> QED
        BY <3>4, <3>5
    <2> HIDE DEF There
    <2>6. There(call[1], 2)
      BY <2>3, <2>4, <2>5
    <2>7. There(call[2], 3)
      BY <2>3, <2>5, <2>6
    <2>8. There(call[3], 4)
      BY <2>3, <2>5, <2>7
    <2>9. PICK w \in 1 .. 3, i \in Nat :
            call[3] = [at |-> At(w, i), rest |-> 0] /\ In(w, i) /\ Place(w, i) + 0 = p + n
      <3> HIDE DEF At, In, Place
      <3> QED
        BY <2>8 DEF There
    <2>10. call[3].at = At(w, i) /\ Place(w, i) = p + n
      BY <1>3, <2>9
    <2> HIDE DEF At, In, Place
    <2> QED
      BY <1>6, <2>1, <2>9, <2>10
  \* a call back ends the walk, comes to the front of the range, or leaves it
  <1>13. ASSUME NEW w \in 1 .. 3, NEW i \in Nat, NEW r \in Int, r =< 0, i =< len(w),
                r = 0 => In(w, i), 0 =< Place(w, i) + r
         PROVE  \E j \in 1 .. w : \E k \in Nat : \E t \in Int :
                  /\ Concat!Backward(view, [at |-> At(w, i), rest |-> r]) = [at |-> At(j, k), rest |-> t]
                  /\ t =< 0 /\ k =< len(j) /\ (t = 0 => In(j, k))
                  /\ Place(j, k) + t = Place(w, i) + r
                  /\ t = 0 \/ j < w \/ (j = w /\ k = 0 /\ i # 0)
    <2> DEFINE s == [at |-> At(w, i), rest |-> r]
    <2>0. s.at = At(w, i) /\ s.rest = r /\ s.at.which = w /\ s.at.it = i
      OBVIOUS
    <2> HIDE DEF s
    <2> SUFFICES \E j \in 1 .. w : \E k \in Nat : \E t \in Int :
                   /\ Concat!Backward(view, s) = [at |-> At(j, k), rest |-> t]
                   /\ t =< 0 /\ k =< len(j) /\ (t = 0 => In(j, k))
                   /\ Place(j, k) + t = Place(w, i) + r
                   /\ t = 0 \/ j < w \/ (j = w /\ k = 0 /\ i # 0)
      BY DEF s
    <2>1. CASE r = 0
      <3>1. Concat!Backward(view, s) = [at |-> At(w, i), rest |-> r]
        BY <2>0, <2>1 DEF Concat!Backward, s
      <3>2. w \in 1 .. w
        BY <1>3
      <3> HIDE DEF In, Place, At
      <3> QED
        BY <1>13, <2>1, <3>1, <3>2
    <2>2. CASE r # 0 /\ w = 1
      <3>1. [s.at EXCEPT !.it = @ + s.rest] = At(1, i + r)
        BY <2>0, <2>2
      <3>2. Concat!Backward(view, s) = [at |-> At(1, i + r), rest |-> 0]
        BY <2>0, <2>2, <3>1 DEF Concat!Backward
      <3>3. /\ i + r \in Nat /\ i + r =< len(1) /\ In(1, i + r) /\ Place(1, i + r) + 0 = Place(w, i) + r
            /\ 1 \in 1 .. w /\ 0 \in Int
        BY <1>3, <1>13, <2>2
      <3> HIDE DEF In, Place, At
      <3> QED
        BY <3>2, <3>3
    <2>3. CASE r # 0 /\ w # 1 /\ i = 0
      <3>0. w = 2 \/ w = 3
        BY <1>3, <2>3
      <3>1. Concat!Backward(view, s) = [at |-> At(w - 1, len(w - 1)), rest |-> r]
        BY <2>0, <2>3 DEF Concat!Backward, len
      <3>2. /\ w - 1 \in 1 .. w /\ len(w - 1) \in Nat /\ w - 1 < w
            /\ Place(w - 1, len(w - 1)) + r = Place(w, i) + r
        BY <1>3, <2>3, <3>0
      <3> DEFINE j == w - 1
      <3>3. /\ Concat!Backward(view, s) = [at |-> At(j, len(j)), rest |-> r]
            /\ j \in 1 .. w /\ len(j) \in Nat /\ j < w /\ len(j) =< len(j)
            /\ Place(j, len(j)) + r = Place(w, i) + r
        BY <3>1, <3>2
      <3> HIDE DEF In, Place, At, j
      <3> QED
        BY <1>13, <2>3, <3>3
    <2>4. CASE r # 0 /\ w # 1 /\ i # 0
      <3> DEFINE e == IF i + r =< 0 THEN 0 ELSE i + r
                 t == r - (e - i)
      <3>1. /\ e \in Nat /\ e =< len(w) /\ t \in Int /\ t =< 0 /\ e < i
            /\ (t = 0 \/ e = 0) /\ Place(w, e) + t = Place(w, i) + r /\ In(w, e) /\ w \in 1 .. w
        BY <1>3, <1>13, <2>4
      <3>2. Concat!Stop(i, r, 0) = e /\ Concat!Rest(i, r, 0) = t
        BY <1>13, <2>4 DEF Concat!Stop, Concat!Rest
      <3> HIDE DEF e, t
      <3>3. Concat!Backward(view, s) = [at |-> At(w, e), rest |-> t]
        <4>1. [s.at EXCEPT !.it = Concat!Stop(@, s.rest, 0)] = At(w, e)
          BY <2>0, <3>2
        <4> QED
          BY <2>0, <2>4, <3>2, <4>1 DEF Concat!Backward
      <3> HIDE DEF In, Place, At
      <3> QED
        BY <2>4, <3>1, <3>3
    <2> QED
      BY <2>1, <2>2, <2>3, <2>4
  <1>14. ASSUME NEW c, NEW p, NEW n \in Int, n < 0, Stands(kind, view, c, p), 0 =< p + n
         PROVE  Stands(kind, view, Concat!AdvanceBack(view, c, n), p + n)
    <2> DEFINE start == [at |-> c, rest |-> n]
               rule(f) == [k \in 0 .. 6 |-> IF k = 0 THEN start ELSE Concat!Backward(view, f[k - 1])]
               call == CHOOSE f : f = rule(f)
    <2>1. Concat!AdvanceBack(view, c, n) = call[6].at
      <3>1. 2 * Concat!Ranges = 6
        BY <1>3
      <3> QED
        BY <3>1 DEF Concat!AdvanceBack
    <2>2. call = rule(call)
      <3> DEFINE a1 == Concat!Backward(view, start)
                 a2 == Concat!Backward(view, a1)
                 a3 == Concat!Backward(view, a2)
                 a4 == Concat!Backward(view, a3)
                 a5 == Concat!Backward(view, a4)
                 a6 == Concat!Backward(view, a5)
                 told == [k \in 0 .. 6 |->
                            IF k = 0 THEN start ELSE IF k = 1 THEN a1 ELSE IF k = 2 THEN a2
                            ELSE IF k = 3 THEN a3 ELSE IF k = 4 THEN a4 ELSE IF k = 5 THEN a5 ELSE a6]
      <3> HIDE DEF start
      <3>1. told = rule(told)
        <4> HIDE DEF a1, a2, a3, a4, a5, a6
        <4>1. /\ told[0] = start /\ told[1] = a1 /\ told[2] = a2 /\ told[3] = a3
              /\ told[4] = a4 /\ told[5] = a5 /\ told[6] = a6
          OBVIOUS
        <4>2. /\ rule(told)[0] = start /\ rule(told)[1] = a1 /\ rule(told)[2] = a2 /\ rule(told)[3] = a3
              /\ rule(told)[4] = a4 /\ rule(told)[5] = a5 /\ rule(told)[6] = a6
          BY <4>1 DEF a1, a2, a3, a4, a5, a6
        <4>3. \A k \in 0 .. 6 : told[k] = rule(told)[k]
          BY <4>1, <4>2
        <4> QED
          BY <4>3
      <3> HIDE DEF told
      <3> QED
        BY <3>1
    <2> HIDE DEF call
    <2>3. call[0] = start /\ \A k \in 1 .. 6 : call[k] = Concat!Backward(view, call[k - 1])
      <3> HIDE DEF start
      <3> QED
        BY <2>2
    \* how far it is to the front of the first range, in calls
    <2> DEFINE Calls(w, i) == 2 * w + (IF i = 0 THEN 0 ELSE 1)
               There(s, m) ==
                 \E w \in 1 .. 3 : \E i \in Nat : \E r \in Int :
                   /\ s = [at |-> At(w, i), rest |-> r]
                   /\ r =< 0 /\ i =< len(w) /\ (r = 0 => In(w, i))
                   /\ Place(w, i) + r = p + n
                   /\ r = 0 \/ Calls(w, i) =< m
    <2>4. There(call[0], 7)
      <3>1. PICK w \in 1 .. 3 : \E i \in Nat : c = At(w, i) /\ In(w, i) /\ p = Place(w, i)
        BY <1>5, <1>14
      <3>2. PICK i \in Nat : c = At(w, i) /\ In(w, i) /\ p = Place(w, i)
        BY <3>1
      <3>3. i =< len(w) /\ Calls(w, i) =< 7
        BY <1>3, <3>2
      <3> HIDE DEF At, In, Place, Calls
      <3> QED
        BY <1>14, <2>3, <3>2, <3>3
    <2>5. ASSUME NEW s, NEW m \in Int, There(s, m)
          PROVE  There(Concat!Backward(view, s), m - 1)
      <3>1. PICK w \in 1 .. 3, i \in Nat, r \in Int :
              /\ s = [at |-> At(w, i), rest |-> r]
              /\ r =< 0 /\ i =< len(w) /\ (r = 0 => In(w, i))
              /\ Place(w, i) + r = p + n
              /\ r = 0 \/ Calls(w, i) =< m
        BY <2>5
      <3> HIDE DEF At, In, Place
      <3>2. PICK j \in 1 .. w : \E k \in Nat : \E t \in Int :
              /\ Concat!Backward(view, [at |-> At(w, i), rest |-> r]) = [at |-> At(j, k), rest |-> t]
              /\ t =< 0 /\ k =< len(j) /\ (t = 0 => In(j, k))
              /\ Place(j, k) + t = Place(w, i) + r
              /\ t = 0 \/ j < w \/ (j = w /\ k = 0 /\ i # 0)
        <4>1. 0 =< Place(w, i) + r
          BY <1>14, <3>1
        <4> QED
          BY <1>13, <3>1, <4>1
      <3>3. PICK k \in Nat, t \in Int :
              /\ Concat!Backward(view, s) = [at |-> At(j, k), rest |-> t]
              /\ t =< 0 /\ k =< len(j) /\ (t = 0 => In(j, k))
              /\ Place(j, k) + t = p + n
              /\ t = 0 \/ j < w \/ (j = w /\ k = 0 /\ i # 0)
        BY <3>1, <3>2
      <3>4. CASE r # 0
        <4>1. j \in 1 .. 3 /\ (t = 0 \/ Calls(j, k) =< m - 1)
          BY <3>1, <3>3, <3>4
        <4> HIDE DEF Calls
        <4> QED
          BY <3>3, <4>1
      <3>5. CASE r = 0
        <4>1. Concat!Backward(view, s) = s
          BY <3>1, <3>5 DEF Concat!Backward
        <4> HIDE DEF Calls
        <4> QED
          BY <3>1, <3>5, <4>1
      <3> QED
        BY <3>4, <3>5
    <2> HIDE DEF There
    <2>6. There(call[1], 6)
      BY <2>3, <2>4, <2>5
    <2>7. There(call[2], 5)
      BY <2>3, <2>5, <2>6
    <2>8. There(call[3], 4)
      BY <2>3, <2>5, <2>7
    <2>9. There(call[4], 3)
      BY <2>3, <2>5, <2>8
    <2>10. There(call[5], 2)
      BY <2>3, <2>5, <2>9
    <2>11. There(call[6], 1)
      BY <2>3, <2>5, <2>10
    <2>12. PICK w \in 1 .. 3, i \in Nat :
             call[6] = [at |-> At(w, i), rest |-> 0] /\ In(w, i) /\ Place(w, i) + 0 = p + n
      <3>1. PICK w \in 1 .. 3, i \in Nat, r \in Int :
              /\ call[6] = [at |-> At(w, i), rest |-> r]
              /\ r = 0 => In(w, i)
              /\ Place(w, i) + r = p + n
              /\ r = 0 \/ Calls(w, i) =< 1
        <4> HIDE DEF At, In, Place, Calls
        <4> QED
          BY <2>11 DEF There
      <3>2. ~(Calls(w, i) =< 1)
        BY <3>1
      <3> HIDE DEF At, In, Place, Calls
      <3> QED
        BY <3>1, <3>2
    <2>13. call[6].at = At(w, i) /\ Place(w, i) = p + n
      BY <1>3, <2>12
    <2> HIDE DEF At, In, Place
    <2> QED
      BY <1>6, <2>1, <2>12, <2>13
  <1>15. JumpsLand
    <2>1. ASSUME NEW c, NEW p, NEW n \in Int, Stands(kind, view, c, p), p + n \in 0 .. Size
          PROVE  Stands(kind, view, Concat!Advance(view, c, n), p + n)
      <3>1. CASE n > 0
        BY <1>4, <1>12, <2>1, <3>1 DEF Concat!Advance
      <3>2. CASE n < 0
        BY <1>4, <1>14, <2>1, <3>2 DEF Concat!Advance
      <3>3. CASE n = 0
        <4>1. p \in Int
          BY <2>1 DEF Stands
        <4>2. Concat!Advance(view, c, n) = c /\ p + n = p
          BY <3>3, <4>1 DEF Concat!Advance
        <4> QED
          BY <2>1, <4>2
      <3> QED
        BY <3>1, <3>2, <3>3
    <2> QED
      BY <1>1, <1>2, <2>1 DEF JumpsLand
  <1>16. ASSUME NEW w \in 1 .. 3, NEW i \in Nat, NEW j \in 1 .. 3, NEW k \in Nat, In(w, i), In(j, k)
         PROVE  /\ Place(w, i) = Place(j, k) <=> w = j /\ i = k
                /\ w =< j => Concat!Ahead(view, At(w, i), At(j, k)) = Place(j, k) - Place(w, i)
    <2>1. Place(w, i) = Place(j, k) <=> w = j /\ i = k
      BY <1>3, <1>16
    <2>2. ASSUME w =< j
          PROVE  Concat!Ahead(view, At(w, i), At(j, k)) = Place(j, k) - Place(w, i)
      <3> DEFINE rule(f) == [h \in 1 .. 3 |-> IF h >= j THEN k ELSE view.lens[h] + f[h + 1]]
                 to == CHOOSE f : f = rule(f)
                 c == At(w, i)
                 d == At(j, k)
      <3>1. c.which = w /\ c.it = i /\ d.which = j /\ d.it = k
        OBVIOUS
      <3> HIDE DEF c, d
      <3>2. Concat!Ahead(view, c, d) = IF w = j THEN k - i ELSE len(w) - i + to[w + 1]
        BY <1>3, <3>1 DEF Concat!Ahead, len
      <3>3. to = rule(to)
        <4> DEFINE third == k
                   second == IF j =< 2 THEN k ELSE M + third
                   first == IF j =< 1 THEN k ELSE L + second
                   told == [h \in 1 .. 3 |-> IF h = 3 THEN third ELSE IF h = 2 THEN second ELSE first]
        <4>1. told = rule(told)
          <5>1. told[1] = first /\ told[2] = second /\ told[3] = third
            BY <1>3
          <5>2. rule(told)[1] = first /\ rule(told)[2] = second /\ rule(told)[3] = third
            BY <1>3, <5>1 DEF L, M
          <5>3. \A h \in 1 .. 3 : told[h] = rule(told)[h]
            BY <1>3, <5>1, <5>2
          <5> QED
            BY <5>3
        <4> HIDE DEF told
        <4> QED
          BY <4>1
      <3> HIDE DEF to
      <3>4. to[3] = k /\ to[2] = IF j =< 2 THEN k ELSE M + to[3]
        BY <1>3, <3>3 DEF M
      <3>5. w = 1 \/ w = 2 \/ w = 3
        BY <1>3
      <3>6. w < j => to[w + 1] = Place(j, k) - Place(w, len(w))
        BY <1>3, <3>4, <3>5
      <3>7. Concat!Ahead(view, c, d) = Place(j, k) - Place(w, i)
        BY <1>3, <2>2, <3>2, <3>5, <3>6
      <3> QED
        BY <3>7 DEF c, d
    <2> QED
      BY <2>1, <2>2
  <1>17. ASSUME NEW c, NEW d, NEW p, NEW q, Stands(kind, view, c, p), Stands(kind, view, d, q)
         PROVE  /\ c = d <=> p = q
                /\ Concat!Distance(view, c, d) = q - p
    <2>1. PICK w \in 1 .. 3 : \E i \in Nat : c = At(w, i) /\ In(w, i) /\ p = Place(w, i)
      BY <1>5, <1>17
    <2>2. PICK i \in Nat : c = At(w, i) /\ In(w, i) /\ p = Place(w, i)
      BY <2>1
    <2>3. PICK j \in 1 .. 3 : \E k \in Nat : d = At(j, k) /\ In(j, k) /\ q = Place(j, k)
      BY <1>5, <1>17
    <2>4. PICK k \in Nat : d = At(j, k) /\ In(j, k) /\ q = Place(j, k)
      BY <2>3
    <2>5. (c = d <=> w = j /\ i = k) /\ c.which = w /\ d.which = j
      BY <2>2, <2>4
    <2>6. p \in Int /\ q \in Int
      BY <1>17 DEF Stands
    <2> HIDE DEF At, In, Place
    <2>7. c = d <=> p = q
      BY <1>16, <2>2, <2>4, <2>5
    <2>8. Concat!Distance(view, c, d) = q - p
      <3>1. CASE w =< j
        BY <1>16, <2>2, <2>4, <2>5, <3>1 DEF Concat!Distance
      <3>2. CASE ~(w =< j)
        <4>1. Concat!Ahead(view, d, c) = p - q
          BY <1>16, <2>2, <2>4, <3>2
        <4> QED
          BY <2>5, <2>6, <3>2, <4>1 DEF Concat!Distance
      <3> QED
        BY <3>1, <3>2
    <2> QED
      BY <2>7, <2>8
  <1>18. StepsGoOn /\ StepsGoBack /\ TracesAreSound /\ EndsAreLearnt /\ CopiesAreSound
    BY <1>1, <1>2, <1>9, <1>10
       DEF StepsGoOn, StepsGoBack, TracesAreSound, EndsAreLearnt, CopiesAreSound, Kept
  <1>19. AssertionsHold
    BY <1>1, <1>9, <1>10 DEF AssertionsHold
  <1>20. ReadsArePromised
    BY <1>1, <1>9 DEF ReadsArePromised
  <1>21. PlacesAreTold
    BY <1>1, <1>17 DEF PlacesAreTold, Concat!Equal
  <1>22. EndIsTold
    <2>1. ASSUME NEW c, NEW p, Stands(kind, view, c, p)
          PROVE  c = Concat!End(view) <=> p = Size
      <3>1. Stands(kind, view, Concat!End(view), Size)
        <4>1. Concat!End(view) = At(3, N) /\ In(3, N) /\ Place(3, N) = Size /\ 3 \in 1 .. 3 /\ N \in Nat
          BY <1>3, <1>4 DEF Concat!End, N
        <4> HIDE DEF In, Place, At
        <4> QED
          BY <1>6, <4>1
      <3> QED
        BY <1>17, <2>1, <3>1
    <2> QED
      BY <1>1, <2>1 DEF EndIsTold, Concat!Equal
  <1> QED
    BY <1>8, <1>15, <1>18, <1>19, <1>20, <1>21, <1>22 DEF Contract

----------------------------------------------------------------------------
(* The invariants *)

\* Whichever of them it is.
LEMMA ContractHolds ==
  ASSUME kind \in Counting, Known = {}, Sound(kind, view)
  PROVE  Contract
  BY TakeKeepsContract, SliceKeepsContract, GenerateKeepsContract,
     DistributeKeepsContract, Cache1KeepsContract, ScanKeepsContract,
     SampleKeepsContract, ZipKeepsContract, IntersperseKeepsContract,
     ClosedIotaKeepsContract, SlidingKeepsContract, ChunkKeepsContract,
     StrideKeepsContract, CycleKeepsContract, CartesianKeepsContract,
     ConcatKeepsContract DEF Counting

\* The inductive invariant of all that follows.
LEMMA StandingIsKept ==
  ASSUME Kinds \subseteq Counting, Known = {}
  PROVE  Spec => []Standing
  <1>1. Init => Standing
    BY InitStands
  <1>2. Standing /\ [Next]_vars => Standing'
    <2> SUFFICES ASSUME Standing, [Next]_vars PROVE Standing'
      OBVIOUS
    <2>1. Contract
      BY ContractHolds DEF Standing
    <2> QED
      BY <2>1, NextKeepsStanding
  <1> QED
    BY <1>1, <1>2, PTL DEF Spec

\* What is known of the iterators in use.
LEMMA StandingInUse ==
  ASSUME Kinds \subseteq Counting, Known = {}, Standing, NEW x \in InUse
  PROVE  /\ Stands(kind, view, cursor[x], pos[x]) /\ (kind \in OnePass => x = First)
         /\ pos[x] \in Int /\ pos[x] \in 0 .. Size
         /\ Contract
  BY WhoStands, ContractHolds DEF InUse, Standing

\* Positions.TypeOK: an iterator is nowhere but at the places of its view, and
\* what a view has learnt of itself - the end of a cycle, the short stride at
\* the end, the window it begins or ends with, the place a slice begins at - is
\* what its other members say.
THEOREM TypeCorrect ==
  ASSUME Kinds \subseteq Counting, Known = {}
  PROVE  Spec => []TypeOK
  <1>1. ASSUME Standing PROVE TypeOK
    <2>1. kind \in Kinds /\ kind \in Counting /\ (SinglePass <=> kind \in OnePass)
      BY <1>1, WalkedOnce DEF Standing
    <2>2. Size \in Int /\ 0 =< Size
      BY <1>1, <2>1, SizeIsANumber DEF Standing
    <2>3. ASSUME NEW x \in Iterators
          PROVE  pos[x] \in 0 .. Size /\ (pos[x] # 0 => x \in InUse /\ Usable(x))
      BY <1>1, <2>1, <2>2, <2>3, WhoStands DEF Standing, InUse, Usable
    <2>4. CASE kind = "cycle"
      BY <1>1, <2>1, <2>3, <2>4 DEF Standing, Sound, CycleSound, TypeOK
    <2>5. CASE kind = "stride"
      BY <1>1, <2>1, <2>3, <2>5 DEF Standing, Sound, StrideSound, TypeOK
    <2>6. CASE kind = "sliding"
      <3>1. SlidingSound(view)
        BY <1>1, <2>6 DEF Standing, Sound
      <3>2. view.cache \in {Sliding!NotCached} \cup 0 .. view.len
        BY <3>1 DEF SlidingSound, Sliding!NotCached, Sliding!EndOffset, Sliding!Size, Sliding!Lesser
      <3> QED
        BY <2>1, <2>3, <2>6, <3>2 DEF TypeOK
    <2>7. CASE kind = "slice"
      BY <1>1, <2>1, <2>3, <2>7 DEF Standing, Sound, SliceSound, TypeOK
    <2>8. CASE kind \notin {"cycle", "stride", "sliding", "slice"}
      BY <2>1, <2>3, <2>8 DEF TypeOK, Counting
    <2> QED
      BY <2>4, <2>5, <2>6, <2>7, <2>8
  <1> QED
    BY <1>1, StandingIsKept, PTL

\* Positions.ExpectsHold: no assertion of a view fails, wherever an iterator is
\* taken to and however it got there.
THEOREM AssertionsNeverFail ==
  ASSUME Kinds \subseteq Counting, Known = {}
  PROVE  Spec => []ExpectsHold
  <1>1. ASSUME Standing PROVE ExpectsHold
    <2>1. ASSUME NEW x \in InUse
          PROVE  /\ pos[x] < Size => NextExpects(cursor[x])
                 /\ pos[x] > 0 /\ Bidirectional => PrevExpects(cursor[x])
                 /\ RandomAccess => \A n \in -pos[x] .. Size - pos[x] :
                      (kind = "cycle" => Cycle!StaysAligned(view, cursor[x], n)) =>
                        AdvanceExpects(cursor[x], n)
      <3>1. /\ Stands(kind, view, cursor[x], pos[x]) /\ AssertionsHold
            /\ pos[x] \in Int /\ pos[x] \in 0 .. Size
        BY <1>1, <2>1, StandingInUse DEF Contract
      <3>2. ASSUME NEW n \in -pos[x] .. Size - pos[x] PROVE n \in Int /\ pos[x] + n \in 0 .. Size
        <4>1. Size \in Int
          BY <1>1, SizeIsANumber DEF Standing
        <4> QED
          BY <3>1, <3>2, <4>1
      <3> QED
        BY <3>1, <3>2 DEF AssertionsHold
    <2>2. ASSUME kind = "chunk", NEW x \in InUse, NEW y \in InUse
          PROVE  Chunk!DistanceExpects(view, cursor[x], cursor[y])
      <3>1. /\ Stands(kind, view, cursor[x], pos[x]) /\ Stands(kind, view, cursor[y], pos[y])
            /\ PlacesAreTold
        BY <1>1, <2>2, StandingInUse DEF Contract
      <3> QED
        BY <2>2, <3>1 DEF PlacesAreTold
    <2> QED
      BY <2>1, <2>2 DEF ExpectsHold, Readable
  <1> QED
    BY <1>1, StandingIsKept, PTL

\* Positions.ReadsThePromised: an iterator reads the element that the
\* documentation of its view promises at the place it should be at, and never
\* one outside of the range.
THEOREM PromisesAreKept ==
  ASSUME Kinds \subseteq Counting, Known = {}
  PROVE  Spec => []ReadsThePromised
  <1>1. ASSUME Standing PROVE ReadsThePromised
    <2>1. ASSUME NEW x \in Readable
          PROVE  ReadExpects(cursor[x]) /\ (kind # "sample" => ReadAt(cursor[x]) = Element(pos[x]))
      <3>1. x \in InUse /\ pos[x] < Size
        BY <2>1 DEF Readable
      <3>2. Stands(kind, view, cursor[x], pos[x]) /\ AssertionsHold /\ ReadsArePromised
        BY <1>1, <3>1, StandingInUse DEF Contract
      <3> QED
        BY <3>1, <3>2 DEF AssertionsHold, ReadsArePromised
    <2> QED
      BY <2>1 DEF ReadsThePromised
  <1> QED
    BY <1>1, StandingIsKept, PTL

\* Positions.DistancesCountSteps: the difference of two iterators is the number
\* of steps from one to the other, whatever is left of the last stride or chunk.
THEOREM DistancesAreSteps ==
  ASSUME Kinds \subseteq Counting, Known = {}
  PROVE  Spec => []DistancesCountSteps
  <1>1. ASSUME Standing PROVE DistancesCountSteps
    <2>1. ASSUME RandomAccess, NEW x \in InUse, NEW y \in InUse
          PROVE  Difference(cursor[x], cursor[y]) = pos[y] - pos[x]
      <3>1. /\ Stands(kind, view, cursor[x], pos[x]) /\ Stands(kind, view, cursor[y], pos[y])
            /\ PlacesAreTold
        BY <1>1, <2>1, StandingInUse DEF Contract
      <3> QED
        BY <2>1, <3>1 DEF PlacesAreTold
    <2> QED
      BY <2>1 DEF DistancesCountSteps
  <1> QED
    BY <1>1, StandingIsKept, PTL

\* Positions.EqualityIsPlace: == of two iterators, and == with the end, say
\* whether they are at one place, whichever ways they came.
THEOREM EqualityTellsPlaces ==
  ASSUME Kinds \subseteq Counting, Known = {}
  PROVE  Spec => []EqualityIsPlace
  <1>1. ASSUME Standing PROVE EqualityIsPlace
    <2>1. kind \in Counting /\ (SinglePass <=> kind \in OnePass)
      BY <1>1, StandingInUse, WalkedOnce DEF Standing
    <2>2. ASSUME NEW x \in InUse, NEW y \in InUse, ~SinglePass
          PROVE  Equal(cursor[x], cursor[y]) <=> pos[x] = pos[y]
      <3>1. /\ Stands(kind, view, cursor[x], pos[x]) /\ Stands(kind, view, cursor[y], pos[y])
            /\ PlacesAreTold
        BY <1>1, <2>2, StandingInUse DEF Contract
      <3> QED
        BY <2>1, <2>2, <3>1 DEF PlacesAreTold
    <2>3. ASSUME NEW x \in InUse, ~Infinite PROVE AtEnd(cursor[x]) <=> pos[x] = Size
      <3>1. Stands(kind, view, cursor[x], pos[x]) /\ EndIsTold
        BY <1>1, <2>3, StandingInUse DEF Contract
      <3> QED
        BY <2>3, <3>1 DEF EndIsTold, Infinite
    <2> QED
      BY <2>2, <2>3 DEF EqualityIsPlace
  <1> QED
    BY <1>1, StandingIsKept, PTL

\* Positions.ComputedOnce: cache1 computes an element at most once, and
\* generate_n calls its function once for each element that has been passed or
\* read, however long the walk and however often the views are copied.
THEOREM ElementsAreComputedOnce ==
  ASSUME Kinds \subseteq Counting, Known = {}
  PROVE  Spec => []ComputedOnce
  <1>1. ASSUME Standing PROVE ComputedOnce
    <2>1. ASSUME kind = "cache1" PROVE view.computed =< 1
      BY <1>1, <2>1 DEF Standing, Sound, Cache1Sound
    <2>2. ASSUME kind = "generate_n", NEW x \in InUse
          PROVE  view.calls \in {pos[First], pos[First] + 1}
      <3>1. Stands(kind, view, cursor[x], pos[x]) /\ x = First
        BY <1>1, <2>2, StandingInUse DEF OnePass
      <3>2. GenerateStands(view, cursor[First], pos[First])
        BY <2>2, <3>1 DEF Stands, Looks
      <3> QED
        BY <3>2 DEF GenerateStands
    <2> QED
      BY <2>1, <2>2 DEF ComputedOnce
  <1> QED
    BY <1>1, StandingIsKept, PTL
================================================================================
