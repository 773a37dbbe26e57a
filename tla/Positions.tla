------------------------------- MODULE Positions -------------------------------
(* The cursors that do arithmetic on positions.  A client walks a view with   *)
(* iterators, by ++, --, += and copies, compares them, subtracts them and     *)
(* reads through them, in any order the requirements of iterators allow; pos  *)
(* is where it has reason to believe each of them is.                         *)
EXTENDS Integers, Sequences

CONSTANTS Iterators,  \* the client's iterators
          Kinds,      \* the views
          MaxLen,     \* bound: the longest range
          MaxPos,     \* bound: how far an endless view is walked
          Values,     \* 2^w of the integers of a closed_iota_view
          Known,      \* the defects a run leaves in
          First,      \* the iterator that walks a single-pass view
          None        \* an iterator that is not in use

Cycle == INSTANCE CycleView
Stride == INSTANCE StrideView
Chunk == INSTANCE ChunkForward
Sliding == INSTANCE SlidingView
Take == INSTANCE TakeView
Concat == INSTANCE ConcatView
Cartesian == INSTANCE CartesianView
Zip == INSTANCE ZipView
Join == INSTANCE JoinView
JoinWith == INSTANCE JoinWithView
Cache1 == INSTANCE Cache1View
Intersperse == INSTANCE IntersperseView
ClosedIota == INSTANCE ClosedIotaView
SetOf == INSTANCE SetView
Scan == INSTANCE ScanView
AdjacentFilter == INSTANCE AdjacentFilterView
Split == INSTANCE SplitView
SplitWhen == INSTANCE SplitWhenView
Slice == INSTANCE SliceView
Generate == INSTANCE GenerateView
Sample == INSTANCE SampleView
Distribute == INSTANCE DistributeView

AllKinds == {"cycle", "stride", "chunk", "sliding", "take", "concat", "cartesian", "zip",
             "join", "join_with", "cache1",
             "intersperse", "closed_iota", "set", "scan", "adjacent_filter",
             "split", "split_when", "slice", "generate_n", "sample", "linear_distribute"}
AllKnown == {"cycle_back", "zip_end", "sliding_empty", "cartesian_end",
             "const_iterator", "split_when_equal", "distribute_one", "closed_iota_full"}
ASSUME KindsAreViews == Kinds \subseteq AllKinds
ASSUME KnownAreDefects == Known \subseteq AllKnown
ASSUME BoundsAreNatural == MaxLen \in Nat /\ MaxPos \in Nat
ASSUME ValuesAreTwo == Values \in Nat \ {0, 1}
ASSUME FirstIsOne == First \in Iterators
\* what the cursors of the views are
Cursors ==
  [it : Int] \cup [it : Int, n : Int] \cup [it : Int, offset : Int] \cup [it : Int, trail : Int]
    \cup [it : Int, cnt : Int] \cup [it : Int, left : Int] \cup [it : Int, toggle : BOOLEAN]
    \cup [it : Int, zero : BOOLEAN] \cup [it : Int, sum : Seq(Int)] \cup [which : Int, it : Int]
    \cup [outer : Int, it : Int] \cup [outer : Int, val : BOOLEAN, it : Int]
    \cup [from : Int, done : BOOLEAN] \cup [from : Int, n : Int] \cup [view : {TRUE}]
    \cup [at : Int \X Int, state : STRING] \cup [1 .. 2 -> Int] \cup [1 .. 3 -> Int]
ASSUME NoneIsNoCursor == None \notin Cursors

VARIABLES kind,    \* which of the views
          view,    \* its members
          cursor,  \* the client's iterators
          pos      \* where the client thinks they are

vars == <<kind, view, cursor, pos>>

----------------------------------------------------------------------------
(* What each view offers *)

Fresh(k) ==
  CASE k = "cycle" -> Cycle!Fresh(MaxLen)
    [] k = "stride" -> Stride!Fresh(MaxLen)
    [] k = "chunk" -> Chunk!Fresh(MaxLen)
    [] k = "sliding" -> Sliding!Fresh(MaxLen)
    [] k = "take" -> Take!Fresh(MaxLen)
    [] k = "concat" -> Concat!Fresh(2)
    [] k = "cartesian" -> Cartesian!Fresh(2)
    [] k = "zip" -> Zip!Fresh(MaxLen)
    [] k = "join" -> Join!Fresh(2)
    [] k = "join_with" -> JoinWith!Fresh(3)
    [] k = "cache1" -> Cache1!Fresh(MaxLen)
    [] k = "intersperse" -> Intersperse!Fresh(MaxLen)
    [] k = "closed_iota" -> ClosedIota!Fresh(MaxLen)
    [] k = "set" -> SetOf!Fresh(2)
    [] k = "scan" -> Scan!Fresh(MaxLen)
    [] k = "adjacent_filter" -> AdjacentFilter!Fresh(MaxLen)
    [] k = "split" -> Split!Fresh(4)
    [] k = "split_when" -> SplitWhen!Fresh(3)
    [] k = "slice" -> Slice!Fresh(4)
    [] k = "generate_n" -> Generate!Fresh(MaxLen)
    [] k = "sample" -> Sample!Fresh(MaxLen)
    [] k = "linear_distribute" -> Distribute!Fresh(MaxLen)

SinglePass ==
  CASE kind = "join" -> view.stored
    [] kind = "split" -> view.input
    [] OTHER -> kind \in {"join_with", "cache1", "generate_n", "sample"}
Usable(x) == SinglePass => x = First
Infinite == kind = "cycle"
\* end() is an iterator
Common ==
  CASE kind = "stride" -> view.sized
    [] kind = "sliding" -> view.mode \in {"none", "last"}
    [] kind = "join" -> ~view.stored
    [] kind = "scan" -> view.exclusive
    [] kind = "split" -> ~view.input
    [] OTHER -> kind \in {"concat", "cartesian", "zip", "intersperse", "closed_iota",
                         "adjacent_filter"}
Bidirectional ==
  ~SinglePass /\ kind \notin {"set", "scan", "split", "split_when", "linear_distribute"}
RandomAccess ==
  CASE kind = "sliding" -> view.mode \in {"none", "first"}
    [] kind = "take" -> ~view.sized
    [] OTHER -> kind \in {"cycle", "stride", "chunk", "concat", "cartesian", "zip",
                         "intersperse", "closed_iota"}

Size ==
  CASE kind = "cycle" -> MaxPos
    [] kind = "stride" -> Stride!Size(view)
    [] kind = "chunk" -> Chunk!Size(view)
    [] kind = "sliding" -> Sliding!Size(view)
    [] kind = "take" -> Take!Size(view)
    [] kind = "concat" -> Concat!Size(view)
    [] kind = "cartesian" -> Cartesian!Size(view)
    [] kind = "zip" -> Zip!Size(view)
    [] kind = "join" -> Join!Size(view)
    [] kind = "join_with" -> JoinWith!Size(view)
    [] kind = "cache1" -> Cache1!Size(view)
    [] kind = "intersperse" -> Intersperse!Size(view)
    [] kind = "closed_iota" -> ClosedIota!Size(view)
    [] kind = "set" -> SetOf!Size(view)
    [] kind = "scan" -> Scan!Size(view)
    [] kind = "adjacent_filter" -> AdjacentFilter!Size(view)
    [] kind = "split" -> Split!Size(view)
    [] kind = "split_when" -> SplitWhen!Size(view)
    [] kind = "slice" -> Slice!Size(view)
    [] kind = "generate_n" -> Generate!Size(view)
    [] kind = "sample" -> Sample!Size(view)
    [] kind = "linear_distribute" -> Distribute!Size(view)

\* the element at place p, from what the documentation says of the view
Element(p) ==
  CASE kind = "cycle" -> Cycle!Element(view, p)
    [] kind = "stride" -> Stride!Element(view, p)
    [] kind = "chunk" -> Chunk!Element(view, p)
    [] kind = "sliding" -> Sliding!Element(view, p)
    [] kind = "take" -> Take!Element(view, p)
    [] kind = "concat" -> Concat!Element(view, p)
    [] kind = "cartesian" -> Cartesian!Element(view, p)
    [] kind = "zip" -> Zip!Element(view, p)
    [] kind = "join" -> Join!Element(view, p)
    [] kind = "join_with" -> JoinWith!Element(view, p)
    [] kind = "cache1" -> Cache1!Element(view, p)
    [] kind = "intersperse" -> Intersperse!Element(view, p)
    [] kind = "closed_iota" -> ClosedIota!Element(view, p)
    [] kind = "set" -> SetOf!Element(view, p)
    [] kind = "scan" -> Scan!Element(view, p)
    [] kind = "adjacent_filter" -> AdjacentFilter!Element(view, p)
    [] kind = "split" -> Split!Element(view, p)
    [] kind = "split_when" -> SplitWhen!Element(view, p)
    [] kind = "slice" -> Slice!Element(view, p)
    [] kind = "generate_n" -> Generate!Element(view, p)
    [] kind = "linear_distribute" -> Distribute!Element(view, p)

----------------------------------------------------------------------------
(* begin() and end() *)

Init ==
  /\ kind \in Kinds
  /\ view \in Fresh(kind)
  /\ kind = "sliding" /\ "sliding_empty" \notin Known => ~Sliding!RunsOff(view)
  /\ kind = "cartesian" /\ "cartesian_end" \notin Known => ~Cartesian!EndRunsOff(view)
  /\ kind = "split_when" /\ "split_when_equal" \notin Known => ~SplitWhen!Doubled(view)
  /\ kind = "closed_iota" /\ "closed_iota_full" \notin Known => ~ClosedIota!Overfull(view)
  /\ kind = "linear_distribute" /\ "distribute_one" \notin Known => ~Distribute!Single(view)
  /\ cursor = [x \in Iterators |-> None]
  /\ pos = [x \in Iterators |-> 0]

Put(x, c, p) == /\ cursor' = [cursor EXCEPT ![x] = c]
                /\ pos' = [pos EXCEPT ![x] = p]
                /\ UNCHANGED kind

FromBegin ==
  CASE kind = "cycle" -> Cycle!Begin(view)
    [] kind = "stride" -> Stride!Begin(view)
    [] kind = "chunk" -> Chunk!Begin(view)
    [] kind = "sliding" -> Sliding!Begin(view)
    [] kind = "take" -> Take!Begin(view)
    [] kind = "concat" -> Concat!Begin(view)
    [] kind = "cartesian" -> Cartesian!Begin(view)
    [] kind = "zip" -> Zip!Begin(view)
    [] kind = "join" -> Join!Begin(view)
    [] kind = "join_with" -> JoinWith!Begin(view)
    [] kind = "cache1" -> Cache1!Begin(view)
    [] kind = "intersperse" -> Intersperse!Begin(view)
    [] kind = "closed_iota" -> ClosedIota!Begin(view)
    [] kind = "set" -> SetOf!Begin(view)
    [] kind = "scan" -> Scan!Begin(view)
    [] kind = "adjacent_filter" -> AdjacentFilter!Begin(view)
    [] kind = "split" -> Split!Begin(view)
    [] kind = "split_when" -> SplitWhen!Begin(view)
    [] kind = "slice" -> Slice!Begin(view)
    [] kind = "generate_n" -> Generate!Begin(view)
    [] kind = "linear_distribute" -> Distribute!Begin(view)

\* these two do not start again
MayBegin ==
  CASE kind = "generate_n" -> Generate!Untouched(view)
    [] kind = "sample" -> Sample!Untouched(view)
    [] OTHER -> TRUE

Begins == IF kind = "sample" THEN Sample!Begins(view) ELSE {FromBegin}
AfterBegin ==
  CASE kind = "sliding" -> Sliding!AfterBegin(view)
    [] kind = "join" -> Join!AfterBegin(view)
    [] kind = "join_with" -> JoinWith!AfterBegin(view)
    [] kind = "cache1" -> Cache1!AfterBegin(view)
    [] kind = "split" -> Split!AfterBegin(view)
    [] kind = "slice" -> Slice!AfterBegin(view)
    [] kind = "sample" -> Sample!AfterBegin(view)
    [] OTHER -> view

Begin(x) ==
  /\ Usable(x) /\ MayBegin
  /\ \E c \in Begins : Put(x, c, 0)
  /\ view' = AfterBegin

FromEnd ==
  CASE kind = "stride" -> Stride!End(view)
    [] kind = "sliding" -> Sliding!End(view)
    [] kind = "concat" -> Concat!End(view)
    [] kind = "cartesian" -> Cartesian!End(view)
    [] kind = "zip" -> Zip!End(view)
    [] kind = "join" -> Join!End(view)
    [] kind = "intersperse" -> Intersperse!End(view)
    [] kind = "closed_iota" -> ClosedIota!End(view)
    [] kind = "scan" -> Scan!End(view)
    [] kind = "adjacent_filter" -> AdjacentFilter!End(view)
    [] kind = "split" -> Split!End(view)
AfterEnd == IF kind = "sliding" THEN Sliding!AfterEnd(view) ELSE view

End(x) ==
  /\ Common /\ Usable(x)
  /\ Put(x, FromEnd, Size)
  /\ view' = AfterEnd

----------------------------------------------------------------------------
(* ++, --, += *)

Stepped(c) ==
  CASE kind = "cycle" -> Cycle!Next(view, c)
    [] kind = "stride" -> Stride!Next(view, c)
    [] kind = "chunk" -> Chunk!Next(view, c)
    [] kind = "sliding" -> Sliding!Next(view, c)
    [] kind = "take" -> Take!Next(view, c)
    [] kind = "concat" -> Concat!Next(view, c)
    [] kind = "cartesian" -> Cartesian!Next(view, c)
    [] kind = "zip" -> Zip!Next(view, c)
    [] kind = "join" -> Join!Next(view, c)
    [] kind = "join_with" -> JoinWith!Next(view, c)
    [] kind = "cache1" -> Cache1!Next(view, c)
    [] kind = "intersperse" -> Intersperse!Next(view, c)
    [] kind = "closed_iota" -> ClosedIota!Next(view, c)
    [] kind = "set" -> SetOf!Next(view, c)
    [] kind = "scan" -> Scan!Next(view, c)
    [] kind = "adjacent_filter" -> AdjacentFilter!Next(view, c)
    [] kind = "split" -> Split!Next(view, c)
    [] kind = "split_when" -> SplitWhen!Next(view, c)
    [] kind = "slice" -> Slice!Next(view, c)
    [] kind = "generate_n" -> Generate!Next(view, c)
    [] kind = "linear_distribute" -> Distribute!Next(view, c)

Steps(c) == IF kind = "sample" THEN Sample!Nexts(view, c) ELSE {Stepped(c)}
AfterStep(c) ==
  CASE kind = "cycle" -> Cycle!AfterNext(view, c)
    [] kind = "stride" -> Stride!AfterNext(view, c)
    [] kind = "join" -> Join!AfterNext(view, c)
    [] kind = "join_with" -> JoinWith!AfterNext(view, c)
    [] kind = "cache1" -> Cache1!AfterNext(view, c)
    [] kind = "split" -> Split!AfterNext(view, c)
    [] kind = "generate_n" -> Generate!AfterNext(view, c)
    [] kind = "sample" -> Sample!AfterNext(view, c)
    [] OTHER -> view

Next_(x) ==
  /\ cursor[x] # None /\ pos[x] < Size
  /\ \E d \in Steps(cursor[x]) : Put(x, d, pos[x] + 1)
  /\ view' = AfterStep(cursor[x])

\* an end of ranges of different lengths is not stepped back from
MayGoBack(c) ==
  kind = "zip" /\ "zip_end" \notin Known => ~Zip!Ragged(view, c)

SteppedBack(c) ==
  CASE kind = "cycle" -> Cycle!Prev(view, c)
    [] kind = "stride" -> Stride!Prev(view, c)
    [] kind = "chunk" -> Chunk!Prev(view, c)
    [] kind = "sliding" -> Sliding!Prev(view, c)
    [] kind = "take" -> Take!Prev(view, c)
    [] kind = "concat" -> Concat!Prev(view, c)
    [] kind = "cartesian" -> Cartesian!Prev(view, c)
    [] kind = "zip" -> Zip!Prev(view, c)
    [] kind = "join" -> Join!Prev(view, c)
    [] kind = "intersperse" -> Intersperse!Prev(view, c)
    [] kind = "closed_iota" -> ClosedIota!Prev(view, c)
    [] kind = "adjacent_filter" -> AdjacentFilter!Prev(view, c)
    [] kind = "slice" -> Slice!Prev(view, c)

Prev(x) ==
  /\ cursor[x] # None /\ pos[x] > 0
  /\ Bidirectional /\ MayGoBack(cursor[x])
  /\ Put(x, SteppedBack(cursor[x]), pos[x] - 1)
  /\ UNCHANGED view

\* n may be zero or lead back
MayAdvance(c, n) ==
  /\ n < 0 => MayGoBack(c)
  /\ kind = "cycle" /\ "cycle_back" \notin Known => Cycle!StaysAligned(view, c, n)

Advanced(c, n) ==
  CASE kind = "cycle" -> Cycle!Advance(view, c, n)
    [] kind = "stride" -> Stride!Advance(view, c, n)
    [] kind = "chunk" -> Chunk!Advance(view, c, n)
    [] kind = "sliding" -> Sliding!Advance(view, c, n)
    [] kind = "take" -> Take!Advance(view, c, n)
    [] kind = "concat" -> Concat!Advance(view, c, n)
    [] kind = "cartesian" -> Cartesian!Advance(view, c, n)
    [] kind = "zip" -> Zip!Advance(view, c, n)
    [] kind = "intersperse" -> Intersperse!Advance(view, c, n)
    [] kind = "closed_iota" -> ClosedIota!Advance(view, c, n)
AfterAdvance(c, n) ==
  CASE kind = "cycle" -> Cycle!WithEnd(view)
    [] kind = "stride" -> Stride!AfterAdvance(view, c, n)
    [] OTHER -> view

Advance(x, n) ==
  /\ cursor[x] # None /\ pos[x] + n \in 0 .. Size
  /\ RandomAccess /\ MayAdvance(cursor[x], n)
  /\ Put(x, Advanced(cursor[x], n), pos[x] + n)
  /\ view' = AfterAdvance(cursor[x], n)

----------------------------------------------------------------------------
(* Copies, differences, reads *)

Assign(x, y) ==
  /\ cursor[y] # None /\ x # y /\ ~SinglePass
  /\ Put(x, cursor[y], pos[y])
  /\ UNCHANGED view

\* an iterator becomes a constant one: what the converting constructor of the
\* cursor copies goes along.  Three of them leave something behind: cycle's the
\* laps n_ (cycle.hpp:106), exclusive_scan's sum_ (exclusive_scan.hpp:91) and that
\* of the set_union cursor its state (view/set_algorithm.hpp:526).
Converted(c) ==
  CASE kind = "cycle" -> Cycle!ToConst(view, c)
    [] kind = "scan" -> Scan!ToConst(view, c)
    [] kind = "set" -> SetOf!ToConst(view, c)
    [] OTHER -> {c}

\* Without the name "const_iterator" an iterator is converted only where nothing is
\* lost, which of these three lets in a cycle's iterator in its first lap only.
ToConst(x) ==
  /\ cursor[x] # None /\ ~SinglePass
  /\ kind = "cycle" => view.common
  /\ "const_iterator" \notin Known => Converted(cursor[x]) = {cursor[x]}
  /\ \E c \in Converted(cursor[x]) : Put(x, c, pos[x])
  /\ UNCHANGED view

Difference(c, d) ==
  CASE kind = "cycle" -> Cycle!Distance(view, c, d)
    [] kind = "stride" -> Stride!Distance(view, c, d)
    [] kind = "chunk" -> Chunk!Distance(view, c, d)
    [] kind = "sliding" -> Sliding!Distance(view, c, d)
    [] kind = "take" -> Take!Distance(view, c, d)
    [] kind = "concat" -> Concat!Distance(view, c, d)
    [] kind = "cartesian" -> Cartesian!Distance(view, c, d)
    [] kind = "zip" -> Zip!Distance(view, c, d)
    [] kind = "intersperse" -> Intersperse!Distance(view, c, d)
    [] kind = "closed_iota" -> ClosedIota!Distance(view, c, d)

\* of the differences only cycle's leaves a trace: it looks for the end
Distance(x, y) ==
  /\ kind = "cycle" /\ cursor[x] # None /\ cursor[y] # None
  /\ view' = Cycle!WithEnd(view)
  /\ UNCHANGED <<kind, cursor, pos>>

ReadAt(c) ==
  CASE kind = "cycle" -> Cycle!Read(view, c)
    [] kind = "stride" -> Stride!Read(view, c)
    [] kind = "chunk" -> Chunk!Read(view, c)
    [] kind = "sliding" -> Sliding!Read(view, c)
    [] kind = "take" -> Take!Read(view, c)
    [] kind = "concat" -> Concat!Read(view, c)
    [] kind = "cartesian" -> Cartesian!Read(view, c)
    [] kind = "zip" -> Zip!Read(view, c)
    [] kind = "join" -> Join!Read(view, c)
    [] kind = "join_with" -> JoinWith!Read(view, c)
    [] kind = "cache1" -> Cache1!Read(view, c)
    [] kind = "intersperse" -> Intersperse!Read(view, c)
    [] kind = "closed_iota" -> ClosedIota!Read(view, c)
    [] kind = "set" -> SetOf!Read(view, c)
    [] kind = "scan" -> Scan!Read(view, c)
    [] kind = "adjacent_filter" -> AdjacentFilter!Read(view, c)
    [] kind = "split" -> Split!Read(view, c)
    [] kind = "split_when" -> SplitWhen!Read(view, c)
    [] kind = "slice" -> Slice!Read(view, c)
    [] kind = "generate_n" -> Generate!Read(view, c)
    [] kind = "sample" -> Sample!Read(view, c)
    [] kind = "linear_distribute" -> Distribute!Read(view, c)

\* of the reads only those of a cached element do, and of a single-pass piece
LeavesATrace ==
  IF kind = "split" THEN Split!MayRead(view) ELSE kind \in {"cache1", "generate_n"}
AfterRead(c) ==
  CASE kind = "cache1" -> Cache1!AfterRead(view, c)
    [] kind = "generate_n" -> Generate!AfterRead(view, c)
    [] kind = "split" -> Split!AfterRead(view)

Read(x) ==
  /\ cursor[x] # None /\ pos[x] < Size
  /\ LeavesATrace
  /\ view' = AfterRead(cursor[x])
  /\ UNCHANGED <<kind, cursor, pos>>

\* The view is replaced by a copy of itself: plain members go along, caches do
\* not, and the iterators into the old one are void.
Copied ==
  CASE kind = "cycle" -> [view EXCEPT !.end = Cycle!NotCached]
    [] kind = "sliding" -> [view EXCEPT !.cache = Sliding!NotCached]
    [] kind \in {"join", "join_with"} -> [view EXCEPT !.inner = Join!NoInner]
    [] kind = "cache1" -> [view EXCEPT !.cache = Cache1!Empty, !.computed = 0]
    [] kind = "slice" -> [view EXCEPT !.begin = Slice!NotCached]
    [] kind = "generate_n" -> [view EXCEPT !.val = Generate!Empty]
    [] OTHER -> view

CopyView ==
  /\ view' = Copied
  /\ cursor' = [x \in Iterators |-> None]
  /\ pos' = [x \in Iterators |-> 0]
  /\ UNCHANGED kind

Next == \/ \E x \in Iterators : Begin(x) \/ End(x) \/ Next_(x) \/ Prev(x) \/ Read(x) \/ ToConst(x)
        \/ \E x \in Iterators, n \in -MaxPos .. MaxPos : Advance(x, n)
        \/ \E x, y \in Iterators : Assign(x, y) \/ Distance(x, y)
        \/ CopyView

Spec == Init /\ [][Next]_vars

----------------------------------------------------------------------------
InUse == { x \in Iterators : cursor[x] # None }
Readable == { x \in InUse : pos[x] < Size }

\* The places are those of a range, and what a view has learnt or cached never
\* differs from what its members say: the end of a cycle, a short stride, a
\* window's end.
TypeOK ==
  /\ kind \in Kinds
  /\ \A x \in Iterators : pos[x] \in 0 .. Size
  /\ \A x \in Iterators : pos[x] # 0 => x \in InUse /\ Usable(x)
  /\ CASE kind = "cycle" -> view.end \in {Cycle!NotCached, view.len}
       [] kind = "stride" -> view.offset \in {Stride!Unknown, Stride!Offset(view.len, view.stride)}
       [] kind = "sliding" -> view.cache \in {Sliding!NotCached} \cup 0 .. view.len
       [] kind \in {"join", "join_with"} -> view.inner \in 0 .. Len(view.lens)
       [] kind = "slice" -> view.begin \in {Slice!NotCached, Slice!PosAt(view)}
       [] OTHER -> TRUE

NextExpects(c) ==
  CASE kind = "cycle" -> Cycle!NextExpects(view, c)
    [] kind = "stride" -> Stride!NextExpects(view, c)
    [] kind = "chunk" -> Chunk!NextExpects(view, c)
    [] kind = "take" -> Take!NextExpects(view, c)
    [] kind = "concat" -> Concat!NextExpects(view, c)
    [] kind = "cartesian" -> Cartesian!NextExpects(view, c)
    [] kind = "join" -> Join!NextExpects(view, c)
    [] kind = "join_with" -> JoinWith!NextExpects(view, c)
    [] kind = "closed_iota" -> ClosedIota!NextExpects(view, c)
    [] kind = "scan" -> Scan!NextExpects(view, c)
    [] kind = "adjacent_filter" -> AdjacentFilter!NextExpects(view, c)
    [] kind = "split_when" -> SplitWhen!NextExpects(view, c)
    [] kind = "slice" -> Slice!NextExpects(view, c)
    [] kind = "generate_n" -> Generate!NextExpects(view, c)
    [] kind = "sample" -> Sample!NextExpects(view, c)
    [] kind = "linear_distribute" -> Distribute!NextExpects(view, c)
    [] OTHER -> TRUE

PrevExpects(c) ==
  CASE kind = "cycle" -> Cycle!PrevExpects(view, c)
    [] kind = "stride" -> Stride!PrevExpects(view, c)
    [] kind = "chunk" -> Chunk!OffsetExpects(view, c)
    [] kind = "concat" -> Concat!PrevExpects(view, c)
    [] kind = "cartesian" -> Cartesian!PrevExpects(view, c)
    [] kind = "join" -> Join!PrevExpects(view, c)
    [] kind = "adjacent_filter" -> AdjacentFilter!PrevExpects(view, c)
    [] OTHER -> TRUE

AdvanceExpects(c, n) ==
  CASE kind = "cycle" -> Cycle!AdvanceExpects(view, c, n)
    [] kind = "stride" -> Stride!AdvanceExpects(view, c, n)
    [] kind = "chunk" -> Chunk!AdvanceExpects(view, c, n)
    [] kind = "take" -> Take!AdvanceExpects(view, c, n)
    [] kind = "cartesian" -> Cartesian!AdvanceExpects(view, c, n)
    [] kind = "closed_iota" -> ClosedIota!AdvanceExpects(view, c, n)
    [] OTHER -> TRUE

\* Every assertion of the code holds whenever the client calls what it may call:
\* the laps are not negative, a short stride is known before it is needed and
\* never learnt twice with different results, a chunk's offset is zero where an
\* iterator is read or moved on, an inner range is the one its iterator is in.
ExpectsHold ==
  /\ \A x \in Readable : NextExpects(cursor[x])
  /\ \A x \in InUse : pos[x] > 0 /\ Bidirectional => PrevExpects(cursor[x])
  /\ RandomAccess =>
       \A x \in InUse : \A n \in -pos[x] .. Size - pos[x] :
         (kind = "cycle" => Cycle!StaysAligned(view, cursor[x], n)) => AdvanceExpects(cursor[x], n)
  /\ kind = "chunk" =>
       \A x, y \in InUse : Chunk!DistanceExpects(view, cursor[x], cursor[y])

ReadExpects(c) ==
  CASE kind = "chunk" -> Chunk!ReadExpects(view, c)
    [] kind = "sliding" -> Sliding!ReadExpects(view, c)
    [] kind = "take" -> Take!ReadExpects(view, c)
    [] kind = "concat" -> Concat!ReadExpects(view, c)
    [] kind = "cartesian" -> Cartesian!ReadExpects(view, c)
    [] kind = "zip" -> Zip!ReadExpects(view, c)
    [] kind = "join_with" -> JoinWith!ReadExpects(view, c)
    [] kind = "cache1" -> Cache1!ReadExpects(view, c)
    [] kind = "intersperse" -> Intersperse!ReadExpects(view, c)
    [] kind = "closed_iota" -> ClosedIota!ReadExpects(view, c)
    [] kind = "set" -> SetOf!ReadExpects(view, c)
    [] kind = "scan" -> Scan!ReadExpects(view, c)
    [] kind = "adjacent_filter" -> AdjacentFilter!ReadExpects(view, c)
    [] kind = "slice" -> Slice!ReadExpects(view, c)
    [] kind = "sample" -> Sample!ReadExpects(view, c)
    [] OTHER -> TRUE

\* However an iterator came to a place - from the front, from the end, by single
\* steps, in one jump or by a copy - it reads the element the documentation of
\* its view promises there, and only elements that exist.
ReadsThePromised ==
  \A x \in Readable :
    /\ ReadExpects(cursor[x])
    /\ kind # "sample" => ReadAt(cursor[x]) = Element(pos[x])

\* Subtracting iterators gives the number of steps between them, with the right
\* sign, short last strides and chunks and empty ranges included.
DistancesCountSteps ==
  RandomAccess =>
    \A x, y \in InUse : Difference(cursor[x], cursor[y]) = pos[y] - pos[x]

Equal(c, d) ==
  CASE kind = "cycle" -> Cycle!Equal(c, d)
    [] kind = "stride" -> Stride!Equal(c, d)
    [] kind = "chunk" -> Chunk!Equal(c, d)
    [] kind = "sliding" -> Sliding!Equal(c, d)
    [] kind = "take" -> Take!Equal(c, d)
    [] kind = "concat" -> Concat!Equal(c, d)
    [] kind = "cartesian" -> Cartesian!Equal(c, d)
    [] kind = "zip" -> Zip!Equal(c, d)
    [] kind = "join" -> Join!Equal(c, d)
    [] kind = "intersperse" -> Intersperse!Equal(c, d)
    [] kind = "closed_iota" -> ClosedIota!Equal(c, d)
    [] kind = "set" -> SetOf!Equal(view, c, d)
    [] kind = "scan" -> Scan!Equal(c, d)
    [] kind = "adjacent_filter" -> AdjacentFilter!Equal(c, d)
    [] kind = "split" -> Split!Equal(c, d)
    [] kind = "split_when" -> SplitWhen!Equal(c, d)
    [] kind = "slice" -> Slice!Equal(c, d)
    [] kind = "linear_distribute" -> Distribute!Equal(c, d)

\* == with the sentinel
AtEnd(c) ==
  CASE kind = "stride" -> Stride!AtEnd(view, c)
    [] kind = "chunk" -> Chunk!AtEnd(view, c)
    [] kind = "sliding" -> Sliding!AtEnd(view, c)
    [] kind = "take" -> Take!AtEnd(view, c)
    [] kind = "concat" -> Concat!Equal(c, Concat!End(view))
    [] kind = "cartesian" -> Cartesian!AtEnd(view, c)
    [] kind = "zip" -> Zip!Equal(c, Zip!End(view))
    [] kind = "join" -> Join!AtEnd(view, c)
    [] kind = "join_with" -> JoinWith!AtEnd(view, c)
    [] kind = "cache1" -> Cache1!AtEnd(view, c)
    [] kind = "intersperse" -> Intersperse!AtEnd(view, c)
    [] kind = "closed_iota" -> ClosedIota!AtEnd(view, c)
    [] kind = "set" -> SetOf!AtEnd(view, c)
    [] kind = "scan" -> Scan!AtEnd(view, c)
    [] kind = "adjacent_filter" -> AdjacentFilter!AtEnd(view, c)
    [] kind = "split" -> Split!AtEnd(view, c)
    [] kind = "split_when" -> SplitWhen!AtEnd(view, c)
    [] kind = "slice" -> Slice!AtEnd(view, c)
    [] kind = "generate_n" -> Generate!AtEnd(view, c)
    [] kind = "sample" -> Sample!AtEnd(view, c)
    [] kind = "linear_distribute" -> Distribute!AtEnd(view, c)

\* a single-pass piece that has been read on may have come to the end of the base
ReadingOn == kind = "split" /\ view.input /\ view.read > 0

\* Two iterators are equal exactly when they are at one place, and an iterator
\* equals the end exactly behind the last element: a place has one
\* representation, whichever way an iterator got there.
EqualityIsPlace ==
  /\ \A x, y \in InUse : ~SinglePass => (Equal(cursor[x], cursor[y]) <=> pos[x] = pos[y])
  /\ \A x \in InUse : ~Infinite /\ ~ReadingOn => (AtEnd(cursor[x]) <=> pos[x] = Size)

\* An element that is computed is computed once, however often it is read, and
\* a generator is called once for each element even where it is not read.
\* doc/index.md on cache1: "dereferencing the view's iterator multiple times
\* doesn't incur any recomputation".
ComputedOnce ==
  /\ kind = "cache1" => view.computed =< 1
  /\ kind = "generate_n" /\ InUse # {} => view.calls \in {pos[First], pos[First] + 1}

=============================================================================
