--------------------------- MODULE IntroSortProofs ---------------------------
(* ranges::sort is correct for every length, every threshold from two up and  *)
(* every comparison by keys: no unguarded scan leaves its range, no element   *)
(* is lost and the result ascends.  The invariant says, of each of the code's *)
(* three loops, what stops the scan that does not look at the ends.  A second *)
(* one, on the cuts between the active calls, bounds how far the final        *)
(* insertion sort moves an element.                                           *)
EXTENDS IntroSort, SequenceTheorems, TLAPS

InLoop == pc \in {"loop", "up", "down"}
Frame == [first : 0 .. n, last : 0 .. n, depth : Nat]

\* key of the element at p, the held one put back
FilledKey(p) == key[Filled[p]]

\* the outermost call works on the front of the input, the inner ones behind it
FramesInv ==
  InLoop => /\ frames # <<>>
            /\ frames[1].first = 0
            /\ \A j \in 2 .. Len(frames) : frames[j].first >= frames[1].last

\* inside a partition: what is left of lo is no greater than the pivot, what is
\* right of hi no less, and each scan still has an element to stop at
PartitionInv ==
  pc \in {"up", "down"} =>
    LET f == Top.first
        l == Top.last
        P == key[a[pivot]]
    IN /\ f + 2 < l /\ pivot \in f .. l - 1 /\ lo \in f .. l - 1
       /\ \A p \in f .. lo - 1 : key[a[p]] =< P
       /\ Top.depth # 0
       /\ pc = "up" =>
            /\ hi \in f + 1 .. l
            /\ \A p \in hi .. l - 1 : P =< key[a[p]]
            /\ \E p \in lo .. l - 1 : P =< key[a[p]]
            /\ \E p \in f .. hi - 1 : key[a[p]] =< P
            /\ lo = f => \E p \in f + 1 .. hi - 1 : key[a[p]] =< P
       /\ pc = "down" =>
            /\ hi \in f .. l - 1
            /\ P =< key[a[lo]]
            /\ \A p \in hi + 1 .. l - 1 : P =< key[a[p]]
            /\ \E p \in f .. hi : key[a[p]] =< P
            /\ lo = f => \E p \in f + 1 .. hi : key[a[p]] =< P

\* while the loop runs a least element lies in the outermost call's range
LeastIn(b) ==
  \A p \in Positions : \E q \in 0 .. b - 1 : FilledKey(q) =< FilledKey(p)

LeastInv ==
  /\ InLoop => LeastIn(frames[1].last)
  /\ pc \in {"next", "insert"} => LeastIn(Guarded)

\* what has been inserted ascends; the held element is no less than the first
\* one, and less than all it has passed
InsertInv ==
  /\ pc = "next" => /\ i \in 1 .. n
                    /\ \A p, q \in 0 .. i - 1 : p < q => key[a[p]] =< key[a[q]]
  /\ pc = "insert" =>
       /\ i \in 1 .. n - 1 /\ hole \in 1 .. i /\ val \in Positions
       /\ key[a[0]] =< key[val]
       /\ \A p, q \in (0 .. i) \ {hole} : p < q => key[a[p]] =< key[a[q]]
       /\ \A q \in hole + 1 .. i : key[val] < key[a[q]]

IInv == /\ TypeOK
        /\ pc # "done" => n > 0
        /\ pc = "log2" => rest > 0
        /\ NothingIsLost /\ FramesInv /\ PartitionInv /\ LeastInv /\ InsertInv
        /\ SortedAtEnd

----------------------------------------------------------------------------
\* The median of three lies in the range and one of the others, behind the first
\* element, is no greater: what keeps the first cut off the front.
LEMMA Median ==
  ASSUME TypeOK, NEW f \in 0 .. n, NEW l \in 0 .. n, f + 2 < l
  PROVE  /\ MedianOf(f, l) \in f .. l - 1
         /\ \E p \in f + 1 .. l - 1 : key[a[p]] =< key[a[MedianOf(f, l)]]
<1> DEFINE mid == f + (l - f) \div 2
           pen == l - 1
<1>1. mid \in f + 1 .. l - 1 /\ pen \in f + 1 .. l - 1 /\ f \in f .. l - 1
  BY DEF TypeOK
<1>2. f \in Positions /\ mid \in Positions /\ pen \in Positions
  BY <1>1 DEF TypeOK, Positions
<1>3. key[a[f]] \in Int /\ key[a[mid]] \in Int /\ key[a[pen]] \in Int
  BY <1>2, KeysAreIntegers DEF TypeOK, Positions
<1> HIDE DEF mid, pen
<1>4. MedianOf(f, l) \in {f, mid, pen}
  BY DEF MedianOf, mid, pen
<1>5. MedianOf(f, l) = f => key[a[mid]] =< key[a[f]] \/ key[a[pen]] =< key[a[f]]
  BY <1>1, <1>3 DEF MedianOf, Less, mid, pen
<1>6. QED
  BY <1>1, <1>3, <1>4, <1>5

\* Swapping two elements neither loses one nor moves a least one out of a range
\* that holds both or neither.
LEMMA SwapKeeps ==
  ASSUME TypeOK, NothingIsLost, pc \in {"loop", "up", "down"},
         NEW x \in Positions, NEW y \in Positions, NEW b \in 0 .. n,
         x < b <=> y < b, LeastIn(b),
         a' = [a EXCEPT ![x] = a[y], ![y] = a[x]]
  PROVE  /\ a' \in [Positions -> Positions]
         /\ \A p, q \in Positions : a'[p] = a'[q] => p = q
         /\ \A p \in Positions : \E q \in 0 .. b - 1 : key[a'[q]] =< key[a'[p]]
<1>1. /\ a \in [Positions -> Positions]
      /\ \A p, q \in Positions : a[p] = a[q] => p = q
      /\ \A p \in Positions : \E q \in 0 .. b - 1 : key[a[q]] =< key[a[p]]
  BY DEF TypeOK, NothingIsLost, Filled, LeastIn, FilledKey
<1>2. a' \in [Positions -> Positions] /\ \A p, q \in Positions : a'[p] = a'[q] => p = q
  BY <1>1
<1>3. ASSUME NEW p \in Positions
      PROVE  \E q \in 0 .. b - 1 : key[a'[q]] =< key[a'[p]]
  <2>1. PICK p0 \in Positions : a'[p] = a[p0]
    BY <1>1
  <2>2. PICK q0 \in 0 .. b - 1 : key[a[q0]] =< key[a[p0]]
    BY <1>1
  <2>3. \E q \in 0 .. b - 1 : a'[q] = a[q0]
    <3>1. CASE q0 = x
      BY <1>1, <2>2, <3>1 DEF Positions, TypeOK
    <3>2. CASE q0 = y
      BY <1>1, <2>2, <3>2 DEF Positions, TypeOK
    <3>3. CASE q0 # x /\ q0 # y
      BY <1>1, <2>2, <3>3 DEF Positions, TypeOK
    <3>4. QED BY <3>1, <3>2, <3>3
  <2>4. QED BY <2>1, <2>2, <2>3
<1>4. QED BY <1>2, <1>3

LEMMA KeysOfPositions ==
  ASSUME TypeOK
  PROVE  /\ n \in Nat /\ a \in [Positions -> Positions]
         /\ \A x \in Positions : key[x] \in Int
         /\ \A p \in Positions : key[a[p]] \in Int
<1>1. n \in Nat /\ a \in [Positions -> Positions] /\ key \in [Positions -> Keys]
  BY MaxLenIsNatural DEF TypeOK
<1>2. \A x \in Positions : key[x] \in Int
  BY <1>1, KeysAreIntegers
<1>3. QED BY <1>1, <1>2

\* The frame on top is the last of the frames.
LEMMA TopFrame ==
  ASSUME TypeOK, frames # <<>>
  PROVE  /\ Len(frames) \in Nat \ {0} /\ frames \in [1 .. Len(frames) -> Frame]
         /\ Top \in Frame /\ frames[1] \in Frame
         /\ FramesInv /\ InLoop /\ Len(frames) > 1 => Top.first >= frames[1].last
         /\ Len(frames) = 1 => Top = frames[1]
<1>1. frames \in Seq(Frame)
  BY DEF TypeOK, Frame
<1>2. Len(frames) \in Nat \ {0} /\ frames \in [1 .. Len(frames) -> Frame]
  BY <1>1
<1>3. Top \in Frame /\ frames[1] \in Frame
  BY <1>2 DEF Top
<1>4. FramesInv /\ InLoop /\ Len(frames) > 1 => Top.first >= frames[1].last
  BY <1>2 DEF Top, FramesInv
<1>5. QED BY <1>2, <1>3, <1>4 DEF Top

LEMMA InitIInv == Init => IInv
<1> SUFFICES ASSUME Init PROVE IInv
  OBVIOUS
<1>1. TypeOK
  BY MaxLenIsNatural DEF Init, TypeOK, Positions
<1>2. NothingIsLost
  BY DEF Init, NothingIsLost, Filled
<1>3. FramesInv /\ PartitionInv /\ LeastInv /\ InsertInv
  BY DEF Init, FramesInv, PartitionInv, LeastInv, InsertInv, InLoop
<1>4. SortedAtEnd
  BY MaxLenIsNatural DEF Init, SortedAtEnd, Positions
<1>5. QED
  BY <1>1, <1>2, <1>3, <1>4, MaxLenIsNatural DEF IInv, Init

----------------------------------------------------------------------------
(* The steps before and between the partitions *)

LEMMA HalveKeeps == IInv /\ Halve => IInv'
<1> SUFFICES ASSUME IInv, Halve PROVE IInv'
  OBVIOUS
<1>1. TypeOK'
  BY MaxLenIsNatural, SMTT(40) DEF IInv, Halve, TypeOK, Positions
<1>2. rest' > 0
  BY MaxLenIsNatural DEF IInv, Halve, TypeOK
<1>3. QED
  BY <1>1, <1>2 DEF IInv, Halve, NothingIsLost, Filled, Positions, FramesInv, PartitionInv,
     LeastInv, InsertInv, InLoop, SortedAtEnd, Less

LEMMA StartLoopKeeps == IInv /\ StartLoop => IInv'
<1> SUFFICES ASSUME IInv, StartLoop PROVE IInv'
  OBVIOUS
<1>1. TypeOK'
  BY MaxLenIsNatural DEF IInv, StartLoop, TypeOK, Positions, Pending
<1>2. FramesInv'
  BY DEF StartLoop, FramesInv, Pending
<1>3. LeastInv'
  BY KeysOfPositions DEF IInv, StartLoop, LeastInv, LeastIn, FilledKey, Filled, InLoop,
     Pending, Positions
<1>4. QED
  BY <1>1, <1>2, <1>3 DEF IInv, StartLoop, NothingIsLost, Filled, Positions, PartitionInv,
     InsertInv, SortedAtEnd

\* A call that returns leaves the frames below it, or the front of the input
\* with a least element among the guarded ones.
LEMMA ReturnKeeps ==
  ASSUME IInv, pc = "loop", Return, n' = n, key' = key,
         (a \in [Positions -> Positions])', NothingIsLost',
         Len(frames) > 1 => (LeastIn(frames[1].last))',
         Len(frames) = 1 => (LeastIn(Guarded))',
         UNCHANGED <<rest, k, lo, hi, pivot, hole, val>>
  PROVE  IInv'
<1>0. /\ TypeOK /\ frames # <<>> /\ n > 0
      /\ Len(frames) \in Nat \ {0} /\ frames \in [1 .. Len(frames) -> Frame]
  BY TopFrame DEF IInv, FramesInv, InLoop
<1>1. TypeOK'
  <2>1. frames' \in Seq(Frame)
    BY <1>0, SubSeqProperties DEF Return
  <2>2. i' \in 0 .. n /\ pc' \in {"loop", "next"}
    BY <1>0, MaxLenIsNatural DEF TypeOK, Return
  <2>3. QED
    BY <1>0, <2>1, <2>2 DEF TypeOK, Frame, Positions
<1>2. CASE Len(frames) = 1
  <2>1. LeastInv' /\ InsertInv' /\ FramesInv' /\ PartitionInv'
    BY <1>0, <1>2 DEF Return, LeastInv, InsertInv, FramesInv, PartitionInv, InLoop, TypeOK
  <2>2. QED
    BY <1>0, <1>1, <1>2, <2>1 DEF IInv, Return, SortedAtEnd
<1>3. CASE Len(frames) > 1
  <2>1. /\ Len(frames') = Len(frames) - 1
        /\ \A j \in 1 .. Len(frames) - 1 : frames'[j] = frames[j]
    BY <1>0, <1>3 DEF Return, TypeOK
  <2>2. pc' = "loop"
    BY <1>0, <1>3 DEF Return
  <2>3. FramesInv'
    BY <1>0, <1>3, <2>1 DEF IInv, FramesInv, InLoop
  <2>4. frames'[1].last = frames[1].last
    BY <1>3, <2>1, <1>0
  <2>5. LeastInv'
    BY <1>3, <2>2, <2>4 DEF LeastInv, LeastIn, FilledKey, Filled, InLoop, Positions
  <2>6. QED
    BY <1>0, <1>1, <2>2, <2>3, <2>5 DEF IInv, PartitionInv, InsertInv, SortedAtEnd
<1>4. QED
  BY <1>0, <1>2, <1>3

LEMMA ShortRangeKeeps == IInv /\ ShortRange => IInv'
<1> SUFFICES ASSUME IInv, ShortRange PROVE IInv'
  OBVIOUS
<1>0. TypeOK /\ frames # <<>> /\ pc = "loop" /\ pc # "insert" /\ frames[1].first = 0
  BY DEF IInv, ShortRange, FramesInv, InLoop
<1>1. /\ (a \in [Positions -> Positions])'
      /\ NothingIsLost'
  BY DEF IInv, ShortRange, TypeOK, Positions, NothingIsLost, Filled, Return
<1>2. Len(frames) > 1 => (LeastIn(frames[1].last))'
  BY <1>0, TopFrame DEF IInv, ShortRange, Return, LeastInv, LeastIn, FilledKey, Filled,
     Positions, InLoop
<1>3. ASSUME Len(frames) = 1 PROVE (LeastIn(Guarded))'
  <2>1. Top = frames[1] /\ Top \in Frame
    BY <1>0, <1>3, TopFrame
  <2>2. frames[1].last =< Guarded /\ Guarded \in Nat /\ frames[1].last \in Nat
    BY <1>0, <2>1, ThresholdLeavesThree, MaxLenIsNatural
    DEF ShortRange, IsLong, Guarded, Frame, TypeOK
  <2>3. QED
    BY <1>0, <1>3, <2>2 DEF IInv, ShortRange, Return, LeastInv, LeastIn, FilledKey, Filled,
       Positions, InLoop, Guarded
<1>4. QED
  BY <1>0, <1>1, <1>2, <1>3, ReturnKeeps DEF ShortRange

LEMMA HeapSortKeeps == IInv /\ HeapSort => IInv'
<1> SUFFICES ASSUME IInv, HeapSort PROVE IInv'
  OBVIOUS
<1> DEFINE R == Top.first .. Top.last - 1
<1>0. /\ TypeOK /\ frames # <<>> /\ pc = "loop" /\ frames[1].first = 0 /\ InLoop
      /\ LeastIn(frames[1].last) /\ FramesInv
  BY DEF IInv, HeapSort, FramesInv, LeastInv, InLoop
<1>1. Top \in Frame /\ (Len(frames) > 1 => Top.first >= frames[1].last)
      /\ frames[1] \in Frame /\ (Len(frames) = 1 => Top = frames[1])
  BY <1>0, TopFrame
<1>2. PICK s \in Rearrangements(Top.first, Top.last) :
         a' = [p \in Positions |-> IF p \in DOMAIN s THEN a[s[p]] ELSE a[p]]
  BY DEF HeapSort
<1>3. /\ s \in [R -> R] /\ R \subseteq Positions
      /\ \A p, q \in R : s[p] = s[q] => p = q
      /\ \A q \in R : \E p \in R : s[p] = q
      /\ \A p, q \in R : p < q => ~Less(a[s[q]], a[s[p]])
  <2>1. s \in Bijection(R, R) /\ \A p, q \in R : p < q => ~Less(a[s[q]], a[s[p]])
    BY DEF Rearrangements
  <2>2. R \subseteq Positions
    BY <1>0, <1>1, KeysOfPositions DEF Frame, Positions
  <2>3. /\ s \in [R -> R]
        /\ \A p, q \in R : s[p] = s[q] => p = q
        /\ \A q \in R : \E p \in R : s[p] = q
    BY <2>1, Zenon DEF Bijection, Injection, Surjection, IsInjective
  <2>4. QED BY <2>1, <2>2, <2>3
<1> HIDE DEF R
<1>4. \A p \in Positions : a'[p] = IF p \in R THEN a[s[p]] ELSE a[p]
  BY <1>2, <1>3
<1>5. \A p, q \in Positions : a[p] = a[q] => p = q
  BY <1>0 DEF IInv, NothingIsLost, Filled
<1>6. n' = n /\ key' = key /\ pc' \in {"next", "loop"} /\ n \in Nat
  BY <1>0, KeysOfPositions DEF HeapSort, Return
<1>7. a' \in [Positions -> Positions]
  BY <1>0, <1>2, <1>3, KeysOfPositions
<1>8. NothingIsLost'
  <2>1. ASSUME NEW p \in Positions, NEW q \in Positions, a'[p] = a'[q] PROVE p = q
    <3>1. CASE p \in R /\ q \in R
      BY <1>3, <1>4, <1>5, <2>1, <3>1
    <3>2. CASE p \notin R /\ q \notin R
      BY <1>4, <1>5, <2>1, <3>2
    <3>3. CASE p \in R /\ q \notin R
      BY <1>3, <1>4, <1>5, <2>1, <3>3
    <3>4. CASE p \notin R /\ q \in R
      BY <1>3, <1>4, <1>5, <2>1, <3>4
    <3>5. QED BY <3>1, <3>2, <3>3, <3>4
  <2>2. QED BY <1>6, <2>1 DEF NothingIsLost, Filled, Positions
<1>9. \A p \in Positions : \E q \in Positions : a'[p] = a[q] /\ (q = p \/ p \in R)
  BY <1>3, <1>4
<1>10. \A p \in Positions : \E q \in 0 .. frames[1].last - 1 : key[a[q]] =< key[a[p]]
  BY <1>0 DEF LeastIn, FilledKey, Filled
<1>11. ASSUME Len(frames) > 1 PROVE (LeastIn(frames[1].last))'
  <2>1. \A q \in 0 .. frames[1].last - 1 : q \in Positions /\ q \notin R
    BY <1>1, <1>11, <1>6 DEF R, Frame, Positions
  <2>2. \A p \in Positions : \E q \in 0 .. frames[1].last - 1 : key[a'[q]] =< key[a'[p]]
    BY <2>1, <1>9, <1>10, <1>4
  <2>3. frames'[1] = frames[1]
    BY <1>0, <1>11, TopFrame DEF HeapSort, Return
  <2>4. QED
    BY <1>6, <2>2, <2>3 DEF LeastIn, FilledKey, Filled, Positions
<1>12. ASSUME Len(frames) = 1 PROVE (LeastIn(Guarded))'
  <2>1. Top = frames[1] /\ 0 \in R /\ R = 0 .. frames[1].last - 1 /\ 0 \in Positions
    BY <1>0, <1>1, <1>12, <1>6, ThresholdLeavesThree DEF R, Frame, HeapSort, IsLong, Positions
  <2>2. \A p \in R : key[a'[0]] =< key[a'[p]]
    <3>1. \A p \in R : key[a[s[p]]] \in Int
      BY <1>0, <1>3, KeysOfPositions
    <3>2. \A p \in R : p # 0 => 0 < p
      BY <2>1, <1>1 DEF Frame
    <3>3. ASSUME NEW p \in R, p # 0 PROVE key[a[s[0]]] =< key[a[s[p]]]
      <4>1. ~(key[a[s[p]]] < key[a[s[0]]])
        BY <1>3, <2>1, <3>2, <3>3, Zenon DEF Less
      <4>2. QED BY <2>1, <3>1, <4>1
    <3>4. key[a[s[0]]] =< key[a[s[0]]]
      BY <2>1, <3>1
    <3>5. \A p \in R : a'[p] = a[s[p]]
      BY <1>3, <1>4
    <3>6. QED
      BY <2>1, <3>3, <3>4, <3>5
  <2>3. ASSUME NEW p \in Positions PROVE key[a'[0]] =< key[a'[p]]
    <3>1. PICK p0 \in Positions : a'[p] = a[p0]
      BY <1>9
    <3>2. PICK q0 \in R : key[a[q0]] =< key[a[p0]]
      BY <1>10, <2>1
    <3>3. PICK q1 \in R : a'[q1] = a[q0]
      BY <1>3, <1>4
    <3>4. key[a'[0]] \in Int /\ key[a'[q1]] \in Int /\ key[a'[p]] \in Int
      BY <1>0, <1>3, <2>1, <1>7, KeysOfPositions
    <3>5. QED
      BY <2>2, <3>1, <3>2, <3>3, <3>4
  <2>4. 0 \in 0 .. Guarded - 1
    BY <1>6, <2>1, ThresholdLeavesThree DEF Guarded, Positions
  <2>5. pc' = "next"
    BY <1>12 DEF HeapSort, Return
  <2>6. QED
    BY <1>6, <2>3, <2>4, <2>5 DEF LeastIn, FilledKey, Filled, Positions, Guarded
<1>13. QED
  BY <1>0, <1>6, <1>7, <1>8, <1>11, <1>12, ReturnKeeps DEF HeapSort, Positions

----------------------------------------------------------------------------
(* The partition *)

\* What the steps of a partition leave alone.
LEMMA PartitionFrame ==
  ASSUME TypeOK, frames # <<>>, UNCHANGED <<n, key, frames, rest, k, i, hole, val>>,
         (a \in [Positions -> Positions])', lo' \in 0 .. n, hi' \in 0 .. n,
         pivot' \in 0 .. n, pc' \in {"up", "down"}
  PROVE  TypeOK' /\ Top' = Top
BY DEF TypeOK, Top, Positions

LEMMA StartPartitionKeeps == IInv /\ StartPartition => IInv'
<1> SUFFICES ASSUME IInv, StartPartition PROVE IInv'
  OBVIOUS
<1>0. TypeOK /\ frames # <<>> /\ pc = "loop" /\ InLoop
  BY DEF IInv, StartPartition, FramesInv, InLoop
<1>1. Top \in Frame /\ n \in Nat /\ \A p \in Positions : key[a[p]] \in Int
  BY <1>0, TopFrame, KeysOfPositions
<1>2. Top.first + 2 < Top.last /\ Top.first \in 0 .. n /\ Top.last \in 0 .. n
  BY <1>1, ThresholdLeavesThree DEF StartPartition, IsLong, Frame
<1>3. /\ pivot' \in Top.first .. Top.last - 1
      /\ \E p \in Top.first + 1 .. Top.last - 1 : key[a[p]] =< key[a[pivot']]
  BY <1>0, <1>2, Median DEF StartPartition
<1>4. TypeOK' /\ Top' = Top
  <2>1. UNCHANGED <<n, key, frames, rest, k, i, hole, val>> /\ a' = a /\ pc' = "up"
    BY DEF StartPartition
  <2>2. lo' \in 0 .. n /\ hi' \in 0 .. n /\ pivot' \in 0 .. n
    BY <1>1, <1>2, <1>3 DEF StartPartition
  <2>3. (a \in [Positions -> Positions])'
    BY <1>0, <2>1 DEF TypeOK, Positions
  <2>4. QED BY <1>0, <2>1, <2>2, <2>3, PartitionFrame
<1>5. key[a[pivot']] \in Int
  BY <1>1, <1>2, <1>3 DEF Positions
<1>6. PartitionInv'
  BY <1>1, <1>2, <1>3, <1>4, <1>5 DEF PartitionInv, StartPartition, DepthSpent
<1>7. QED
  BY <1>0, <1>4, <1>6
  DEF IInv, StartPartition, NothingIsLost, Filled, Positions, FramesInv, LeastInv, LeastIn,
      FilledKey, InsertInv, InLoop, SortedAtEnd

\* What every step inside a partition may rely on.
LEMMA InPartition ==
  ASSUME IInv, pc \in {"up", "down"}
  PROVE  /\ TypeOK /\ frames # <<>> /\ InLoop /\ pc # "insert"
         /\ n \in Nat /\ Top \in Frame /\ Top.first \in 0 .. n /\ Top.last \in 0 .. n
         /\ pivot \in Top.first .. Top.last - 1 /\ lo \in Top.first .. Top.last - 1
         /\ Top.first .. Top.last - 1 \subseteq Positions
         /\ \A p \in Positions : key[a[p]] \in Int
         /\ key[a[pivot]] \in Int
<1>1. TypeOK /\ frames # <<>> /\ InLoop /\ pc # "insert"
  BY DEF IInv, FramesInv, InLoop
<1>2. /\ n \in Nat /\ Top \in Frame /\ Top.first \in 0 .. n /\ Top.last \in 0 .. n
      /\ \A p \in Positions : key[a[p]] \in Int
  BY <1>1, TopFrame, KeysOfPositions DEF Frame
<1>3. pivot \in Top.first .. Top.last - 1 /\ lo \in Top.first .. Top.last - 1
  BY DEF IInv, PartitionInv
<1>4. Top.first .. Top.last - 1 \subseteq Positions
  BY <1>2 DEF Positions
<1>5. QED BY <1>1, <1>2, <1>3, <1>4

LEMMA Upwards ==
  ASSUME IInv, pc = "up"
  PROVE  /\ Top.depth # 0 /\ Top.first + 2 < Top.last
         /\ hi \in Top.first + 1 .. Top.last
         /\ \A p \in Top.first .. lo - 1 : key[a[p]] =< key[a[pivot]]
         /\ \A p \in hi .. Top.last - 1 : key[a[pivot]] =< key[a[p]]
         /\ \E p \in lo .. Top.last - 1 : key[a[pivot]] =< key[a[p]]
         /\ \E p \in Top.first .. hi - 1 : key[a[p]] =< key[a[pivot]]
         /\ lo = Top.first => \E p \in Top.first + 1 .. hi - 1 : key[a[p]] =< key[a[pivot]]
BY DEF IInv, PartitionInv

LEMMA Downwards ==
  ASSUME IInv, pc = "down"
  PROVE  /\ Top.depth # 0 /\ Top.first + 2 < Top.last
         /\ hi \in Top.first .. Top.last - 1
         /\ key[a[pivot]] =< key[a[lo]]
         /\ \A p \in Top.first .. lo - 1 : key[a[p]] =< key[a[pivot]]
         /\ \A p \in hi + 1 .. Top.last - 1 : key[a[pivot]] =< key[a[p]]
         /\ \E p \in Top.first .. hi : key[a[p]] =< key[a[pivot]]
         /\ lo = Top.first => \E p \in Top.first + 1 .. hi : key[a[p]] =< key[a[pivot]]
BY DEF IInv, PartitionInv

\* A scan moves lo or hi and nothing else.
LEMMA ScanFrame ==
  ASSUME IInv, pc \in {"up", "down"}, pc' \in {"up", "down"},
         UNCHANGED <<n, key, a, frames, rest, k, pivot, i, hole, val>>,
         lo' \in 0 .. n, hi' \in 0 .. n, PartitionInv'
  PROVE  IInv'
<1>1. TypeOK'
  BY InPartition DEF TypeOK, Positions
<1>2. QED
  BY <1>1, InPartition
  DEF IInv, NothingIsLost, Filled, Positions, FramesInv, LeastInv, LeastIn, FilledKey,
      InsertInv, InLoop, SortedAtEnd

LEMMA ScanUpKeeps == IInv /\ ScanUp => IInv'
<1> SUFFICES ASSUME IInv, ScanUp PROVE IInv'
  OBVIOUS
<1>1. pc = "up" /\ pc' = "up" /\ Top' = Top /\ a' = a /\ key' = key /\ hi' = hi /\ pivot' = pivot
      /\ lo' = lo + 1
  BY DEF ScanUp, Top
<1>2. key[a[lo]] < key[a[pivot]] /\ key[a[lo]] \in Int /\ key[a[pivot]] \in Int
  BY <1>1, InPartition DEF ScanUp, Less
<1>3. PICK q \in lo .. Top.last - 1 : key[a[pivot]] =< key[a[q]]
  BY <1>1, Upwards
<1>4. lo \in Top.first .. Top.last - 1 /\ Top.first \in Nat /\ Top.last \in Nat
  BY <1>1, InPartition
<1>5. q # lo /\ key[a[q]] \in Int
  BY <1>1, <1>2, <1>3, <1>4, InPartition
<1>6. lo' \in Top.first .. Top.last - 1 /\ q \in lo' .. Top.last - 1 /\ lo' # Top.first
  BY <1>1, <1>3, <1>4, <1>5
<1>7. \A p \in Top.first .. lo' - 1 : key[a[p]] =< key[a[pivot]]
  <2>1. \A p \in Top.first .. lo' - 1 : p = lo \/ p \in Top.first .. lo - 1
    BY <1>1, <1>4
  <2>2. QED BY <1>1, <1>2, <2>1, Upwards
<1>8. PartitionInv'
  BY <1>1, <1>3, <1>6, <1>7, InPartition, Upwards DEF PartitionInv
<1>9. QED
  <2>1. lo' \in 0 .. n /\ hi' \in 0 .. n
    <3>1. n \in Nat /\ Top.first \in 0 .. n /\ Top.last \in 0 .. n
      BY <1>1, InPartition
    <3>2. hi \in Top.first + 1 .. Top.last
      BY <1>1, Upwards
    <3>3. QED BY <1>1, <1>6, <3>1, <3>2
  <2>2. QED BY <1>1, <1>8, <2>1, ScanFrame DEF ScanUp

LEMMA StopUpKeeps == IInv /\ StopUp => IInv'
<1> SUFFICES ASSUME IInv, StopUp PROVE IInv'
  OBVIOUS
<1>1. pc = "up" /\ pc' = "down" /\ Top' = Top /\ a' = a /\ key' = key /\ lo' = lo /\ pivot' = pivot
      /\ hi' = hi - 1
  BY DEF StopUp, Top
<1>2. key[a[pivot]] =< key[a[lo]]
  BY <1>1, InPartition DEF StopUp, Less
<1>3. hi \in Top.first + 1 .. Top.last
  BY <1>1 DEF IInv, PartitionInv
<1>4. PartitionInv'
  BY <1>1, <1>2, <1>3, InPartition DEF IInv, PartitionInv
<1>5. QED
  <2>1. lo' \in 0 .. n /\ hi' \in 0 .. n
    BY <1>1, <1>3, InPartition
  <2>2. QED BY <1>1, <1>4, <2>1, ScanFrame DEF StopUp

LEMMA ScanDownKeeps == IInv /\ ScanDown => IInv'
<1> SUFFICES ASSUME IInv, ScanDown PROVE IInv'
  OBVIOUS
<1>1. pc = "down" /\ pc' = "down" /\ Top' = Top /\ a' = a /\ key' = key /\ lo' = lo
      /\ pivot' = pivot /\ hi' = hi - 1
  BY DEF ScanDown, Top
<1>2. hi \in Top.first .. Top.last - 1
  BY <1>1 DEF IInv, PartitionInv
<1>3. key[a[pivot]] < key[a[hi]] /\ key[a[hi]] \in Int /\ key[a[pivot]] \in Int
  BY <1>1, <1>2, InPartition DEF ScanDown, Less
<1>4. \E p \in Top.first .. hi - 1 : key[a[p]] =< key[a[pivot]]
  BY <1>1, <1>2, <1>3, InPartition DEF IInv, PartitionInv
<1>5. lo = Top.first => \E p \in Top.first + 1 .. hi - 1 : key[a[p]] =< key[a[pivot]]
  BY <1>1, <1>2, <1>3, InPartition DEF IInv, PartitionInv
<1>6. \A p \in hi .. Top.last - 1 : key[a[pivot]] =< key[a[p]]
  BY <1>1, <1>2, <1>3, InPartition DEF IInv, PartitionInv
<1>7. hi' \in Top.first .. Top.last - 1
  BY <1>1, <1>2, <1>4, InPartition
<1>8. PartitionInv'
  BY <1>1, <1>4, <1>5, <1>6, <1>7, InPartition DEF IInv, PartitionInv
<1>9. QED
  <2>1. lo' \in 0 .. n /\ hi' \in 0 .. n
    BY <1>1, <1>7, InPartition
  <2>2. QED BY <1>1, <1>8, <2>1, ScanFrame DEF ScanDown

LEMMA SwapStepKeeps == IInv /\ Swap => IInv'
<1> SUFFICES ASSUME IInv, Swap PROVE IInv'
  OBVIOUS
<1> DEFINE f == Top.first
           l == Top.last
           b == frames[1].last
<1>1. pc = "down" /\ pc' = "up" /\ Top' = Top /\ key' = key /\ hi' = hi /\ pivot' = Followed
      /\ lo' = lo + 1 /\ lo < hi /\ n' = n /\ frames' = frames
      /\ a' = [a EXCEPT ![lo] = a[hi], ![hi] = a[lo]]
  BY DEF Swap, Top
<1>2. hi \in f .. l - 1 /\ lo \in f .. l - 1 /\ pivot \in f .. l - 1
      /\ key[a[pivot]] =< key[a[lo]]
  BY <1>1 DEF IInv, PartitionInv
<1>3. lo \in Positions /\ hi \in Positions /\ pivot \in Positions
  BY <1>1, <1>2, InPartition
<1>4. key[a[hi]] =< key[a[pivot]]
  BY <1>1, <1>3, InPartition DEF Swap, Less
<1>5. LeastIn(b) /\ b \in 0 .. n /\ (lo < b <=> hi < b)
  <2>0. LeastIn(b)
    BY <1>1 DEF IInv, LeastInv, InLoop
  <2>1. /\ frames[1] \in Frame /\ (Len(frames) = 1 => Top = frames[1])
        /\ (Len(frames) > 1 => Top.first >= frames[1].last) /\ Len(frames) \in Nat \ {0}
    <3>1. TypeOK /\ frames # <<>> /\ FramesInv /\ InLoop
      BY <1>1, InPartition DEF IInv
    <3>2. Len(frames) \in Nat \ {0} /\ frames \in [1 .. Len(frames) -> Frame]
      BY <3>1, TopFrame
    <3>3. QED BY <3>1, <3>2, TopFrame
  <2>2. n \in Nat /\ b \in 0 .. n /\ Top.first \in Nat /\ Top.last \in Nat
    BY <1>1, <2>1, InPartition DEF Frame
  <2>3. CASE Len(frames) = 1
    BY <1>2, <2>0, <2>1, <2>2, <2>3
  <2>4. CASE Len(frames) > 1
    BY <1>2, <2>0, <2>1, <2>2, <2>4
  <2>5. Len(frames) = 1 \/ Len(frames) > 1
    <3>1. Len(frames) \in Nat \ {0}
      BY <2>1
    <3>2. \A m \in Nat \ {0} : m = 1 \/ m > 1
      OBVIOUS
    <3>3. QED BY <3>1, <3>2, Zenon
  <2>6. QED BY <2>3, <2>4, <2>5
<1>6. /\ (a \in [Positions -> Positions])'
      /\ \A p, q \in Positions : a'[p] = a'[q] => p = q
      /\ \A p \in Positions : \E q \in 0 .. b - 1 : key[a'[q]] =< key[a'[p]]
  <2>1. TypeOK /\ NothingIsLost /\ pc \in {"loop", "up", "down"}
    BY <1>1 DEF IInv
  <2>2. /\ a' \in [Positions -> Positions]
        /\ \A p, q \in Positions : a'[p] = a'[q] => p = q
        /\ \A p \in Positions : \E q \in 0 .. b - 1 : key[a'[q]] =< key[a'[p]]
    BY <1>1, <1>3, <1>5, <2>1, SwapKeeps
  <2>3. QED BY <1>1, <2>2 DEF Positions
<1>7. /\ a \in [Positions -> Positions]
      /\ a'[hi] = a[lo] /\ a'[lo] = a[hi] /\ a'[Followed] = a[pivot]
      /\ \A p \in Positions \ {lo, hi} : a'[p] = a[p]
      /\ Followed \in f .. l - 1
  BY <1>1, <1>2, <1>3, InPartition DEF TypeOK, Followed
<1>8. PartitionInv'
  <2>1. \A p \in f .. lo : key[a'[p]] =< key[a[pivot]]
    <3>1. \A p \in f .. lo : p = lo \/ (p \in f .. lo - 1 /\ p \in Positions \ {lo, hi})
      BY <1>1, <1>2, InPartition DEF Positions
    <3>2. QED BY <1>1, <1>4, <1>7, <3>1, Downwards
  <2>2. \A p \in hi .. l - 1 : key[a[pivot]] =< key[a'[p]]
    <3>1. \A p \in hi .. l - 1 : p = hi \/ (p \in hi + 1 .. l - 1 /\ p \in Positions \ {lo, hi})
      BY <1>1, <1>2, InPartition DEF Positions
    <3>2. QED BY <1>1, <1>2, <1>7, <3>1, Downwards
  <2>3. Top.depth # 0 /\ f + 2 < l
    BY <1>1 DEF IInv, PartitionInv
  <2>4. /\ lo + 1 \in f .. l - 1 /\ hi \in f + 1 .. l /\ hi \in lo + 1 .. l - 1
        /\ lo \in f .. hi - 1 /\ lo + 1 # f
    BY <1>1, <1>2, InPartition
  <2>5. key[a[pivot]] =< key[a'[hi]] /\ key[a'[lo]] =< key[a[pivot]]
    BY <1>2, <1>4, <1>7
  <2>6. lo' - 1 = lo
    BY <1>1, <1>2, InPartition
  <2>7. QED
    <3>1. /\ key'[a'[pivot']] = key[a[pivot]] /\ Top'.depth # 0
          /\ f + 2 < l /\ pivot' \in f .. l - 1 /\ lo' \in f .. l - 1
          /\ \A p \in f .. lo' - 1 : key'[a'[p]] =< key[a[pivot]]
          /\ hi' \in f + 1 .. l
          /\ \A p \in hi' .. l - 1 : key[a[pivot]] =< key'[a'[p]]
      BY <1>1, <1>7, <2>1, <2>2, <2>3, <2>4, <2>6
    <3>2. /\ \E p \in lo' .. l - 1 : key[a[pivot]] =< key'[a'[p]]
          /\ \E p \in f .. hi' - 1 : key'[a'[p]] =< key[a[pivot]]
          /\ lo' # f /\ pc' # "down"
      BY <1>1, <2>4, <2>5
    <3>3. QED
      BY <1>1, <3>1, <3>2 DEF PartitionInv
<1>9. TypeOK'
  <2>1. /\ lo' \in 0 .. n /\ hi' \in 0 .. n /\ pivot' \in 0 .. n
    BY <1>1, <1>2, <1>7, InPartition
  <2>2. UNCHANGED <<n, key, frames, rest, k, i, hole, val>>
    BY DEF Swap
  <2>3. QED BY <1>1, <1>6, <2>1, <2>2, InPartition, PartitionFrame
<1>10. QED
  BY <1>1, <1>6, <1>8, <1>9, InPartition
  DEF IInv, Swap, NothingIsLost, Filled, Positions, FramesInv, LeastInv, LeastIn, FilledKey,
      InsertInv, InLoop, SortedAtEnd

\* The cut lies inside the range, and so does not leave the outermost call
\* without a least element.
LEMMA CutInside ==
  ASSUME IInv, Cross
  PROVE  /\ Top.first < lo /\ lo < Top.last
         /\ \A q \in lo .. Top.last - 1 : key[a[Top.first]] =< key[a[q]]
<1>1. pc = "down" /\ ~(lo < hi)
  BY DEF Cross
<1>2. lo \in Nat /\ hi \in Nat /\ Top.first \in Nat /\ Top.last \in Nat
      /\ lo \in Top.first .. Top.last - 1 /\ hi \in Top.first .. Top.last - 1
  BY <1>1, InPartition, Downwards
<1>3. Top.first < lo /\ lo < Top.last
  BY <1>1, <1>2, Downwards
<1>4. \A q \in lo .. Top.last - 1 : key[a[pivot]] =< key[a[q]]
  <2>1. \A q \in lo .. Top.last - 1 : q = lo \/ q \in hi + 1 .. Top.last - 1
    BY <1>1, <1>2
  <2>2. QED BY <1>1, <2>1, Downwards
<1>5. key[a[Top.first]] =< key[a[pivot]]
  BY <1>1, <1>2, <1>3, Downwards
<1>6. /\ key[a[pivot]] \in Int /\ key[a[Top.first]] \in Int
      /\ \A q \in lo .. Top.last - 1 : key[a[q]] \in Int
  <2>1. \A q \in lo .. Top.last - 1 : q \in Top.first .. Top.last - 1
    BY <1>2
  <2>2. Top.first \in Top.first .. Top.last - 1
    BY <1>2, <1>3
  <2>3. QED BY <1>1, <2>1, <2>2, InPartition
<1>7. QED
  BY <1>3, <1>4, <1>5, <1>6

LEMMA CrossKeeps == IInv /\ Cross => IInv'
<1> SUFFICES ASSUME IInv, Cross PROVE IInv'
  OBVIOUS
<1> DEFINE m == Len(frames)
           f == Pending(Top.first, lo, Top.depth - 1)
           g == Pending(lo, Top.last, Top.depth - 1)
<1>1. pc = "down" /\ pc' = "loop" /\ n' = n /\ key' = key /\ a' = a
      /\ frames' = Append([frames EXCEPT ![m] = f], g)
  BY DEF Cross
<1>2. TypeOK /\ frames # <<>> /\ InLoop /\ FramesInv /\ n \in Nat
      /\ Top.first \in Nat /\ Top.last \in Nat /\ lo \in Nat
      /\ Top.first < lo /\ lo < Top.last
  BY <1>1, InPartition, CutInside DEF IInv
<1>3. m \in Nat \ {0} /\ frames \in [1 .. m -> Frame] /\ Top \in Frame
      /\ (m > 1 => Top.first >= frames[1].last) /\ (m = 1 => Top = frames[1])
      /\ frames \in Seq(Frame)
  BY <1>2, TopFrame DEF TypeOK, Frame
<1>4. f \in Frame /\ g \in Frame
  <2>1. Top.depth \in Nat /\ Top.depth # 0 /\ Top.first \in 0 .. n /\ Top.last \in 0 .. n
    BY <1>1, <1>3, Downwards DEF Frame
  <2>2. Top.depth - 1 \in Nat /\ lo \in 0 .. n
    BY <1>2, <2>1
  <2>3. QED BY <2>1, <2>2 DEF Frame, Pending
<1>5. /\ frames' \in Seq(Frame) /\ Len(frames') = m + 1
      /\ \A j \in 1 .. m + 1 :
           frames'[j] = IF j = m + 1 THEN g ELSE IF j = m THEN f ELSE frames[j]
  BY <1>1, <1>3, <1>4
<1>6. TypeOK'
  BY <1>1, <1>2, <1>5 DEF TypeOK, Cross, Frame, Positions
<1>a. f.first = Top.first /\ f.last = lo /\ g.first = lo
  BY DEF Pending
<1>b. m > 1 => frames'[1] = frames[1]
  <2>1. ASSUME NEW l \in Nat \ {0}, l > 1,
               \A j \in 1 .. l + 1 :
                 frames'[j] = IF j = l + 1 THEN g ELSE IF j = l THEN f ELSE frames[j]
        PROVE  frames'[1] = frames[1]
    BY <2>1
  <2>2. QED BY <1>3, <1>5, <2>1, Zenon
<1>c. \A j \in 2 .. m + 1 : \/ frames'[j].first = lo \/ frames'[j].first = Top.first
                            \/ j \in 2 .. m /\ frames'[j] = frames[j]
  <2>1. ASSUME NEW l \in Nat \ {0},
               \A j \in 1 .. l + 1 :
                 frames'[j] = IF j = l + 1 THEN g ELSE IF j = l THEN f ELSE frames[j]
        PROVE  \A j \in 2 .. l + 1 : \/ frames'[j] = g \/ frames'[j] = f
                                     \/ j \in 2 .. l /\ frames'[j] = frames[j]
    BY <2>1
  <2>2. QED BY <1>3, <1>5, <1>a, <2>1, Zenon
<1>d. frames' # <<>>
  <2>1. Len(<<>>) = 0 /\ \A l \in Nat \ {0} : l + 1 # 0
    OBVIOUS
  <2>2. QED BY <1>3, <1>5, <2>1, Zenon
<1>7. FramesInv'
  <2>1. f.first = Top.first /\ f.last = lo /\ g.first = lo
    BY <1>a
  <2>2. frames[1].first = 0 /\ \A j \in 2 .. m : frames[j].first >= frames[1].last
    BY <1>2 DEF FramesInv
  <2>3. CASE m = 1
    BY <1>2, <1>3, <1>5, <2>1, <2>2, <2>3 DEF FramesInv
  <2>4. CASE m > 1
    <3>1. frames'[1] = frames[1] /\ frames' # <<>>
      BY <1>b, <1>d, <2>4
    <3>2. frames[1].last \in Nat
      <4>1. frames[1] \in Frame
        BY <1>2, TopFrame
      <4>2. QED BY <1>2, <4>1 DEF Frame
    <3>3. lo >= frames[1].last /\ Top.first >= frames[1].last
      BY <1>2, <1>3, <2>4, <3>2
    <3>4. \A j \in 2 .. m + 1 : frames'[j].first >= frames[1].last
      BY <1>c, <2>2, <3>3
    <3>5. QED
      BY <1>5, <2>2, <3>1, <3>4 DEF FramesInv
  <2>5. QED BY <1>3, <2>3, <2>4
<1>8. LeastInv'
  <2>1. \A p \in Positions : \E q \in 0 .. frames[1].last - 1 : key[a[q]] =< key[a[p]]
    BY <1>1, <1>2 DEF IInv, LeastInv, LeastIn, FilledKey, Filled
  <2>2. \A p \in Positions : \E q \in 0 .. frames'[1].last - 1 : key[a[q]] =< key[a[p]]
    <3>1. CASE m = 1
      <4>1. frames'[1].last = lo /\ Top = frames[1] /\ Top.first = 0
        BY <1>2, <1>3, <1>5, <3>1 DEF Pending, FramesInv
      <4>2. ASSUME NEW p \in Positions
            PROVE  \E q \in 0 .. lo - 1 : key[a[q]] =< key[a[p]]
        <5>1. PICK q \in 0 .. Top.last - 1 : key[a[q]] =< key[a[p]]
          BY <2>1, <4>1
        <5>2. CASE q < lo
          BY <5>1, <5>2, <1>2
        <5>3. CASE q >= lo
          <6>1. key[a[0]] =< key[a[q]]
            BY <1>2, <4>1, <5>1, <5>3, CutInside
          <6>2. q \in Positions /\ 0 \in Positions
            BY <1>1, <1>2, <4>1, <5>1, InPartition, SMTT(40)
          <6>3. key[a[0]] =< key[a[p]]
            BY <1>1, <5>1, <6>1, <6>2, InPartition
          <6>4. QED BY <1>2, <4>1, <6>3
        <5>4. QED BY <1>2, <5>1, <5>2, <5>3
      <4>3. QED BY <4>1, <4>2
    <3>2. CASE m > 1
      BY <1>b, <2>1, <3>2
    <3>3. QED BY <1>3, <3>1, <3>2
  <2>3. QED
    BY <1>1, <2>2 DEF LeastInv, LeastIn, FilledKey, Filled, Positions
<1>9. QED
  BY <1>1, <1>2, <1>6, <1>7, <1>8
  DEF IInv, Cross, NothingIsLost, Filled, Positions, PartitionInv, InsertInv, SortedAtEnd

----------------------------------------------------------------------------
(* The insertions *)

LEMMA InFrontKeeps == IInv /\ InsertInFront => IInv'
<1> SUFFICES ASSUME IInv, InsertInFront PROVE IInv'
  OBVIOUS
<1>1. /\ pc = "next" /\ pc' = "next" /\ n' = n /\ key' = key /\ i' = i + 1 /\ a' = Rotated
      /\ key[a[i]] < key[a[0]] /\ i < Guarded
  BY DEF InsertInFront, NextToInsert, Less
<1>2. TypeOK /\ n \in Nat /\ i \in 1 .. n /\ a \in [Positions -> Positions]
  BY <1>1, KeysOfPositions DEF IInv, InsertInv
<1>3. \A p \in Positions : key[a[p]] \in Int
  BY <1>2, KeysOfPositions
<1>4. \A p, q \in 0 .. i - 1 : p < q => key[a[p]] =< key[a[q]]
  BY <1>1 DEF IInv, InsertInv
<1>5. \A p, q \in Positions : a[p] = a[q] => p = q
  BY <1>1 DEF IInv, NothingIsLost, Filled
<1>6. \A p \in Positions : \E q \in 0 .. Guarded - 1 : key[a[q]] =< key[a[p]]
  BY <1>1 DEF IInv, LeastInv, LeastIn, FilledKey, Filled
<1>7. /\ Guarded \in 0 .. n /\ i \in 1 .. n - 1 /\ i \in 1 .. Guarded - 1
      /\ \A p \in 0 .. i : p \in Positions
  BY <1>1, <1>2, ThresholdLeavesThree DEF Guarded, Positions
<1>8. \A p \in Positions : a'[p] = IF p = 0 THEN a[i] ELSE IF p =< i THEN a[p - 1] ELSE a[p]
  BY <1>1 DEF Rotated
<1>9. \* a' is a after a permutation of the positions
      \E r \in [Positions -> Positions] :
        /\ \A p \in Positions : a'[p] = a[r[p]]
        /\ \A p, q \in Positions : r[p] = r[q] => p = q
        /\ \A q \in 0 .. Guarded - 1 : \E p \in 0 .. Guarded - 1 : r[p] = q
  <2> DEFINE r == [p \in Positions |-> IF p = 0 THEN i ELSE IF p =< i THEN p - 1 ELSE p]
  <2>1. r \in [Positions -> Positions]
    BY <1>2, <1>7 DEF Positions
  <2>2. \A p \in Positions : a'[p] = a[r[p]]
    BY <1>8
  <2>3. \A p, q \in Positions : r[p] = r[q] => p = q
    BY <1>2, <1>7 DEF Positions
  <2>4. ASSUME NEW q \in 0 .. Guarded - 1 PROVE \E p \in 0 .. Guarded - 1 : r[p] = q
    <3>1. CASE q = i
      <4>1. 0 \in 0 .. Guarded - 1 /\ r[0] = i
        BY <1>2, <1>7 DEF Positions
      <4>2. QED BY <3>1, <4>1
    <3>2. CASE q < i
      <4>1. q + 1 \in 0 .. Guarded - 1 /\ r[q + 1] = q
        BY <1>2, <1>7, <3>2 DEF Positions
      <4>2. QED BY <4>1
    <3>3. CASE q > i
      <4>1. q \in Positions /\ r[q] = q
        BY <1>2, <1>7, <3>3 DEF Positions
      <4>2. QED BY <4>1
    <3>4. QED BY <1>7, <3>1, <3>2, <3>3
  <2> HIDE DEF r
  <2>5. QED BY <2>1, <2>2, <2>3, <2>4
<1>10. PICK r \in [Positions -> Positions] :
        /\ \A p \in Positions : a'[p] = a[r[p]]
        /\ \A p, q \in Positions : r[p] = r[q] => p = q
        /\ \A q \in 0 .. Guarded - 1 : \E p \in 0 .. Guarded - 1 : r[p] = q
  BY <1>9
<1>11. a' \in [Positions -> Positions]
  <2>1. a' = [p \in Positions |-> a'[p]]
    BY <1>1 DEF Rotated
  <2>2. \A p \in Positions : a'[p] \in Positions
    BY <1>2, <1>10
  <2>3. QED BY <2>1, <2>2
<1>12. \A p, q \in Positions : a'[p] = a'[q] => p = q
  BY <1>5, <1>10
<1>13. \A p \in Positions : \E q \in 0 .. Guarded - 1 : key[a'[q]] =< key[a'[p]]
  <2>1. \A q \in 0 .. Guarded - 1 : q \in Positions
    BY <1>2, <1>7 DEF Positions
  <2>2. QED BY <1>6, <1>10, <2>1
<1>14. i' \in 1 .. n /\ \A p, q \in 0 .. i' - 1 : p < q => key[a'[p]] =< key[a'[q]]
  <2>1. \A p \in 0 .. i - 1 : key[a[i]] =< key[a[p]]
    <3>1. \A p \in 0 .. i - 1 : key[a[0]] =< key[a[p]]
      BY <1>3, <1>4, <1>7
    <3>2. \A p \in 0 .. i : key[a[p]] \in Int
      BY <1>3, <1>7
    <3>3. QED BY <1>1, <1>7, <3>1, <3>2
  <2>2. ASSUME NEW p \in 0 .. i, NEW q \in 0 .. i, p < q PROVE key[a'[p]] =< key[a'[q]]
    <3>1. q \in Positions /\ p \in Positions
      BY <1>7
    <3>2. a'[q] = a[q - 1] /\ q - 1 \in 0 .. i - 1
      BY <1>7, <1>8, <2>2, <3>1
    <3>3. CASE p = 0
      BY <1>8, <2>1, <3>1, <3>2, <3>3
    <3>4. CASE p # 0
      <4>1. a'[p] = a[p - 1] /\ p - 1 \in 0 .. i - 1 /\ p - 1 < q - 1
        BY <1>7, <1>8, <2>2, <3>1, <3>4
      <4>2. QED BY <1>4, <3>2, <4>1
    <3>5. QED BY <3>3, <3>4
  <2>3. i' - 1 = i /\ i' \in 1 .. n
    BY <1>1, <1>7, <1>2
  <2>4. QED BY <2>2, <2>3
<1>15. TypeOK'
  <2>1. i' \in 0 .. n
    BY <1>2, <1>14
  <2>2. QED BY <1>1, <1>2, <1>11, <2>1 DEF InsertInFront, TypeOK, Positions
<1>16. QED
  BY <1>1, <1>12, <1>13, <1>14, <1>15
  DEF IInv, InsertInFront, NothingIsLost, Filled, Positions, FramesInv, PartitionInv, LeastInv,
      LeastIn, FilledKey, InsertInv, InLoop, SortedAtEnd, Guarded

LEMMA StartInsertKeeps == IInv /\ StartInsert => IInv'
<1> SUFFICES ASSUME IInv, StartInsert PROVE IInv'
  OBVIOUS
<1>1. /\ pc = "next" /\ pc' = "insert" /\ n' = n /\ key' = key /\ i' = i /\ a' = a
      /\ val' = a[i] /\ hole' = i /\ i < n /\ (i < Guarded => ~(key[a[i]] < key[a[0]]))
  BY DEF StartInsert, Less
<1>2. TypeOK /\ n \in Nat /\ i \in 1 .. n - 1 /\ a \in [Positions -> Positions]
  BY <1>1, KeysOfPositions DEF IInv, InsertInv
<1>3. \A p \in Positions : key[a[p]] \in Int
  BY <1>2, KeysOfPositions
<1>4. \A p, q \in 0 .. i - 1 : p < q => key[a[p]] =< key[a[q]]
  BY <1>1 DEF IInv, InsertInv
<1>5. \A p \in Positions : \E q \in 0 .. Guarded - 1 : key[a[q]] =< key[a[p]]
  BY <1>1 DEF IInv, LeastInv, LeastIn, FilledKey, Filled
<1>6. i \in Positions /\ 0 \in Positions
  BY <1>2 DEF Positions
<1>7. a[i] \in Positions /\ key[a[0]] \in Int /\ key[a[i]] \in Int
  BY <1>2, <1>3, <1>6
<1>8. key[a[0]] =< key[a[i]]
  <2>1. CASE i < Guarded
    BY <1>1, <1>7, <2>1
  <2>2. CASE ~(i < Guarded)
    <3>1. PICK q \in 0 .. Guarded - 1 : key[a[q]] =< key[a[i]]
      BY <1>5, <1>6
    <3>2. q \in 0 .. i - 1 /\ q \in Positions
      BY <1>2, <2>2, <3>1, ThresholdLeavesThree DEF Guarded, Positions
    <3>3. key[a[0]] =< key[a[q]] /\ key[a[q]] \in Int
      BY <1>2, <1>3, <1>4, <1>7, <3>2
    <3>4. QED BY <1>7, <3>1, <3>3
  <2>3. QED BY <2>1, <2>2
<1>9. Filled' = Filled
  BY <1>1, <1>2 DEF Filled
<1>10. InsertInv'
  <2>1. i \in 1 .. i /\ \A q \in (0 .. i) \ {i} : q \in 0 .. i - 1
    BY <1>2
  <2>2. ~(\E q \in i + 1 .. i : TRUE)
    BY <1>2
  <2>3. Positions' = Positions
    BY <1>1 DEF Positions
  <2>4. QED
    BY <1>1, <1>2, <1>4, <1>7, <1>8, <2>1, <2>2, <2>3 DEF InsertInv
<1>11. TypeOK'
  <2>1. val' \in 0 .. n /\ hole' \in 0 .. n
    BY <1>1, <1>2, <1>7 DEF Positions
  <2>2. QED BY <1>1, <1>2, <2>1 DEF StartInsert, TypeOK, Positions
<1>12. QED
  BY <1>1, <1>9, <1>10, <1>11
  DEF IInv, StartInsert, NothingIsLost, Positions, FramesInv, PartitionInv, LeastInv, LeastIn,
      FilledKey, InLoop, SortedAtEnd, Guarded

\* What a held element may rely on while it moves down.
LEMMA Inserting ==
  ASSUME IInv, pc = "insert"
  PROVE  /\ TypeOK /\ n \in Nat /\ a \in [Positions -> Positions]
         /\ i \in 1 .. n - 1 /\ hole \in 1 .. i /\ val \in Positions
         /\ hole \in Positions /\ hole - 1 \in Positions /\ 0 \in Positions
         /\ \A p \in Positions : key[a[p]] \in Int
         /\ key[val] \in Int /\ key[a[0]] =< key[val]
         /\ Filled = [a EXCEPT ![hole] = val]
<1>1. TypeOK /\ n \in Nat /\ a \in [Positions -> Positions]
      /\ i \in 1 .. n - 1 /\ hole \in 1 .. i /\ val \in Positions /\ key[a[0]] =< key[val]
  BY KeysOfPositions DEF IInv, InsertInv
<1>2. hole \in Positions /\ hole - 1 \in Positions /\ 0 \in Positions
  BY <1>1 DEF Positions
<1>3. key[val] \in Int /\ \A p \in Positions : key[a[p]] \in Int
  BY <1>1, KeysOfPositions
<1>4. QED BY <1>1, <1>2, <1>3 DEF Filled

LEMMA ShiftKeeps == IInv /\ Shift => IInv'
<1> SUFFICES ASSUME IInv, Shift PROVE IInv'
  OBVIOUS
<1> DEFINE w == Filled
           u == Filled'
<1>1. /\ pc = "insert" /\ pc' = "insert" /\ n' = n /\ key' = key /\ i' = i /\ val' = val
      /\ a' = [a EXCEPT ![hole] = a[hole - 1]] /\ hole' = hole - 1
      /\ key[val] < key[a[hole - 1]]
  BY DEF Shift, Less
<1>2. /\ TypeOK /\ n \in Nat /\ a \in [Positions -> Positions]
      /\ i \in 1 .. n - 1 /\ hole \in 1 .. i /\ val \in Positions
      /\ hole \in Positions /\ hole - 1 \in Positions /\ 0 \in Positions
      /\ \A p \in Positions : key[a[p]] \in Int
      /\ key[val] \in Int /\ key[a[0]] =< key[val] /\ w = [a EXCEPT ![hole] = val]
  BY <1>1, Inserting
<1>3. \A p, q \in (0 .. i) \ {hole} : p < q => key[a[p]] =< key[a[q]]
  BY <1>1 DEF IInv, InsertInv
<1>4. hole - 1 # 0 /\ hole - 1 \in 1 .. i
  BY <1>1, <1>2
<1>5. /\ a' \in [Positions -> Positions] /\ a'[hole] = a[hole - 1]
      /\ \A p \in Positions \ {hole} : a'[p] = a[p]
      /\ u = [a' EXCEPT ![hole - 1] = val]
  BY <1>1, <1>2 DEF Filled
<1>6. /\ w \in [Positions -> Positions] /\ u \in [Positions -> Positions]
      /\ u[hole - 1] = w[hole] /\ u[hole] = w[hole - 1] /\ w[hole] = val
      /\ w[hole - 1] = a[hole - 1]
      /\ \A p \in Positions \ {hole, hole - 1} : u[p] = w[p]
  BY <1>2, <1>5
<1>7. \A p, q \in Positions : w[p] = w[q] => p = q
  BY DEF IInv, NothingIsLost
<1>8. \A p \in Positions : \E q \in 0 .. Guarded - 1 : key[w[q]] =< key[w[p]]
  BY <1>1 DEF IInv, LeastInv, LeastIn, FilledKey
<1>9. (a \in [Positions -> Positions])' /\ Positions' = Positions /\ Guarded' = Guarded
  BY <1>1, <1>5 DEF Positions, Guarded
<1>10. InsertInv'
  <2>1. \A p, q \in (0 .. i) \ {hole - 1} : p < q => key[a'[p]] =< key[a'[q]]
    <3>1. ASSUME NEW p \in (0 .. i) \ {hole - 1}, NEW q \in (0 .. i) \ {hole - 1}, p < q
          PROVE  key[a'[p]] =< key[a'[q]]
      <4>1. p \in Positions /\ q \in Positions
        BY <1>2, SMTT(40) DEF Positions
      <4>2. CASE p = hole
        <5>1. a'[p] = a[hole - 1] /\ a'[q] = a[q] /\ hole - 1 < q
          BY <1>2, <1>5, <3>1, <4>1, <4>2
        <5>2. QED BY <1>2, <1>3, <1>4, <3>1, <4>2, <5>1
      <4>3. CASE q = hole
        <5>1. a'[q] = a[hole - 1] /\ a'[p] = a[p] /\ p < hole - 1
          BY <1>2, <1>5, <3>1, <4>1, <4>3
        <5>2. QED BY <1>2, <1>3, <1>4, <3>1, <4>3, <5>1
      <4>4. CASE p # hole /\ q # hole
        BY <1>3, <1>5, <3>1, <4>1, <4>4
      <4>5. QED BY <4>2, <4>3, <4>4
    <3>2. QED BY <3>1
  <2>2. \A q \in hole .. i : key[val] < key[a'[q]]
    <3>1. \A q \in hole + 1 .. i : key[val] < key[a[q]] /\ q \in Positions \ {hole}
      <4>1. \A q \in hole + 1 .. i : key[val] < key[a[q]]
        BY <1>1 DEF IInv, InsertInv
      <4>2. \A q \in hole + 1 .. i : q \in Positions \ {hole}
        BY <1>2 DEF Positions
      <4>3. QED BY <4>1, <4>2
    <3>2. \A q \in hole .. i : q = hole \/ q \in hole + 1 .. i
      BY <1>2
    <3>3. QED BY <1>1, <1>5, <3>1, <3>2
  <2>3. key[a'[0]] =< key[val]
    BY <1>2, <1>5
  <2>4. (hole - 1) + 1 = hole
    BY <1>2
  <2>5. QED
    BY <1>1, <1>2, <1>4, <1>9, <2>1, <2>2, <2>3, <2>4 DEF InsertInv
<1> HIDE DEF w, u
<1>11. \A p, q \in Positions : u[p] = u[q] => p = q
  <2>1. hole # hole - 1
    BY <1>2
  <2>2. QED BY <1>2, <1>6, <1>7, <2>1
<1>12. \A p \in Positions : \E q \in 0 .. Guarded - 1 : key[u[q]] =< key[u[p]]
  <2>0. \A p \in Positions : key[w[p]] \in Int /\ key[u[p]] \in Int
    BY <1>2, <1>6, KeysOfPositions
  <2>1. \A q \in 0 .. Guarded - 1 : q \in Positions
    BY <1>2, ThresholdLeavesThree DEF Guarded, Positions
  <2>2. ASSUME NEW q \in 0 .. Guarded - 1
        PROVE  \E r \in 0 .. Guarded - 1 : key[u[r]] =< key[w[q]]
    <3>1. CASE q = hole
      <4>1. hole - 1 \in 0 .. Guarded - 1
        BY <1>2, <3>1, ThresholdLeavesThree DEF Guarded
      <4>2. QED BY <1>2, <1>6, <2>0, <3>1, <4>1
    <3>2. CASE q = hole - 1
      BY <1>1, <1>2, <1>6, <2>0, <3>2
    <3>3. CASE q # hole /\ q # hole - 1
      BY <1>6, <2>0, <2>1, <3>3
    <3>4. QED BY <3>1, <3>2, <3>3
  <2>3. \A p \in Positions : \E p0 \in Positions : u[p] = w[p0]
    BY <1>2, <1>6
  <2>4. ASSUME NEW p \in Positions
        PROVE  \E q \in 0 .. Guarded - 1 : key[u[q]] =< key[u[p]]
    <3>1. PICK p0 \in Positions : u[p] = w[p0]
      BY <2>3
    <3>2. PICK q0 \in 0 .. Guarded - 1 : key[w[q0]] =< key[w[p0]]
      BY <1>8
    <3>3. PICK r \in 0 .. Guarded - 1 : key[u[r]] =< key[w[q0]]
      BY <2>2
    <3>4. key[u[r]] \in Int /\ key[w[q0]] \in Int /\ key[w[p0]] \in Int
      BY <2>0, <2>1
    <3>5. QED BY <3>1, <3>2, <3>3, <3>4
  <2>5. QED BY <2>4
<1>13. TypeOK'
  <2>1. hole' \in 0 .. n
    BY <1>1, <1>2
  <2>2. QED BY <1>1, <1>2, <1>9, <2>1 DEF Shift, TypeOK, Positions
<1>14. NothingIsLost' /\ LeastInv'
  BY <1>1, <1>9, <1>11, <1>12 DEF u, NothingIsLost, LeastInv, LeastIn, FilledKey, InLoop
<1>15. QED
  BY <1>1, <1>10, <1>13, <1>14 DEF IInv, FramesInv, PartitionInv, InLoop, SortedAtEnd

LEMMA PlaceKeeps == IInv /\ Place => IInv'
<1> SUFFICES ASSUME IInv, Place PROVE IInv'
  OBVIOUS
<1>1. /\ pc = "insert" /\ pc' = "next" /\ n' = n /\ key' = key /\ i' = i + 1
      /\ a' = [a EXCEPT ![hole] = val] /\ ~(key[val] < key[a[hole - 1]])
  BY DEF Place, Less, NextToInsert
<1>2. /\ TypeOK /\ n \in Nat /\ a \in [Positions -> Positions]
      /\ i \in 1 .. n - 1 /\ hole \in 1 .. i /\ val \in Positions
      /\ hole \in Positions /\ hole - 1 \in Positions
      /\ \A p \in Positions : key[a[p]] \in Int
      /\ key[val] \in Int /\ Filled = [a EXCEPT ![hole] = val]
  BY <1>1, Inserting
<1>3. \A p, q \in (0 .. i) \ {hole} : p < q => key[a[p]] =< key[a[q]]
  BY <1>1 DEF IInv, InsertInv
<1>4. Filled' = Filled /\ Positions' = Positions /\ Guarded' = Guarded
  BY <1>1, <1>2 DEF Filled, Positions, Guarded
<1>5. /\ a' \in [Positions -> Positions] /\ a'[hole] = val
      /\ \A p \in Positions \ {hole} : a'[p] = a[p]
  BY <1>1, <1>2
<1>6. i' \in 1 .. n /\ i' - 1 = i
  BY <1>1, <1>2
<1>7. \A p \in 0 .. hole - 1 : key[a[p]] =< key[val]
  <2>1. key[a[hole - 1]] =< key[val]
    BY <1>1, <1>2
  <2>2. ASSUME NEW p \in 0 .. hole - 1 PROVE key[a[p]] =< key[val]
    <3>1. CASE p = hole - 1
      BY <2>1, <3>1
    <3>2. CASE p # hole - 1
      <4>1. /\ p \in (0 .. i) \ {hole} /\ hole - 1 \in (0 .. i) \ {hole} /\ p < hole - 1
            /\ p \in Positions
        BY <1>2, <3>2 DEF Positions
      <4>2. key[a[p]] =< key[a[hole - 1]]
        BY <1>3, <4>1
      <4>3. QED BY <1>2, <2>1, <4>1, <4>2
    <3>3. QED BY <3>1, <3>2
  <2>3. QED BY <2>2
<1>8. ASSUME NEW p \in 0 .. i, NEW q \in 0 .. i, p < q PROVE key[a'[p]] =< key[a'[q]]
  <2>1. p \in Positions /\ q \in Positions
    BY <1>2 DEF Positions
  <2>2. CASE p = hole
    <3>1. q \in hole + 1 .. i
      BY <1>2, <1>8, <2>2
    <3>2. key[val] < key[a[q]]
      BY <1>1, <3>1 DEF IInv, InsertInv
    <3>3. QED BY <1>2, <1>5, <1>8, <2>1, <2>2, <3>2
  <2>3. CASE q = hole
    <3>1. p \in 0 .. hole - 1 /\ p # hole
      BY <1>2, <1>8, <2>3
    <3>2. QED BY <1>5, <1>7, <2>1, <2>3, <3>1
  <2>4. CASE p # hole /\ q # hole
    BY <1>3, <1>5, <1>8, <2>1, <2>4
  <2>5. QED BY <2>2, <2>3, <2>4
<1>9. InsertInv'
  BY <1>1, <1>6, <1>8 DEF InsertInv
<1>10. TypeOK'
  <2>1. i' \in 0 .. n
    BY <1>2, <1>6
  <2>2. QED BY <1>1, <1>2, <1>5, <2>1 DEF Place, TypeOK, Positions
<1>11. NothingIsLost' /\ LeastInv'
  BY <1>1, <1>4 DEF IInv, NothingIsLost, LeastInv, LeastIn, FilledKey, InLoop
<1>12. QED
  BY <1>1, <1>9, <1>10, <1>11 DEF IInv, FramesInv, PartitionInv, InLoop, SortedAtEnd

LEMMA FinishKeeps == IInv /\ Finish => IInv'
<1> SUFFICES ASSUME IInv, Finish PROVE IInv'
  OBVIOUS
<1>1. /\ pc = "next" /\ pc' = "done" /\ i = n /\ n' = n /\ key' = key /\ a' = a
  BY DEF Finish, AllInserted
<1>2. \A p, q \in Positions : p < q => key[a[p]] =< key[a[q]]
  BY <1>1 DEF IInv, InsertInv, Positions
<1>3. TypeOK /\ \A p \in Positions : key[a[p]] \in Int
  BY KeysOfPositions DEF IInv
<1>4. SortedAtEnd'
  BY <1>1, <1>2, <1>3 DEF SortedAtEnd, Less, Positions
<1>5. TypeOK'
  BY <1>1, <1>3 DEF Finish, TypeOK, Positions
<1>6. QED
  BY <1>1, <1>4, <1>5
  DEF IInv, NothingIsLost, Filled, Positions, FramesInv, PartitionInv, LeastInv, InsertInv, InLoop

----------------------------------------------------------------------------
LEMMA NextIInv == IInv /\ [Next]_vars => IInv'
<1>1. IInv /\ UNCHANGED vars => IInv'
  BY DEF vars, IInv, TypeOK, Positions, NothingIsLost, Filled, FramesInv, InLoop, PartitionInv,
     Top, LeastInv, LeastIn, FilledKey, Guarded, InsertInv, SortedAtEnd, Less
<1>2. QED
  BY <1>1, HalveKeeps, StartLoopKeeps, ShortRangeKeeps, HeapSortKeeps, StartPartitionKeeps,
     ScanUpKeeps, StopUpKeeps, ScanDownKeeps, SwapStepKeeps, CrossKeeps, InFrontKeeps,
     StartInsertKeeps, ShiftKeeps, PlaceKeeps, FinishKeeps
  DEF Next

LEMMA Invariance == Spec => []IInv
BY InitIInv, NextIInv, PTL DEF Spec

\* No variable of sort leaves its type; every call of introsort_loop is given a
\* range of the input and a depth limit that is not negative.
THEOREM TypesAreCorrect == Spec => []TypeOK
<1>1. IInv => TypeOK
  BY DEF IInv
<1>2. QED BY Invariance, <1>1, PTL

\* unguarded_partition and unguarded_linear_insert read inside their ranges on
\* every input, though they compare no iterators.
THEOREM ScansStayInBounds == Spec => []ReadsInBounds
<1>1. IInv => ReadsInBounds
  <2> SUFFICES ASSUME IInv PROVE ReadsInBounds
    OBVIOUS
  <2>1. pc \in {"up", "down"} => pivot \in Top.first .. Top.last - 1
                                 /\ lo \in Top.first .. Top.last - 1
    BY InPartition
  <2>2. pc = "down" => hi \in Top.first .. Top.last - 1
    BY Downwards
  <2>3. pc = "insert" => hole \in 1 .. i
    BY Inserting
  <2>4. QED BY <2>1, <2>2, <2>3 DEF ReadsInBounds
<1>2. QED BY Invariance, <1>1, PTL

\* The array, with the element in hand put back, is a permutation of the input
\* at every step of sort.
THEOREM NoElementIsLost == Spec => []NothingIsLost
<1>1. IInv => NothingIsLost
  BY DEF IInv
<1>2. QED BY Invariance, <1>1, PTL

\* When sort returns, the keys ascend.
THEOREM ResultIsSorted == Spec => []SortedAtEnd
<1>1. IInv => SortedAtEnd
  BY DEF IInv
<1>2. QED BY Invariance, <1>1, PTL

\* No partition returns an end of its range: both parts are shorter than it.
THEOREM EveryCutIsInside == Spec => CutsAreInside
<1>1. IInv /\ [Next]_vars => [pc = "down" /\ pc' = "loop" => Top.first < lo /\ lo < Top.last]_vars
  <2> SUFFICES ASSUME IInv, Next, pc = "down", pc' = "loop"
               PROVE  Top.first < lo /\ lo < Top.last
    OBVIOUS
  <2>1. Cross
    BY DEF Next, Halve, StartLoop, ShortRange, HeapSort, StartPartition, ScanUp, StopUp,
       ScanDown, Swap, InsertInFront, StartInsert, Shift, Place, Finish
  <2>2. QED BY <2>1, CutInside
<1>2. QED BY Invariance, <1>1, PTL DEF Spec, CutsAreInside

----------------------------------------------------------------------------
(* How far the final insertion sort moves an element *)

\* nothing before b is greater than anything from b on
CutAt(b) == \A p \in 0 .. b - 1, q \in b .. n - 1 : key[a[p]] =< key[a[q]]

\* The active calls tile the front of the array, one behind the other; each ends
\* at a cut, and behind the last of them no pair Threshold apart is out of order.
SegmentsInv ==
  InLoop =>
    /\ \A j \in 1 .. Len(frames) - 1 : frames[j].last = frames[j + 1].first
    /\ \A j, m \in 1 .. Len(frames) : j < m => frames[j].last =< frames[m].first
    /\ \A j \in 1 .. Len(frames) : frames[j].first =< frames[j].last /\ CutAt(frames[j].last)
    /\ \A p, q \in Top.last .. n - 1 : q - p >= Threshold => key[a[p]] =< key[a[q]]

\* In the insertion sort no pair Threshold apart is; the held element came from
\* fewer than Threshold places behind the hole, and will stop in time.
NearInv ==
  /\ pc \in {"next", "insert"} =>
       \A p, q \in Positions : q - p >= Threshold => FilledKey(p) =< FilledKey(q)
  /\ pc = "insert" =>
       /\ i - hole < Threshold
       /\ \A p \in Positions : p =< i - Threshold => key[a[p]] =< key[val]

\* What rearranges a range keeps every cut that is not inside it.
LEMMA CutKept ==
  ASSUME TypeOK, NEW f \in Nat, NEW l \in Nat, NEW b \in 0 .. n, b =< f \/ l =< b, CutAt(b),
         NEW c,
         \A p \in Positions :
           \/ c[p] = a[p]
           \/ p \in f .. l - 1 /\ \E q \in f .. l - 1 : q \in Positions /\ c[p] = a[q]
  PROVE  \A p \in 0 .. b - 1, q \in b .. n - 1 : key[c[p]] =< key[c[q]]
<1>1. n \in Nat
  BY KeysOfPositions
<1>2. ASSUME NEW p \in 0 .. b - 1 PROVE \E x \in 0 .. b - 1 : c[p] = a[x]
  <2>1. p \in Positions
    BY <1>1, <1>2 DEF Positions
  <2>2. CASE c[p] = a[p]
    BY <2>2
  <2>3. CASE p \in f .. l - 1 /\ \E q \in f .. l - 1 : q \in Positions /\ c[p] = a[q]
    <3>1. PICK q \in f .. l - 1 : c[p] = a[q]
      BY <2>3
    <3>2. q \in 0 .. b - 1
      BY <1>1, <1>2, <2>3
    <3>3. QED
      BY <3>1, <3>2
  <2>4. QED
    BY <2>1, <2>2, <2>3
<1>3. ASSUME NEW p \in b .. n - 1 PROVE \E x \in b .. n - 1 : c[p] = a[x]
  <2>1. p \in Positions
    BY <1>1, <1>3 DEF Positions
  <2>2. CASE c[p] = a[p]
    BY <2>2
  <2>3. CASE p \in f .. l - 1 /\ \E q \in f .. l - 1 : q \in Positions /\ c[p] = a[q]
    <3>1. PICK q \in f .. l - 1 : q \in Positions /\ c[p] = a[q]
      BY <2>3
    <3>2. q \in b .. n - 1
      BY <1>1, <1>3, <2>3, <3>1 DEF Positions
    <3>3. QED
      BY <3>1, <3>2
  <2>4. QED
    BY <2>1, <2>2, <2>3
<1>4. QED
  <2>1. SUFFICES ASSUME NEW p \in 0 .. b - 1, NEW q \in b .. n - 1
                 PROVE  key[c[p]] =< key[c[q]]
    OBVIOUS
  <2>2. PICK x \in 0 .. b - 1 : c[p] = a[x]
    BY <1>2
  <2>3. PICK y \in b .. n - 1 : c[q] = a[y]
    BY <1>3
  <2>4. QED
    BY <2>2, <2>3 DEF CutAt

\* What SegmentsInv says of a loop in progress.
LEMMA InSegments ==
  ASSUME IInv, SegmentsInv, InLoop
  PROVE  /\ TypeOK /\ n \in Nat /\ pc # "insert" /\ Filled = a
         /\ Len(frames) \in Nat \ {0} /\ frames \in [1 .. Len(frames) -> Frame]
         /\ Top = frames[Len(frames)]
         /\ Top.first \in 0 .. n /\ Top.last \in 0 .. n /\ Top.first =< Top.last
         /\ CutAt(Top.last)
         /\ Len(frames) > 1 => frames[Len(frames) - 1].last = Top.first
         /\ Len(frames) = 1 => Top.first = 0
         /\ CutAt(Top.first)
         /\ \A p, q \in Top.last .. n - 1 : q - p >= Threshold => key[a[p]] =< key[a[q]]
         /\ \A j \in 1 .. Len(frames) :
              /\ frames[j].last \in 0 .. n /\ frames[j].first =< frames[j].last
              /\ CutAt(frames[j].last)
              /\ frames[j].last =< Top.first \/ Top.last =< frames[j].last
<1> DEFINE m == Len(frames)
<1>1. TypeOK /\ frames # <<>> /\ frames[1].first = 0 /\ pc # "insert" /\ Filled = a
  BY DEF IInv, FramesInv, InLoop, Filled
<1>2. /\ n \in Nat /\ m \in Nat \ {0} /\ frames \in [1 .. m -> Frame] /\ Top = frames[m]
  BY <1>1, TopFrame, KeysOfPositions DEF Top
<1>3. /\ \A j \in 1 .. m - 1 : frames[j].last = frames[j + 1].first
      /\ \A j, h \in 1 .. m : j < h => frames[j].last =< frames[h].first
      /\ \A j \in 1 .. m : frames[j].first =< frames[j].last /\ CutAt(frames[j].last)
      /\ \A p, q \in Top.last .. n - 1 : q - p >= Threshold => key[a[p]] =< key[a[q]]
  BY DEF SegmentsInv
<1> HIDE DEF m
<1>4. m \in 1 .. m /\ (m > 1 => m - 1 \in 1 .. m - 1 /\ m - 1 + 1 = m)
  BY <1>2
<1>5. m > 1 => frames[m - 1].last = Top.first
  BY <1>2, <1>3, <1>4
<1>6. Top.first \in 0 .. n /\ Top.last \in 0 .. n
  BY <1>2, <1>4 DEF Frame
<1>7. ASSUME NEW j \in 1 .. m
      PROVE  /\ frames[j].last \in 0 .. n
             /\ frames[j].last =< Top.first \/ Top.last =< frames[j].last
  <2>1. frames[j].last \in 0 .. n
    BY <1>2 DEF Frame
  <2>2. CASE j = m
    BY <1>2, <1>6, <2>1, <2>2
  <2>3. CASE j < m
    <3>1. frames[j].last =< frames[m].first
      BY <1>3, <1>4, <2>3
    <3>2. QED
      BY <1>2, <2>1, <3>1
  <2>4. QED
    BY <1>2, <2>1, <2>2, <2>3
<1>8. CutAt(Top.first)
  <2>1. CASE m = 1
    BY <1>1, <1>2, <2>1 DEF CutAt
  <2>2. CASE m > 1
    BY <1>2, <1>3, <1>4, <1>5, <2>2
  <2>3. QED
    BY <1>2, <2>1, <2>2
<1>9. QED
  BY <1>1, <1>2, <1>3, <1>4, <1>5, <1>6, <1>7, <1>8 DEF m

\* A return leaves the callers' cuts, and a range behind them with nothing out of
\* order Threshold apart; the outermost call's range is the whole array.
LEMMA ReturnNears ==
  ASSUME IInv, SegmentsInv, pc = "loop", Return, n' = n, key' = key,
         \A j \in 1 .. Len(frames) :
           \A p \in 0 .. frames[j].last - 1, q \in frames[j].last .. n - 1 :
             key[a'[p]] =< key[a'[q]],
         \A p, q \in Top.first .. n - 1 : q - p >= Threshold => key[a'[p]] =< key[a'[q]]
  PROVE  SegmentsInv' /\ NearInv'
<1> DEFINE m == Len(frames)
<1>1. InLoop
  BY DEF InLoop
<1>2. /\ n \in Nat /\ m \in Nat \ {0} /\ frames \in [1 .. m -> Frame] /\ Top = frames[m]
      /\ TypeOK
  BY <1>1, InSegments
<1>3. CASE m = 1
  <2>1. pc' = "next" /\ Top.first = 0
    BY <1>1, <1>3, InSegments DEF Return
  <2>2. Filled' = a'
    BY <2>1 DEF Filled
  <2>3. NearInv'
    BY <2>1, <2>2 DEF NearInv, FilledKey, Positions
  <2>4. QED
    BY <2>1, <2>3 DEF SegmentsInv, InLoop
<1>4. CASE m > 1
  <2>1. pc' = "loop" /\ frames' = SubSeq(frames, 1, m - 1)
    BY <1>2, <1>4 DEF Return
  <2>2. /\ Len(frames') = m - 1 /\ m - 1 \in 1 .. m
        /\ \A j \in 1 .. m - 1 : frames'[j] = frames[j]
    BY <1>2, <1>4, <2>1 DEF TypeOK
  <2>3. /\ \A j \in 1 .. m - 1 : frames[j].last = frames[j + 1].first
        /\ \A j, h \in 1 .. m : j < h => frames[j].last =< frames[h].first
        /\ \A j \in 1 .. m : frames[j].first =< frames[j].last
    BY <1>1 DEF SegmentsInv
  <2>4. Top'.last = Top.first
    <3>1. Top' = frames[m - 1]
      BY <1>2, <1>4, <2>2 DEF Top
    <3>2. QED
      BY <1>1, <1>2, <1>4, <3>1, InSegments
  <2> HIDE DEF m
  <2>5. \A j \in 1 .. m - 1 : j \in 1 .. m
    BY <1>2
  <2>6. \A j \in 1 .. m - 2 : j \in 1 .. m - 1 /\ j + 1 \in 1 .. m - 1
    BY <1>2
  <2>7. \A j \in 1 .. m - 2 : frames'[j].last = frames'[j + 1].first
    BY <2>2, <2>3, <2>6
  <2>8. \A j, h \in 1 .. m - 1 : j < h => frames'[j].last =< frames'[h].first
    BY <2>2, <2>3, <2>5
  <2>9. \A j \in 1 .. m - 1 : frames'[j].first =< frames'[j].last /\ CutAt(frames[j].last)'
    <3>1. SUFFICES ASSUME NEW j \in 1 .. m - 1
                   PROVE  frames'[j].first =< frames'[j].last /\ CutAt(frames[j].last)'
      OBVIOUS
    <3>2. j \in 1 .. m /\ frames'[j] = frames[j]
      BY <2>2, <2>5
    <3>3. QED
      BY <2>3, <3>2 DEF CutAt, m
  <2>10. \A p, q \in Top'.last .. n - 1 : q - p >= Threshold => key[a'[p]] =< key[a'[q]]
    BY <2>4
  <2>11. Len(frames') - 1 = m - 2
    BY <1>2, <2>2
  <2>12. SegmentsInv'
    BY <2>2, <2>7, <2>8, <2>9, <2>10, <2>11 DEF SegmentsInv
  <2>13. QED
    BY <2>1, <2>12 DEF NearInv
<1>5. QED
  BY <1>2, <1>3, <1>4

LEMMA ShortRangeNears ==
  ASSUME IInv, SegmentsInv, ShortRange
  PROVE  SegmentsInv' /\ NearInv'
<1>1. /\ pc = "loop" /\ InLoop /\ Return /\ n' = n /\ key' = key /\ a' = a
      /\ ~(Top.last - Top.first > Threshold)
  BY DEF ShortRange, InLoop, IsLong
<1>2. /\ n \in Nat /\ Top.first \in 0 .. n /\ Top.last \in 0 .. n /\ CutAt(Top.last)
      /\ \A p, q \in Top.last .. n - 1 : q - p >= Threshold => key[a[p]] =< key[a[q]]
      /\ \A j \in 1 .. Len(frames) : CutAt(frames[j].last)
  BY <1>1, InSegments
<1>3. ASSUME NEW p \in Top.first .. n - 1, NEW q \in Top.first .. n - 1, q - p >= Threshold
      PROVE  key[a[p]] =< key[a[q]]
  <2>1. q >= Top.last /\ q \in Top.last .. n - 1
    BY <1>1, <1>2, <1>3, ThresholdLeavesThree
  <2>2. CASE p < Top.last
    <3>1. p \in 0 .. Top.last - 1
      BY <1>2, <2>2
    <3>2. QED
      BY <1>2, <2>1, <3>1 DEF CutAt
  <2>3. CASE p >= Top.last
    <3>1. p \in Top.last .. n - 1
      BY <1>2, <2>3
    <3>2. QED
      BY <1>2, <1>3, <2>1, <3>1
  <2>4. QED
    BY <1>2, <2>2, <2>3
<1>4. QED
  BY <1>1, <1>2, <1>3, ReturnNears DEF CutAt

LEMMA HeapSortNears ==
  ASSUME IInv, SegmentsInv, HeapSort
  PROVE  SegmentsInv' /\ NearInv'
<1> DEFINE f == Top.first
           l == Top.last
           R == f .. l - 1
<1>1. pc = "loop" /\ InLoop /\ Return /\ n' = n /\ key' = key
  BY DEF HeapSort, InLoop
<1>2. /\ n \in Nat /\ f \in 0 .. n /\ l \in 0 .. n /\ CutAt(l) /\ TypeOK
      /\ \A p, q \in l .. n - 1 : q - p >= Threshold => key[a[p]] =< key[a[q]]
      /\ \A j \in 1 .. Len(frames) :
           /\ CutAt(frames[j].last) /\ frames[j].last \in 0 .. n
           /\ frames[j].last =< f \/ l =< frames[j].last
  BY <1>1, InSegments
<1>3. PICK s \in Rearrangements(f, l) :
         a' = [p \in Positions |-> IF p \in DOMAIN s THEN a[s[p]] ELSE a[p]]
  BY DEF HeapSort
<1>4. /\ s \in [R -> R] /\ R \subseteq Positions
      /\ \A p, q \in R : p < q => ~Less(a[s[q]], a[s[p]])
  <2>1. s \in Bijection(R, R) /\ \A p, q \in R : p < q => ~Less(a[s[q]], a[s[p]])
    BY DEF Rearrangements
  <2>2. R \subseteq Positions
    BY <1>2 DEF Positions
  <2>3. s \in [R -> R]
    BY <2>1, Zenon DEF Bijection, Injection
  <2>4. QED BY <2>1, <2>2, <2>3
<1>5. \A p \in Positions : key[a[p]] \in Int
  BY <1>2, KeysOfPositions
<1> HIDE DEF R
<1>6. \A p \in Positions : a'[p] = IF p \in R THEN a[s[p]] ELSE a[p]
  BY <1>3, <1>4
<1>7. \A p \in Positions : \/ a'[p] = a[p]
                           \/ p \in R /\ \E q \in R : q \in Positions /\ a'[p] = a[q]
  BY <1>4, <1>6
<1>8. ASSUME NEW b \in 0 .. n, b =< f \/ l =< b, CutAt(b)
      PROVE  \A p \in 0 .. b - 1, q \in b .. n - 1 : key[a'[p]] =< key[a'[q]]
  <2>1. f \in Nat /\ l \in Nat
    BY <1>2
  <2>2. \A p \in Positions :
          \/ a'[p] = a[p]
          \/ p \in f .. l - 1 /\ \E q \in f .. l - 1 : q \in Positions /\ a'[p] = a[q]
    BY <1>7 DEF R
  <2> HIDE DEF f, l
  <2>3. QED
    BY <1>2, <1>8, <2>1, <2>2, CutKept
<1>9. ASSUME NEW p \in f .. n - 1, NEW q \in f .. n - 1, q - p >= Threshold
      PROVE  key[a'[p]] =< key[a'[q]]
  <2>1. p < q /\ p \in Positions /\ q \in Positions
    BY <1>2, <1>9, ThresholdLeavesThree DEF Positions
  <2>2. CASE p \in R /\ q \in R
    <3>1. s[p] \in Positions /\ s[q] \in Positions /\ a'[p] = a[s[p]] /\ a'[q] = a[s[q]]
      BY <1>4, <1>6, <2>1, <2>2
    <3>2. ~(key[a[s[q]]] < key[a[s[p]]])
      BY <1>4, <2>1, <2>2 DEF Less
    <3>3. QED
      BY <1>5, <3>1, <3>2
  <2>3. CASE p \in 0 .. l - 1 /\ q \in l .. n - 1
    BY <1>2, <1>8, <2>3
  <2>4. CASE p \in l .. n - 1 /\ q \in l .. n - 1
    <3>1. a'[p] = a[p] /\ a'[q] = a[q]
      BY <1>2, <1>6, <2>1, <2>4 DEF R
    <3>2. QED
      BY <1>2, <1>9, <2>4, <3>1
  <2>5. QED
    BY <1>2, <2>1, <2>2, <2>3, <2>4 DEF R
<1>10. \A j \in 1 .. Len(frames) :
         \A p \in 0 .. frames[j].last - 1, q \in frames[j].last .. n - 1 :
           key[a'[p]] =< key[a'[q]]
  BY <1>2, <1>8
<1>11. QED
  BY <1>1, <1>9, <1>10, ReturnNears

LEMMA SwapNears ==
  ASSUME IInv, SegmentsInv, Swap
  PROVE  SegmentsInv' /\ NearInv'
<1> DEFINE f == Top.first
           l == Top.last
<1>1. /\ pc = "down" /\ pc' = "up" /\ InLoop /\ n' = n /\ key' = key /\ frames' = frames
      /\ a' = [a EXCEPT ![lo] = a[hi], ![hi] = a[lo]] /\ Top' = Top
  BY DEF Swap, InLoop, Top
<1>2. /\ n \in Nat /\ f \in 0 .. n /\ l \in 0 .. n /\ TypeOK
      /\ \A p, q \in l .. n - 1 : q - p >= Threshold => key[a[p]] =< key[a[q]]
      /\ \A j \in 1 .. Len(frames) :
           /\ CutAt(frames[j].last) /\ frames[j].last \in 0 .. n
           /\ frames[j].last =< f \/ l =< frames[j].last
  BY <1>1, InSegments
<1>3. lo \in f .. l - 1 /\ hi \in f .. l - 1 /\ lo \in Positions /\ hi \in Positions
      /\ a \in [Positions -> Positions]
  BY <1>1, InPartition, Downwards, KeysOfPositions
<1>4. \A p \in Positions : a'[p] = IF p = hi THEN a[lo] ELSE IF p = lo THEN a[hi] ELSE a[p]
  BY <1>1, <1>3
<1>5. \A p \in Positions :
        \/ a'[p] = a[p]
        \/ p \in f .. l - 1 /\ \E q \in f .. l - 1 : q \in Positions /\ a'[p] = a[q]
  BY <1>3, <1>4
<1>6. f \in Nat /\ l \in Nat
  BY <1>2
<1> HIDE DEF f, l
<1>7. ASSUME NEW b \in 0 .. n, b =< f \/ l =< b, CutAt(b)
      PROVE  \A p \in 0 .. b - 1, q \in b .. n - 1 : key[a'[p]] =< key[a'[q]]
  BY <1>2, <1>5, <1>6, <1>7, CutKept
<1>8. \A j \in 1 .. Len(frames) : CutAt(frames[j].last)'
  <2>1. SUFFICES ASSUME NEW j \in 1 .. Len(frames) PROVE CutAt(frames[j].last)'
    OBVIOUS
  <2>2. \A p \in 0 .. frames[j].last - 1, q \in frames[j].last .. n - 1 :
          key[a'[p]] =< key[a'[q]]
    BY <1>2, <1>7
  <2>3. QED
    BY <1>1, <2>2 DEF CutAt
<1>9. ASSUME NEW p \in l .. n - 1, NEW q \in l .. n - 1, q - p >= Threshold
      PROVE  key[a'[p]] =< key[a'[q]]
  <2>1. a'[p] = a[p] /\ a'[q] = a[q]
    BY <1>2, <1>3, <1>4, <1>6, SMTT(40) DEF Positions
  <2>2. QED
    BY <1>2, <1>9, <2>1
<1>10. SegmentsInv'
  BY <1>1, <1>8, <1>9 DEF SegmentsInv, l
<1>11. QED
  BY <1>1, <1>10 DEF NearInv

\* The sequence a partition leaves: its last element replaced, and one appended.
LEMMA LastReplaced ==
  ASSUME NEW S, NEW s \in Seq(S), NEW h, h = Len(s), h # 0, NEW x \in S, NEW y \in S,
         NEW t, t = Append([s EXCEPT ![h] = x], y)
  PROVE  /\ Len(t) = h + 1
         /\ \A j \in 1 .. h + 1 : t[j] = IF j = h + 1 THEN y ELSE IF j = h THEN x ELSE s[j]
<1> DEFINE u == [s EXCEPT ![Len(s)] = x]
<1>1. /\ u \in Seq(S) /\ Len(u) = Len(s)
      /\ \A j \in 1 .. Len(s) : u[j] = IF j = Len(s) THEN x ELSE s[j]
  OBVIOUS
<1> HIDE DEF u
<1>2. /\ Len(Append(u, y)) = Len(s) + 1
      /\ \A j \in 1 .. Len(s) + 1 : Append(u, y)[j] = IF j = Len(s) + 1 THEN y ELSE u[j]
  BY <1>1
<1>3. \A j \in 1 .. Len(s) + 1 : j # Len(s) + 1 => j \in 1 .. Len(s)
  OBVIOUS
<1>4. \A j \in 1 .. Len(s) + 1 :
        Append(u, y)[j] = IF j = Len(s) + 1 THEN y ELSE IF j = Len(s) THEN x ELSE s[j]
  BY <1>1, <1>2, <1>3, Zenon
<1>5. QED
  BY <1>2, <1>4, Zenon DEF u

LEMMA CrossNears ==
  ASSUME IInv, SegmentsInv, Cross
  PROVE  SegmentsInv' /\ NearInv'
<1> DEFINE m == Len(frames)
           f == Pending(Top.first, lo, Top.depth - 1)
           g == Pending(lo, Top.last, Top.depth - 1)
<1>1. /\ pc = "down" /\ pc' = "loop" /\ InLoop /\ n' = n /\ key' = key /\ a' = a
      /\ frames' = Append([frames EXCEPT ![m] = f], g) /\ ~(lo < hi)
  BY DEF Cross, InLoop
<1>2. /\ n \in Nat /\ Top.first \in 0 .. n /\ Top.last \in 0 .. n /\ TypeOK
      /\ CutAt(Top.first) /\ CutAt(Top.last)
      /\ m \in Nat \ {0} /\ frames \in [1 .. m -> Frame] /\ Top = frames[m]
      /\ m > 1 => frames[m - 1].last = Top.first
      /\ \A p, q \in Top.last .. n - 1 : q - p >= Threshold => key[a[p]] =< key[a[q]]
  BY <1>1, InSegments
<1>3. lo \in Nat /\ Top.first < lo /\ lo < Top.last
  BY <1>1, CutInside, InPartition
<1>4. /\ \A j \in 1 .. m - 1 : frames[j].last = frames[j + 1].first
      /\ \A j, h \in 1 .. m : j < h => frames[j].last =< frames[h].first
      /\ \A j \in 1 .. m : frames[j].first =< frames[j].last /\ CutAt(frames[j].last)
  BY <1>1 DEF SegmentsInv
<1>5. CutAt(lo)
  <2>1. /\ key[a[pivot]] \in Int
        /\ \A p \in Positions : key[a[p]] \in Int
        /\ \A p \in Top.first .. lo - 1 : key[a[p]] =< key[a[pivot]]
        /\ key[a[pivot]] =< key[a[lo]]
        /\ \A p \in hi + 1 .. Top.last - 1 : key[a[pivot]] =< key[a[p]]
        /\ hi \in Int
    BY <1>1, <1>2, InPartition, Downwards
  <2>2. ASSUME NEW p \in 0 .. lo - 1, NEW q \in lo .. n - 1
        PROVE  key[a[p]] =< key[a[q]]
    <3>1. p \in Positions /\ q \in Positions
      BY <1>2, <1>3 DEF Positions
    <3>2. CASE p < Top.first
      <4>1. p \in 0 .. Top.first - 1 /\ q \in Top.first .. n - 1
        BY <1>2, <1>3, <3>2
      <4>2. QED
        BY <1>2, <4>1 DEF CutAt
    <3>3. CASE q >= Top.last
      <4>1. p \in 0 .. Top.last - 1 /\ q \in Top.last .. n - 1
        BY <1>2, <1>3, <3>3
      <4>2. QED
        BY <1>2, <4>1 DEF CutAt
    <3>4. CASE p >= Top.first /\ q < Top.last
      <4>1. key[a[p]] =< key[a[pivot]]
        BY <1>2, <1>3, <2>1, <3>4
      <4>2. q = lo \/ q \in hi + 1 .. Top.last - 1
        BY <1>1, <1>2, <1>3, <2>1, <3>4
      <4>3. key[a[pivot]] =< key[a[q]]
        BY <2>1, <4>2
      <4>4. QED
        BY <2>1, <3>1, <4>1, <4>3
    <3>5. QED
      BY <1>2, <1>3, <3>2, <3>3, <3>4
  <2>3. QED
    BY <2>2 DEF CutAt
<1>6. /\ Len(frames') = m + 1
      /\ \A j \in 1 .. m + 1 :
           frames'[j] = IF j = m + 1 THEN g ELSE IF j = m THEN f ELSE frames[j]
  <2>1. f \in Frame /\ g \in Frame
    <3>1. Top.depth \in Nat /\ Top.depth # 0
      BY <1>1, <1>2, Downwards DEF Frame
    <3>2. Top.depth - 1 \in Nat /\ lo \in 0 .. n
      BY <1>2, <1>3, <3>1
    <3>3. QED
      BY <1>2, <3>2 DEF Frame, Pending
  <2>2. frames \in Seq(Frame)
    BY <1>2 DEF TypeOK, Frame
  <2>3. m # 0 /\ frames' = Append([frames EXCEPT ![m] = f], g)
    BY <1>1, <1>2
  <2> HIDE DEF m, f, g
  <2>4. m = Len(frames)
    BY DEF m
  <2>5. QED
    BY <2>1, <2>2, <2>3, <2>4, LastReplaced
<1>7. /\ f.first = Top.first /\ f.last = lo /\ g.first = lo /\ g.last = Top.last
  BY DEF Pending
<1>8. Top'.last = Top.last
  <2>1. Top' = g
    <3>1. m \in Nat
      BY <1>2
    <3>2. Top' = frames'[m + 1]
      BY <1>6 DEF Top
    <3>3. QED
      BY <1>6, <3>1, <3>2
  <2>2. QED
    BY <1>7, <2>1
<1> HIDE DEF m, f, g
<1>9. \A j \in 1 .. m : frames'[j].last = frames'[j + 1].first
  <2>1. SUFFICES ASSUME NEW j \in 1 .. m PROVE frames'[j].last = frames'[j + 1].first
    OBVIOUS
  <2>2. CASE j = m
    BY <1>2, <1>6, <1>7, <2>2
  <2>3. CASE j < m
    <3>1. j \in 1 .. m - 1 /\ j + 1 \in 1 .. m
      BY <1>2, <2>3
    <3>2. frames'[j] = frames[j]
      BY <1>2, <1>6, <2>3
    <3>3. frames'[j + 1].first = frames[j + 1].first
      BY <1>2, <1>6, <1>7, <3>1
    <3>4. QED
      BY <1>4, <3>1, <3>2, <3>3
  <2>4. QED
    BY <1>2, <2>2, <2>3
<1>10. \A j, h \in 1 .. m + 1 : j < h => frames'[j].last =< frames'[h].first
  <2>1. SUFFICES ASSUME NEW j \in 1 .. m + 1, NEW h \in 1 .. m + 1, j < h
                 PROVE  frames'[j].last =< frames'[h].first
    OBVIOUS
  <2>2. j \in 1 .. m
    BY <1>2, <2>1
  <2>3. CASE j = m
    <3>1. h = m + 1
      BY <1>2, <2>1, <2>3
    <3>2. QED
      BY <1>2, <1>3, <1>6, <1>7, <2>3, <3>1
  <2>4. CASE j < m
    <3>1. frames'[j] = frames[j] /\ frames[j] \in Frame
      BY <1>2, <1>6, <2>2, <2>4
    <3>2. frames[j].last =< Top.first /\ m \in 1 .. m
      BY <1>2, <1>4, <2>2, <2>4
    <3>3. CASE h \in 1 .. m - 1
      BY <1>2, <1>4, <1>6, <2>1, <2>2, <3>1, <3>3
    <3>4. CASE h = m
      BY <1>2, <1>6, <1>7, <3>1, <3>2, <3>4
    <3>5. CASE h = m + 1
      BY <1>2, <1>3, <1>6, <1>7, <3>1, <3>2, <3>5 DEF Frame
    <3>6. QED
      BY <1>2, <3>3, <3>4, <3>5
  <2>5. QED
    BY <1>2, <2>2, <2>3, <2>4
<1>11. \A j \in 1 .. m + 1 : frames'[j].first =< frames'[j].last /\ CutAt(frames'[j].last)
  <2>1. SUFFICES ASSUME NEW j \in 1 .. m + 1
                 PROVE  frames'[j].first =< frames'[j].last /\ CutAt(frames'[j].last)
    OBVIOUS
  <2>2. CASE j = m + 1
    <3>1. frames'[j] = g
      BY <1>6, <2>2
    <3>2. QED
      BY <1>2, <1>3, <1>7, <3>1
  <2>3. CASE j = m
    <3>1. frames'[j] = f
      BY <1>2, <1>6, <2>3
    <3>2. QED
      BY <1>2, <1>3, <1>5, <1>7, <3>1
  <2>4. CASE j \in 1 .. m - 1
    BY <1>2, <1>4, <1>6, <2>4
  <2>5. QED
    BY <1>2, <2>2, <2>3, <2>4
<1>12. \A j \in 1 .. m + 1 : CutAt(frames[j].last)'
  BY <1>1, <1>11 DEF CutAt
<1>13. SegmentsInv'
  <2>1. Len(frames') - 1 = m
    BY <1>2, <1>6
  <2>2. QED
    BY <1>1, <1>2, <1>6, <1>8, <1>9, <1>10, <1>11, <1>12, <2>1 DEF SegmentsInv
<1>14. QED
  BY <1>1, <1>13 DEF NearInv

LEMMA StartLoopNears ==
  ASSUME IInv, StartLoop
  PROVE  SegmentsInv' /\ NearInv'
<1>1. /\ pc' = "loop" /\ n' = n /\ key' = key /\ a' = a /\ n \in Nat
      /\ frames' = <<Pending(0, n, k * 2)>>
  BY KeysOfPositions DEF StartLoop, IInv
<1>2. Len(frames') = 1 /\ frames'[1].first = 0 /\ frames'[1].last = n /\ Top' = frames'[1]
  BY <1>1 DEF Pending, Top
<1>3. CutAt(n)' /\ \A p, q \in n .. n - 1 : FALSE
  BY <1>1 DEF CutAt
<1>4. \A j \in 1 .. 1 : j = 1
  OBVIOUS
<1>5. SegmentsInv'
  BY <1>1, <1>2, <1>3, <1>4 DEF SegmentsInv
<1>6. QED
  BY <1>1, <1>5 DEF NearInv

\* The scans move no element and no frame.
LEMMA ScansNear ==
  ASSUME SegmentsInv, StartPartition \/ ScanUp \/ StopUp \/ ScanDown
  PROVE  SegmentsInv' /\ NearInv'
<1>1. /\ InLoop /\ pc' \in {"loop", "up", "down"}
      /\ n' = n /\ key' = key /\ a' = a /\ frames' = frames
  BY DEF StartPartition, ScanUp, StopUp, ScanDown, InLoop
<1>2. QED
  BY <1>1 DEF SegmentsInv, NearInv, CutAt, Top

\* The front rotates only while the array inserted so far is shorter than Threshold.
LEMMA InFrontNears ==
  ASSUME IInv, NearInv, InsertInFront
  PROVE  SegmentsInv' /\ NearInv'
<1>1. /\ pc = "next" /\ pc' = "next" /\ n' = n /\ key' = key /\ a' = Rotated
      /\ key[a[i]] < key[a[0]] /\ i < Guarded
  BY DEF InsertInFront, Less
<1>2. /\ n \in Nat /\ i \in 1 .. n - 1 /\ i < Threshold
      /\ \A p \in Positions : key[a[p]] \in Int
  BY <1>1, KeysOfPositions, ThresholdLeavesThree DEF IInv, InsertInv, Guarded
<1>3. \A p, q \in Positions : q - p >= Threshold => key[a[p]] =< key[a[q]]
  BY <1>1 DEF NearInv, FilledKey, Filled
<1>4. \A p \in Positions : a'[p] = IF p = 0 THEN a[i] ELSE IF p =< i THEN a[p - 1] ELSE a[p]
  BY <1>1 DEF Rotated
<1>5. ASSUME NEW p \in Positions, NEW q \in Positions, q - p >= Threshold
      PROVE  key[a'[p]] =< key[a'[q]]
  <2>1. q > i /\ a'[q] = a[q]
    BY <1>2, <1>4, <1>5, ThresholdLeavesThree DEF Positions
  <2>2. 0 \in Positions /\ i \in Positions /\ key[a[0]] \in Int /\ key[a[i]] \in Int
        /\ key[a[q]] \in Int
    BY <1>2 DEF Positions
  <2>3. CASE p = 0
    <3>1. key[a[0]] =< key[a[q]] /\ a'[p] = a[i]
      BY <1>3, <1>4, <1>5, <2>2, <2>3
    <3>2. QED
      BY <1>1, <2>1, <2>2, <3>1
  <2>4. CASE p # 0 /\ p =< i
    <3>1. p - 1 \in Positions /\ q - (p - 1) >= Threshold
      BY <1>2, <1>5, <2>4, ThresholdLeavesThree DEF Positions
    <3>2. QED
      BY <1>3, <1>4, <2>1, <2>4, <3>1
  <2>5. CASE p > i
    <3>1. a'[p] = a[p]
      BY <1>2, <1>4, <2>5 DEF Positions
    <3>2. QED
      BY <1>3, <1>5, <2>1, <3>1
  <2>6. QED
    BY <1>2, <2>3, <2>4, <2>5 DEF Positions
<1>6. Filled' = a'
  BY <1>1 DEF Filled
<1>7. NearInv'
  BY <1>1, <1>5, <1>6 DEF NearInv, FilledKey, Positions
<1>8. QED
  BY <1>1, <1>7 DEF SegmentsInv, InLoop

LEMMA StartInsertNears ==
  ASSUME IInv, NearInv, StartInsert
  PROVE  SegmentsInv' /\ NearInv'
<1>1. /\ pc = "next" /\ pc' = "insert" /\ n' = n /\ key' = key /\ i' = i /\ a' = a
      /\ val' = a[i] /\ hole' = i /\ i < n
  BY DEF StartInsert
<1>2. n \in Nat /\ i \in 1 .. n - 1 /\ i \in Positions /\ a \in [Positions -> Positions]
  BY <1>1, KeysOfPositions DEF IInv, InsertInv, Positions
<1>3. \A p, q \in Positions : q - p >= Threshold => key[a[p]] =< key[a[q]]
  BY <1>1 DEF NearInv, FilledKey, Filled
<1>4. Filled' = a
  BY <1>1, <1>2 DEF Filled
<1>5. i - i < Threshold
  BY <1>2, ThresholdLeavesThree
<1>6. \A p \in Positions : p =< i - Threshold => key[a[p]] =< key[a[i]]
  BY <1>2, <1>3, ThresholdLeavesThree DEF Positions
<1>7. NearInv'
  BY <1>1, <1>3, <1>4, <1>5, <1>6 DEF NearInv, FilledKey, Positions
<1>8. QED
  BY <1>1, <1>7 DEF SegmentsInv, InLoop

\* A shift exchanges two neighbours that were out of order, and stops before the
\* element Threshold places in front of the one that is inserted.
LEMMA ShiftNears ==
  ASSUME IInv, NearInv, Shift
  PROVE  SegmentsInv' /\ NearInv'
<1> DEFINE w == Filled
           u == Filled'
<1>1. /\ pc = "insert" /\ pc' = "insert" /\ n' = n /\ key' = key /\ i' = i /\ val' = val
      /\ a' = [a EXCEPT ![hole] = a[hole - 1]] /\ hole' = hole - 1
      /\ key[val] < key[a[hole - 1]]
  BY DEF Shift, Less
<1>2. /\ n \in Nat /\ a \in [Positions -> Positions]
      /\ i \in 1 .. n - 1 /\ hole \in 1 .. i /\ val \in Positions
      /\ hole \in Positions /\ hole - 1 \in Positions
      /\ \A p \in Positions : key[a[p]] \in Int
      /\ key[val] \in Int /\ w = [a EXCEPT ![hole] = val]
  BY <1>1, Inserting
<1>3. /\ w \in [Positions -> Positions] /\ u \in [Positions -> Positions]
      /\ u[hole - 1] = w[hole] /\ u[hole] = w[hole - 1] /\ w[hole] = val
      /\ w[hole - 1] = a[hole - 1]
      /\ \A p \in Positions \ {hole, hole - 1} : u[p] = w[p]
  <2>1. u = [a' EXCEPT ![hole - 1] = val]
    BY <1>1 DEF Filled
  <2>2. /\ a' \in [Positions -> Positions] /\ a'[hole] = a[hole - 1]
        /\ \A p \in Positions \ {hole} : a'[p] = a[p]
    BY <1>1, <1>2
  <2>3. QED
    BY <1>2, <2>1, <2>2
<1>4. /\ \A p, q \in Positions : q - p >= Threshold => key[w[p]] =< key[w[q]]
      /\ i - hole < Threshold
      /\ \A p \in Positions : p =< i - Threshold => key[a[p]] =< key[val]
  BY <1>1 DEF NearInv, FilledKey
<1>5. i - (hole - 1) < Threshold
  <2>1. ~(hole - 1 =< i - Threshold)
    BY <1>1, <1>2, <1>4
  <2>2. QED
    BY <1>2, <2>1, ThresholdLeavesThree
<1>6. \A p \in Positions : p =< i - Threshold => a'[p] = a[p]
  BY <1>1, <1>2, <1>5, ThresholdLeavesThree DEF Positions
<1>7. \A p \in Positions : key[w[p]] \in Int
  BY <1>2
<1>8. key[w[hole]] < key[w[hole - 1]]
  BY <1>1, <1>3
<1> HIDE DEF w, u
<1>9. ASSUME NEW p \in Positions, NEW q \in Positions, q - p >= Threshold
      PROVE  key[u[p]] =< key[u[q]]
  <2>1. p \in Int /\ q \in Int /\ Threshold \in Int /\ Threshold >= 2 /\ hole \in Int
    BY <1>2, ThresholdLeavesThree DEF Positions
  <2>2. CASE p = hole - 1
    <3>1. q # hole /\ q # hole - 1 /\ key[w[hole - 1]] =< key[w[q]]
      BY <1>2, <1>4, <1>9, <2>1, <2>2
    <3>2. QED
      BY <1>2, <1>3, <1>7, <1>8, <2>2, <3>1
  <2>3. CASE p = hole
    <3>1. q # hole /\ q # hole - 1 /\ q - (hole - 1) >= Threshold
      BY <1>9, <2>1, <2>3
    <3>2. key[w[hole - 1]] =< key[w[q]]
      BY <1>2, <1>4, <3>1
    <3>3. QED
      BY <1>3, <2>3, <3>1, <3>2
  <2>4. CASE p # hole /\ p # hole - 1
    <3>1. u[p] = w[p]
      BY <1>3, <2>4
    <3>2. CASE q = hole
      <4>1. key[w[p]] =< key[w[hole]]
        BY <1>4, <1>9, <3>2
      <4>2. QED
        BY <1>2, <1>3, <1>7, <1>8, <3>1, <3>2, <4>1
    <3>3. CASE q = hole - 1
      <4>1. hole - p >= Threshold
        BY <1>9, <2>1, <3>3
      <4>2. key[w[p]] =< key[w[hole]]
        BY <1>2, <1>4, <4>1
      <4>3. QED
        BY <1>3, <3>1, <3>3, <4>2
    <3>4. CASE q # hole /\ q # hole - 1
      BY <1>3, <1>4, <1>9, <3>1, <3>4
    <3>5. QED
      BY <3>2, <3>3, <3>4
  <2>5. QED
    BY <2>2, <2>3, <2>4
<1>10. NearInv'
  BY <1>1, <1>4, <1>5, <1>6, <1>9 DEF NearInv, FilledKey, Positions, u
<1>11. QED
  BY <1>1, <1>10 DEF SegmentsInv, InLoop

LEMMA PlaceNears ==
  ASSUME IInv, NearInv, Place
  PROVE  SegmentsInv' /\ NearInv'
<1>1. /\ pc = "insert" /\ pc' = "next" /\ n' = n /\ key' = key
      /\ a' = [a EXCEPT ![hole] = val]
  BY DEF Place
<1>2. Filled' = Filled
  BY <1>1 DEF Filled
<1>3. NearInv'
  BY <1>1, <1>2 DEF NearInv, FilledKey, Positions
<1>4. QED
  BY <1>1, <1>3 DEF SegmentsInv, InLoop

LEMMA StepsKeepNear ==
  ASSUME IInv, SegmentsInv, NearInv, [Next]_vars
  PROVE  SegmentsInv' /\ NearInv'
<1>1. CASE Halve \/ Finish
  BY <1>1 DEF Halve, Finish, SegmentsInv, NearInv, InLoop
<1>2. CASE UNCHANGED vars
  BY <1>2 DEF vars, SegmentsInv, NearInv, InLoop, CutAt, Top, FilledKey, Filled, Positions
<1>3. QED
  BY <1>1, <1>2, StartLoopNears, ShortRangeNears, HeapSortNears, ScansNear, SwapNears,
     CrossNears, InFrontNears, StartInsertNears, ShiftNears, PlaceNears
  DEF Next

\* The final insertion sort moves no element by Threshold places or more: its cost
\* is linear, for every length, every threshold and every input.
THEOREM InsertionsAreShort == Spec => []InsertsAreShort
<1>1. Init => SegmentsInv /\ NearInv
  BY DEF Init, SegmentsInv, NearInv, InLoop
<1>2. NearInv => InsertsAreShort
  BY DEF NearInv, InsertsAreShort
<1>3. QED
  BY <1>1, <1>2, StepsKeepNear, Invariance, PTL DEF Spec
=============================================================================
