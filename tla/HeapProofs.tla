----------------------------- MODULE HeapProofs -----------------------------
(* The heap algorithms are correct for every length and every comparison by   *)
(* keys: a sift restores the heap, no element is lost, what is taken out is   *)
(* the greatest and what is sorted ascends.                                   *)
EXTENDS Heap, WellFoundedInduction, TLAPS

Sifting == pc \in {"up", "down"}

\* what each loop knows of its variables
Control ==
  /\ pc = "idle" => phase = "none"
  /\ pc = "up" => phase = "push" /\ hole < len
  /\ pc = "down" => phase \in {"pop", "make", "scan", "sort"} /\ (hole < len \/ hole = 0)
  /\ pc = "loop" => phase \in {"make", "scan", "sort"}
  /\ phase \in {"make", "scan"} => len = middle
  /\ phase = "make" => i < len /\ (pc = "down" => i + 1 < len /\ i + 1 =< hole)
  /\ phase = "scan" => middle =< i
  /\ phase = "sort" => i = len /\ len =< middle

LEMMA Parents ==
  ASSUME NEW p \in Nat \ {0}
  PROVE  Parent(p) \in Nat /\ Parent(p) < p
BY DEF Parent

LEMMA Children ==
  ASSUME NEW p \in Nat \ {0}, NEW h \in Nat
  PROVE  Parent(p) = h <=> p = Left(h) \/ p = Right(h)
BY DEF Parent, Left, Right

LEMMA Swaps ==
  ASSUME TypeOK, NEW p \in Positions, NEW q \in Positions
  PROVE  Swapped(p, q) \in [Positions -> Positions]
BY DEF TypeOK, Swapped

\* A step that leaves every variable in its set keeps the types.
LEMMA StillTyped ==
  ASSUME TypeOK, n' = n, key' = key, a' \in [Positions -> Positions],
         len' \in 0 .. n, phase' \in Phases,
         pc' \in {"idle", "loop", "up", "down"},
         middle' \in 0 .. n, caller' \in {"client", "partial_sort"},
         i' \in -1 .. n, hole' \in 0 .. n, val' \in 0 .. n,
         pc' \in {"up", "down"} => hole' < n /\ val' < n
  PROVE  TypeOK'
BY DEF TypeOK, Positions

\* Type correctness: the heap, the hole and the loop variables stay inside.
THEOREM TypesAreCorrect == Spec => [](TypeOK /\ Control)
<1> USE KeysAreIntegers, MaxLenIsNatural
<1>1. Init => TypeOK /\ Control
  <2>1. Init => TypeOK
    <3> SUFFICES ASSUME Init PROVE TypeOK OBVIOUS
    <3>1. n \in Nat /\ n \in 0 .. MaxLen
      BY DEF Init
    <3>2. a \in [Positions -> Positions]
      BY DEF Init, Bijection, Injection
    <3>3. key \in [Positions -> Keys]
      BY DEF Init
    <3>4. QED
      BY <3>1, <3>2, <3>3 DEF Init, TypeOK, Phases
  <2>2. Init => Control
    BY DEF Init, Control
  <2>3. QED BY <2>1, <2>2
<1>2. TypeOK /\ Control /\ [Next]_vars => (TypeOK /\ Control)'
  <2> SUFFICES ASSUME TypeOK, Control, [Next]_vars PROVE (TypeOK /\ Control)'
    OBVIOUS
  <2> USE DEF TypeOK, Control, Positions, Phases
  <2>1. TypeOK'
    <3>1. CASE SiftUp
      <4>1. hole \in 1 .. n - 1 /\ Parent(hole) \in 0 .. n - 1
        BY <3>1, Parents DEF SiftUp
      <4>2. a' \in [Positions -> Positions] /\ n' = n
        BY <3>1, <4>1 DEF SiftUp
      <4>3. QED
        BY <3>1, <4>1, <4>2 DEF SiftUp
    <3>2. CASE SettleUp
      <4>1. a' \in [Positions -> Positions]
        BY <3>2 DEF SettleUp
      <4>2. /\ n' = n /\ key' = key /\ len' = len /\ phase' = "none" /\ middle' = 0
            /\ caller' = "client" /\ i' = 0 /\ pc' = "idle" /\ hole' = 0 /\ val' = 0
        BY <3>2 DEF SettleUp, Return
      <4>3. QED
        BY ONLY <4>1, <4>2, StillTyped, TypeOK, MaxLenIsNatural DEF TypeOK, Phases, Positions
    <3>3. CASE SiftDown
      <4>1. hole \in 0 .. n - 1 /\ Child \in 0 .. n - 1
        BY <3>3 DEF SiftDown, InOrder, Child, Left, Right
      <4>2. a' \in [Positions -> Positions] /\ n' = n
        BY <3>3, <4>1 DEF SiftDown
      <4>3. QED
        <5>1. /\ hole' = Child /\ key' = key /\ len' = len /\ phase' = phase /\ middle' = middle
              /\ caller' = caller /\ i' = i /\ pc' = pc /\ val' = val /\ pc = "down"
          BY <3>3 DEF SiftDown
        <5>2. hole' \in 0 .. n /\ hole' < n /\ val' < n
          BY <4>1, <5>1
        <5>3. QED
          BY ONLY <4>2, <5>1, <5>2, StillTyped, TypeOK DEF TypeOK, Positions, Phases
    <3>4. CASE SettleDown
      <4>1. a' \in [Positions -> Positions] /\ n' = n
        BY <3>4, SMTT(40) DEF SettleDown
      <4>2. CASE phase = "pop"
        <5>1. /\ n' = n /\ key' = key /\ len' = len /\ phase' = "none" /\ middle' = 0
              /\ caller' = "client" /\ i' = 0 /\ pc' = "idle" /\ hole' = 0 /\ val' = 0
          BY <3>4, <4>2 DEF SettleDown, Return
        <5>2. QED
          BY ONLY <4>1, <5>1, StillTyped, TypeOK, MaxLenIsNatural DEF TypeOK, Phases, Positions
      <4>3. CASE phase # "pop"
        <5>1. /\ n' = n /\ key' = key /\ len' = len /\ phase' = phase /\ middle' = middle
              /\ caller' = caller /\ i' = i /\ pc' = "loop" /\ hole' = 0 /\ val' = 0
          BY <3>4, <4>3 DEF SettleDown
        <5>2. QED
          BY ONLY <4>1, <5>1, StillTyped, TypeOK, MaxLenIsNatural DEF TypeOK, Phases, Positions
      <4>4. QED BY <4>2, <4>3
    <3>5. CASE PushHeap
      BY <3>5 DEF PushHeap, SiftFrom
    <3>6. CASE PopHeap
      <4>1. 0 \in Positions /\ len - 1 \in Positions
        BY <3>6 DEF PopHeap
      <4>2. a' \in [Positions -> Positions] /\ n' = n
        BY <3>6, <4>1, Swaps DEF PopHeap, PopFrom
      <4>3. val' \in Positions /\ hole' = 0
        BY <3>6, <4>1 DEF PopHeap, PopFrom, SiftFrom
      <4>4. len' \in 0 .. n /\ i' \in -1 .. n /\ pc' = "down" /\ phase' \in Phases
        BY <3>6, <4>1 DEF PopHeap, PopFrom, SiftFrom
      <4>5. key' = key /\ middle' = middle /\ caller' = caller
        BY <3>6 DEF PopHeap
      <4>6. hole' \in 0 .. n /\ val' \in 0 .. n /\ (hole' < n /\ val' < n)
        BY ONLY <4>3, TypeOK, MaxLenIsNatural DEF TypeOK, Positions
      <4>7. middle' \in 0 .. n /\ caller' \in {"client", "partial_sort"}
        BY ONLY <4>5, TypeOK DEF TypeOK
      <4>8. QED
        BY ONLY <4>2, <4>4, <4>5, <4>6, <4>7, StillTyped, TypeOK
    <3>7. CASE MakeHeap \/ \E m \in 0 .. n : PartialSort(m)
      BY <3>7 DEF MakeHeap, PartialSort, Make, FirstParent, Distance
    <3>8. CASE MakeStep
      BY <3>8 DEF MakeStep, SiftFrom, NextStart
    <3>9. CASE MakeReturns
      BY <3>9 DEF MakeReturns, Return
    <3>10. CASE SortHeap
      BY <3>10 DEF SortHeap
    <3>11. CASE SortStep
      <4>1. 0 \in Positions /\ len - 1 \in Positions
        BY <3>11 DEF SortStep
      <4>2. a' \in [Positions -> Positions] /\ n' = n
        BY <3>11, <4>1, Swaps DEF SortStep, PopFrom
      <4>3. val' \in Positions /\ hole' = 0
        BY <3>11, <4>1 DEF SortStep, PopFrom, SiftFrom
      <4>4. len' \in 0 .. n /\ i' \in -1 .. n /\ pc' = "down" /\ phase' \in Phases
        BY <3>11, <4>1 DEF SortStep, PopFrom, SiftFrom
      <4>5. key' = key /\ middle' = middle /\ caller' = caller
        BY <3>11 DEF SortStep
      <4>6. hole' \in 0 .. n /\ val' \in 0 .. n /\ (hole' < n /\ val' < n)
        BY ONLY <4>3, TypeOK, MaxLenIsNatural DEF TypeOK, Positions
      <4>7. middle' \in 0 .. n /\ caller' \in {"client", "partial_sort"}
        BY ONLY <4>5, TypeOK DEF TypeOK
      <4>8. QED
        BY ONLY <4>2, <4>4, <4>5, <4>6, <4>7, StillTyped, TypeOK
    <3>12. CASE SortReturns \/ ScanReturns \/ PassOver
      BY <3>12, SMTT(40) DEF SortReturns, ScanReturns, PassOver, Return
    <3>13. CASE Displace
      <4>1. 0 \in Positions /\ i \in Positions
        BY <3>13 DEF Displace
      <4>2. a' \in [Positions -> Positions] /\ n' = n
        BY <3>13, <4>1, Swaps DEF Displace
      <4>3. val' \in Positions /\ hole' = 0
        BY <3>13, <4>1 DEF Displace, SiftFrom
      <4>4. len' \in 0 .. n /\ i' \in -1 .. n /\ pc' = "down" /\ phase' \in Phases
        BY <3>13, <4>1 DEF Displace, SiftFrom
      <4>5. key' = key /\ middle' = middle /\ caller' = caller
        BY <3>13 DEF Displace
      <4>6. hole' \in 0 .. n /\ val' \in 0 .. n /\ (hole' < n /\ val' < n)
        BY ONLY <4>3, TypeOK, MaxLenIsNatural DEF TypeOK, Positions
      <4>7. middle' \in 0 .. n /\ caller' \in {"client", "partial_sort"}
        BY ONLY <4>5, TypeOK DEF TypeOK
      <4>8. QED
        BY ONLY <4>2, <4>4, <4>5, <4>6, <4>7, StillTyped, TypeOK
    <3>14. CASE UNCHANGED vars
      BY <3>14 DEF vars
    <3>15. QED
      BY <3>1, <3>2, <3>3, <3>4, <3>5, <3>6, <3>7,
         <3>8, <3>9, <3>10, <3>11, <3>12, <3>13, <3>14 DEF Next, Call, Step
  <2>2. Control'
    <3>1. CASE SiftUp
      BY <3>1, Parents DEF SiftUp
    <3>2. CASE SettleUp
      BY <3>2 DEF SettleUp, Return
    <3>3. CASE SiftDown
      BY <3>3 DEF SiftDown, InOrder, Child, Left, Right
    <3>4. CASE SettleDown
      BY <3>4 DEF SettleDown, Return
    <3>5. CASE PushHeap
      BY <3>5 DEF PushHeap, SiftFrom
    <3>6. CASE PopHeap
      BY <3>6 DEF PopHeap, PopFrom, SiftFrom, Swapped
    <3>7. CASE MakeHeap \/ \E m \in 0 .. n : PartialSort(m)
      BY <3>7 DEF MakeHeap, PartialSort, Make, FirstParent, Distance
    <3>8. CASE MakeStep
      BY <3>8 DEF MakeStep, SiftFrom, NextStart
    <3>9. CASE MakeReturns
      BY <3>9 DEF MakeReturns, Return
    <3>10. CASE SortHeap
      BY <3>10 DEF SortHeap
    <3>11. CASE SortStep
      BY <3>11 DEF SortStep, PopFrom, SiftFrom, Swapped
    <3>12. CASE SortReturns \/ ScanReturns \/ PassOver
      BY <3>12 DEF SortReturns, ScanReturns, PassOver, Return
    <3>13. CASE Displace
      BY <3>13 DEF Displace, SiftFrom, Swapped
    <3>14. CASE UNCHANGED vars
      BY <3>14 DEF vars
    <3>15. QED
      BY <3>1, <3>2, <3>3, <3>4, <3>5, <3>6, <3>7,
         <3>8, <3>9, <3>10, <3>11, <3>12, <3>13, <3>14 DEF Next, Call, Step
  <2>3. QED BY <2>1, <2>2
<1>3. QED
  BY <1>1, <1>2, PTL DEF Spec

----------------------------------------------------------------------------
(* What is between the parentheses of Filled[...]: the range with the element *)
(* in hand put back.  Each step leaves it alone or swaps two of its places.   *)

Exchanged(f, g, p, q) ==
  \A r \in DOMAIN f : g[r] = IF r = p THEN f[q] ELSE IF r = q THEN f[p] ELSE f[r]

LEMMA ExchangeKeeps ==
  ASSUME NEW S, NEW f, NEW g, NEW p \in S, NEW q \in S,
         f \in [S -> S], g \in [S -> S], Exchanged(f, g, p, q),
         \A r, t \in S : f[r] = f[t] => r = t
  PROVE  \A r, t \in S : g[r] = g[t] => r = t
BY DEF Exchanged

LEMMA FilledIsTyped ==
  ASSUME TypeOK
  PROVE  Filled \in [Positions -> Positions]
BY DEF TypeOK, Filled, Positions

LEMMA Between ==
  \A x, y \in Nat : y < x => y \in 0 .. x - 1
OBVIOUS

LEMMA NothingBetween ==
  \A x \in Nat : x .. x - 1 = {}
OBVIOUS

LEMMA FilledStaysTyped ==
  ASSUME TypeOK'
  PROVE  Filled' \in [Positions' -> Positions']
<1>1. a' \in [Positions' -> Positions']
  BY DEF TypeOK
<1>2. n' \in Nat /\ val' \in Nat /\ (pc' \in {"up", "down"} => val' < n')
  BY MaxLenIsNatural DEF TypeOK
<1>3. pc' \in {"up", "down"} => val' \in Positions'
  BY <1>2, Between DEF Positions
<1>4. QED
  BY <1>1, <1>3 DEF Filled

\* Where the steps of the loops leave the elements.
SwapStep(p, q) == Exchanged(Filled, Filled', p, q)

LEMMA SiftingUpSwaps ==
  ASSUME TypeOK, Control, SiftUp
  PROVE  hole \in Positions /\ Parent(hole) \in Positions /\ SwapStep(hole, Parent(hole))
<1> USE MaxLenIsNatural
<1>1. hole \in 1 .. n - 1 /\ Parent(hole) \in 0 .. n - 1 /\ Parent(hole) # hole
  BY Parents DEF SiftUp, TypeOK
<1>2. a \in [Positions -> Positions]
  BY DEF TypeOK
<1>3. Filled = [a EXCEPT ![hole] = val]
  BY DEF SiftUp, Filled
<1>4. Filled' = [[a EXCEPT ![hole] = a[Parent(hole)]] EXCEPT ![Parent(hole)] = val]
  BY DEF SiftUp, Filled
<1>5. QED
  BY <1>1, <1>2, <1>3, <1>4 DEF SwapStep, Exchanged, Positions

LEMMA SiftingDownSwaps ==
  ASSUME TypeOK, Control, SiftDown
  PROVE  hole \in Positions /\ Child \in Positions /\ SwapStep(hole, Child)
<1> USE MaxLenIsNatural
<1>1. hole \in 0 .. n - 1 /\ Child \in 0 .. n - 1 /\ Child # hole
  BY DEF SiftDown, InOrder, Child, Left, Right, TypeOK
<1>2. a \in [Positions -> Positions]
  BY DEF TypeOK
<1>3. Filled = [a EXCEPT ![hole] = val]
  BY DEF SiftDown, Filled
<1>4. Filled' = [[a EXCEPT ![hole] = a[Child]] EXCEPT ![Child] = val]
  BY DEF SiftDown, Filled
<1>5. QED
  BY <1>1, <1>2, <1>3, <1>4 DEF SwapStep, Exchanged, Positions

LEMMA TakingOutSwaps ==
  ASSUME TypeOK, Control, PopHeap \/ SortStep
  PROVE  0 \in Positions /\ len - 1 \in Positions /\ SwapStep(0, len - 1)
<1> USE MaxLenIsNatural
<1>1. 0 \in 0 .. n - 1 /\ len - 1 \in 0 .. n - 1
  BY DEF PopHeap, SortStep, TypeOK, Control
<1>2. a \in [Positions -> Positions]
  BY DEF TypeOK
<1>3. Filled = a
  BY DEF PopHeap, SortStep, Filled
<1>4. PopFrom(len)
  BY DEF PopHeap, SortStep, Control, TypeOK
<1>5. Filled' = [[a EXCEPT ![0] = a[len - 1], ![len - 1] = a[0]] EXCEPT ![0] = a[len - 1]]
  BY <1>4 DEF PopFrom, SiftFrom, Swapped, Filled
<1>6. QED
  BY <1>1, <1>2, <1>3, <1>5 DEF SwapStep, Exchanged, Positions

LEMMA DisplacingSwaps ==
  ASSUME TypeOK, Control, Displace
  PROVE  0 \in Positions /\ i \in Positions /\ SwapStep(0, i)
<1> USE MaxLenIsNatural
<1>1. 0 \in 0 .. n - 1 /\ i \in 0 .. n - 1
  BY DEF Displace, TypeOK, Control
<1>2. a \in [Positions -> Positions]
  BY DEF TypeOK
<1>3. Filled = a
  BY DEF Displace, Filled
<1>4. Filled' = [[a EXCEPT ![0] = a[i], ![i] = a[0]] EXCEPT ![0] = a[i]]
  BY DEF Displace, SiftFrom, Swapped, Filled
<1>5. QED
  BY <1>1, <1>2, <1>3, <1>4 DEF SwapStep, Exchanged, Positions

Resting == \/ SettleUp \/ SettleDown \/ PushHeap \/ MakeHeap \/ (\E m \in 0 .. n : PartialSort(m))
           \/ MakeStep \/ MakeReturns \/ SortHeap \/ SortReturns \/ ScanReturns \/ PassOver
           \/ UNCHANGED vars

LEMMA OthersMoveNothing ==
  ASSUME TypeOK, Control, Resting
  PROVE  Filled' = Filled
<1> USE MaxLenIsNatural
<1>1. a \in [Positions -> Positions]
  BY DEF TypeOK
<1>2. CASE SettleUp \/ SettleDown
  BY <1>2 DEF SettleUp, SettleDown, Return, Filled
<1>3. CASE PushHeap
  BY <1>1, <1>3 DEF PushHeap, SiftFrom, Filled
<1>4. CASE MakeStep
  BY <1>1, <1>4 DEF MakeStep, SiftFrom, Filled
<1>5. CASE MakeHeap \/ (\E m \in 0 .. n : PartialSort(m)) \/ SortHeap
  BY <1>5 DEF MakeHeap, PartialSort, Make, SortHeap, Filled
<1>6. CASE MakeReturns \/ SortReturns \/ ScanReturns \/ PassOver
  BY <1>6 DEF MakeReturns, SortReturns, ScanReturns, PassOver, Return, Filled
<1>7. CASE UNCHANGED vars
  BY <1>7 DEF vars, Filled
<1>8. QED
  BY <1>2, <1>3, <1>4, <1>5, <1>6, <1>7 DEF Resting

LEMMA EveryStepIsOfAKind ==
  ASSUME [Next]_vars
  PROVE  SiftUp \/ SiftDown \/ PopHeap \/ SortStep \/ Displace \/ Resting
BY DEF Next, Call, Step, Resting

\* No element is lost or doubled, with any number of them in any order.
THEOREM NoElementIsLost == Spec => []NothingIsLost
<1>1. Init => NothingIsLost
  <2> SUFFICES ASSUME Init PROVE NothingIsLost OBVIOUS
  <2>1. Filled = a
    BY DEF Init, Filled
  <2>2. a \in Injection(Positions, Positions)
    BY DEF Init, Bijection
  <2>3. QED
    BY <2>1, <2>2 DEF NothingIsLost, Injection, IsInjective
<1>2. TypeOK /\ Control /\ TypeOK' /\ NothingIsLost /\ [Next]_vars => NothingIsLost'
  <2> SUFFICES ASSUME TypeOK, Control, TypeOK', NothingIsLost, [Next]_vars PROVE NothingIsLost'
    OBVIOUS
  <2>1. n' = n
    BY DEF Next, Call, Step, SiftUp, SettleUp, SiftDown, SettleDown, PushHeap, PopHeap, MakeHeap,
           PartialSort, Make, MakeStep, MakeReturns, SortHeap, SortStep, SortReturns, Displace,
           PassOver, ScanReturns, vars
  <2>2. Positions' = Positions
    BY <2>1 DEF Positions
  <2>3. Filled \in [Positions -> Positions] /\ Filled' \in [Positions -> Positions]
    BY <2>2, FilledIsTyped, FilledStaysTyped
  <2>4. ASSUME NEW p \in Positions, NEW q \in Positions, SwapStep(p, q)
        PROVE  NothingIsLost'
    BY <2>2, <2>3, <2>4, ExchangeKeeps DEF NothingIsLost, SwapStep
  <2>5. CASE Resting
    BY <2>2, <2>5, OthersMoveNothing DEF NothingIsLost
  <2>6. QED
    BY <2>4, <2>5, EveryStepIsOfAKind, SiftingUpSwaps, SiftingDownSwaps, TakingOutSwaps, DisplacingSwaps
<1>3. QED
  BY <1>1, <1>2, TypesAreCorrect, PTL DEF Spec

----------------------------------------------------------------------------
(* The heap.  While make_heap works, only what lies below its loop is one;    *)
(* while an element is sifted up, it may be greater than its parent, and while *)
(* one is sifted down, less than its children, but those of the hole are never *)
(* out of order with the hole's parent.  The lemmas are about the values alone. *)

IsHeap(v, m, root) ==
  \A p \in 1 .. m - 1 : Parent(p) >= root => v[p] =< v[Parent(p)]

HeapButUp(v, m, h) ==
  \A p \in 1 .. m - 1 :
    /\ p # h => v[p] =< v[Parent(p)]
    /\ Parent(p) = h /\ h > 0 => v[p] =< v[Parent(h)]

HeapButDown(v, m, root, h) ==
  \A p \in 1 .. m - 1 : Parent(p) >= root =>
    /\ Parent(p) # h => v[p] =< v[Parent(p)]
    /\ Parent(p) = h /\ h > 0 /\ Parent(h) >= root => v[p] =< v[Parent(h)]

Ranges(N) == [0 .. N - 1 -> Int]

LEMMA SiftingUp ==
  ASSUME NEW N \in Nat, NEW m \in 0 .. N, NEW v \in Ranges(N), NEW w \in Ranges(N),
         NEW h \in 1 .. m - 1, Exchanged(v, w, h, Parent(h)), v[Parent(h)] < v[h],
         HeapButUp(v, m, h)
  PROVE  HeapButUp(w, m, Parent(h))
<1>1. Parent(h) \in 0 .. m - 1 /\ Parent(h) < h
  BY Parents
<1>2. \A r \in 0 .. N - 1 : v[r] \in Int /\ w[r] \in Int
  BY DEF Ranges
<1>3. \A r \in 0 .. N - 1 : w[r] = IF r = h THEN v[Parent(h)] ELSE IF r = Parent(h) THEN v[h] ELSE v[r]
  BY DEF Exchanged, Ranges
<1>4. SUFFICES ASSUME NEW p \in 1 .. m - 1
               PROVE  /\ p # Parent(h) => w[p] =< w[Parent(p)]
                      /\ Parent(p) = Parent(h) /\ Parent(h) > 0 => w[p] =< w[Parent(Parent(h))]
  BY DEF HeapButUp
<1>5. p \in 0 .. N - 1 /\ Parent(p) \in 0 .. N - 1 /\ Parent(p) < p
  BY Parents
<1>6. p # h => v[p] =< v[Parent(p)]
  BY DEF HeapButUp
<1>7. Parent(p) = h => v[p] =< v[Parent(h)]
  BY DEF HeapButUp
<1>8. Parent(h) > 0 => /\ Parent(Parent(h)) \in 0 .. N - 1 /\ Parent(Parent(h)) < Parent(h)
                       /\ v[Parent(h)] =< v[Parent(Parent(h))]
  BY <1>1, Parents DEF HeapButUp
<1>9. ASSUME p # Parent(h) PROVE w[p] =< w[Parent(p)]
  BY <1>1, <1>2, <1>3, <1>5, <1>6, <1>7, <1>9
<1>10. ASSUME Parent(p) = Parent(h), Parent(h) > 0 PROVE w[p] =< w[Parent(Parent(h))]
  BY <1>1, <1>2, <1>3, <1>5, <1>6, <1>8, <1>10
<1>11. QED BY <1>9, <1>10

LEMMA SiftingDown ==
  ASSUME NEW N \in Nat, NEW m \in 0 .. N, NEW v \in Ranges(N), NEW w \in Ranges(N),
         NEW root \in Nat, NEW h \in Nat, NEW c \in 1 .. m - 1,
         h >= root, Parent(c) = h, Exchanged(v, w, h, c), v[h] =< v[c],
         \A p \in 1 .. m - 1 : Parent(p) = h => v[p] =< v[c],
         HeapButDown(v, m, root, h)
  PROVE  HeapButDown(w, m, root, c)
<1>1. h \in 0 .. m - 1 /\ h < c
  BY Parents
<1>2. \A r \in 0 .. N - 1 : v[r] \in Int /\ w[r] \in Int
  BY DEF Ranges
<1>3. \A r \in 0 .. N - 1 : w[r] = IF r = h THEN v[c] ELSE IF r = c THEN v[h] ELSE v[r]
  BY DEF Exchanged, Ranges
<1>4. SUFFICES ASSUME NEW p \in 1 .. m - 1, Parent(p) >= root
               PROVE  /\ Parent(p) # c => w[p] =< w[Parent(p)]
                      /\ Parent(p) = c => w[p] =< w[h]
  BY DEF HeapButDown
<1>5. p \in 0 .. N - 1 /\ Parent(p) \in 0 .. N - 1 /\ Parent(p) < p
  BY Parents
<1>6. Parent(p) # h => v[p] =< v[Parent(p)]
  BY <1>4 DEF HeapButDown
<1>7. p = h => v[c] =< v[Parent(h)]
  BY <1>4, <1>5 DEF HeapButDown
<1>8. ASSUME Parent(p) # c PROVE w[p] =< w[Parent(p)]
  BY <1>1, <1>2, <1>3, <1>5, <1>6, <1>7, <1>8
<1>9. ASSUME Parent(p) = c PROVE w[p] =< w[h]
  BY <1>1, <1>2, <1>3, <1>5, <1>6, <1>9
<1>10. QED BY <1>8, <1>9

\* Nothing in a heap is greater than its first element: the first position that
\* held something greater would have a parent that holds it too.
LEMMA RootIsGreatest ==
  ASSUME NEW N \in Nat, NEW m \in 0 .. N, NEW v \in Ranges(N), IsHeap(v, m, 0)
  PROVE  \A p \in 0 .. m - 1 : v[p] =< v[0]
<1> DEFINE Greater == { p \in 0 .. m - 1 : v[p] > v[0] }
<1>1. SUFFICES ASSUME Greater # {} PROVE FALSE
  BY DEF Ranges
<1>2. Greater \subseteq Nat
  OBVIOUS
<1>3. PICK p \in Greater : \A q \in Greater : ~(<<q, p>> \in OpToRel(<, Nat))
  BY <1>1, <1>2, WFMin, NatLessThanWellFounded
<1>4. \A q \in Greater : ~(q < p)
  BY <1>2, <1>3 DEF OpToRel
<1>5. p \in 1 .. m - 1
  BY DEF Ranges
<1>6. Parent(p) \in 0 .. m - 1 /\ Parent(p) < p /\ v[p] =< v[Parent(p)]
  BY <1>5, Parents DEF IsHeap
<1>7. Parent(p) \in Greater
  BY <1>6 DEF Ranges
<1>8. QED BY <1>4, <1>6, <1>7

\* How the loops make the heap they sift in.
LEMMA PushedIn ==
  ASSUME NEW N \in Nat, NEW m \in 0 .. N - 1, NEW v \in Ranges(N), IsHeap(v, m, 0)
  PROVE  HeapButUp(v, m + 1, m)
BY Parents DEF IsHeap, HeapButUp, Ranges

LEMMA TakenOut ==
  ASSUME NEW N \in Nat, NEW m \in 0 .. N, NEW k \in m .. N - 1, NEW v \in Ranges(N),
         NEW w \in Ranges(N), NEW j \in {m, m + 1}, IsHeap(v, j, 0),
         Exchanged(v, w, 0, k)
  PROVE  HeapButDown(w, m, 0, 0)
<1>1. \A r \in 0 .. N - 1 : w[r] = IF r = 0 THEN v[k] ELSE IF r = k THEN v[0] ELSE v[r]
  BY DEF Exchanged, Ranges
<1>2. SUFFICES ASSUME NEW p \in 1 .. m - 1, Parent(p) # 0 PROVE w[p] =< w[Parent(p)]
  BY DEF HeapButDown
<1>3. Parent(p) \in 1 .. m - 1
  BY <1>2, Parents
<1>4. v[p] =< v[Parent(p)]
  BY <1>3 DEF IsHeap
<1>5. QED
  BY <1>1, <1>3, <1>4

LEMMA NextSubtree ==
  ASSUME NEW N \in Nat, NEW m \in 0 .. N, NEW v \in Ranges(N), NEW k \in Nat,
         IsHeap(v, m, k + 1)
  PROVE  HeapButDown(v, m, k, k)
<1>1. SUFFICES ASSUME NEW p \in 1 .. m - 1, Parent(p) >= k
               PROVE  /\ Parent(p) # k => v[p] =< v[Parent(p)]
                      /\ ~(k > 0 /\ Parent(k) >= k)
  BY DEF HeapButDown
<1>2. k > 0 => Parent(k) < k
  BY Parents
<1>3. Parent(p) \in Nat
  BY Parents
<1>4. QED
  BY <1>1, <1>2, <1>3, Parents DEF IsHeap

----------------------------------------------------------------------------
Values == [p \in Positions |-> key[Filled[p]]]
Root == IF phase = "make" THEN i + 1 ELSE 0

HeapInv ==
  /\ pc = "up" => HeapButUp(Values, len, hole)
  /\ pc = "down" => HeapButDown(Values, len, Root, hole)
  /\ pc \in {"idle", "loop"} => IsHeap(Values, len, Root)

\* what has been put behind the heap is no less than what is before it
Behind ==
  /\ phase = "scan" =>
       \A p \in 0 .. middle - 1, q \in middle .. i - 1 : Values[p] =< Values[q]
  /\ phase = "sort" =>
       \A p \in 0 .. middle - 1, q \in len .. middle - 1 : p < q => Values[p] =< Values[q]
  /\ phase = "sort" /\ caller = "partial_sort" =>
       \A p \in 0 .. middle - 1, q \in middle .. n - 1 : Values[p] =< Values[q]

LEMMA ValuesAreIntegers ==
  ASSUME TypeOK
  PROVE  n \in Nat /\ Values \in Ranges(n)
<1>1. \A p \in Positions : key[Filled[p]] \in Int
  BY FilledIsTyped, KeysAreIntegers DEF TypeOK
<1>2. QED
  BY <1>1, MaxLenIsNatural DEF Values, Ranges, Positions, TypeOK

LEMMA KeysStay ==
  ASSUME [Next]_vars
  PROVE  n' = n /\ key' = key /\ Positions' = Positions
<1>1. n' = n /\ key' = key
  BY DEF Next, Call, Step, SiftUp, SettleUp, SiftDown, SettleDown, PushHeap, PopHeap, MakeHeap,
         PartialSort, Make, MakeStep, MakeReturns, SortHeap, SortStep, SortReturns, Displace,
         PassOver, ScanReturns, vars
<1>2. QED BY <1>1 DEF Positions

LEMMA ValuesStayIntegers ==
  ASSUME TypeOK, TypeOK', [Next]_vars
  PROVE  Values' \in Ranges(n)
<1>1. \A p \in Positions : key[Filled'[p]] \in Int
  BY FilledStaysTyped, KeysAreIntegers, KeysStay DEF TypeOK
<1>2. Values' = [p \in Positions |-> key[Filled'[p]]]
  BY KeysStay DEF Values
<1>3. QED
  BY <1>1, <1>2 DEF Ranges, Positions

LEMMA SwapsExchangeValues ==
  ASSUME TypeOK, [Next]_vars, NEW p \in Positions, NEW q \in Positions, SwapStep(p, q)
  PROVE  Exchanged(Values, Values', p, q)
<1>1. Values' = [r \in Positions |-> key[Filled'[r]]]
  BY KeysStay DEF Values
<1>2. DOMAIN Filled = Positions
  BY FilledIsTyped
<1>3. QED
  BY <1>1, <1>2 DEF SwapStep, Exchanged, Values

LEMMA ValuesRest ==
  ASSUME TypeOK, Control, [Next]_vars, Resting
  PROVE  Values' = Values
BY KeysStay, OthersMoveNothing DEF Values

LEMMA HeapAfterSiftUp ==
  ASSUME TypeOK, TypeOK', Control, HeapInv, SiftUp, [Next]_vars
  PROVE  HeapInv'
<1>1. hole \in 1 .. len - 1 /\ len \in 0 .. n /\ n \in Nat
  BY MaxLenIsNatural DEF TypeOK, Control, SiftUp
<1>2. Parent(hole) \in Positions /\ hole \in Positions
  BY SiftingUpSwaps
<1>3. Exchanged(Values, Values', hole, Parent(hole))
  BY SiftingUpSwaps, SwapsExchangeValues
<1>4. Values[Parent(hole)] = key[a[Parent(hole)]] /\ Values[hole] = key[val]
  <2>1. Parent(hole) # hole
    BY <1>1, Parents
  <2>2. a \in [Positions -> Positions] /\ pc = "up"
    BY DEF TypeOK, SiftUp
  <2>3. QED
    BY <1>2, <2>1, <2>2 DEF Values, Filled
<1>5. Values[Parent(hole)] < Values[hole]
  BY <1>4 DEF SiftUp, Less
<1>6. HeapButUp(Values, len, hole)
  BY DEF HeapInv, SiftUp
<1>7. HeapButUp(Values', len, Parent(hole))
  BY <1>1, <1>3, <1>5, <1>6, SiftingUp, ValuesAreIntegers, ValuesStayIntegers
<1>8. QED
  BY <1>7 DEF HeapInv, SiftUp

LEMMA HeapAfterSettleUp ==
  ASSUME TypeOK, Control, HeapInv, SettleUp, [Next]_vars
  PROVE  HeapInv'
<1>1. hole \in 0 .. len - 1 /\ len \in 0 .. n /\ n \in Nat
  BY MaxLenIsNatural DEF TypeOK, Control, SettleUp
<1>2. HeapButUp(Values, len, hole)
  BY DEF HeapInv, SettleUp
<1>3. Values' = Values
  BY ValuesRest DEF Resting
<1>4. ASSUME NEW p \in 1 .. len - 1
      PROVE  Values[p] =< Values[Parent(p)]
  <2>1. CASE p # hole
    BY <1>2, <2>1 DEF HeapButUp
  <2>2. CASE p = hole
    <3>1. Parent(p) \in Positions /\ Parent(p) # p /\ p \in Positions
      BY <1>1, Parents DEF Positions
    <3>2. a \in [Positions -> Positions] /\ pc = "up"
      BY DEF TypeOK, SettleUp
    <3>3. Values[Parent(p)] = key[a[Parent(p)]] /\ Values[p] = key[val]
      BY <2>2, <3>1, <3>2 DEF Values, Filled
    <3>4. ~(Values[Parent(p)] < Values[p])
      BY <2>2, <3>3 DEF SettleUp, Less
    <3>5. QED
      BY <3>1, <3>4, ValuesAreIntegers DEF Ranges, Positions
  <2>3. QED BY <2>1, <2>2
<1>5. IsHeap(Values', len', Root')
  BY <1>3, <1>4 DEF IsHeap, SettleUp
<1>6. QED
  BY <1>5 DEF HeapInv, SettleUp, Return

\* The child the code picks is no less than its sibling.
LEMMA ChildIsGreater ==
  ASSUME TypeOK, Control, pc = "down", Left(hole) < len
  PROVE  /\ Child \in 1 .. len - 1 /\ Parent(Child) = hole
         /\ Values[hole] = key[val] /\ Values[Child] = key[a[Child]]
         /\ \A p \in 1 .. len - 1 : Parent(p) = hole => Values[p] =< Values[Child]
<1> USE MaxLenIsNatural
<1>1. hole \in Nat /\ len \in 0 .. n /\ n \in Nat
  BY DEF TypeOK
<1>2. Child \in 1 .. len - 1 /\ Parent(Child) = hole /\ hole \in 0 .. len - 1
  BY <1>1 DEF Child, Left, Right, Parent
<1>3. a \in [Positions -> Positions]
  BY DEF TypeOK
<1>4. \A p \in 1 .. len - 1 : Parent(p) = hole => p \in Positions /\ Values[p] = key[a[p]]
  <2>1. SUFFICES ASSUME NEW p \in 1 .. len - 1, Parent(p) = hole
                 PROVE  p \in Positions /\ Values[p] = key[a[p]]
    OBVIOUS
  <2>2. p \in Positions /\ p # hole
    BY <1>1, <2>1, Parents DEF Positions
  <2>3. QED
    BY <1>3, <2>2 DEF Values, Filled
<1>5. Values[hole] = key[val]
  BY <1>1, <1>2, <1>3 DEF Values, Filled, Positions
<1>6. ASSUME NEW p \in 1 .. len - 1, Parent(p) = hole
      PROVE  Values[p] =< Values[Child]
  <2>1. p = Left(hole) \/ p = Right(hole)
    BY <1>1, <1>6, Children
  <2>2. Values[p] = key[a[p]] /\ Values[Child] = key[a[Child]]
    BY <1>2, <1>4, <1>6
  <2>3. Values[p] \in Int /\ Values[Child] \in Int
    BY <1>1, <1>2, ValuesAreIntegers DEF Ranges
  <2>4. CASE p = Child
    BY <2>3, <2>4
  <2>5. CASE p = Left(hole) /\ p # Child
    <3>1. Child = Right(hole) /\ Less(a[Left(hole)], a[Right(hole)])
      BY <2>5 DEF Child
    <3>2. QED
      BY <2>2, <2>3, <2>5, <3>1 DEF Less
  <2>6. CASE p = Right(hole) /\ p # Child
    <3>1. Right(hole) < len
      BY <1>1, <1>6, <2>6
    <3>2. Child = Left(hole) /\ ~Less(a[Left(hole)], a[Right(hole)])
      BY <2>6, <3>1 DEF Child
    <3>3. QED
      BY <2>2, <2>3, <2>6, <3>2 DEF Less
  <2>7. QED BY <2>1, <2>4, <2>5, <2>6
<1>7. QED
  BY <1>2, <1>4, <1>5, <1>6

LEMMA HeapAfterSiftDown ==
  ASSUME TypeOK, TypeOK', Control, HeapInv, SiftDown, [Next]_vars
  PROVE  HeapInv'
<1>1. pc = "down" /\ Left(hole) < len /\ ~Less(a[Child], val)
  BY DEF SiftDown, InOrder
<1>2. len \in 0 .. n /\ n \in Nat /\ hole \in Nat
  BY MaxLenIsNatural DEF TypeOK
<1>3. Root \in Nat /\ hole >= Root
  BY <1>1, <1>2 DEF Root, Control, TypeOK
<1>4. Exchanged(Values, Values', hole, Child) /\ hole \in Positions /\ Child \in Positions
  BY SiftingDownSwaps, SwapsExchangeValues
<1>5. Values[hole] =< Values[Child]
  <2>1. ~(Values[Child] < Values[hole])
    BY <1>1, ChildIsGreater DEF Less
  <2>2. QED
    BY <1>4, <2>1, ValuesAreIntegers DEF Ranges, Positions
<1>6. HeapButDown(Values, len, Root, hole)
  BY <1>1 DEF HeapInv
<1>7. /\ Child \in 1 .. len - 1 /\ Parent(Child) = hole
      /\ \A p \in 1 .. len - 1 : Parent(p) = hole => Values[p] =< Values[Child]
  BY <1>1, ChildIsGreater
<1>8. HeapButDown(Values', len, Root, Child)
  BY <1>2, <1>3, <1>4, <1>5, <1>6, <1>7, SiftingDown, ValuesAreIntegers, ValuesStayIntegers
<1>9. QED
  BY <1>8 DEF HeapInv, SiftDown, Root

LEMMA HeapAfterSettleDown ==
  ASSUME TypeOK, Control, HeapInv, SettleDown, [Next]_vars
  PROVE  HeapInv'
<1>1. len \in 0 .. n /\ n \in Nat /\ hole \in Nat /\ pc = "down" /\ i \in Int
  BY MaxLenIsNatural DEF TypeOK, SettleDown
<1>2. HeapButDown(Values, len, Root, hole)
  BY <1>1 DEF HeapInv
<1>3. Values' = Values
  BY ValuesRest DEF Resting
<1>4. ASSUME NEW p \in 1 .. len - 1, Parent(p) >= Root
      PROVE  Values[p] =< Values[Parent(p)]
  <2>1. CASE Parent(p) # hole
    BY <1>2, <1>4, <2>1 DEF HeapButDown
  <2>2. CASE Parent(p) = hole
    <3>1. Left(hole) < len
      BY <1>1, <2>2, Children DEF Left, Right
    <3>2. Less(a[Child], val)
      BY <3>1 DEF SettleDown, InOrder
    <3>3. /\ Child \in 1 .. len - 1 /\ Values[hole] = key[val] /\ Values[Child] = key[a[Child]]
          /\ Values[p] =< Values[Child]
      BY <1>1, <2>2, <3>1, ChildIsGreater
    <3>4. Values[Child] < Values[hole]
      BY <3>2, <3>3 DEF Less
    <3>5. hole \in 0 .. n - 1 /\ Child \in 0 .. n - 1 /\ p \in 0 .. n - 1
      BY <1>1, <2>2, <3>3, Parents
    <3>6. Values[p] \in Int /\ Values[Child] \in Int /\ Values[hole] \in Int
      BY <3>5, ValuesAreIntegers DEF Ranges
    <3>7. QED
      BY <2>2, <3>3, <3>4, <3>6
  <2>3. QED BY <2>1, <2>2
<1>5. IsHeap(Values, len, Root)
  BY <1>4 DEF IsHeap
<1>6. Root' = Root /\ len' = len /\ pc' \in {"idle", "loop"}
  BY DEF SettleDown, Root, Return
<1>7. QED
  BY <1>3, <1>5, <1>6 DEF HeapInv

LEMMA HeapAfterTakingOut ==
  ASSUME TypeOK, TypeOK', Control, HeapInv, PopHeap \/ SortStep \/ Displace, [Next]_vars
  PROVE  HeapInv'
<1>1. len \in 0 .. n /\ n \in Nat /\ i \in -1 .. n /\ middle \in 0 .. n
  BY MaxLenIsNatural DEF TypeOK
<1>2. Root = 0 /\ pc \in {"idle", "loop"}
  BY DEF PopHeap, SortStep, Displace, Control, Root
<1>3. IsHeap(Values, len, 0)
  BY <1>2 DEF HeapInv
<1>4. Root' = 0 /\ hole' = 0 /\ pc' = "down"
  BY DEF PopHeap, SortStep, Displace, PopFrom, SiftFrom, Root
<1>5. CASE PopHeap \/ SortStep
  <2>1. len' = len - 1 /\ len > 0
    BY <1>1, <1>5 DEF PopHeap, SortStep, PopFrom, Control
  <2>2. Exchanged(Values, Values', 0, len - 1)
    BY <1>5, TakingOutSwaps, SwapsExchangeValues
  <2>3. /\ len - 1 \in 0 .. n /\ len - 1 \in (len - 1) .. n - 1
        /\ len \in {len - 1, (len - 1) + 1}
    BY <1>1, <2>1
  <2>4. HeapButDown(Values', len - 1, 0, 0)
    BY <1>1, <1>3, <2>2, <2>3, TakenOut, ValuesAreIntegers, ValuesStayIntegers
  <2>5. QED
    BY <1>4, <2>1, <2>4 DEF HeapInv
<1>6. CASE Displace
  <2>1. len' = len /\ i \in len .. n - 1
    BY <1>1, <1>6 DEF Displace, Control
  <2>2. Exchanged(Values, Values', 0, i)
    BY <1>6, DisplacingSwaps, SwapsExchangeValues
  <2>3. HeapButDown(Values', len, 0, 0)
    BY <1>1, <1>3, <2>1, <2>2, TakenOut, ValuesAreIntegers, ValuesStayIntegers
  <2>4. QED
    BY <1>4, <2>1, <2>3 DEF HeapInv
<1>7. QED BY <1>5, <1>6

LEMMA HeapInTheLoops ==
  ASSUME TypeOK, Control, HeapInv, [Next]_vars,
         \/ PushHeap \/ MakeHeap \/ (\E m \in 0 .. n : PartialSort(m)) \/ MakeStep \/ MakeReturns
         \/ SortHeap \/ SortReturns \/ ScanReturns \/ PassOver \/ UNCHANGED vars
  PROVE  HeapInv'
<1>1. len \in 0 .. n /\ n \in Nat /\ i \in -1 .. n
  BY MaxLenIsNatural DEF TypeOK
<1>2. Values' = Values
  BY ValuesRest DEF Resting
<1>3. CASE PushHeap
  <2>1. IsHeap(Values, len, 0) /\ len \in 0 .. n - 1
    BY <1>1, <1>3 DEF PushHeap, HeapInv, Root, Control
  <2>2. HeapButUp(Values, len + 1, len)
    BY <1>1, <2>1, PushedIn, ValuesAreIntegers
  <2>3. QED
    BY <1>2, <1>3, <2>2 DEF PushHeap, SiftFrom, HeapInv
<1>4. CASE MakeHeap \/ (\E m \in 0 .. n : PartialSort(m))
  <2>1. PICK m \in 0 .. n : Make(m)
    BY <1>1, <1>4 DEF MakeHeap, PartialSort, Distance
  <2>2. ASSUME NEW p \in 1 .. m - 1 PROVE ~(Parent(p) >= Root')
    BY <1>1, <2>1 DEF Make, Root, FirstParent, Parent
  <2>3. IsHeap(Values', len', Root')
    BY <2>1, <2>2 DEF IsHeap, Make
  <2>4. QED
    BY <2>1, <2>3 DEF Make, HeapInv
<1>5. CASE MakeStep
  <2>1. i \in Nat /\ IsHeap(Values, len, i + 1)
    BY <1>1, <1>5 DEF MakeStep, HeapInv, Root
  <2>2. HeapButDown(Values, len, i, i)
    BY <1>1, <2>1, NextSubtree, ValuesAreIntegers
  <2>3. hole' = i /\ len' = len /\ pc' = "down" /\ Root' = i
    BY <1>1, <1>5 DEF MakeStep, SiftFrom, Root, NextStart
  <2>4. QED
    BY <1>2, <2>2, <2>3 DEF HeapInv
<1>6. CASE MakeReturns \/ SortHeap \/ SortReturns \/ ScanReturns \/ PassOver \/ UNCHANGED vars
  <2>1. UNCHANGED <<len, hole>> /\ Root' = Root /\ (UNCHANGED pc \/ pc' \in {"idle", "loop"})
        /\ (pc \in {"idle", "loop"} \/ UNCHANGED pc)
    BY <1>1, <1>6 DEF MakeReturns, SortHeap, SortReturns, ScanReturns, PassOver, Return, Root, vars, Control
  <2>2. pc' \in {"idle", "loop"} => pc \in {"idle", "loop"}
    BY <2>1
  <2>3. pc' \in {"up", "down"} => pc' = pc
    BY <2>1
  <2>4. QED
    BY <1>2, <2>1, <2>2, <2>3 DEF HeapInv
<1>7. QED
  BY <1>3, <1>4, <1>5, <1>6

LEMMA HeapStaysHeap ==
  ASSUME TypeOK, TypeOK', Control, HeapInv, [Next]_vars
  PROVE  HeapInv'
BY EveryStepIsOfAKind, HeapAfterSiftUp, HeapAfterSettleUp, HeapAfterSiftDown, HeapAfterSettleDown,
   HeapAfterTakingOut, HeapInTheLoops DEF Resting

\* Whenever no element is being sifted the first len elements are a heap, in
\* ranges of any length with keys of any kind.
THEOREM HeapIsAlwaysHeap == Spec => []HeapIsHeap
<1>1. Init => HeapInv
  <2> SUFFICES ASSUME Init PROVE HeapInv OBVIOUS
  <2>1. len = 0 /\ pc = "idle"
    BY DEF Init
  <2>2. QED
    BY <2>1 DEF HeapInv, IsHeap
<1>2. TypeOK /\ Control /\ TypeOK' /\ HeapInv /\ [Next]_vars => HeapInv'
  BY HeapStaysHeap
<1>3. TypeOK /\ Control /\ HeapInv => HeapIsHeap
  <2> SUFFICES ASSUME TypeOK, Control, HeapInv, pc = "idle" \/ (pc = "loop" /\ phase # "make"),
                      NEW p \in 1 .. len - 1
               PROVE  ~Less(a[Parent(p)], a[p])
    BY DEF HeapIsHeap
  <2>1. Root = 0 /\ Filled = a
    BY DEF Root, Control, Filled
  <2>2. p \in 0 .. n - 1 /\ Parent(p) \in 0 .. n - 1
    BY MaxLenIsNatural, Parents DEF TypeOK
  <2>3. Values[p] =< Values[Parent(p)]
    BY <2>1, <2>2 DEF HeapInv, IsHeap
  <2>4. Values[p] = key[a[p]] /\ Values[Parent(p)] = key[a[Parent(p)]]
    BY <2>1, <2>2 DEF Values, Positions
  <2>5. QED
    BY <2>2, <2>3, <2>4, ValuesAreIntegers DEF Less, Ranges
<1>4. QED
  BY <1>1, <1>2, <1>3, TypesAreCorrect, PTL DEF Spec

----------------------------------------------------------------------------
(* What sort_heap and partial_sort leave behind the heap.                     *)

LEMMA BehindAfterSiftDown ==
  ASSUME TypeOK, TypeOK', Control, HeapInv, Behind, SiftDown, [Next]_vars
  PROVE  Behind'
<1>1. len \in 0 .. n /\ n \in Nat /\ i \in -1 .. n /\ middle \in 0 .. n /\ len =< n
  BY MaxLenIsNatural DEF TypeOK
<1>2. hole \in 0 .. len - 1 /\ Child \in 0 .. len - 1
  <2>1. pc = "down" /\ Left(hole) < len
    BY DEF SiftDown, InOrder
  <2>2. Child \in 1 .. len - 1 /\ Parent(Child) = hole
    BY <2>1, ChildIsGreater
  <2>3. QED
    BY <1>1, <2>2, Parents
<1>3. Exchanged(Values, Values', hole, Child)
  BY SiftingDownSwaps, SwapsExchangeValues
<1>4. \A p \in 0 .. n - 1 : \E r \in 0 .. n - 1 : /\ Values'[p] = Values[r]
                                              /\ IF p < len THEN r < len ELSE r = p
  <2> SUFFICES ASSUME NEW p \in 0 .. n - 1
               PROVE  \E r \in 0 .. n - 1 : /\ Values'[p] = Values[r]
                                            /\ IF p < len THEN r < len ELSE r = p
    OBVIOUS
  <2>1. Values'[p] = IF p = hole THEN Values[Child] ELSE IF p = Child THEN Values[hole] ELSE Values[p]
    BY <1>3, ValuesAreIntegers DEF Exchanged, Ranges
  <2>2. hole \in 0 .. n - 1 /\ Child \in 0 .. n - 1 /\ hole < len /\ Child < len
    BY <1>1, <1>2
  <2>3. CASE p = hole
    BY <2>1, <2>2, <2>3
  <2>4. CASE p = Child
    BY <2>1, <2>2, <2>4
  <2>5. CASE p # hole /\ p # Child
    BY <2>1, <2>5
  <2>6. QED BY <2>3, <2>4, <2>5
<1>5. UNCHANGED <<n, len, phase, middle, caller, i>>
  BY DEF SiftDown
<1>6. CASE phase = "scan"
  <2>1. len = middle /\ middle =< i
    BY <1>6 DEF Control
  <2>2. ASSUME NEW p \in 0 .. middle - 1, NEW q \in middle .. i - 1
        PROVE  Values'[p] =< Values'[q]
    <3>1. PICK r \in 0 .. n - 1 : Values'[p] = Values[r] /\ r < len
      BY <1>1, <1>4, <2>1
    <3>2. Values'[q] = Values[q]
      BY <1>1, <1>4, <2>1
    <3>3. QED
      BY <1>1, <1>6, <2>1, <3>1, <3>2 DEF Behind
  <2>3. QED
    BY <1>5, <1>6, <2>2 DEF Behind
<1>7. CASE phase = "sort"
  <2>1. len =< middle
    BY <1>1, <1>7 DEF Control
  <2>2. ASSUME NEW p \in 0 .. middle - 1, NEW q \in len .. middle - 1, p < q
        PROVE  Values'[p] =< Values'[q]
    <3>1. PICK r \in 0 .. n - 1 : Values'[p] = Values[r] /\ IF p < len THEN r < len ELSE r = p
      BY <1>1, <1>4
    <3>2. Values'[q] = Values[q] /\ r \in 0 .. middle - 1 /\ r < q
      BY <1>1, <1>4, <2>1, <2>2, <3>1
    <3>3. QED
      BY <1>7, <3>1, <3>2 DEF Behind
  <2>3. ASSUME caller = "partial_sort", NEW p \in 0 .. middle - 1, NEW q \in middle .. n - 1
        PROVE  Values'[p] =< Values'[q]
    <3>1. PICK r \in 0 .. n - 1 : Values'[p] = Values[r] /\ IF p < len THEN r < len ELSE r = p
      BY <1>1, <1>4
    <3>2. Values'[q] = Values[q] /\ r \in 0 .. middle - 1
      BY <1>1, <1>4, <2>1, <3>1
    <3>3. QED
      BY <1>7, <2>3, <3>1, <3>2 DEF Behind
  <2>4. QED
    BY <1>5, <1>7, <2>2, <2>3 DEF Behind
<1>8. QED
  BY <1>5, <1>6, <1>7 DEF Behind

LEMMA BehindAfterSortStep ==
  ASSUME TypeOK, TypeOK', Control, HeapInv, Behind, SortStep, [Next]_vars
  PROVE  Behind'
<1>1. len \in 2 .. n /\ n \in Nat /\ middle \in len .. n /\ phase = "sort" /\ pc = "loop"
  BY MaxLenIsNatural DEF TypeOK, Control, SortStep
<1>2. Exchanged(Values, Values', 0, len - 1)
  BY TakingOutSwaps, SwapsExchangeValues
<1>3. \A p \in 0 .. n - 1 : Values'[p] = IF p = 0 THEN Values[len - 1]
                                       ELSE IF p = len - 1 THEN Values[0] ELSE Values[p]
  BY <1>2, ValuesAreIntegers DEF Exchanged, Ranges
<1>4. \A p \in 0 .. len - 1 : Values[p] =< Values[0]
  BY <1>1, RootIsGreatest, ValuesAreIntegers DEF HeapInv, Root
<1>5. UNCHANGED <<n, phase, middle, caller>> /\ len' = len - 1
  BY <1>1 DEF SortStep, PopFrom, Control
<1>6. ASSUME NEW p \in 0 .. middle - 1, NEW q \in len - 1 .. middle - 1, p < q
      PROVE  Values'[p] =< Values'[q]
  <2>1. CASE q = len - 1
    BY <1>1, <1>3, <1>4, <1>6, <2>1
  <2>2. CASE q # len - 1
    <3>1. Values'[q] = Values[q] /\ q \in len .. middle - 1
      BY <1>1, <1>3, <2>2
    <3>2. PICK r \in 0 .. middle - 1 : Values'[p] = Values[r] /\ r < q
      BY <1>1, <1>3, <1>6, <3>1
    <3>3. QED
      BY <1>1, <3>1, <3>2 DEF Behind
  <2>3. QED BY <2>1, <2>2
<1>7. ASSUME caller = "partial_sort", NEW p \in 0 .. middle - 1, NEW q \in middle .. n - 1
      PROVE  Values'[p] =< Values'[q]
  <2>1. Values'[q] = Values[q]
    BY <1>1, <1>3
  <2>2. PICK r \in 0 .. middle - 1 : Values'[p] = Values[r]
    BY <1>1, <1>3
  <2>3. QED
    BY <1>1, <1>7, <2>1, <2>2 DEF Behind
<1>8. QED
  BY <1>1, <1>5, <1>6, <1>7 DEF Behind

LEMMA BehindAfterScanning ==
  ASSUME TypeOK, TypeOK', Control, HeapInv, Behind, Displace \/ PassOver, [Next]_vars
  PROVE  Behind'
<1>1. /\ n \in Nat /\ middle \in 0 .. n /\ len = middle /\ i \in middle .. n - 1
      /\ phase = "scan" /\ pc = "loop" /\ Filled = a
  BY MaxLenIsNatural DEF TypeOK, Control, Displace, PassOver, Filled
<1>2. \A p \in 0 .. middle - 1 : Values[p] =< Values[0]
  BY <1>1, RootIsGreatest, ValuesAreIntegers DEF HeapInv, Root
<1>3. Values[i] = key[a[i]] /\ Values[0] = key[a[0]]
  BY <1>1 DEF Values, Positions
<1>4. \A p \in 0 .. n - 1 : Values[p] \in Int
  BY ValuesAreIntegers DEF Ranges
<1>5. \A p \in 0 .. middle - 1, q \in middle .. i - 1 : Values[p] =< Values[q]
  BY <1>1 DEF Behind
<1>6. UNCHANGED <<n, phase, middle, caller>> /\ i' = i + 1
  BY DEF Displace, PassOver
<1>7. SUFFICES ASSUME NEW p \in 0 .. middle - 1, NEW q \in middle .. i
               PROVE  Values'[p] =< Values'[q]
  BY <1>1, <1>6 DEF Behind
<1>8. CASE Displace
  <2>1. Exchanged(Values, Values', 0, i)
    BY <1>8, DisplacingSwaps, SwapsExchangeValues
  <2>2. \A r \in 0 .. n - 1 : Values'[r] = IF r = 0 THEN Values[i]
                                         ELSE IF r = i THEN Values[0] ELSE Values[r]
    BY <2>1, ValuesAreIntegers DEF Exchanged, Ranges
  <2>3. Values[i] < Values[0]
    BY <1>3, <1>8 DEF Displace, Displaces, Less
  <2>4. Values'[p] =< Values[0] /\ Values'[p] \in Int
    BY <1>1, <1>2, <1>4, <2>2, <2>3
  <2>5. CASE q = i
    BY <1>1, <2>2, <2>4, <2>5
  <2>6. CASE q # i
    <3>1. Values'[q] = Values[q] /\ Values[q] \in Int /\ Values[0] =< Values[q]
      BY <1>1, <1>4, <1>5, <2>2, <2>6
    <3>2. Values[0] \in Int
      BY <1>1, <1>4
    <3>3. QED
      BY <2>4, <3>1, <3>2
  <2>7. QED BY <2>5, <2>6
<1>9. CASE PassOver
  <2>1. Values' = Values
    BY <1>9, ValuesRest DEF Resting
  <2>2. Values[0] =< Values[i]
    BY <1>1, <1>3, <1>4, <1>9 DEF PassOver, Displaces, Less
  <2>3. Values[p] \in Int /\ Values[q] \in Int /\ Values[0] \in Int
    BY <1>1, <1>4
  <2>4. CASE q = i
    BY <1>2, <2>1, <2>2, <2>3, <2>4
  <2>5. CASE q # i
    BY <1>1, <1>5, <2>1, <2>5
  <2>6. QED BY <2>4, <2>5
<1>10. QED BY <1>8, <1>9

LEMMA BehindStaysBehind ==
  ASSUME TypeOK, TypeOK', Control, Control', HeapInv, Behind, [Next]_vars
  PROVE  Behind'
<1>1. CASE SiftDown
  BY <1>1, BehindAfterSiftDown
<1>2. CASE SortStep
  BY <1>2, BehindAfterSortStep
<1>3. CASE Displace \/ PassOver
  BY <1>3, BehindAfterScanning
<1>4. CASE SiftUp \/ SettleUp \/ PushHeap \/ PopHeap \/ MakeHeap \/ (\E m \in 0 .. n : PartialSort(m))
           \/ MakeStep \/ SortReturns
  <2>1. phase' \notin {"scan", "sort"}
    BY <1>4 DEF SiftUp, SettleUp, PushHeap, PopHeap, MakeHeap, PartialSort, Make, MakeStep, SortReturns,
                Return, Control
  <2>2. QED
    BY <2>1 DEF Behind
<1>5. CASE SettleDown \/ ScanReturns \/ UNCHANGED vars
  <2>1. Values' = Values
    BY <1>5, ValuesRest DEF Resting
  <2>2. CASE SettleDown \/ UNCHANGED vars
    <3>1. UNCHANGED <<phase, middle, caller, i, n, len>> \/ phase' = "none"
      BY <2>2 DEF SettleDown, Return, vars
    <3>2. QED
      BY <2>1, <3>1 DEF Behind
  <2>3. CASE ScanReturns
    <3>1. /\ n \in Nat /\ middle \in 0 .. n /\ len = middle /\ i = n /\ phase = "scan" /\ phase' = "sort"
          /\ UNCHANGED <<n, len, middle, caller>>
      BY <2>3, MaxLenIsNatural DEF TypeOK, Control, ScanReturns
    <3>2. QED
      BY <2>1, <3>1 DEF Behind
  <2>4. QED BY <1>5, <2>2, <2>3
<1>6. CASE MakeReturns \/ SortHeap
  <2>1. /\ middle' \in Nat
        /\ phase' \in {"none", "scan", "sort"}
        /\ phase' = "scan" => i' = middle'
        /\ phase' = "sort" => len' = middle' /\ caller' = "client"
    BY <1>6, MaxLenIsNatural DEF TypeOK, Control, MakeReturns, SortHeap, Return
  <2>2. middle' .. middle' - 1 = {}
    BY <2>1, NothingBetween
  <2>3. CASE phase' = "none"
    BY <2>3 DEF Behind
  <2>4. CASE phase' = "scan"
    BY <2>1, <2>2, <2>4 DEF Behind
  <2>5. CASE phase' = "sort"
    BY <2>1, <2>2, <2>5 DEF Behind
  <2>6. QED BY <2>1, <2>3, <2>4, <2>5
<1>7. QED
  BY <1>1, <1>2, <1>3, <1>4, <1>5, <1>6, EveryStepIsOfAKind DEF Resting

\* What sort_heap and partial_sort leave ascends, and nothing behind middle is
\* less, in ranges of any length.
THEOREM SortsSort == Spec => []SortedAtReturn
<1>1. Init => HeapInv /\ Behind
  <2> SUFFICES ASSUME Init PROVE HeapInv /\ Behind OBVIOUS
  <2>1. len = 0 /\ pc = "idle" /\ phase = "none"
    BY DEF Init
  <2>2. QED
    BY <2>1 DEF HeapInv, IsHeap, Behind
<1>2. TypeOK /\ Control /\ (TypeOK /\ Control)' /\ HeapInv /\ Behind /\ [Next]_vars => (HeapInv /\ Behind)'
  BY HeapStaysHeap, BehindStaysBehind
<1>3. TypeOK /\ Control /\ Behind => SortedAtReturn
  <2> SUFFICES ASSUME TypeOK, Control, Behind, pc = "loop", phase = "sort", i =< 1
               PROVE  /\ \A p, q \in 0 .. middle - 1 : p < q => ~Less(a[q], a[p])
                      /\ caller = "partial_sort" =>
                           \A p \in 0 .. middle - 1, q \in middle .. n - 1 : ~Less(a[q], a[p])
    BY DEF SortedAtReturn
  <2>1. n \in Nat /\ middle \in 0 .. n /\ len \in 0 .. 1
    BY MaxLenIsNatural DEF TypeOK, Control
  <2>2. \A p \in 0 .. n - 1 : Values[p] = key[a[p]] /\ Values[p] \in Int
    BY ValuesAreIntegers DEF Values, Positions, Filled, Ranges
  <2>3. ASSUME NEW p \in 0 .. middle - 1, NEW q \in 0 .. middle - 1, p < q PROVE ~Less(a[q], a[p])
    <3>1. Values[p] =< Values[q]
      BY <2>1, <2>3 DEF Behind
    <3>2. QED
      BY <2>1, <2>2, <3>1 DEF Less
  <2>4. ASSUME caller = "partial_sort", NEW p \in 0 .. middle - 1, NEW q \in middle .. n - 1
        PROVE  ~Less(a[q], a[p])
    <3>1. Values[p] =< Values[q]
      BY <2>4 DEF Behind
    <3>2. QED
      BY <2>1, <2>2, <3>1 DEF Less
  <2>5. QED BY <2>3, <2>4
<1>4. QED
  BY <1>1, <1>2, <1>3, TypesAreCorrect, PTL DEF Spec

----------------------------------------------------------------------------
(* The heap implements the queue.                                             *)

Image(f, m) == { f[p] : p \in 0 .. m - 1 }
Orders(N) == [0 .. N - 1 -> 0 .. N - 1]
OneToOne(f, N) == \A p, q \in 0 .. N - 1 : f[p] = f[q] => p = q

LEMMA SwapInside ==
  ASSUME NEW N \in Nat, NEW m \in 0 .. N, NEW f \in Orders(N), NEW g \in Orders(N),
         NEW p \in 0 .. m - 1, NEW q \in 0 .. m - 1, Exchanged(f, g, p, q)
  PROVE  Image(g, m) = Image(f, m)
<1>1. \A r \in 0 .. m - 1 : g[r] = IF r = p THEN f[q] ELSE IF r = q THEN f[p] ELSE f[r]
  <2>1. \A r \in 0 .. m - 1 : r \in DOMAIN f
    BY DEF Orders
  <2>2. QED
    BY <2>1 DEF Exchanged
<1>2. Image(g, m) \subseteq Image(f, m)
  BY <1>1 DEF Image
<1>3. ASSUME NEW r \in 0 .. m - 1 PROVE f[r] \in Image(g, m)
  <2>1. CASE r = p
    <3>1. g[q] = f[r]
      BY <1>1, <2>1
    <3>2. QED BY <3>1 DEF Image
  <2>2. CASE r = q
    <3>1. g[p] = f[r]
      BY <1>1, <2>2
    <3>2. QED BY <3>1 DEF Image
  <2>3. CASE r # p /\ r # q
    <3>1. g[r] = f[r]
      BY <1>1, <2>3
    <3>2. QED BY <3>1 DEF Image
  <2>4. QED BY <2>1, <2>2, <2>3
<1>4. QED
  BY <1>2, <1>3 DEF Image

LEMMA OneMore ==
  ASSUME NEW N \in Nat, NEW m \in 0 .. N - 1, NEW f \in Orders(N), OneToOne(f, N)
  PROVE  f[m] \notin Image(f, m) /\ Image(f, m + 1) = Image(f, m) \cup {f[m]}
<1>1. f[m] \notin Image(f, m)
  BY DEF Image, OneToOne
<1>2. 0 .. (m + 1) - 1 = (0 .. m - 1) \cup {m}
  OBVIOUS
<1>3. QED
  BY <1>1, <1>2 DEF Image

LEMMA FirstReplaced ==
  ASSUME NEW N \in Nat, NEW m \in 1 .. N, NEW k \in m .. N - 1, NEW f \in Orders(N),
         NEW g \in Orders(N), Exchanged(f, g, 0, k), OneToOne(f, N)
  PROVE  f[k] \notin Image(f, m) /\ Image(g, m) = (Image(f, m) \ {f[0]}) \cup {f[k]}
<1>1. \A r \in 0 .. m - 1 : g[r] = IF r = 0 THEN f[k] ELSE f[r]
  BY DEF Exchanged, Orders
<1>2. f[k] \notin Image(f, m)
  BY DEF Image, OneToOne
<1>3. Image(g, m) \subseteq (Image(f, m) \ {f[0]}) \cup {f[k]}
  BY <1>1 DEF Image, OneToOne
<1>4. ASSUME NEW r \in 0 .. m - 1, f[r] # f[0] PROVE f[r] \in Image(g, m)
  <2>1. g[r] = f[r]
    BY <1>1, <1>4
  <2>2. QED BY <2>1 DEF Image
<1>5. f[k] \in Image(g, m)
  <2>1. g[0] = f[k] /\ 0 \in 0 .. m - 1
    BY <1>1
  <2>2. QED BY <2>1 DEF Image
<1>6. QED
  BY <1>2, <1>3, <1>4, <1>5 DEF Image

LEMMA FirstOut ==
  ASSUME NEW N \in Nat, NEW m \in 1 .. N, NEW f \in Orders(N), NEW g \in Orders(N),
         Exchanged(f, g, 0, m - 1), OneToOne(f, N)
  PROVE  Image(g, m - 1) = Image(f, m) \ {f[0]}
<1>1. \A r \in 0 .. N - 1 : g[r] = IF r = 0 THEN f[m - 1] ELSE IF r = m - 1 THEN f[0] ELSE f[r]
  BY DEF Exchanged, Orders
<1>2. ASSUME NEW r \in 0 .. (m - 1) - 1 PROVE g[r] \in Image(f, m) /\ g[r] # f[0]
  <2>1. PICK t \in 1 .. m - 1 : g[r] = f[t]
    <3>1. CASE r = 0
      BY <1>1, <1>2, <3>1
    <3>2. CASE r # 0
      BY <1>1, <1>2, <3>2
    <3>3. QED BY <3>1, <3>2
  <2>2. QED
    BY <2>1 DEF Image, OneToOne
<1>3. ASSUME NEW r \in 0 .. m - 1, f[r] # f[0] PROVE f[r] \in Image(g, m - 1)
  <2>1. r # 0
    BY <1>3
  <2>2. PICK t \in 0 .. (m - 1) - 1 : g[t] = f[r]
    <3>1. CASE r = m - 1
      BY <1>1, <2>1, <3>1
    <3>2. CASE r # m - 1
      BY <1>1, <2>1, <3>2
    <3>3. QED BY <3>1, <3>2
  <2>3. QED BY <2>2 DEF Image
<1>4. QED
  BY <1>2, <1>3 DEF Image

Making == phase = "make" /\ pc # "idle"

LEMMA InHeapIsImage ==
  ASSUME TypeOK
  PROVE  /\ n \in Nat /\ len \in 0 .. n /\ Filled \in Orders(n)
         /\ ~Making => InHeap = Image(Filled, len)
         /\ Making => InHeap = {}
         /\ NothingIsLost => OneToOne(Filled, n)
         /\ \A p \in 0 .. n - 1 : Filled[p] \in Queue!Elements
BY MaxLenIsNatural, FilledIsTyped
   DEF TypeOK, Positions, InHeap, Image, Making, NothingIsLost, OneToOne, Orders, Queue!Elements

LEMMA InHeapStaysImage ==
  /\ ~Making' => InHeap' = Image(Filled', len')
  /\ Making' => InHeap' = {}
BY DEF InHeap, Image, Making

LEMMA FilledNext ==
  ASSUME TypeOK', [Next]_vars
  PROVE  Filled' \in Orders(n)
BY FilledStaysTyped, KeysStay DEF Positions, Orders

\* The greatest of the queue is at the front of the heap.
LEMMA FrontIsGreatest ==
  ASSUME TypeOK, Control, HeapInv, len > 0, pc \in {"idle", "loop"}, ~Making, Root = 0
  PROVE  Queue!Greatest(Filled[0])
<1>1. n \in Nat /\ len \in 1 .. n
  BY MaxLenIsNatural DEF TypeOK
<1>2. \A p \in 0 .. len - 1 : Values[p] =< Values[0]
  BY <1>1, RootIsGreatest, ValuesAreIntegers DEF HeapInv
<1>3. \A p \in 0 .. len - 1 : Values[p] = key[Filled[p]]
  BY <1>1 DEF Values, Positions
<1>4. 0 \in 0 .. len - 1
  BY <1>1
<1>5. QED
  BY <1>2, <1>3, <1>4, InHeapIsImage DEF Queue!Greatest, Image

LEMMA StepsAreOfTheQueue ==
  ASSUME TypeOK, TypeOK', Control, Control', HeapInv, NothingIsLost, [Next]_vars
  PROVE  [Queue!Next]_(Queue!queueVars)
<1>1. key' = key /\ n' = n /\ n \in Nat /\ len \in 0 .. n
  BY KeysStay, MaxLenIsNatural DEF TypeOK
<1>2. SUFFICES \/ InHeap' = InHeap \/ Queue!Insert \/ Queue!Extract \/ Queue!Replace \/ Queue!Clear
               \/ Queue!Fill
  BY <1>1 DEF Queue!Next, Queue!queueVars
<1>3. CASE SiftUp \/ SiftDown
  <2>1. len' = len /\ Making' = Making
    BY <1>3 DEF SiftUp, SiftDown, Making
  <2>2. PICK p \in 0 .. len - 1, q \in 0 .. len - 1 : Exchanged(Filled, Filled', p, q)
    <3>1. CASE SiftUp
      <4>1. hole \in 0 .. len - 1 /\ Parent(hole) \in 0 .. len - 1
        BY <1>1, <3>1, Parents DEF SiftUp, TypeOK, Control
      <4>2. QED
        BY <3>1, <4>1, SiftingUpSwaps DEF SwapStep
    <3>2. CASE SiftDown
      <4>1. pc = "down" /\ Left(hole) < len
        BY <3>2 DEF SiftDown, InOrder
      <4>2. Child \in 1 .. len - 1 /\ Parent(Child) = hole
        BY <4>1, ChildIsGreater
      <4>3. hole \in 0 .. len - 1
        BY <1>1, <4>2, Parents
      <4>4. QED
        BY <1>1, <3>2, <4>2, <4>3, SiftingDownSwaps DEF SwapStep
    <3>3. QED BY <1>3, <3>1, <3>2
  <2>3. Image(Filled', len) = Image(Filled, len)
    BY <1>1, <2>2, SwapInside, InHeapIsImage, FilledNext
  <2>4. QED
    BY <2>1, <2>3, InHeapIsImage, InHeapStaysImage
<1>4. CASE PopHeap \/ SortStep
  <2>1. /\ len \in 1 .. n /\ len' = len - 1 /\ ~Making /\ ~Making'
        /\ pc \in {"idle", "loop"} /\ Root = 0
    BY <1>1, <1>4 DEF PopHeap, SortStep, PopFrom, SiftFrom, Making, Control, Root
  <2>2. Exchanged(Filled, Filled', 0, len - 1)
    BY <1>4, TakingOutSwaps DEF SwapStep
  <2>3. Image(Filled', len - 1) = Image(Filled, len) \ {Filled[0]}
    BY <1>1, <2>1, <2>2, FirstOut, InHeapIsImage, FilledNext
  <2>4. Queue!Greatest(Filled[0])
    BY <2>1, FrontIsGreatest
  <2>5. Filled[0] \in InHeap /\ InHeap' = InHeap \ {Filled[0]}
    BY <2>1, <2>3, <2>4, InHeapIsImage, InHeapStaysImage DEF Queue!Greatest
  <2>6. QED
    BY <2>4, <2>5 DEF Queue!Extract
<1>5. CASE Displace
  <2>1. /\ len' = len /\ ~Making /\ ~Making' /\ pc = "loop" /\ Root = 0
        /\ i \in len .. n - 1 /\ Filled = a
    BY <1>1, <1>5 DEF Displace, SiftFrom, Making, Control, Root, TypeOK, Filled
  <2>2. Exchanged(Filled, Filled', 0, i)
    BY <1>5, DisplacingSwaps DEF SwapStep
  <2>3. CASE len = 0
    <3>1. Image(Filled, len) = {} /\ Image(Filled', len) = {}
      BY <2>3 DEF Image
    <3>2. QED
      BY <2>1, <3>1, InHeapIsImage, InHeapStaysImage
  <2>4. CASE len > 0
    <3>1. len \in 1 .. n
      BY <1>1, <2>4
    <3>2. /\ Filled[i] \notin Image(Filled, len)
          /\ Image(Filled', len) = (Image(Filled, len) \ {Filled[0]}) \cup {Filled[i]}
      BY <1>1, <2>1, <2>2, <3>1, FirstReplaced, InHeapIsImage, FilledNext
    <3>3. Queue!Greatest(Filled[0])
      BY <2>1, <2>4, FrontIsGreatest
    <3>4. key[Filled[i]] < key[Filled[0]]
      BY <1>5, <2>1 DEF Displace, Displaces, Less
    <3>5. Filled[i] \in Queue!Elements
      BY <1>1, <2>1, InHeapIsImage
    <3>6. Filled[0] \in InHeap /\ Filled[i] \in Queue!Elements \ InHeap
      BY <2>1, <3>2, <3>3, <3>5, InHeapIsImage DEF Queue!Greatest
    <3>7. InHeap' = (InHeap \ {Filled[0]}) \cup {Filled[i]}
      BY <2>1, <3>2, InHeapIsImage, InHeapStaysImage
    <3>8. QED
      BY <3>3, <3>4, <3>6, <3>7 DEF Queue!Replace
  <2>5. QED BY <1>1, <2>3, <2>4
<1>6. CASE PushHeap
  <2>1. len \in 0 .. n - 1 /\ len' = len + 1 /\ ~Making /\ ~Making'
    BY <1>1, <1>6 DEF PushHeap, Making, Control
  <2>2. Filled' = Filled
    BY <1>6, OthersMoveNothing DEF Resting
  <2>3. Filled[len] \notin Image(Filled, len) /\ Image(Filled, len + 1) = Image(Filled, len) \cup {Filled[len]}
    BY <1>1, <2>1, OneMore, InHeapIsImage
  <2>4. Filled[len] \in Queue!Elements
    BY <1>1, <2>1, InHeapIsImage
  <2>5. Filled[len] \in Queue!Elements \ InHeap /\ InHeap' = InHeap \cup {Filled[len]}
    BY <2>1, <2>2, <2>3, <2>4, InHeapIsImage, InHeapStaysImage
  <2>6. QED
    BY <2>5 DEF Queue!Insert
<1>7. CASE MakeHeap \/ (\E m \in 0 .. n : PartialSort(m))
  <2>1. Making'
    BY <1>7 DEF MakeHeap, PartialSort, Make, Making
  <2>2. QED
    BY <2>1, InHeapStaysImage DEF Queue!Clear
<1>8. CASE MakeReturns
  <2>1. Making /\ ~Making' /\ len' = len
    BY <1>8 DEF MakeReturns, Return, Making
  <2>2. Filled' = Filled
    BY <1>8, OthersMoveNothing DEF Resting
  <2>3. InHeap = {} /\ InHeap' = Image(Filled, len)
    BY <2>1, <2>2, InHeapIsImage, InHeapStaysImage
  <2>4. Image(Filled, len) \subseteq Queue!Elements
    BY <1>1, InHeapIsImage DEF Image
  <2>5. QED
    BY <2>3, <2>4 DEF Queue!Fill
<1>9. CASE \/ SettleUp \/ SettleDown \/ MakeStep \/ SortHeap \/ SortReturns \/ ScanReturns
           \/ PassOver \/ UNCHANGED vars
  <2>1. len' = len /\ Making' = Making
    BY <1>9 DEF SettleUp, SettleDown, MakeStep, SortHeap, SortReturns, ScanReturns, PassOver, vars,
                Return, SiftFrom, Making, Control
  <2>2. Filled' = Filled
    BY <1>9, OthersMoveNothing DEF Resting
  <2>3. QED
    BY <2>1, <2>2, InHeapIsImage, InHeapStaysImage
<1>10. QED
  BY <1>3, <1>4, <1>5, <1>6, <1>7, <1>8, <1>9, EveryStepIsOfAKind DEF Resting

\* The heap is a queue that gives out its greatest element: each step of its
\* loops, on ranges of any length, is a step of PriorityQueue or none.
THEOREM ImplementsPriorityQueue == Spec => IsQueue
<1>1. Init => HeapInv /\ Queue!Init
  <2> SUFFICES ASSUME Init PROVE HeapInv /\ Queue!Init OBVIOUS
  <2>1. len = 0 /\ pc = "idle"
    BY DEF Init
  <2>2. QED
    BY <2>1 DEF HeapInv, IsHeap, Queue!Init, InHeap
<1>2. TypeOK /\ Control /\ TypeOK' /\ HeapInv /\ [Next]_vars => HeapInv'
  BY HeapStaysHeap
<1>3. TypeOK /\ Control /\ (TypeOK /\ Control)' /\ HeapInv /\ NothingIsLost /\ [Next]_vars
        => [Queue!Next]_(Queue!queueVars)
  BY StepsAreOfTheQueue
<1>4. QED
  BY <1>1, <1>2, <1>3, TypesAreCorrect, NoElementIsLost, PTL DEF Spec, IsQueue, Queue!Spec
=============================================================================
