--------------------------- MODULE AlgorithmsProofs ---------------------------
(***************************************************************************)
(* What a call of each algorithm leaves and returns, for ranges of every   *)
(* length with any keys, and any lengths, sizes and numbers it is called   *)
(* with.  A lemma named for the algorithm tells what its operator computes *)
(* and a lemma named for the call that this is what the caller was         *)
(* promised; the invariant is that nothing has moved before the call.      *)
(***************************************************************************)
EXTENDS Algorithms, RearrangingProofs

-----------------------------------------------------------------------------
(* sample *)

\* s has names up to b, in their order.
Rises(s, b) ==
    /\ \A k \in 1..Len(s) : s[k] \in 1..b
    /\ \A j, k \in 1..Len(s) : j < k => s[j] < s[k]

\* Names in order up to a bound are so up to a greater,
LEMMA RisesTo ==
    ASSUME NEW s, NEW b \in Int, NEW c \in Int, b <= c, Rises(s, b)
    PROVE  Rises(s, c)
    BY DEF Rises

\* with one more behind the bound,
LEMMA AppendRises ==
    ASSUME NEW s \in Seq(Nat), NEW b \in Nat, NEW e \in Nat, b < e, Rises(s, b)
    PROVE  Rises(Append(s, e), e)
<1> DEFINE v == Append(s, e)
<1>1. /\ Len(v) = Len(s) + 1 /\ v[Len(s) + 1] = e
      /\ \A i \in 1..Len(s) : v[i] = s[i]
    BY AppendIs
<1> HIDE DEF v
<1>2. Len(s) \in Nat /\ Len(v) \in Nat
    BY <1>1
<1>3. ASSUME NEW k \in 1..Len(v)
      PROVE  v[k] \in 1..e /\ (k = Len(v) => v[k] = e)
             /\ (k < Len(v) => v[k] = s[k] /\ k \in 1..Len(s) /\ v[k] < e)
    <2>1. CASE k = Len(v)
        BY <2>1, <1>1
    <2>2. CASE k < Len(v)
        <3>1. k \in 1..Len(s)
            BY <2>2, <1>1, <1>2
        <3>2. v[k] = s[k] /\ s[k] \in 1..b
            BY <3>1, <1>1 DEF Rises
        <3> QED
            BY <3>1, <3>2, <2>2
    <2> QED
        BY <2>1, <2>2, <1>2
<1>4. ASSUME NEW j \in 1..Len(v), NEW k \in 1..Len(v), j < k PROVE v[j] < v[k]
    <2>1. j < Len(v)
        BY <1>4, <1>2
    <2>2. v[j] = s[j] /\ j \in 1..Len(s) /\ v[j] < e
        BY <2>1, <1>3
    <2>3. CASE k = Len(v)
        BY <2>2, <2>3, <1>3
    <2>4. CASE k < Len(v)
        <3>1. v[k] = s[k] /\ k \in 1..Len(s)
            BY <2>4, <1>3
        <3> QED
            BY <3>1, <2>2, <1>4 DEF Rises
    <2> QED
        BY <2>3, <2>4, <1>2
<1>5. Rises(v, e)
    BY <1>3, <1>4 DEF Rises
<1> QED
    BY <1>5 DEF v

\* and with the rest behind it.
LEMMA ConcatRises ==
    ASSUME NEW s \in Seq(Nat), NEW t \in Seq(Nat), NEW c \in Nat, NEW m \in Nat, m = Len(t),
           Rises(s, c), \A k \in 1..m : t[k] = c + k, NEW b, b = c + m
    PROVE  Rises(s \o t, b) /\ s \o t \in Seq(Nat) /\ Len(s \o t) = Len(s) + m
<1> DEFINE v == s \o t
           p == Len(s)
<1>1. /\ v \in Seq(Nat) /\ Len(v) = p + m
      /\ (\A i \in 1..p : v[i] = s[i]) /\ (\A i \in 1..m : v[p + i] = t[i])
    BY ConcatIs
<1>p. p \in Nat
    OBVIOUS
<1> HIDE DEF v, p
<1>2. ASSUME NEW k \in 1..(p + m)
      PROVE  /\ v[k] \in 1..b /\ (k > p => v[k] = c + (k - p))
             /\ (k <= p => v[k] = s[k] /\ v[k] <= c /\ k \in 1..p)
    <2>1. CASE k <= p
        <3>1. k \in 1..p
            BY <2>1, <1>p
        <3>2. v[k] = s[k] /\ s[k] \in 1..c
            BY <3>1, <1>1 DEF Rises, p
        <3> QED
            BY <3>1, <3>2, <2>1, <1>p
    <2>2. CASE k > p
        <3> DEFINE i == k - p
        <3>1. i \in 1..m /\ p + i = k
            BY <2>2, <1>p
        <3>2. v[k] = t[i] /\ t[i] = c + i
            BY <3>1, <1>1
        <3> QED
            BY <3>1, <3>2, <2>2, <1>p
    <2> QED
        BY <2>1, <2>2, <1>p
<1>3. ASSUME NEW j \in 1..(p + m), NEW k \in 1..(p + m), j < k PROVE v[j] < v[k]
    <2>1. CASE k <= p
        <3>1. j <= p /\ j \in 1..p /\ k \in 1..p /\ v[j] = s[j] /\ v[k] = s[k]
            BY <2>1, <1>2, <1>3, <1>p
        <3> QED
            BY <3>1, <1>3 DEF Rises, p
    <2>2. CASE k > p /\ j <= p
        <3>1. v[j] \in 1..b /\ v[j] <= c /\ v[k] = c + (k - p)
            BY <2>2, <1>2
        <3> QED
            BY <3>1, <2>2, <1>p
    <2>3. CASE j > p
        <3>1. v[j] = c + (j - p) /\ v[k] = c + (k - p)
            BY <2>3, <1>2, <1>3, <1>p
        <3> QED
            BY <3>1, <1>3, <1>p
    <2> QED
        BY <2>1, <2>2, <2>3, <1>p
<1>4. Rises(v, b)
    BY <1>1, <1>2, <1>3 DEF Rises
<1> QED
    BY <1>1, <1>4 DEF v, p

\* sample_sized_impl copies as many as asked for, or as there are, in their order.
LEMMA SampleSizedIs ==
    ASSUME NEW n \in Nat, NEW s, s = Named(n), NEW room \in Nat, NEW draws,
           NEW r, r = SampleSized(s, room, draws)
    PROVE  r \in Seq(Nat) /\ Rises(r, n) /\ Len(r) = IF room <= n THEN room ELSE n
<1> DEFINE States == [i : 1..(Len(s) + 1), size : 0..room, out : Seq(Nat)]
           Pop(w) == Len(s) + 1 - w.i
           G == {u \in States : 0 < u.size /\ u.size < Pop(u)}
           Step(w) == IF draws[Pop(w)] < w.size
                      THEN [i |-> w.i + 1, size |-> w.size - 1, out |-> Append(w.out, s[w.i])]
                      ELSE [w EXCEPT !.i = w.i + 1]
           step == [w \in G |-> Step(w)]
           Inv(i, z, o) == /\ Rises(o, i - 1) /\ Len(o) = room - z /\ Len(o) <= i - 1
                           /\ z <= n + 1 - i \/ (i = 1 /\ o = <<>>)
           P == {w \in States : Inv(w.i, w.size, w.out)}
           rank == [w \in P |-> n + 1 - w.i]
           start == [i |-> 1, size |-> room, out |-> <<>>]
           last == Loop(States, step)[start]
<1>0. Len(s) = n /\ s \in Rows(n) /\ \A k \in 1..n : s[k] = k
    BY NamedIs
<1>1. r = IF last.size = 0 THEN last.out ELSE last.out \o SubSeq(s, last.i, Len(s))
    BY DEF SampleSized
<1>e. ASSUME NEW w \in States
      PROVE  /\ w.i \in 1..(n + 1) /\ w.size \in 0..room /\ w.out \in Seq(Nat)
             /\ w = [i |-> w.i, size |-> w.size, out |-> w.out]
    BY <1>0
<1>t. ASSUME NEW i \in 1..(n + 1), NEW z \in 0..room, NEW o \in Seq(Nat)
      PROVE  [i |-> i, size |-> z, out |-> o] \in States
    BY <1>0
<1>p. \A w : /\ w \in G <=> w \in States /\ 0 < w.size /\ w.size < n + 1 - w.i
             /\ w \in P <=> w \in States /\ Inv(w.i, w.size, w.out)
    BY <1>0
<1> HIDE DEF States, G, P
<1>2. start \in P
    <2>1. <<>> \in Seq(Nat) /\ Len(<<>>) = 0 /\ 1 \in 1..(n + 1) /\ room \in 0..room
        OBVIOUS
    <2>2. start \in States
        BY <2>1, <1>t
    <2>3. Inv(1, room, <<>>)
        BY <2>1 DEF Rises
    <2> HIDE DEF Inv
    <2> QED
        BY <2>2, <2>3, <1>p
<1>3. ASSUME NEW w \in G
      PROVE  Step(w) \in States /\ Step(w).i = w.i + 1 /\ (w \in P => Step(w) \in P)
    <2> DEFINE i == w.i
               z == w.size
               o == w.out
    <2>0. w \in States /\ 0 < z /\ z < n + 1 - i
        BY <1>p
    <2>1. /\ i \in 1..(n + 1) /\ z \in 0..room /\ o \in Seq(Nat)
          /\ w = [i |-> i, size |-> z, out |-> o]
        BY <2>0, <1>e
    <2>2. i \in 1..n /\ s[i] = i /\ z \in 1..room
        BY <2>0, <2>1, <1>0
    <2>d. w.i = i /\ w.size = z /\ w.out = o
        OBVIOUS
    <2>3. CASE draws[Pop(w)] < z
        <3> DEFINE v == Append(o, i)
                   u == [i |-> i + 1, size |-> z - 1, out |-> v]
        <3>1. Step(w) = u
            BY <2>2, <2>3
        <3> HIDE DEF i, z, o, Step
        <3>2. v \in Seq(Nat) /\ Len(v) = Len(o) + 1
            BY <2>1, <2>2, AppendIs
        <3>3. ASSUME Inv(i, z, o) PROVE Inv(i + 1, z - 1, v)
            <4>1. i - 1 \in Nat /\ i \in Nat /\ i - 1 < i
                BY <2>2
            <4>2. Rises(v, i)
                BY <2>1, <3>3, <4>1, AppendRises
            <4>3. (i + 1) - 1 = i
                BY <2>2
            <4>l. Len(o) \in Nat
                BY <2>1
            <4> HIDE DEF v
            <4>4. Len(v) = room - (z - 1) /\ Len(v) <= (i + 1) - 1
                BY <3>2, <3>3, <2>1, <2>2, <4>l
            <4>5. z - 1 <= n + 1 - (i + 1)
                BY <2>0, <2>2
            <4> QED
                BY <4>2, <4>3, <4>4, <4>5
        <3> HIDE DEF v
        <3>4. u \in States /\ u.i = i + 1 /\ u.size = z - 1 /\ u.out = v
            <4>1. i + 1 \in 1..(n + 1) /\ z - 1 \in 0..room
                BY <2>2
            <4>2. u \in States
                BY <3>2, <4>1, <1>t
            <4> QED
                BY <4>2
        <3> HIDE DEF u, Inv
        <3> QED
            BY <3>1, <3>3, <3>4, <2>d, <1>p
    <2>4. CASE ~(draws[Pop(w)] < z)
        <3> DEFINE u == [i |-> i + 1, size |-> z, out |-> o]
        <3>1. Step(w) = u
            BY <2>1, <2>4
        <3> HIDE DEF i, z, o, Step
        <3>3. ASSUME Inv(i, z, o) PROVE Inv(i + 1, z, o)
            <4>1. Rises(o, (i + 1) - 1)
                <5>1. i - 1 \in Int /\ (i + 1) - 1 \in Int /\ i - 1 <= (i + 1) - 1
                    BY <2>2
                <5> QED
                    BY <5>1, <3>3, RisesTo
            <4>l. Len(o) \in Nat
                BY <2>1
            <4>2. Len(o) = room - z /\ Len(o) <= (i + 1) - 1 /\ z <= n + 1 - (i + 1)
                BY <3>3, <2>0, <2>2, <4>l
            <4> QED
                BY <4>1, <4>2
        <3>4. u \in States /\ u.i = i + 1 /\ u.size = z /\ u.out = o
            <4>1. i + 1 \in 1..(n + 1)
                BY <2>2
            <4>2. u \in States
                BY <2>1, <4>1, <1>t
            <4> QED
                BY <4>2
        <3> HIDE DEF u, Inv
        <3> QED
            BY <3>1, <3>3, <3>4, <2>d, <1>p
    <2> QED
        BY <2>3, <2>4
<1>4. Descends(States, G, step, P, rank)
    <2>1. G \subseteq States /\ P \subseteq States /\ step \in [G -> States] /\ rank \in [P -> Nat]
        <3> HIDE DEF Step, Inv
        <3> QED
            BY <1>3, <1>p, <1>e
    <2>2. ASSUME NEW v \in P \cap G PROVE step[v] \in P /\ rank[step[v]] < rank[v]
        <3> HIDE DEF Step
        <3>1. step[v] = Step(v) /\ Step(v) \in P /\ Step(v).i = v.i + 1
            BY <1>3
        <3>2. v.i \in Int
            <4>1. v.i \in 1..(n + 1)
                BY <1>p, <1>e
            <4> QED
                BY <4>1
        <3> QED
            BY <3>1, <3>2
    <2> HIDE DEF step, rank
    <2> QED
        BY <2>1, <2>2 DEF Descends
<1>5. last \in P /\ last \notin G
    <2> HIDE DEF start, step, rank
    <2> QED
        BY <1>2, <1>4, LoopLeaves
<1> HIDE DEF last
<1> DEFINE i == last.i
           z == last.size
           o == last.out
<1>6. /\ i \in 1..(n + 1) /\ z \in 0..room /\ o \in Seq(Nat) /\ Inv(i, z, o)
      /\ ~(0 < z /\ z < n + 1 - i)
    <2> HIDE DEF Inv
    <2> QED
        BY <1>5, <1>p, <1>e
<1> HIDE DEF i, z, o
<1>7. r = IF z = 0 THEN o ELSE o \o SubSeq(s, i, n)
    BY <1>1, <1>0 DEF i, z, o
<1>l. Len(o) \in Nat
    BY <1>6
<1>8. CASE z = 0
    <2>1. Rises(o, n)
        <3>1. i - 1 \in Int /\ n \in Int /\ i - 1 <= n
            BY <1>6
        <3> QED
            BY <3>1, <1>6, RisesTo
    <2>2. Len(o) = room /\ room <= n
        BY <1>6, <1>8, <1>l
    <2> QED
        BY <2>1, <2>2, <1>6, <1>7, <1>8
<1>9. CASE z # 0
    <2> DEFINE t == SubSeq(s, i, n)
               m == n - i + 1
               c == i - 1
    <2>0. m \in Nat /\ c \in Nat /\ i \in Int /\ n = c + m
        BY <1>6
    <2>1. t \in Seq(Nat) /\ Len(t) = m /\ \A k \in 1..m : t[k] = s[i + k - 1]
        <3>1. s \in Seq(Nat)
            BY <1>0, RowIsSeq
        <3>2. i \in 1..(Len(s) + 1) /\ n \in 0..Len(s) /\ i <= n + 1
            BY <1>0, <1>6
        <3> QED
            BY <3>1, <3>2, SubSeqIs
    <2>2. \A k \in 1..m : t[k] = c + k
        <3> SUFFICES ASSUME NEW k \in 1..m PROVE t[k] = c + k
            OBVIOUS
        <3>1. i + k - 1 \in 1..n /\ i + k - 1 = c + k
            BY <1>6
        <3> QED
            BY <3>1, <2>1, <1>0
    <2>3. Rises(o, c)
        BY <1>6
    <2> HIDE DEF t, m, c
    <2>a. o \in Seq(Nat)
        BY <1>6
    <2>b. t \in Seq(Nat) /\ m = Len(t)
        BY <2>1
    <2>c. m \in Nat /\ c \in Nat /\ n = c + m
        BY <2>0
    <2>4. Rises(o \o t, n) /\ o \o t \in Seq(Nat) /\ Len(o \o t) = Len(o) + m
        BY <2>a, <2>b, <2>c, <2>2, <2>3, ConcatRises
    <2>5. r = o \o t
        BY <1>7, <1>9 DEF t
    <2>6. Len(o) + m = IF room <= n THEN room ELSE n
        <3>1. z >= n + 1 - i /\ m = n - i + 1
            BY <1>6, <1>9 DEF m
        <3>2. CASE z <= n + 1 - i
            BY <3>1, <3>2, <1>6, <1>l
        <3>3. CASE i = 1 /\ o = <<>>
            <4>1. Len(o) = 0
                BY <3>3
            <4> QED
                BY <3>1, <3>3, <4>1, <1>6
        <3> QED
            BY <3>2, <3>3, <1>6
    <2> QED
        BY <2>4, <2>5, <2>6
<1> QED
    BY <1>8, <1>9

-----------------------------------------------------------------------------
(* unique_copy *)

\* The elements with the keys, named by their places.
ElementsOf(keys, n) == [i \in 1..n |-> [key |-> keys[i], name |-> i]]

\* Where a run of equal keys begins.
Begins(keys, j) == j = 1 \/ keys[j] # keys[j - 1]

\* o has the first element of each run among the first b.
RunsOf(o, keys, b) ==
    /\ o \in Seq(Elems)
    /\ \A k \in 1..Len(o) : o[k].name \in 1..b /\ o[k].key = keys[o[k].name]
    /\ \A j, k \in 1..Len(o) : j < k => o[j].name < o[k].name
    /\ \A j \in 1..b : Begins(keys, j) <=> \E k \in 1..Len(o) : o[k].name = j
    /\ b = 0 => o = <<>>
    /\ b > 0 => Len(o) > 0 /\ o[Len(o)].key = keys[b]

\* One element more.
LEMMA AppendElement ==
    ASSUME NEW s \in Seq(Elems), NEW e \in Elems
    PROVE  /\ Append(s, e) \in Seq(Elems) /\ Len(Append(s, e)) = Len(s) + 1
           /\ Append(s, e)[Len(s) + 1] = e
           /\ \A i \in 1..Len(s) : Append(s, e)[i] = s[i]
    OBVIOUS

\* An element equal to the one before it begins no run;
LEMMA RunGoesOn ==
    ASSUME NEW n \in Nat, NEW keys \in [1..n -> Nat], NEW i \in 1..n, NEW b, b = i - 1,
           NEW o, RunsOf(o, keys, b), b # 0, keys[i] = keys[b]
    PROVE  RunsOf(o, keys, i)
<1>1. b \in Nat /\ i = b + 1 /\ b > 0
    OBVIOUS
<1>2. \A k \in 1..Len(o) : o[k].name \in 1..b
    BY DEF RunsOf
<1>3. \A j \in 1..i : Begins(keys, j) <=> \E k \in 1..Len(o) : o[k].name = j
    <2> SUFFICES ASSUME NEW j \in 1..i
                 PROVE  Begins(keys, j) <=> \E k \in 1..Len(o) : o[k].name = j
        OBVIOUS
    <2>1. CASE j = i
        <3>1. ~Begins(keys, j)
            BY <2>1, <1>1 DEF Begins
        <3>2. ~\E k \in 1..Len(o) : o[k].name = j
            BY <2>1, <1>1, <1>2
        <3> QED
            BY <3>1, <3>2
    <2>2. CASE j # i
        <3>1. j \in 1..b
            BY <2>2, <1>1
        <3> QED
            BY <3>1 DEF RunsOf
    <2> QED
        BY <2>1, <2>2
<1>4. \A k \in 1..Len(o) : o[k].name \in 1..i
    BY <1>1, <1>2
<1> QED
    BY <1>1, <1>3, <1>4 DEF RunsOf

\* another does.
LEMMA RunBegins ==
    ASSUME NEW n \in Nat, NEW keys \in [1..n -> Nat], NEW i \in 1..n, NEW b, b = i - 1,
           NEW o, RunsOf(o, keys, b), b = 0 \/ keys[i] # keys[b],
           NEW e, e = [key |-> keys[i], name |-> i], NEW v, v = Append(o, e)
    PROVE  RunsOf(v, keys, i)
<1>1. b \in Nat /\ i = b + 1
    OBVIOUS
<1>2. e \in Elems /\ e.name = i /\ e.key = keys[i]
    BY DEF Elems
<1>3. /\ o \in Seq(Elems) /\ \A k \in 1..Len(o) : o[k].name \in 1..b /\ o[k].key = keys[o[k].name]
    BY DEF RunsOf
<1>m. Len(o) \in Nat
    BY <1>3
<1>4. /\ v \in Seq(Elems) /\ Len(v) = Len(o) + 1 /\ v[Len(o) + 1] = e
      /\ \A k \in 1..Len(o) : v[k] = o[k]
    BY <1>2, <1>3, AppendElement
<1> DEFINE m == Len(o)
<1>5. \A k \in 1..(m + 1) : (k = m + 1 /\ v[k] = e) \/ (k \in 1..m /\ v[k] = o[k])
    BY <1>4, <1>m
<1>6. \A k \in 1..(m + 1) : v[k].name \in 1..i /\ v[k].key = keys[v[k].name]
    BY <1>1, <1>2, <1>3, <1>5
<1>7. ASSUME NEW j \in 1..(m + 1), NEW k \in 1..(m + 1), j < k PROVE v[j].name < v[k].name
    <2>1. j \in 1..m /\ v[j] = o[j] /\ o[j].name \in 1..b
        BY <1>3, <1>5, <1>7, <1>m
    <2>2. CASE k = m + 1
        BY <2>1, <2>2, <1>1, <1>2, <1>4
    <2>3. CASE k \in 1..m
        BY <2>1, <2>3, <1>4, <1>7 DEF RunsOf
    <2> QED
        BY <2>2, <2>3, <1>5
<1>8. ASSUME NEW j \in 1..i PROVE Begins(keys, j) <=> \E k \in 1..(m + 1) : v[k].name = j
    <2>1. CASE j = i
        <3>1. Begins(keys, j)
            BY <2>1, <1>1 DEF Begins
        <3>2. m + 1 \in 1..(m + 1) /\ v[m + 1].name = j
            BY <2>1, <1>2, <1>4, <1>m
        <3> QED
            BY <3>1, <3>2
    <2>2. CASE j # i
        <3>1. j \in 1..b
            BY <2>2, <1>1
        <3>2. Begins(keys, j) <=> \E k \in 1..m : o[k].name = j
            BY <3>1 DEF RunsOf
        <3>3. (\E k \in 1..m : o[k].name = j) <=> \E k \in 1..(m + 1) : v[k].name = j
            <4>1. ASSUME NEW k \in 1..m, o[k].name = j PROVE k \in 1..(m + 1) /\ v[k].name = j
                BY <4>1, <1>4, <1>m
            <4>2. ASSUME NEW k \in 1..(m + 1), v[k].name = j PROVE k \in 1..m /\ o[k].name = j
                BY <4>2, <2>2, <1>2, <1>5
            <4> QED
                BY <4>1, <4>2
        <3> QED
            BY <3>2, <3>3
    <2> QED
        BY <2>1, <2>2
<1>9. i > 0 /\ i # 0 /\ m + 1 > 0 /\ v[m + 1].key = keys[i]
    BY <1>2, <1>4, <1>m
<1> QED
    BY <1>4, <1>6, <1>7, <1>8, <1>9, SMTT(40) DEF RunsOf

\* unique_copy keeps the first of each run.
LEMMA UniqueCopyIs ==
    ASSUME NEW n \in Nat, NEW keys \in [1..n -> Nat], NEW x, x = ElementsOf(keys, n),
           NEW r, r = UniqueCopy(x)
    PROVE  RunsOf(r, keys, n)
<1> DEFINE States == [i : 1..(Len(x) + 1), out : Seq(Elems)]
           G == {u \in States : u.i <= Len(x)}
           Step(w) == [i |-> w.i + 1,
                       out |-> IF w.out # <<>> /\ w.out[Len(w.out)].key = x[w.i].key THEN w.out
                               ELSE Append(w.out, x[w.i])]
           step == [w \in G |-> Step(w)]
           P == {w \in States : RunsOf(w.out, keys, w.i - 1)}
           rank == [w \in P |-> n + 1 - w.i]
           start == [i |-> 1, out |-> <<>>]
           last == Loop(States, step)[start]
<1>0. Len(x) = n /\ \A k \in 1..n : x[k] = [key |-> keys[k], name |-> k] /\ x[k] \in Elems
                                    /\ x[k].key = keys[k]
    BY DEF ElementsOf, Elems
<1>1. r = last.out
    BY DEF UniqueCopy
<1>e. ASSUME NEW w \in States
      PROVE  w.i \in 1..(n + 1) /\ w.out \in Seq(Elems) /\ w = [i |-> w.i, out |-> w.out]
    BY <1>0
<1>t. ASSUME NEW i \in 1..(n + 1), NEW o \in Seq(Elems)
      PROVE  [i |-> i, out |-> o] \in States
    BY <1>0
<1>p. \A w : /\ w \in G <=> w \in States /\ w.i <= n
             /\ w \in P <=> w \in States /\ RunsOf(w.out, keys, w.i - 1)
    BY <1>0
<1> HIDE DEF States, G, P
<1>2. start \in P
    <2>1. <<>> \in Seq(Elems) /\ Len(<<>>) = 0 /\ 1 \in 1..(n + 1) /\ 1 - 1 = 0
        OBVIOUS
    <2>2. start \in States
        BY <2>1, <1>t
    <2>3. RunsOf(<<>>, keys, 0)
        BY <2>1 DEF RunsOf
    <2> QED
        BY <2>1, <2>2, <2>3, <1>p
<1>3. ASSUME NEW w \in G
      PROVE  Step(w) \in States /\ Step(w).i = w.i + 1 /\ (w \in P => Step(w) \in P)
    <2> DEFINE i == w.i
               o == w.out
               e == x[i]
               more == ~(o # <<>> /\ o[Len(o)].key = e.key)
               v == IF more THEN Append(o, e) ELSE o
               u == [i |-> i + 1, out |-> v]
    <2>0. w \in States /\ i <= n /\ i \in 1..(n + 1) /\ o \in Seq(Elems)
        BY <1>p, <1>e
    <2>1. i \in 1..n /\ e = [key |-> keys[i], name |-> i] /\ e \in Elems /\ e.key = keys[i]
        BY <2>0, <1>0
    <2>2. Step(w) = u
        OBVIOUS
    <2>d. w.i = i /\ w.out = o
        OBVIOUS
    <2> HIDE DEF i, o, e, Step
    <2>3. v \in Seq(Elems)
        BY <2>0, <2>1, AppendElement
    <2>4. ASSUME RunsOf(o, keys, i - 1) PROVE RunsOf(v, keys, i)
        <3> DEFINE b == i - 1
        <3>1. b \in Nat /\ b = i - 1
            BY <2>1
        <3>b. b # 0 => b > 0
            BY <2>1
        <3>2. RunsOf(o, keys, b)
            BY <2>4
        <3> HIDE DEF b, v, more
        <3>5. b # 0 => Len(o) > 0 /\ o[Len(o)].key = keys[b]
            <4>2. b > 0 => Len(o) > 0 /\ o[Len(o)].key = keys[b]
                BY ONLY <3>2 DEF RunsOf
            <4> QED
                BY <3>b, <4>2
        <3>3. CASE more
            <4>1. b = 0 \/ keys[i] # keys[b]
                <5> SUFFICES ASSUME b # 0 PROVE keys[i] # keys[b]
                    OBVIOUS
                <5>1. Len(o) > 0 /\ o[Len(o)].key = keys[b]
                    BY <3>5
                <5>2. o # <<>>
                    BY <5>1
                <5> QED
                    BY <5>1, <5>2, <3>3, <2>1 DEF more
            <4>2. v = Append(o, e)
                BY <3>3 DEF v
            <4> HIDE DEF v, more
            <4> QED
                BY <4>1, <4>2, <3>1, <3>2, <2>1, RunBegins
        <3>4. CASE ~more
            <4>1. b # 0
                BY <3>4, <3>2 DEF RunsOf, more
            <4>2. o[Len(o)].key = keys[b]
                BY <4>1, <3>5
            <4>3. keys[i] = keys[b] /\ v = o
                BY <4>2, <3>4, <2>1 DEF v, more
            <4> HIDE DEF v, more
            <4> QED
                BY <4>1, <4>3, <3>1, <3>2, <2>1, RunGoesOn
        <3> HIDE DEF more
        <3> QED
            BY <3>3, <3>4
    <2> HIDE DEF v
    <2>5. u \in States /\ u.i = i + 1 /\ u.out = v /\ (i + 1) - 1 = i
        <3>1. i + 1 \in 1..(n + 1) /\ (i + 1) - 1 = i
            BY <2>1
        <3> QED
            BY <3>1, <2>3, <1>t
    <2> HIDE DEF u
    <2> QED
        BY <2>2, <2>4, <2>5, <2>d, <1>p
<1>4. Descends(States, G, step, P, rank)
    <2>1. G \subseteq States /\ P \subseteq States /\ step \in [G -> States] /\ rank \in [P -> Nat]
        <3> HIDE DEF Step
        <3> QED
            BY <1>3, <1>p, <1>e
    <2>2. ASSUME NEW v \in P \cap G PROVE step[v] \in P /\ rank[step[v]] < rank[v]
        <3> HIDE DEF Step
        <3>1. step[v] = Step(v) /\ Step(v) \in P /\ Step(v).i = v.i + 1
            BY <1>3
        <3>2. v.i \in Int
            <4>1. v.i \in 1..(n + 1)
                BY <1>p, <1>e
            <4> QED
                BY <4>1
        <3> QED
            BY <3>1, <3>2
    <2> HIDE DEF step, rank
    <2> QED
        BY <2>1, <2>2 DEF Descends
<1>5. last \in P /\ last \notin G
    <2> HIDE DEF start, step, rank
    <2> QED
        BY <1>2, <1>4, LoopLeaves
<1> HIDE DEF last
<1>6. last.i \in 1..(n + 1) /\ RunsOf(last.out, keys, last.i - 1) /\ ~(last.i <= n)
    BY <1>5, <1>p, <1>e
<1>7. last.i - 1 = n
    BY <1>6
<1> QED
    BY <1>1, <1>6, <1>7

-----------------------------------------------------------------------------
(* The striding action *)

\* Between two multiples there is none.
LEMMA NextMultiple ==
    ASSUME NEW m \in Nat \ {0}, NEW q \in Nat, q % m = 0, NEW d \in Nat, q < d, d <= q + m
    PROVE  d % m = 0 <=> d = q + m
<1> DEFINE e == q + m
           r == d % m
<1>0. m \in Int /\ 0 \in Int /\ q \in Int /\ d \in Int /\ e \in Int /\ e = q + m
    OBVIOUS
<1>1. r \in 0..(m - 1) /\ \E z \in Int : r = d - z * m
    BY Remainder
<1>2. Congruent(d, r, m)
    <2>1. PICK z \in Int : r = d - z * m
        BY <1>1
    <2>2. d = r + z * m /\ r \in Int
        BY <2>1, <1>1
    <2> QED
        BY <2>2 DEF Congruent
<1>3. Congruent(e, 0, m)
    <2>1. PICK x \in Int : q % m = q - x * m
        BY Remainder
    <2>2. q = x * m
        BY <2>1
    <2>3. e = 0 + (x + 1) * m /\ x + 1 \in Int
        BY <2>2
    <2> QED
        BY <2>3 DEF Congruent
<1> HIDE DEF e, r
<1>r. r \in Int
    BY <1>1
<1>4. ASSUME r = 0 PROVE d = e
    <2>1. Congruent(0, e, m)
        BY <1>0, <1>3, CongruentSym
    <2>2. Congruent(d, 0, m)
        BY <1>2, <1>4
    <2>3. Congruent(d, e, m)
        BY <1>0, <2>1, <2>2, CongruentTrans
    <2>4. d - e < m /\ e - d < m
        BY <1>0
    <2> QED
        BY <1>0, <2>3, <2>4, CongruentNear
<1>5. ASSUME d = e PROVE r = 0
    <2>1. Congruent(r, d, m)
        BY <1>0, <1>r, <1>2, CongruentSym
    <2>2. Congruent(d, 0, m)
        BY <1>3, <1>5
    <2>3. Congruent(r, 0, m)
        BY <1>0, <1>r, <2>1, <2>2, CongruentTrans
    <2>4. r - 0 < m /\ 0 - r < m
        BY <1>1
    <2> QED
        BY <1>0, <1>r, <2>3, <2>4, CongruentNear
<1> QED
    BY <1>4, <1>5 DEF e, r

\* The first a - 1 places of x have the elements that are multiples of step
\* behind the first, those up to b, and from b on nothing has been touched.
Strides(x, to, b, step, n) ==
    /\ \A k \in 1..(to - 1) : x[k] \in 1..(b - 1) /\ x[k] <= n /\ (x[k] - 1) % step = 0
    /\ \A j, k \in 1..(to - 1) : j < k => x[j] < x[k]
    /\ \A j \in 1..(b - 1) : (j - 1) % step = 0 => \E k \in 1..(to - 1) : x[k] = j
    /\ \A j \in b..n : x[j] = j
    /\ b <= n => to < b /\ (b - 1) % step = 0

\* min of two numbers.
LEMMA LesserOf ==
    ASSUME NEW x \in Nat, NEW y \in Nat
    PROVE  Min({x, y}) = IF x <= y THEN x ELSE y
<1>1. {x, y} \in SUBSET Nat /\ {x, y} # {}
    OBVIOUS
<1>2. Min({x, y}) \in {x, y} /\ Min({x, y}) <= x /\ Min({x, y}) <= y
    BY <1>1, MinIs
<1> QED
    BY <1>2

\* One step of the stride: the next multiple is moved to the front.
LEMMA StridesOn ==
    ASSUME NEW n \in Nat, NEW step \in Nat \ 0..1, NEW x \in Rows(n), NEW to \in 2..(n + 1),
           NEW b \in 2..n, to <= b, Strides(x, to, b, step, n),
           NEW q, q = Move(x, to, b), NEW c, c = to + 1, NEW d, d = Min({b + step, n + 1})
    PROVE  q \in Rows(n) /\ c \in 2..(n + 1) /\ d \in 2..(n + 1) /\ c <= d /\ d > b
           /\ Strides(q, c, d, step, n)
<1>1. to < b /\ (b - 1) % step = 0 /\ b \in 1..n /\ to \in 1..n /\ to # b
    BY DEF Strides
<1>2. /\ q \in Rows(n) /\ q[to] = x[b] /\ x[b] = b
      /\ \A k \in 1..n : k # to /\ k # b => q[k] = x[k]
    <2>1. /\ Move(x, to, b) \in Rows(n) /\ Move(x, to, b)[to] = x[b]
          /\ \A k \in 1..n : k # to /\ k # b => Move(x, to, b)[k] = x[k]
        <3>1. to \in 1..n /\ b \in 1..n /\ b # to /\ x \in Rows(n)
            BY <1>1
        <3> QED
            BY <3>1, MoveType
    <2>2. x[b] = b
        BY DEF Strides
    <2> QED
        BY <2>1, <2>2
<1>3. d = IF b + step <= n + 1 THEN b + step ELSE n + 1
    <2>1. b + step \in Nat /\ n + 1 \in Nat
        OBVIOUS
    <2> QED
        BY <2>1, LesserOf
<1>4. d \in 2..(n + 1) /\ c \in 2..(n + 1) /\ d > b /\ c <= d /\ d <= b + step /\ (d <= n => d = b + step)
    BY <1>1, <1>3
<1>5. c - 1 = to /\ b - 1 \in Nat /\ step \in Nat \ {0} /\ d - 1 >= b
    BY <1>4
<1>6. \A k \in 1..to : (k = to /\ q[k] = b) \/ (k \in 1..(to - 1) /\ q[k] = x[k])
    <2> SUFFICES ASSUME NEW k \in 1..to, k # to PROVE k \in 1..(to - 1) /\ q[k] = x[k]
        BY <1>2
    <2>1. k \in 1..n /\ k # b /\ k \in 1..(to - 1)
        BY <1>1
    <2> QED
        BY <2>1, <1>2
<1>7. \A k \in 1..(to - 1) : x[k] \in 1..(b - 1) /\ x[k] <= n /\ (x[k] - 1) % step = 0
    BY DEF Strides
<1>8. ASSUME NEW k \in 1..to PROVE q[k] \in 1..(d - 1) /\ q[k] <= n /\ (q[k] - 1) % step = 0
    <2>1. CASE k = to
        BY <2>1, <1>1, <1>2, <1>4
    <2>2. CASE k \in 1..(to - 1)
        <3>1. q[k] = x[k]
            BY <2>2, <1>6
        <3>2. x[k] \in 1..(b - 1) /\ x[k] <= n /\ (x[k] - 1) % step = 0
            BY <2>2, <1>7
        <3>3. x[k] \in 1..(d - 1)
            BY <3>2, <1>4
        <3> QED
            BY <3>1, <3>2, <3>3
    <2> QED
        BY <2>1, <2>2, <1>6
<1>9. ASSUME NEW j \in 1..to, NEW k \in 1..to, j < k PROVE q[j] < q[k]
    <2>1. j \in 1..(to - 1) /\ q[j] = x[j] /\ x[j] \in 1..(b - 1)
        BY <1>6, <1>7, <1>9
    <2>2. CASE k = to
        BY <2>1, <2>2, <1>2
    <2>3. CASE k \in 1..(to - 1)
        <3>1. q[k] = x[k]
            BY <2>3, <1>6
        <3> QED
            BY <3>1, <2>1, <2>3, <1>9 DEF Strides
    <2> QED
        BY <2>2, <2>3, <1>6
<1>10. ASSUME NEW j \in 1..(d - 1), (j - 1) % step = 0 PROVE \E k \in 1..to : q[k] = j
    <2>1. CASE j < b
        <3>1. j \in 1..(b - 1)
            BY <2>1
        <3>2. PICK k \in 1..(to - 1) : x[k] = j
            BY <3>1, <1>10 DEF Strides
        <3>3. k \in 1..to /\ k # to
            OBVIOUS
        <3> QED
            BY <3>2, <3>3, <1>6
    <2>2. CASE j = b
        BY <2>2, <1>2, <1>1
    <2>3. CASE j > b
        <3> DEFINE y == b - 1
                   z == j - 1
        <3>1. y \in Nat /\ z \in Nat /\ y < z /\ z <= y + step /\ z # y + step /\ y % step = 0
            BY <2>3, <1>1, <1>4
        <3> HIDE DEF y, z
        <3>2. z % step # 0
            BY <3>1, <1>5, NextMultiple
        <3> QED
            BY <3>2, <1>10 DEF z
    <2> QED
        BY <2>1, <2>2, <2>3, <1>4
<1>11. \A j \in d..n : q[j] = j
    <2> SUFFICES ASSUME NEW j \in d..n PROVE q[j] = j
        OBVIOUS
    <2>1. j \in 1..n /\ j # to /\ j # b /\ j \in b..n
        BY <1>1, <1>4
    <2> QED
        BY <2>1, <1>2 DEF Strides
<1>12. ASSUME d <= n PROVE c < d /\ (d - 1) % step = 0
    <2>1. d = b + step /\ c < d
        BY <1>12, <1>1, <1>4
    <2> DEFINE y == b - 1
               z == d - 1
    <2>2. y \in Nat /\ z \in Nat /\ y < z /\ z <= y + step /\ z = y + step /\ y % step = 0
        BY <2>1, <1>1
    <2> HIDE DEF y, z
    <2>3. z % step = 0
        BY <2>2, <1>5, NextMultiple
    <2> QED
        BY <2>1, <2>3 DEF z
<1>13. Strides(q, c, d, step, n)
    BY <1>5, <1>8, <1>9, <1>10, <1>11, <1>12 DEF Strides
<1> QED
    BY <1>2, <1>4, <1>13

\* The first element is where it should be.
LEMMA StridesBegin ==
    ASSUME NEW n \in Nat \ {0}, NEW step \in Nat \ 0..1, NEW s, s = Named(n),
           NEW b, b = Min({1 + step, n + 1})
    PROVE  2 \in 2..(n + 1) /\ b \in 2..(n + 1) /\ 2 <= b /\ Strides(s, 2, b, step, n)
<1>0. \A j \in 1..n : s[j] = j
    BY NamedIs
<1>1. b = IF 1 + step <= n + 1 THEN 1 + step ELSE n + 1
    <2>1. 1 + step \in Nat /\ n + 1 \in Nat
        OBVIOUS
    <2> QED
        BY <2>1, LesserOf
<1>2. b \in 2..(n + 1) /\ 2 <= b /\ b <= 1 + step /\ (b <= n => b = 1 + step)
    BY <1>1
<1>z. 0 % step = 0 /\ step % step = 0
    <2>1. 0 % step = 0
        BY Z3
    <2>2. 0 \in Nat /\ step \in Nat /\ step \in Nat \ {0} /\ 0 < step /\ step <= 0 + step /\ step = 0 + step
        OBVIOUS
    <2> QED
        BY <2>1, <2>2, NextMultiple
<1>3. ASSUME NEW k \in 1..(2 - 1)
      PROVE  s[k] \in 1..(b - 1) /\ s[k] <= n /\ (s[k] - 1) % step = 0 /\ k = 1 /\ s[k] = 1
    <2>1. k = 1 /\ s[k] = 1
        BY <1>0
    <2>2. 1 \in 1..(b - 1) /\ 1 - 1 = 0
        BY <1>2
    <2> QED
        BY <2>1, <2>2, <1>z
<1>4. ASSUME NEW j \in 1..(b - 1), (j - 1) % step = 0 PROVE \E k \in 1..(2 - 1) : s[k] = j
    <2>1. CASE j = 1
        BY <2>1, <1>0
    <2>2. CASE j # 1
        <3> DEFINE z == j - 1
        <3>1. 0 \in Nat /\ z \in Nat /\ 0 < z /\ z <= 0 + step /\ z # 0 + step
            BY <2>2, <1>2
        <3> HIDE DEF z
        <3>2. step \in Nat \ {0}
            OBVIOUS
        <3>3. z % step # 0
            BY <3>1, <3>2, <1>z, NextMultiple
        <3> QED
            BY <3>3, <1>4 DEF z
    <2> QED
        BY <2>1, <2>2
<1>5. \A j \in b..n : s[j] = j
    BY <1>0, <1>2
<1>6. ASSUME b <= n PROVE 2 < b /\ (b - 1) % step = 0
    <2>1. b = 1 + step /\ b - 1 = step
        BY <1>6, <1>2
    <2> QED
        BY <2>1, <1>z
<1>7. \A j, k \in 1..(2 - 1) : j < k => s[j] < s[k]
    OBVIOUS
<1>8. Strides(s, 2, b, step, n)
    BY <1>3, <1>4, <1>5, <1>6, <1>7 DEF Strides
<1> QED
    BY <1>2, <1>8

\* stride takes the element at i.
OnStride(i, step) == (i - 1) % step = 0

\* r has the elements stride takes of n, in their order.
Strode(r, n, step) ==
    /\ r \in Seq(Nat) /\ Rises(r, n)
    /\ \A i \in 1..n : OnStride(i, step) <=> \E k \in 1..Len(r) : r[k] = i

\* The striding action leaves every step-th element.
LEMMA StrideIs ==
    ASSUME NEW n \in Nat, NEW step \in Nat \ {0}, NEW s, s = Named(n), NEW r, r = Stride(s, step)
    PROVE  Strode(r, n, step)
<1>0. Len(s) = n /\ s \in Rows(n) /\ s \in Seq(Nat) /\ \A k \in 1..n : s[k] = k
    BY NamedIs, RowIsSeq
<1>1. CASE step = 1 \/ n = 0
    <2>1. step = 1 \/ s = <<>>
        <3>1. CASE n = 0
            <4>1. Len(s) = 0
                BY <1>0, <3>1
            <4> QED
                BY <4>1, <1>0
        <3> QED
            BY <3>1, <1>1
    <2>2. r = s
        BY <2>1 DEF Stride
    <2>3. Rises(s, n)
        BY <1>0 DEF Rises
    <2>4. \A i \in 1..n : (i - 1) % step = 0
        <3>1. CASE step = 1
            <4>1. \A i \in Nat : i % 1 = 0
                BY Z3
            <4> QED
                BY <3>1, <4>1
        <3> QED
            BY <3>1, <1>1
    <2> QED
        BY <2>2, <2>3, <2>4, <1>0 DEF OnStride, Strode
<1>2. CASE step # 1 /\ n # 0
    <2> DEFINE Nxt(i) == Min({i + step, Len(s) + 1})
               States == {w \in [range : Ranges(s), first : 2..(Len(s) + 1), i : 2..(Len(s) + 1)] :
                              w.first <= w.i}
               G == {u \in States : u.i <= Len(s)}
               Step(w) == [range |-> Move(w.range, w.first, w.i), first |-> w.first + 1, i |-> Nxt(w.i)]
               move == [w \in G |-> Step(w)]
               begin == Nxt(1)
               start == [range |-> s, first |-> 2, i |-> begin]
               last == Loop(States, move)[start]
               P == {w \in States : Strides(w.range, w.first, w.i, step, n)}
               rank == [w \in P |-> n + 1 - w.i]
    <2>1. r = SubSeq(last.range, 1, last.first - 1)
        <3>1. ~(step = 1 \/ s = <<>>)
            BY <1>2, <1>0
        <3> QED
            BY <3>1 DEF Stride
    <2>e. ASSUME NEW w \in States
          PROVE  /\ w.range \in Rows(n) /\ w.first \in 2..(n + 1) /\ w.i \in 2..(n + 1) /\ w.first <= w.i
                 /\ w = [range |-> w.range, first |-> w.first, i |-> w.i]
        BY <1>0, RowIsSeq DEF Rows, Ranges
    <2>t. ASSUME NEW x \in Rows(n), NEW c \in 2..(n + 1), NEW d \in 2..(n + 1), c <= d
          PROVE  [range |-> x, first |-> c, i |-> d] \in States
        <3>1. DOMAIN s = 1..n
            BY <1>0, RowIsSeq
        <3> QED
            BY <3>1, <1>0, <2>t DEF Rows, Ranges
    <2>p. \A w : /\ w \in G <=> w \in States /\ w.i <= n
                 /\ w \in P <=> w \in States /\ Strides(w.range, w.first, w.i, step, n)
        BY <1>0
    <2>n. \A i : Nxt(i) = Min({i + step, n + 1})
        BY <1>0
    <2> HIDE DEF States, G, P, Nxt
    <2>s. step \in Nat \ 0..1 /\ n \in Nat \ {0}
        BY <1>2
    <2>2. start \in P
        <3>1. begin = Min({1 + step, n + 1})
            BY <2>n
        <3> HIDE DEF begin
        <3>2. /\ 2 \in 2..(n + 1) /\ begin \in 2..(n + 1) /\ 2 <= begin
              /\ Strides(s, 2, begin, step, n)
            BY <3>1, <2>s, StridesBegin
        <3>3. start \in States
            BY <3>2, <1>0, <2>t
        <3> QED
            BY <3>2, <3>3, <2>p
    <2>3. ASSUME NEW w \in P, w \in G
          PROVE  Step(w) \in P /\ Step(w).i > w.i
        <3> DEFINE x == w.range
                   c == w.first
                   b == w.i
                   q == Move(x, c, b)
                   e == c + 1
                   d == Nxt(b)
                   u == [range |-> q, first |-> e, i |-> d]
        <3>0. Step(w) = u
            OBVIOUS
        <3>1. /\ x \in Rows(n) /\ c \in 2..(n + 1) /\ b \in 2..n /\ c <= b
              /\ Strides(x, c, b, step, n)
            BY <2>3, <2>e, <2>p
        <3>2. d = Min({b + step, n + 1}) /\ e = c + 1 /\ q = Move(x, c, b) /\ b = w.i
            BY <2>n
        <3> HIDE DEF x, c, b, q, e, d, Step
        <3>3. /\ q \in Rows(n) /\ e \in 2..(n + 1) /\ d \in 2..(n + 1) /\ e <= d /\ d > b
              /\ Strides(q, e, d, step, n)
            BY <3>1, <3>2, <2>s, StridesOn
        <3>4. u \in States /\ u.range = q /\ u.first = e /\ u.i = d
            BY <3>3, <2>t
        <3> HIDE DEF u
        <3> QED
            BY <3>0, <3>2, <3>3, <3>4, <2>p
    <2>4. Descends(States, G, move, P, rank)
        <3>1. G \subseteq States /\ P \subseteq States /\ rank \in [P -> Nat]
            BY <2>p, <2>e
        <3>2. ASSUME NEW v \in P \cap G PROVE move[v] \in P /\ rank[move[v]] < rank[v]
            <4> HIDE DEF Step
            <4>1. move[v] = Step(v) /\ Step(v) \in P /\ Step(v).i > v.i
                BY <2>3
            <4>2. v.i \in Int /\ Step(v).i \in Int
                <5>1. v.i \in 2..(n + 1) /\ Step(v).i \in 2..(n + 1)
                    BY <4>1, <2>p, <2>e
                <5> QED
                    BY <5>1
            <4> QED
                BY <4>1, <4>2
        <3>3. move \in [G -> States]
            <4> SUFFICES ASSUME NEW w \in G PROVE Step(w) \in States
                OBVIOUS
            <4> DEFINE x == w.range
                       c == w.first
                       b == w.i
                       q == Move(x, c, b)
                       d == Nxt(b)
            <4>1. x \in Rows(n) /\ c \in 2..n /\ b \in 2..n /\ c <= b
                BY <2>p, <2>e
            <4>2. q \in Rows(n)
                <5>1. c \in 1..n /\ b \in 1..n
                    BY <4>1
                <5> HIDE DEF x, c, b
                <5>2. CASE c # b
                    BY <5>1, <5>2, <4>1, MoveType
                <5>3. CASE c = b
                    BY <5>1, <5>3, <4>1 DEF Move, Rows, Hole
                <5> QED
                    BY <5>2, <5>3
            <4>3. d \in 2..(n + 1) /\ c + 1 <= d /\ c + 1 \in 2..(n + 1)
                <5>1. d = Min({b + step, n + 1}) /\ b + step \in Nat /\ n + 1 \in Nat
                    BY <2>n, <4>1
                <5>2. d = IF b + step <= n + 1 THEN b + step ELSE n + 1
                    BY <5>1, LesserOf
                <5> HIDE DEF c, b, d
                <5> QED
                    BY <5>2, <4>1, <2>s
            <4> HIDE DEF q, d
            <4> QED
                BY <4>2, <4>3, <2>t DEF q, d
        <3> HIDE DEF move, rank
        <3> QED
            BY <3>1, <3>2, <3>3 DEF Descends
    <2>5. last \in P /\ last \notin G
        <3> HIDE DEF start, move, rank
        <3> QED
            BY <2>2, <2>4, LoopLeaves
    <2> HIDE DEF last
    <2> DEFINE x == last.range
               c == last.first
               m == c - 1
    <2>6. /\ x \in Rows(n) /\ c \in 2..(n + 1) /\ last.i = n + 1
          /\ Strides(x, c, last.i, step, n)
        <3>1. last.i \in 2..(n + 1) /\ ~(last.i <= n)
            BY <2>5, <2>e, <2>p
        <3> QED
            BY <3>1, <2>5, <2>e, <2>p
    <2> HIDE DEF x, c
    <2>7. m \in 1..n
        BY <2>6
    <2>8. r \in Seq(Nat) /\ Len(r) = m /\ \A k \in 1..m : r[k] = x[k]
        <3>1. x \in Seq(Nat) /\ Len(x) = n
            BY <2>6, RowIsSeq
        <3>2. 1 \in 1..(Len(x) + 1) /\ m \in 0..Len(x) /\ 1 <= m + 1 /\ m - 1 + 1 = m
            BY <2>7, <3>1
        <3>3. r = SubSeq(x, 1, m)
            BY <2>1 DEF x, c
        <3> HIDE DEF m
        <3>4. r \in Seq(Nat) /\ Len(r) = m /\ \A k \in 1..m : r[k] = x[1 + k - 1]
            BY <3>1, <3>2, <3>3, SubSeqIs
        <3>5. \A k \in 1..m : 1 + k - 1 = k
            BY <2>7
        <3> QED
            BY <3>4, <3>5
    <2> DEFINE l == last.i
    <2>9. /\ \A k \in 1..m : x[k] \in 1..(l - 1) /\ x[k] <= n /\ (x[k] - 1) % step = 0
          /\ \A j, k \in 1..m : j < k => x[j] < x[k]
          /\ \A j \in 1..(l - 1) : (j - 1) % step = 0 => \E k \in 1..m : x[k] = j
        BY <2>6 DEF Strides
    <2>l. l - 1 = n
        BY <2>6
    <2>a. \A k \in 1..m : x[k] \in 1..n /\ (x[k] - 1) % step = 0
        BY <2>9, <2>l
    <2>b. \A j, k \in 1..m : j < k => x[j] < x[k]
        BY <2>9
    <2>c. \A j \in 1..n : (j - 1) % step = 0 => \E k \in 1..m : x[k] = j
        BY <2>9, <2>l
    <2> HIDE DEF m, l
    <2>10. Rises(r, n)
        <3>1. \A k \in 1..Len(r) : r[k] \in 1..n
            BY <2>8, <2>a
        <3>2. \A j, k \in 1..Len(r) : j < k => r[j] < r[k]
            BY <2>8, <2>b
        <3> QED
            BY <3>1, <3>2 DEF Rises
    <2>11. \A i \in 1..n : (i - 1) % step = 0 <=> \E k \in 1..m : r[k] = i
        <3>1. ASSUME NEW i \in 1..n, NEW k \in 1..m, r[k] = i PROVE (i - 1) % step = 0
            BY <3>1, <2>8, <2>a
        <3>2. ASSUME NEW i \in 1..n, (i - 1) % step = 0 PROVE \E k \in 1..m : r[k] = i
            BY <3>2, <2>8, <2>c
        <3> QED
            BY <3>1, <3>2
    <2> QED
        BY <2>8, <2>10, <2>11 DEF OnStride, Strode
<1> QED
    BY <1>1, <1>2

-----------------------------------------------------------------------------
(* Partition points *)

\* Of the positions f..l-1 those before c are in S.
CutAt(S, f, l, c) ==
    /\ f \in Nat /\ l \in Nat /\ c \in f..l
    /\ \A k \in f..(l - 1) : k \in S <=> k < c

\* The partition point is that of every part around it.
LEMMA CutOfPart ==
    ASSUME NEW S, NEW f, NEW l, NEW c, CutAt(S, f, l, c),
           NEW i \in Nat, NEW j \in Nat, f <= i, i <= c, c <= j, j <= l
    PROVE  CutAt(S, i, j, c)
<1>1. f \in Nat /\ l \in Nat /\ c \in f..l
    BY DEF CutAt
<1>2. \A k \in i..(j - 1) : k \in f..(l - 1)
    BY <1>1
<1>3. c \in i..j
    BY <1>1
<1> QED
    BY <1>2, <1>3 DEF CutAt

\* By halves partition_point finds the cut.
LEMMA PartitionPointNIs ==
    ASSUME NEW f \in Nat, NEW n \in Nat, NEW S, NEW l, l = f + n, NEW c, CutAt(S, f, l, c)
    PROVE  PartitionPointN(f, n, S) = c
<1> DEFINE States == {v \in [f : Nat, n : 0..n] : v.f \in f..(f + n) /\ v.f + v.n <= f + n}
           G == {u \in States : u.n > 0}
           Half(v) == v.n \div 2
           Step(v) == IF v.f + Half(v) \in S THEN [f |-> v.f + Half(v) + 1, n |-> v.n - (Half(v) + 1)]
                      ELSE [f |-> v.f, n |-> Half(v)]
           step == [v \in G |-> Step(v)]
           P == {v \in States : v.f <= c /\ c <= v.f + v.n}
           rank == [v \in P |-> v.n]
           start == [f |-> f, n |-> n]
           last == Loop(States, step)[start]
<1>0. c \in f..l /\ \A k \in f..(l - 1) : k \in S <=> k < c
    BY DEF CutAt
<1>1. PartitionPointN(f, n, S) = last.f
    BY DEF PartitionPointN
<1>e. ASSUME NEW v \in States
      PROVE  v.f \in f..(f + n) /\ v.n \in 0..n /\ v.f + v.n <= f + n /\ v = [f |-> v.f, n |-> v.n]
    OBVIOUS
<1>t. ASSUME NEW x \in f..(f + n), NEW y \in 0..n, x + y <= f + n
      PROVE  [f |-> x, n |-> y] \in States
    BY <1>t
<1>p. \A v : /\ v \in G <=> v \in States /\ v.n > 0
             /\ v \in P <=> v \in States /\ v.f <= c /\ c <= v.f + v.n
    OBVIOUS
<1> HIDE DEF States, G, P
<1>2. start \in P
    <2>1. f \in f..(f + n) /\ n \in 0..n /\ f + n <= f + n
        OBVIOUS
    <2>2. start \in States
        BY <2>1, <1>t
    <2> QED
        BY <2>2, <1>0, <1>p
<1>3. ASSUME NEW v \in G
      PROVE  Step(v) \in States /\ Step(v).n < v.n /\ (v \in P => Step(v) \in P)
    <2> DEFINE x == v.f
               y == v.n
               h == Half(v)
    <2>1. x \in f..(f + n) /\ y \in 1..n /\ x + y <= f + n
        BY <1>p, <1>e
    <2>h. h = y \div 2
        OBVIOUS
    <2>d. v.f = x /\ v.n = y
        OBVIOUS
    <2>s. Step(v) = IF x + h \in S THEN [f |-> x + h + 1, n |-> y - (h + 1)] ELSE [f |-> x, n |-> h]
        OBVIOUS
    <2> HIDE DEF x, y, h, Step
    <2>2. h \in 0..(y - 1)
        BY <2>1, <2>h
    <2>3. x + h \in f..(l - 1)
        BY <2>1, <2>2
    <2>4. CASE x + h \in S
        <3> DEFINE u == [f |-> x + h + 1, n |-> y - (h + 1)]
        <3>1. x + h + 1 \in f..(f + n) /\ y - (h + 1) \in 0..n /\ (x + h + 1) + (y - (h + 1)) <= f + n
            BY <2>1, <2>2
        <3>2. u \in States /\ u.f = x + h + 1 /\ u.n = y - (h + 1)
            BY <3>1, <1>t
        <3>3. x + h < c
            BY <2>3, <2>4, <1>0
        <3>4. y - (h + 1) < y /\ (x <= c /\ c <= x + y => x + h + 1 <= c /\ c <= (x + h + 1) + (y - (h + 1)))
            BY <3>3, <2>1, <2>2, <1>0
        <3>5. Step(v) = u
            BY <2>4, <2>s
        <3> HIDE DEF u
        <3> QED
            BY <3>2, <3>4, <3>5, <2>d, <1>p
    <2>5. CASE x + h \notin S
        <3> DEFINE u == [f |-> x, n |-> h]
        <3>1. h \in 0..n /\ x + h <= f + n /\ h < y
            BY <2>1, <2>2
        <3>2. u \in States /\ u.f = x /\ u.n = h
            BY <3>1, <2>1, <1>t
        <3>3. c <= x + h
            BY <2>1, <2>2, <2>3, <2>5, <1>0
        <3>5. Step(v) = u
            BY <2>5, <2>s
        <3> HIDE DEF u
        <3> QED
            BY <3>1, <3>2, <3>3, <3>5, <2>d, <1>p
    <2> QED
        BY <2>4, <2>5
<1>4. Descends(States, G, step, P, rank)
    <2>1. G \subseteq States /\ P \subseteq States /\ step \in [G -> States]
        <3> HIDE DEF Step
        <3> QED
            BY <1>3, <1>p
    <2>3. rank \in [P -> Nat]
        <3>1. ASSUME NEW v \in P PROVE v.n \in Nat
            BY <1>p, <1>e
        <3> QED
            BY <3>1
    <2>2. ASSUME NEW v \in P \cap G PROVE step[v] \in P /\ rank[step[v]] < rank[v]
        <3> HIDE DEF Step
        <3>1. step[v] = Step(v) /\ Step(v) \in P /\ Step(v).n < v.n
            BY <1>3
        <3> QED
            BY <3>1
    <2> HIDE DEF step, rank
    <2> QED
        BY <2>1, <2>2, <2>3 DEF Descends
<1>5. last \in P /\ last \notin G
    <2> HIDE DEF start, step, rank
    <2> QED
        BY <1>2, <1>4, LoopLeaves
<1> HIDE DEF last
<1>6. last.f \in Nat /\ last.n = 0 /\ last.f <= c /\ c <= last.f + last.n
    BY <1>5, <1>p, <1>e
<1> QED
    BY <1>0, <1>1, <1>6

\* With probes too.
LEMMA ProbeIs ==
    ASSUME NEW f \in Nat, NEW l \in Nat, NEW S, NEW c, CutAt(S, f, l, c)
    PROVE  Probe(f, 1, l, S) = c
<1> DEFINE States == [f : f..l, n : Nat \ {0}]
           Middle(v) == Min({v.f + v.n, l})
           G == {u \in States : Middle(u) # l /\ Middle(u) \in S}
           Step(v) == [f |-> Middle(v), n |-> 2 * v.n]
           step == [v \in G |-> Step(v)]
           P == {v \in States : v.f <= c}
           rank == [v \in P |-> l - v.f]
           start == [f |-> f, n |-> 1]
           last == Loop(States, step)[start]
<1>0. c \in f..l /\ f <= l /\ \A k \in f..(l - 1) : k \in S <=> k < c
    BY DEF CutAt
<1>1. Probe(f, 1, l, S) = PartitionPointN(last.f, Middle(last) - last.f, S)
    BY DEF Probe
<1>e. ASSUME NEW v \in States
      PROVE  v.f \in f..l /\ v.n \in Nat \ {0} /\ v = [f |-> v.f, n |-> v.n]
    OBVIOUS
<1>t. ASSUME NEW x \in f..l, NEW y \in Nat \ {0}
      PROVE  [f |-> x, n |-> y] \in States
    OBVIOUS
<1>m. ASSUME NEW v \in States PROVE Middle(v) = IF v.f + v.n <= l THEN v.f + v.n ELSE l
    <2>1. v.f + v.n \in Nat /\ l \in Nat
        BY <1>e
    <2> QED
        BY <2>1, LesserOf
<1>p. \A v : /\ v \in G <=> v \in States /\ Middle(v) # l /\ Middle(v) \in S
             /\ v \in P <=> v \in States /\ v.f <= c
    OBVIOUS
<1> HIDE DEF States, G, P, Middle
<1>2. start \in P
    <2>1. f \in f..l /\ 1 \in Nat \ {0}
        BY <1>0
    <2>2. start \in States
        BY <2>1, <1>t
    <2> QED
        BY <2>2, <1>0, <1>p
<1>3. ASSUME NEW v \in G
      PROVE  Step(v) \in P /\ Step(v).f > v.f
    <2>1. v \in States /\ v.f \in f..l /\ v.n \in Nat \ {0} /\ Middle(v) # l /\ Middle(v) \in S
        BY <1>p, <1>e
    <2>2. Middle(v) = v.f + v.n /\ Middle(v) \in f..(l - 1) /\ Middle(v) > v.f
        BY <2>1, <1>m
    <2>3. Middle(v) <= c
        BY <2>1, <2>2, <1>0
    <2>4. Middle(v) \in f..l /\ 2 * v.n \in Nat \ {0}
        BY <2>1, <2>2
    <2>5. Step(v) \in States /\ Step(v).f = Middle(v)
        BY <2>4, <1>t
    <2> HIDE DEF Step
    <2> QED
        BY <2>2, <2>3, <2>5, <1>p
<1>4. Descends(States, G, step, P, rank)
    <2>1. G \subseteq States /\ P \subseteq States /\ step \in [G -> States]
        <3> HIDE DEF Step
        <3> QED
            BY <1>3, <1>p
    <2>3. rank \in [P -> Nat]
        <3>1. ASSUME NEW v \in P PROVE l - v.f \in Nat
            BY <1>p, <1>e
        <3> QED
            BY <3>1
    <2>2. ASSUME NEW v \in P \cap G PROVE step[v] \in P /\ rank[step[v]] < rank[v]
        <3> HIDE DEF Step
        <3>1. step[v] = Step(v) /\ Step(v) \in P /\ Step(v).f > v.f
            BY <1>3
        <3>2. v.f \in Int /\ Step(v).f \in Int
            <4>1. v.f \in f..l /\ Step(v).f \in f..l
                BY <3>1, <1>p, <1>e
            <4> QED
                BY <4>1
        <3> QED
            BY <3>1, <3>2
    <2> HIDE DEF step, rank
    <2> QED
        BY <2>1, <2>2, <2>3 DEF Descends
<1>5. last \in P /\ last \notin G
    <2> HIDE DEF start, step, rank
    <2> QED
        BY <1>2, <1>4, LoopLeaves
<1> HIDE DEF last
<1> DEFINE x == last.f
           m == Middle(last)
           d == m - x
<1>6. x \in f..l /\ x <= c /\ (m = l \/ m \notin S) /\ last.n \in Nat \ {0} /\ last \in States
    BY <1>5, <1>p, <1>e
<1>7. m = IF x + last.n <= l THEN x + last.n ELSE l
    BY <1>6, <1>m
<1> HIDE DEF x, m
<1>8. m \in Nat /\ x <= m /\ m <= l /\ d \in Nat /\ m = x + d /\ x \in Nat /\ f <= x
    BY <1>6, <1>7, <1>0
<1>9. c <= m
    <2>1. CASE m = l
        BY <2>1, <1>0
    <2>2. CASE m # l
        <3>1. m \in f..(l - 1)
            BY <2>2, <1>6, <1>8
        <3> QED
            BY <3>1, <2>2, <1>0, <1>6
    <2> QED
        BY <2>1, <2>2
<1>10. CutAt(S, x, m, c)
    BY <1>6, <1>8, <1>9, CutOfPart
<1> HIDE DEF d
<1>11. PartitionPointN(x, d, S) = c
    BY <1>8, <1>10, PartitionPointNIs
<1> QED
    BY <1>1, <1>11 DEF x, m, d

\* partition_point finds it, with or without the length.
LEMMA PartitionPointIs ==
    ASSUME NEW S, NEW f, NEW l, NEW c, CutAt(S, f, l, c), NEW sized
    PROVE  PartitionPoint(f, l, S, sized) = c
<1> DEFINE n == l - f
<1>1. f \in Nat /\ l \in Nat /\ n \in Nat /\ l = f + n
    BY DEF CutAt
<1> HIDE DEF n
<1>2. PartitionPointN(f, n, S) = c /\ Probe(f, 1, l, S) = c
    BY <1>1, PartitionPointNIs, ProbeIs
<1> QED
    BY <1>2 DEF PartitionPoint, n

-----------------------------------------------------------------------------
(* equal_range *)

\* v is in order from f to l, its values equal to x standing from lo to hi.
EqualAt(v, x, f, l, lo, hi) ==
    /\ CutAt(Below(v, x), f, l, lo) /\ CutAt(NotAbove(v, x), f, l, hi)
    /\ f >= 1 /\ l <= Len(v) + 1 /\ Len(v) \in Nat /\ DOMAIN v = 1..Len(v)
    /\ x \in Int /\ \A k \in 1..Len(v) : v[k] \in Nat

\* What that says of each place.
LEMMA EqualAtIs ==
    ASSUME NEW v, NEW x, NEW f, NEW l, NEW lo, NEW hi, EqualAt(v, x, f, l, lo, hi)
    PROVE  /\ f \in Nat /\ l \in Nat /\ lo \in f..l /\ hi \in f..l /\ x \in Int /\ f >= 1
           /\ \A k \in f..(l - 1) : /\ v[k] \in Nat /\ (v[k] < x <=> k < lo)
                                    /\ (~(x < v[k]) <=> k < hi)
<1>1. f \in Nat /\ l \in Nat /\ lo \in f..l /\ hi \in f..l
    BY DEF EqualAt, CutAt
<1>2. f >= 1 /\ l <= Len(v) + 1 /\ Len(v) \in Nat /\ x \in Int
    BY DEF EqualAt
<1>3. ASSUME NEW k \in f..(l - 1)
      PROVE  v[k] \in Nat /\ (v[k] < x <=> k < lo) /\ (~(x < v[k]) <=> k < hi)
    <2>1. k \in 1..Len(v)
        BY <1>1, <1>2
    <2>2. k \in DOMAIN v /\ v[k] \in Nat
        BY <2>1 DEF EqualAt
    <2>3. (k \in Below(v, x) <=> k < lo) /\ (k \in NotAbove(v, x) <=> k < hi)
        BY DEF EqualAt, CutAt
    <2> QED
        BY <2>2, <2>3 DEF Below, NotAbove
<1> QED
    BY <1>1, <1>2, <1>3

\* The equal elements are where they are in every part around them.
LEMMA EqualOfPart ==
    ASSUME NEW v, NEW x, NEW f, NEW l, NEW lo, NEW hi, EqualAt(v, x, f, l, lo, hi),
           NEW i \in Nat, NEW j \in Nat, f <= i, j <= l, i <= lo, lo <= j, i <= hi, hi <= j
    PROVE  EqualAt(v, x, i, j, lo, hi)
<1>1. CutAt(Below(v, x), f, l, lo) /\ CutAt(NotAbove(v, x), f, l, hi)
    BY DEF EqualAt
<1>2. CutAt(Below(v, x), i, j, lo)
    BY <1>1, CutOfPart
<1>3. CutAt(NotAbove(v, x), i, j, hi)
    BY <1>1, CutOfPart
<1>4. f \in Nat /\ l \in Nat
    BY EqualAtIs
<1>5. /\ f >= 1 /\ l <= Len(v) + 1 /\ Len(v) \in Nat /\ DOMAIN v = 1..Len(v)
      /\ x \in Int /\ \A k \in 1..Len(v) : v[k] \in Nat
    BY DEF EqualAt
<1>6. i >= 1 /\ j <= Len(v) + 1
    BY <1>4, <1>5
<1> QED
    BY <1>2, <1>3, <1>5, <1>6 DEF EqualAt

\* By halves equal_range comes upon an equal element, and finds both ends.
LEMMA EqualRangeNIs ==
    ASSUME NEW v, NEW x, NEW f, NEW n \in Nat, NEW l, l = f + n, NEW lo, NEW hi,
           EqualAt(v, x, f, l, lo, hi)
    PROVE  EqualRangeN(v, f, n, x) = <<lo, hi>>
<1> DEFINE States == {w \in [f : Nat, n : 0..n] : w.f \in f..(f + n) /\ w.f + w.n <= f + n}
           Middle(w) == w.f + w.n \div 2
           G == {u \in States : u.n > 0 /\ v[Middle(u)] # x}
           Step(w) == IF v[Middle(w)] < x
                      THEN [f |-> Middle(w) + 1, n |-> w.n - (w.n \div 2 + 1)]
                      ELSE [f |-> w.f, n |-> w.n \div 2]
           step == [w \in G |-> Step(w)]
           P == {w \in States : w.f <= lo /\ w.f <= hi /\ lo <= w.f + w.n /\ hi <= w.f + w.n}
           rank == [w \in P |-> w.n]
           start == [f |-> f, n |-> n]
           last == Loop(States, step)[start]
           half == last.n \div 2
<1>0. /\ f \in Nat /\ l \in Nat /\ lo \in f..l /\ hi \in f..l /\ x \in Int /\ f >= 1
      /\ \A k \in f..(l - 1) : v[k] \in Nat /\ (v[k] < x <=> k < lo) /\ (~(x < v[k]) <=> k < hi)
    BY EqualAtIs
<1>1. EqualRangeN(v, f, n, x) =
          IF last.n <= 0 THEN <<last.f, last.f>>
          ELSE <<PartitionPointN(last.f, half, Below(v, x)),
                 PartitionPointN(Middle(last) + 1, last.n - (half + 1), NotAbove(v, x))>>
    BY DEF EqualRangeN
<1>e. ASSUME NEW w \in States
      PROVE  w.f \in f..(f + n) /\ w.n \in 0..n /\ w.f + w.n <= f + n /\ w = [f |-> w.f, n |-> w.n]
    OBVIOUS
<1>t. ASSUME NEW y \in f..(f + n), NEW z \in 0..n, y + z <= f + n
      PROVE  [f |-> y, n |-> z] \in States
    BY <1>t, <1>0
<1>p. \A w : /\ w \in G <=> w \in States /\ w.n > 0 /\ v[Middle(w)] # x
             /\ w \in P <=> /\ w \in States
                            /\ w.f <= lo /\ w.f <= hi /\ lo <= w.f + w.n /\ hi <= w.f + w.n
    OBVIOUS
<1> HIDE DEF States, G, P
<1>2. start \in P
    <2>1. f \in f..(f + n) /\ n \in 0..n /\ f + n <= f + n
        BY <1>0
    <2>2. start \in States
        BY <2>1, <1>t
    <2> QED
        BY <2>2, <1>0, <1>p
<1>3. ASSUME NEW w \in G
      PROVE  Step(w) \in States /\ Step(w).n < w.n /\ (w \in P => Step(w) \in P)
    <2> DEFINE y == w.f
               z == w.n
               h == z \div 2
               m == y + h
    <2>1. y \in f..(f + n) /\ z \in 1..n /\ y + z <= f + n /\ v[m] # x
        BY <1>p, <1>e
    <2>s. Step(w) = IF v[m] < x THEN [f |-> m + 1, n |-> z - (h + 1)] ELSE [f |-> y, n |-> h]
        OBVIOUS
    <2>d. w.f = y /\ w.n = z
        OBVIOUS
    <2>2. h \in 0..(z - 1) /\ m = y + h
        BY <2>1
    <2> HIDE DEF y, z, h, m, Step
    <2>3. m \in f..(l - 1)
        BY <2>1, <2>2, <1>0
    <2>v. v[m] \in Nat /\ (v[m] < x <=> m < lo) /\ (~(x < v[m]) <=> m < hi)
        BY <2>3, <1>0
    <2>4. CASE v[m] < x
        <3> DEFINE u == [f |-> m + 1, n |-> z - (h + 1)]
        <3>1. m + 1 \in f..(f + n) /\ z - (h + 1) \in 0..n /\ (m + 1) + (z - (h + 1)) <= f + n
            BY <2>1, <2>2, <1>0
        <3>2. u \in States /\ u.f = m + 1 /\ u.n = z - (h + 1)
            BY <3>1, <1>t
        <3>3. m < lo /\ m < hi
            <4>1. ~(x < v[m])
                BY <2>4, <2>v, <1>0
            <4> QED
                BY <4>1, <2>4, <2>v
        <3>4. /\ z - (h + 1) < z
              /\ (y <= lo /\ y <= hi /\ lo <= y + z /\ hi <= y + z
                  => /\ m + 1 <= lo /\ m + 1 <= hi
                     /\ lo <= (m + 1) + (z - (h + 1)) /\ hi <= (m + 1) + (z - (h + 1)))
            BY <3>3, <2>1, <2>2, <1>0
        <3>5. Step(w) = u
            BY <2>4, <2>s
        <3> HIDE DEF u
        <3> QED
            BY <3>2, <3>4, <3>5, <2>d, <1>p
    <2>5. CASE ~(v[m] < x)
        <3> DEFINE u == [f |-> y, n |-> h]
        <3>1. h \in 0..n /\ y + h <= f + n /\ h < z
            BY <2>1, <2>2
        <3>2. u \in States /\ u.f = y /\ u.n = h
            BY <3>1, <2>1, <1>t
        <3>3. lo <= m /\ hi <= m
            <4>1. x < v[m]
                BY <2>1, <2>5, <2>v, <1>0
            <4>2. ~(m < lo) /\ ~(m < hi)
                BY <4>1, <2>5, <2>v
            <4> QED
                BY <4>2, <2>3, <1>0
        <3>5. Step(w) = u
            BY <2>5, <2>s
        <3> HIDE DEF u
        <3> QED
            BY <3>1, <3>2, <3>3, <3>5, <2>2, <2>d, <1>p
    <2> QED
        BY <2>4, <2>5
<1>4. Descends(States, G, step, P, rank)
    <2>1. G \subseteq States /\ P \subseteq States /\ step \in [G -> States]
        <3> HIDE DEF Step
        <3> QED
            BY <1>3, <1>p
    <2>3. rank \in [P -> Nat]
        <3>1. ASSUME NEW w \in P PROVE w.n \in Nat
            BY <1>p, <1>e
        <3> QED
            BY <3>1
    <2>2. ASSUME NEW w \in P \cap G PROVE step[w] \in P /\ rank[step[w]] < rank[w]
        <3> HIDE DEF Step
        <3>1. step[w] = Step(w) /\ Step(w) \in P /\ Step(w).n < w.n
            BY <1>3
        <3> QED
            BY <3>1
    <2> HIDE DEF step, rank
    <2> QED
        BY <2>1, <2>2, <2>3 DEF Descends
<1>5. last \in P /\ last \notin G
    <2> HIDE DEF start, step, rank
    <2> QED
        BY <1>2, <1>4, LoopLeaves
<1> HIDE DEF last
<1> DEFINE y == last.f
           z == last.n
           m == y + half
<1>6. /\ y \in f..(f + n) /\ z \in 0..n /\ y + z <= f + n
      /\ y <= lo /\ y <= hi /\ lo <= y + z /\ hi <= y + z /\ (z > 0 => v[m] = x)
    BY <1>5, <1>p, <1>e
<1>7. EqualRangeN(v, f, n, x) =
          IF z <= 0 THEN <<y, y>>
          ELSE <<PartitionPointN(y, half, Below(v, x)),
                 PartitionPointN(m + 1, z - (half + 1), NotAbove(v, x))>>
    BY <1>1
<1>h. half = z \div 2 /\ m = y + half
    OBVIOUS
<1> HIDE DEF y, z, half, m
<1>8. CASE z <= 0
    <2>1. lo = y /\ hi = y
        BY <1>6, <1>8, <1>0
    <2> QED
        BY <2>1, <1>7, <1>8
<1>9. CASE z > 0
    <2>1. half \in 0..(z - 1) /\ m \in f..(l - 1)
        BY <1>6, <1>9, <1>h, <1>0
    <2>2. lo <= m /\ m < hi
        <3>1. v[m] = x /\ (v[m] < x <=> m < lo) /\ (~(x < v[m]) <=> m < hi)
            BY <2>1, <1>0, <1>6, <1>9
        <3>2. ~(m < lo) /\ m < hi
            BY <3>1, <1>0
        <3> QED
            BY <3>2, <2>1, <1>0
    <2>c. CutAt(Below(v, x), f, l, lo) /\ CutAt(NotAbove(v, x), f, l, hi)
        BY DEF EqualAt
    <2>3. PartitionPointN(y, half, Below(v, x)) = lo
        <3>1. /\ y \in Nat /\ m \in Nat /\ f <= y /\ y <= lo /\ lo <= m /\ m <= l
              /\ half \in Nat /\ m = y + half
            BY <2>1, <2>2, <1>6, <1>h, <1>0
        <3>2. CutAt(Below(v, x), y, m, lo)
            BY <3>1, <2>c, CutOfPart
        <3> QED
            BY <3>1, <3>2, PartitionPointNIs
    <2>4. PartitionPointN(m + 1, z - (half + 1), NotAbove(v, x)) = hi
        <3> DEFINE i == m + 1
                   k == z - (half + 1)
                   j == i + k
        <3>1. /\ i \in Nat /\ k \in Nat /\ j \in Nat /\ f <= i /\ i <= hi /\ hi <= j /\ j <= l
              /\ j = i + k
            BY <2>1, <2>2, <1>6, <1>h, <1>0
        <3> HIDE DEF i, j, k
        <3>2. CutAt(NotAbove(v, x), i, j, hi)
            BY <3>1, <2>c, CutOfPart
        <3>3. PartitionPointN(i, k, NotAbove(v, x)) = hi
            BY <3>1, <3>2, PartitionPointNIs
        <3> QED
            BY <3>3 DEF i, k
    <2> QED
        BY <2>3, <2>4, <1>7, <1>9, <1>6
<1>10. z \in Int
    BY <1>6
<1> QED
    BY <1>8, <1>9, <1>10

\* Where the length is not known, probes that double their step come first.
LEMMA EqualRangeProbeIs ==
    ASSUME NEW v, NEW x, NEW l, l = Len(v) + 1, NEW lo, NEW hi, EqualAt(v, x, 1, l, lo, hi)
    PROVE  EqualRangeProbe(v, x) = <<lo, hi>>
<1> DEFINE States == [f : 1..l, n : Nat \ {0}]
           Middle(w) == Min({w.f + w.n, l})
           G == {u \in States : Middle(u) # l /\ v[Middle(u)] < x}
           Step(w) == [f |-> Middle(w) + 1, n |-> 2 * w.n]
           step == [w \in G |-> Step(w)]
           P == {w \in States : w.f <= lo /\ w.f <= hi}
           rank == [w \in P |-> l - w.f]
           start == [f |-> 1, n |-> 1]
           last == Loop(States, step)[start]
           middle == Middle(last)
<1>0. /\ l \in Nat /\ lo \in 1..l /\ hi \in 1..l /\ x \in Int
      /\ \A k \in 1..(l - 1) : v[k] \in Nat /\ (v[k] < x <=> k < lo) /\ (~(x < v[k]) <=> k < hi)
    BY EqualAtIs
<1>1. EqualRangeProbe(v, x) =
          IF middle = l THEN EqualRangeN(v, last.f, middle - last.f, x)
          ELSE IF x < v[middle] THEN EqualRangeN(v, last.f, last.n, x)
          ELSE <<PartitionPointN(last.f, last.n, Below(v, x)),
                 PartitionPoint(middle, l, NotAbove(v, x), FALSE)>>
    BY DEF EqualRangeProbe
<1>e. ASSUME NEW w \in States
      PROVE  w.f \in 1..l /\ w.n \in Nat \ {0} /\ w = [f |-> w.f, n |-> w.n]
    OBVIOUS
<1>t. ASSUME NEW y \in 1..l, NEW z \in Nat \ {0} PROVE [f |-> y, n |-> z] \in States
    OBVIOUS
<1>m. ASSUME NEW w \in States PROVE Middle(w) = IF w.f + w.n <= l THEN w.f + w.n ELSE l
    <2>1. w.f + w.n \in Nat /\ l \in Nat
        BY <1>e, <1>0
    <2> QED
        BY <2>1, LesserOf
<1>p. \A w : /\ w \in G <=> w \in States /\ Middle(w) # l /\ v[Middle(w)] < x
             /\ w \in P <=> w \in States /\ w.f <= lo /\ w.f <= hi
    OBVIOUS
<1> HIDE DEF States, G, P, Middle
<1>2. start \in P
    <2>1. 1 \in 1..l /\ 1 \in Nat \ {0}
        BY <1>0
    <2>2. start \in States
        BY <2>1, <1>t
    <2> QED
        BY <2>2, <1>0, <1>p
<1>3. ASSUME NEW w \in G
      PROVE  Step(w) \in P /\ Step(w).f > w.f
    <2> DEFINE m == Middle(w)
    <2>1. w.f \in 1..l /\ w.n \in Nat \ {0} /\ m # l /\ v[m] < x /\ w \in States
        BY <1>p, <1>e
    <2>2. m = w.f + w.n /\ m \in 1..(l - 1) /\ m > w.f
        BY <2>1, <1>m, <1>0
    <2>s. Step(w) = [f |-> m + 1, n |-> 2 * w.n]
        OBVIOUS
    <2> HIDE DEF m, Step
    <2>3. m < lo /\ m < hi
        <3>1. v[m] \in Nat /\ (v[m] < x <=> m < lo) /\ (~(x < v[m]) <=> m < hi)
            BY <2>2, <1>0
        <3>2. ~(x < v[m])
            BY <3>1, <2>1, <1>0
        <3> QED
            BY <3>1, <3>2, <2>1
    <2>4. m + 1 \in 1..l /\ 2 * w.n \in Nat \ {0} /\ m + 1 > w.f /\ m + 1 <= lo /\ m + 1 <= hi
        BY <2>1, <2>2, <2>3, <1>0, SMTT(40)
    <2>5. Step(w) \in States /\ Step(w).f = m + 1
        BY <2>4, <2>s, <1>t
    <2> QED
        BY <2>4, <2>5, <1>p
<1>4. Descends(States, G, step, P, rank)
    <2>1. G \subseteq States /\ P \subseteq States /\ step \in [G -> States]
        <3> HIDE DEF Step
        <3> QED
            BY <1>3, <1>p
    <2>3. rank \in [P -> Nat]
        <3>1. ASSUME NEW w \in P PROVE l - w.f \in Nat
            BY <1>p, <1>e, <1>0
        <3> QED
            BY <3>1
    <2>2. ASSUME NEW w \in P \cap G PROVE step[w] \in P /\ rank[step[w]] < rank[w]
        <3> HIDE DEF Step
        <3>1. step[w] = Step(w) /\ Step(w) \in P /\ Step(w).f > w.f
            BY <1>3
        <3>2. w.f \in Int /\ Step(w).f \in Int
            <4>1. w.f \in 1..l /\ Step(w).f \in 1..l
                BY <3>1, <1>p, <1>e
            <4> QED
                BY <4>1
        <3> QED
            BY <3>1, <3>2, <1>0
    <2> HIDE DEF step, rank
    <2> QED
        BY <2>1, <2>2, <2>3 DEF Descends
<1>5. last \in P /\ last \notin G
    <2> HIDE DEF start, step, rank
    <2> QED
        BY <1>2, <1>4, LoopLeaves
<1> HIDE DEF last
<1> DEFINE y == last.f
           z == last.n
           d == middle - y
<1>6. /\ y \in 1..l /\ z \in Nat \ {0} /\ last \in States /\ y <= lo /\ y <= hi
      /\ middle = l \/ ~(v[middle] < x)
    BY <1>5, <1>p, <1>e
<1>7. middle = IF y + z <= l THEN y + z ELSE l
    BY <1>6, <1>m
<1>8. EqualRangeProbe(v, x) =
          IF middle = l THEN EqualRangeN(v, y, d, x)
          ELSE IF x < v[middle] THEN EqualRangeN(v, y, z, x)
          ELSE <<PartitionPointN(y, z, Below(v, x)),
                 PartitionPoint(middle, l, NotAbove(v, x), FALSE)>>
    BY <1>1
<1>d. d = middle - y
    OBVIOUS
<1> HIDE DEF y, z, middle, d
<1>9. y \in Nat /\ middle \in 1..l /\ d \in Nat /\ middle = y + d /\ (middle # l => middle = y + z)
    BY <1>6, <1>7, <1>d, <1>0
<1>10. CASE middle = l
    <2>1. middle \in Nat /\ middle <= l /\ lo <= middle /\ hi <= middle /\ 1 <= y
        BY <1>10, <1>0, <1>6
    <2>2. EqualAt(v, x, y, middle, lo, hi)
        BY <2>1, <1>6, <1>9, EqualOfPart
    <2>3. d \in Nat /\ middle = y + d
        BY <1>9
    <2>4. EqualRangeN(v, y, d, x) = <<lo, hi>>
        BY <2>2, <2>3, EqualRangeNIs
    <2> QED
        BY <2>4, <1>8, <1>10
<1>11. CASE middle # l
    <2>1. /\ middle \in 1..(l - 1) /\ middle \in Nat /\ middle <= l /\ 1 <= y /\ z \in Nat
          /\ middle = y + z
        BY <1>11, <1>0, <1>6, <1>9
    <2>2. v[middle] \in Nat /\ (v[middle] < x <=> middle < lo) /\ (~(x < v[middle]) <=> middle < hi)
        BY <2>1, <1>0
    <2>3. lo <= middle
        BY <2>1, <2>2, <1>0, <1>6, <1>11
    <2>4. CASE x < v[middle]
        <3>1. hi <= middle
            BY <2>1, <2>2, <2>4, <1>0
        <3>2. EqualAt(v, x, y, middle, lo, hi)
            BY <2>1, <2>3, <3>1, <1>6, <1>9, EqualOfPart
        <3>3. EqualRangeN(v, y, z, x) = <<lo, hi>>
            BY <3>2, <2>1, EqualRangeNIs
        <3> QED
            BY <3>3, <2>4, <1>8, <1>11
    <2>5. CASE ~(x < v[middle])
        <3>c. CutAt(Below(v, x), 1, l, lo) /\ CutAt(NotAbove(v, x), 1, l, hi)
            BY DEF EqualAt
        <3>1. middle <= hi
            BY <2>1, <2>2, <2>5, <1>0
        <3>2. CutAt(Below(v, x), y, middle, lo)
            BY <3>c, <2>1, <2>3, <1>6, <1>9, CutOfPart
        <3>3. PartitionPointN(y, z, Below(v, x)) = lo
            BY <3>2, <2>1, <1>9, PartitionPointNIs
        <3>4. 1 <= middle /\ l <= l /\ hi <= l
            BY <2>1, <1>0
        <3>5. CutAt(NotAbove(v, x), middle, l, hi)
            BY <3>c, <3>1, <3>4, <2>1, <1>0, CutOfPart
        <3>6. PartitionPoint(middle, l, NotAbove(v, x), FALSE) = hi
            BY <3>5, PartitionPointIs
        <3> QED
            BY <3>3, <3>6, <2>5, <1>8, <1>11
    <2> QED
        BY <2>4, <2>5
<1> QED
    BY <1>10, <1>11

\* equal_range finds both ends, with or without the length.
LEMMA EqualRangeIs ==
    ASSUME NEW v, NEW x, NEW l, l = Len(v) + 1, NEW lo, NEW hi, EqualAt(v, x, 1, l, lo, hi), NEW sized
    PROVE  EqualRange(v, x, sized) = <<lo, hi>>
<1>1. EqualRangeProbe(v, x) = <<lo, hi>>
    BY EqualRangeProbeIs
<1> DEFINE n == Len(v)
<1>2. n \in Nat /\ l = 1 + n
    BY DEF EqualAt
<1> HIDE DEF n
<1>3. EqualRangeN(v, 1, n, x) = <<lo, hi>>
    <2>1. PICK f : f = 1
        OBVIOUS
    <2>2. EqualAt(v, x, f, l, lo, hi) /\ l = f + n /\ n \in Nat
        BY <1>2, <2>1
    <2>3. EqualRangeN(v, f, n, x) = <<lo, hi>>
        BY <2>2, EqualRangeNIs
    <2> QED
        BY <2>1, <2>3
<1> QED
    BY <1>1, <1>3 DEF EqualRange, n

\* A set of places that has, with each, all before it, is those up to its size.
LEMMA PlacesBefore ==
    ASSUME NEW n \in Nat, NEW S \in SUBSET (1..n), \A k \in S : \A j \in 1..k : j \in S
    PROVE  Cardinality(S) \in 0..n /\ S = 1..Cardinality(S)
<1> DEFINE c == Max({0} \cup S)
<1>1. {0} \cup S \in SUBSET (0..n) /\ {0} \cup S # {}
    OBVIOUS
<1>2. c \in {0} \cup S /\ \A y \in {0} \cup S : y <= c
    BY <1>1, MaxIs
<1> HIDE DEF c
<1>3. c \in 0..n /\ S = 1..c
    <2>1. c \in 0..n
        BY <1>2
    <2>2. ASSUME NEW k \in S PROVE k \in 1..c
        BY <2>1, <1>2
    <2>3. ASSUME NEW k \in 1..c PROVE k \in S
        <3>1. c \in S
            BY <2>1, <1>2
        <3> QED
            BY <3>1
    <2> QED
        BY <2>1, <2>2, <2>3
<1>4. Cardinality(1..c) = c
    <2>1. 1 \in Int /\ c \in Int /\ 1 <= c + 1
        BY <1>3
    <2>2. Cardinality(1..c) = IF 1 > c THEN 0 ELSE c - 1 + 1
        BY <2>1, FS_Interval
    <2> QED
        BY <2>2, <1>3
<1> QED
    BY <1>3, <1>4

\* What a sequence that is nowhere lowered has of any two places.
LEMMA SortedMeans ==
    ASSUME NEW n \in Nat, NEW v \in [1..n -> Nat], \A i \in 1..(n - 1) : v[i] <= v[i + 1]
    PROVE  \A i \in 1..n, j \in 1..n : i <= j => v[i] <= v[j]
<1>0. \A k \in 1..n : v[k] \in Nat
    OBVIOUS
<1> DEFINE rank == [k \in 1..n |-> k]
           Q(i) == {k \in 1..n : i <= k => v[i] <= v[k]}
<1>1. ASSUME NEW i \in 1..n PROVE 1..n \subseteq Q(i)
    <2>1. ASSUME NEW k \in 1..n, \A y \in 1..n : rank[y] < rank[k] => y \in Q(i) PROVE k \in Q(i)
        <3>1. CASE k <= i
            BY <3>1, <1>0
        <3>2. CASE i < k
            <4>1. k - 1 \in 1..n /\ i <= k - 1 /\ k - 1 \in 1..(n - 1) /\ (k - 1) + 1 = k
                BY <3>2
            <4>2. v[i] <= v[k - 1]
                BY <4>1, <2>1
            <4>3. v[k - 1] <= v[k]
                BY <4>1
            <4> QED
                BY <4>1, <4>2, <4>3, <1>0
        <3> QED
            BY <3>1, <3>2
    <2>2. rank \in [1..n -> Nat]
        OBVIOUS
    <2>3. \A k \in 1..n : (\A y \in 1..n : rank[y] < rank[k] => y \in Q(i)) => k \in Q(i)
        BY <2>1
    <2> HIDE DEF rank
    <2> DEFINE W == Q(i)
    <2>4. \A k \in 1..n : (\A y \in 1..n : rank[y] < rank[k] => y \in W) => k \in W
        BY <2>3
    <2> DEFINE D == 1..n
    <2>6. rank \in [D -> Nat] /\ \A k \in D : (\A y \in D : rank[y] < rank[k] => y \in W) => k \in W
        BY <2>2, <2>4
    <2> HIDE DEF W, D
    <2>5. D \subseteq W
        BY <2>6, RankInduction
    <2> QED
        BY <2>5 DEF W, D
<1> QED
    BY <1>1

\* In a sorted range the cuts are where the numbers of the lesser, and of those
\* not greater, say.
LEMMA SortedCuts ==
    ASSUME NEW n \in Nat, NEW v \in [1..n -> Nat], \A i \in 1..(n - 1) : v[i] <= v[i + 1],
           NEW x \in Int, NEW l, l = n + 1,
           NEW lo, lo = 1 + Cardinality({i \in 1..n : v[i] < x}),
           NEW hi, hi = 1 + Cardinality({i \in 1..n : v[i] <= x})
    PROVE  EqualAt(v, x, 1, l, lo, hi)
<1> DEFINE A == {i \in 1..n : v[i] < x}
           B == {i \in 1..n : v[i] <= x}
<1>0. Len(v) = n /\ DOMAIN v = 1..n /\ \A k \in 1..n : v[k] \in Nat
    OBVIOUS
<1>1. \A i \in 1..n, j \in 1..n : i <= j => v[i] <= v[j]
    BY SortedMeans
<1>2. A \in SUBSET (1..n) /\ \A k \in A : \A j \in 1..k : j \in A
    BY <1>0, <1>1
<1>3. B \in SUBSET (1..n) /\ \A k \in B : \A j \in 1..k : j \in B
    BY <1>0, <1>1
<1>4. Cardinality(A) \in 0..n /\ A = 1..Cardinality(A)
    <2> HIDE DEF A
    <2> QED
        BY <1>2, PlacesBefore
<1>5. Cardinality(B) \in 0..n /\ B = 1..Cardinality(B)
    <2> HIDE DEF B
    <2> QED
        BY <1>3, PlacesBefore
<1>6. lo = 1 + Cardinality(A) /\ hi = 1 + Cardinality(B)
    OBVIOUS
<1>7. \A k \in 1..n : (k \in A <=> v[k] < x) /\ (k \in B <=> v[k] <= x)
    OBVIOUS
<1> DEFINE p == Cardinality(A)
           q == Cardinality(B)
<1> HIDE DEF A, B
<1>8. p \in 0..n /\ q \in 0..n /\ A = 1..p /\ B = 1..q /\ lo = 1 + p /\ hi = 1 + q
    BY <1>4, <1>5, <1>6
<1> HIDE DEF p, q
<1>9. lo \in 1..l /\ hi \in 1..l /\ l \in Nat /\ l - 1 = n
    BY <1>8
<1>10. ASSUME NEW k \in 1..n PROVE (v[k] < x <=> k < lo) /\ (v[k] <= x <=> k < hi)
    BY <1>7, <1>8
<1>13. ASSUME NEW k \in 1..n PROVE k \in NotAbove(v, x) <=> k < hi
    <2>1. ~(x < v[k]) <=> v[k] <= x
        BY <1>0
    <2> QED
        BY <2>1, <1>0, <1>10 DEF NotAbove
<1>11. CutAt(Below(v, x), 1, l, lo)
    BY <1>0, <1>9, <1>10 DEF CutAt, Below
<1>12. CutAt(NotAbove(v, x), 1, l, hi)
    BY <1>9, <1>13 DEF CutAt
<1> QED
    BY <1>0, <1>11, <1>12 DEF EqualAt

-----------------------------------------------------------------------------
(* search *)

\* Where p is found in v.
PlacesOf(v, p) == {i \in 1..(Len(v) + 1 - Len(p)) : \A k \in 1..Len(p) : v[i + k - 1] = p[k]}

\* v and p are sequences of n and m keys.
Texts(v, n, p, m) ==
    /\ n \in Nat /\ m \in Nat /\ v \in [1..n -> Nat] /\ p \in [1..m -> Nat]
    /\ Len(v) = n /\ Len(p) = m

\* What a place of p is.
LEMMA PlacesOfIs ==
    ASSUME NEW v, NEW n, NEW p, NEW m, Texts(v, n, p, m)
    PROVE  /\ n \in Nat /\ m \in Nat /\ Len(v) = n /\ Len(p) = m
           /\ \A i : i \in PlacesOf(v, p) <=>
                  i \in Nat /\ i >= 1 /\ i + m <= n + 1 /\ \A k \in 1..m : v[i + k - 1] = p[k]
<1>1. n \in Nat /\ m \in Nat /\ Len(v) = n /\ Len(p) = m
    BY DEF Texts
<1>2. \A i : i \in PlacesOf(v, p) <=> i \in 1..(n + 1 - m) /\ \A k \in 1..m : v[i + k - 1] = p[k]
    BY <1>1, Zenon DEF PlacesOf
<1>3. \A i : i \in 1..(n + 1 - m) <=> i \in Nat /\ i >= 1 /\ i + m <= n + 1
    BY <1>1
<1> QED
    BY <1>1, <1>2, <1>3

\* Where the comparison of v from i on and p stops.
LEMMA MatchedIs ==
    ASSUME NEW v, NEW n, NEW p, NEW m, Texts(v, n, p, m), NEW i \in 1..(n + 1),
           NEW r, r = Matched(v, i, p)
    PROVE  /\ r \in 0..m /\ i + r <= n + 1
           /\ \A k \in 1..r : v[i + k - 1] = p[k]
           /\ r = m \/ i + r = n + 1 \/ (i + r <= n /\ v[i + r] # p[r + 1])
           /\ r = m <=> i \in PlacesOf(v, p)
<1> DEFINE S == {k \in 0..m : k = m \/ i + k > n \/ v[i + k] # p[k + 1]}
<1>0. n \in Nat /\ m \in Nat /\ Len(v) = n /\ Len(p) = m
    BY DEF Texts
<1>1. S \in SUBSET Nat /\ m \in S
    BY <1>0
<1>2. Min(S) \in S /\ \A y \in S : Min(S) <= y
    <2> HIDE DEF S
    <2> QED
        BY <1>1, MinIs
<1>3. r = Min(S)
    BY <1>0 DEF Matched
<1>4. r \in S /\ \A y \in S : r <= y
    BY <1>2, <1>3
<1>5. r \in 0..m /\ (r = m \/ i + r > n \/ v[i + r] # p[r + 1])
    BY <1>4
<1>6. \A k \in 0..m : k < r => k \notin S
    BY <1>4, <1>5, <1>0
<1>7. ASSUME NEW k \in 1..r PROVE v[i + k - 1] = p[k] /\ i + k <= n + 1
    <2> DEFINE j == k - 1
    <2>1. j \in 0..m /\ j < r /\ k = j + 1 /\ i + k - 1 = i + j
        BY <1>5, <1>0
    <2> HIDE DEF j
    <2>2. ~(i + j > n) /\ v[i + j] = p[j + 1]
        BY <2>1, <1>6
    <2> QED
        BY <2>1, <2>2, <1>0
<1>8. i + r <= n + 1
    <2>1. CASE r = 0
        BY <2>1, <1>0
    <2>2. CASE r # 0
        <3>1. r \in 1..r
            BY <2>2, <1>5, <1>0
        <3> QED
            BY <3>1, <1>7
    <2> QED
        BY <2>1, <2>2
<1>9. r = m \/ i + r = n + 1 \/ (i + r <= n /\ v[i + r] # p[r + 1])
    BY <1>0, <1>5, <1>8
<1>10. r = m => i \in PlacesOf(v, p)
    BY <1>0, <1>7, <1>8, PlacesOfIs
<1>11. ASSUME i \in PlacesOf(v, p), r # m PROVE FALSE
    <2>1. i + m <= n + 1 /\ \A k \in 1..m : v[i + k - 1] = p[k]
        BY <1>11, PlacesOfIs
    <2>2. r < m /\ i + r <= n
        BY <2>1, <1>11, <1>5, <1>0
    <2>3. v[i + r] # p[r + 1]
        BY <2>2, <1>5, <1>11, <1>0
    <2>4. r + 1 \in 1..m /\ i + (r + 1) - 1 = i + r
        BY <2>2, <1>5, <1>0
    <2> QED
        BY <2>1, <2>3, <2>4
<1> QED
    BY <1>5, <1>7, <1>8, <1>9, <1>10, <1>11

\* r is the first place of p, or nowhere.
FoundFirst(v, p, r) ==
    IF PlacesOf(v, p) = {} THEN r = <<Len(v) + 1, Len(v) + 1>>
    ELSE \E i \in PlacesOf(v, p) : (\A j \in PlacesOf(v, p) : i <= j) /\ r = <<i, i + Len(p)>>

\* The empty pattern is everywhere, and first in front.
LEMMA NoPattern ==
    ASSUME NEW v, NEW n, NEW p, Texts(v, n, p, 0)
    PROVE  /\ \A i : i \in PlacesOf(v, p) <=> i \in 1..(n + 1)
           /\ FoundFirst(v, p, <<1, 1>>)
<1>1. \A i : i \in PlacesOf(v, p) <=> i \in Nat /\ i >= 1 /\ i + 0 <= n + 1
    BY PlacesOfIs
<1>2. n \in Nat /\ Len(p) = 0
    BY PlacesOfIs
<1>3. \A i : i \in PlacesOf(v, p) <=> i \in 1..(n + 1)
    BY <1>1, <1>2
<1>4. 1 \in PlacesOf(v, p) /\ (\A j \in PlacesOf(v, p) : 1 <= j) /\ 1 + Len(p) = 1
    BY <1>2, <1>3
<1> QED
    BY <1>3, <1>4 DEF FoundFirst

\* With m the length of the pattern, p found m places from the end is the last
\* that there can be.
LEMMA NoneBehind ==
    ASSUME NEW v, NEW n, NEW p, NEW m, Texts(v, n, p, m), NEW i \in 1..(n + 1),
           \A j \in 1..(i - 1) : j \notin PlacesOf(v, p), i + m > n + 1
    PROVE  PlacesOf(v, p) = {}
<1>1. ASSUME NEW j \in PlacesOf(v, p) PROVE FALSE
    <2>1. n \in Nat /\ m \in Nat /\ j \in Nat /\ j >= 1 /\ j + m <= n + 1
        BY <1>1, PlacesOfIs
    <2>2. j \in 1..(i - 1)
        BY <2>1
    <2> QED
        BY <2>2, <1>1
<1> QED
    BY <1>1

\* Whatever the search knows of the lengths.
LEMMA SearchIs ==
    ASSUME NEW v, NEW n, NEW p, NEW m, Texts(v, n, p, m), NEW sized \in BOOLEAN,
           NEW r, r = Search(v, p, sized)
    PROVE  FoundFirst(v, p, r)
<1> DEFINE States == 1..(Len(v) + 1)
           Goes(i) == /\ IF sized THEN Len(v) + 1 - i >= Len(p)
                         ELSE i # Len(v) + 1 /\ i + Matched(v, i, p) # Len(v) + 1
                      /\ Matched(v, i, p) # Len(p)
           G == {j \in States : Goes(j)}
           step == [i \in G |-> NextPlace(i, Matched(v, i, p))]
           P == {i \in States : \A j \in 1..(i - 1) : j \notin PlacesOf(v, p)}
           rank == [i \in P |-> n + 1 - i]
           at == Loop(States, step)[1]
<1>0. n \in Nat /\ m \in Nat /\ Len(v) = n /\ Len(p) = m
    BY DEF Texts
<1>1. r = IF p = <<>> THEN <<1, 1>>
          ELSE IF Matched(v, at, p) = Len(p) THEN <<at, at + Len(p)>> ELSE Nowhere(v)
    BY DEF Search
<1>2. CASE m = 0
    <2>1. p = <<>>
        BY <1>0, <1>2 DEF Texts
    <2>2. r = <<1, 1>>
        BY <1>1, <2>1
    <2> QED
        BY <2>2, <1>2, NoPattern
<1>3. CASE m # 0
    <2>0. m \in Nat \ {0} /\ p # <<>>
        BY <1>0, <1>3 DEF Texts
    <2>1. States = 1..(n + 1)
        BY <1>0
    <2>p. \A i : /\ i \in G <=> i \in States /\ Goes(i)
                 /\ i \in P <=> i \in States /\ \A j \in 1..(i - 1) : j \notin PlacesOf(v, p)
        OBVIOUS
    <2>2. 1 \in P
        BY <1>0, <2>1
    <2> HIDE DEF G, P
    <2>3. ASSUME NEW i \in G
          PROVE  i + 1 \in States /\ i \notin PlacesOf(v, p) /\ i \in 1..n /\ step[i] = i + 1
        <3> DEFINE k == Matched(v, i, p)
        <3>1. i \in 1..(n + 1) /\ k # m /\ IF sized THEN n + 1 - i >= m ELSE i # n + 1 /\ i + k # n + 1
            BY <2>1, <2>p, <1>0
        <3>2. i \notin PlacesOf(v, p)
            BY <3>1, MatchedIs
        <3> HIDE DEF k
        <3>3. i \in 1..n
            BY <3>1, <2>0, <1>0
        <3>4. i + 1 \in States
            BY <3>3, <2>1, <1>0
        <3> QED
            BY <3>2, <3>3, <3>4 DEF NextPlace
    <2>4. Descends(States, G, step, P, rank)
        <3>1. G \subseteq States /\ P \subseteq States
            BY <2>p
        <3>2. step \in [G -> States]
            BY <2>3 DEF NextPlace
        <3>3. rank \in [P -> Nat]
            <4>1. ASSUME NEW i \in P PROVE n + 1 - i \in Nat
                <5>1. i \in 1..(n + 1)
                    BY <2>1, <2>p
                <5> QED
                    BY <5>1, <1>0
            <4> QED
                BY <4>1
        <3>4. ASSUME NEW i \in P \cap G PROVE step[i] \in P /\ rank[step[i]] < rank[i]
            <4>1. i + 1 \in States /\ i \notin PlacesOf(v, p) /\ i \in 1..n /\ step[i] = i + 1
                BY <2>3
            <4>2. \A j \in 1..((i + 1) - 1) : j \notin PlacesOf(v, p)
                <5>1. \A j \in 1..(i - 1) : j \notin PlacesOf(v, p)
                    BY <2>p
                <5>2. ASSUME NEW j \in 1..((i + 1) - 1) PROVE j = i \/ j \in 1..(i - 1)
                    BY <4>1, <1>0
                <5> QED
                    BY <5>1, <5>2, <4>1
            <4>3. i + 1 \in P
                BY <4>1, <4>2, <2>p
            <4>4. rank[i + 1] = n + 1 - (i + 1) /\ rank[i] = n + 1 - i
                BY <4>3
            <4>5. n + 1 - (i + 1) < n + 1 - i
                BY <4>1, <1>0
            <4> QED
                BY <4>1, <4>3, <4>4, <4>5
        <3> HIDE DEF step, rank, States
        <3> QED
            BY <3>1, <3>2, <3>3, <3>4 DEF Descends
    <2>5. at \in P /\ at \notin G
        <3> HIDE DEF step, rank, States
        <3> QED
            BY <2>2, <2>4, LoopLeaves
    <2> HIDE DEF at
    <2> DEFINE k == Matched(v, at, p)
    <2>6. /\ at \in 1..(n + 1) /\ \A j \in 1..(at - 1) : j \notin PlacesOf(v, p)
          /\ k = m \/ ~(IF sized THEN n + 1 - at >= m ELSE at # n + 1 /\ at + k # n + 1)
        BY <2>1, <2>5, <2>p, <1>0
    <2>7. r = IF k = m THEN <<at, at + m>> ELSE <<n + 1, n + 1>>
        BY <1>0, <1>1, <2>0 DEF Nowhere
    <2>8. k \in 0..m /\ (k = m <=> at \in PlacesOf(v, p))
        BY <2>6, MatchedIs
    <2> HIDE DEF k
    <2>9. CASE k = m
        <3>1. at \in PlacesOf(v, p)
            BY <2>8, <2>9
        <3>2. \A j \in PlacesOf(v, p) : at <= j
            <4> SUFFICES ASSUME NEW j \in PlacesOf(v, p), ~(at <= j) PROVE FALSE
                OBVIOUS
            <4>1. j \in Nat /\ j >= 1
                BY PlacesOfIs
            <4>2. j \in 1..(at - 1)
                BY <4>1, <2>6, <1>0
            <4> QED
                BY <4>2, <2>6
        <3>3. r = <<at, at + Len(p)>>
            BY <2>7, <2>9, <1>0
        <3> QED
            BY <3>1, <3>2, <3>3 DEF FoundFirst
    <2>10. CASE k # m
        <3>1. at + m > n + 1
            BY <2>6, <2>8, <2>10, <2>0, <1>0
        <3>2. PlacesOf(v, p) = {}
            BY <3>1, <2>6, NoneBehind
        <3>3. r = <<Len(v) + 1, Len(v) + 1>>
            BY <2>7, <2>10, <1>0
        <3> QED
            BY <3>2, <3>3 DEF FoundFirst
    <2> QED
        BY <2>9, <2>10
<1> QED
    BY <1>2, <1>3

-----------------------------------------------------------------------------
(* search_n, and the last place of a pattern *)

\* A mismatch with n times x is in the way of every place up to it.
LEMMA NonePast ==
    ASSUME NEW v, NEW n, NEW p, NEW m, Texts(v, n, p, m), NEW x, p = [k \in 1..m |-> x],
           NEW i \in Nat, NEW r \in Nat, r < m, v[i + r] # x,
           NEW j \in Nat, i <= j, j <= i + r
    PROVE  j \notin PlacesOf(v, p)
<1> SUFFICES ASSUME j \in PlacesOf(v, p) PROVE FALSE
    OBVIOUS
<1>1. n \in Nat /\ m \in Nat /\ \A k \in 1..m : v[j + k - 1] = p[k]
    BY PlacesOfIs
<1> DEFINE k == i + r - j + 1
<1>2. k \in 1..m /\ j + k - 1 = i + r
    BY <1>1
<1> HIDE DEF k
<1> QED
    BY <1>1, <1>2

\* The comparison of v from i on and p ends after k keys.
StopsAfter(v, n, p, m, i, k) ==
    /\ k \in 0..m /\ i + k <= n + 1
    /\ k = m \/ i + k = n + 1 \/ (i + k <= n /\ v[i + k] # p[k + 1])

LEMMA MatchedStops ==
    ASSUME NEW v, NEW n, NEW p, NEW m, Texts(v, n, p, m), NEW i \in 1..(n + 1),
           NEW k, k = Matched(v, i, p)
    PROVE  StopsAfter(v, n, p, m, i, k)
    BY MatchedIs DEF StopsAfter

\* search_n finds the first n times x.
LEMMA SearchNIs ==
    ASSUME NEW v, NEW n, NEW p, NEW m, Texts(v, n, p, m), NEW x, p = [k \in 1..m |-> x],
           NEW sized \in BOOLEAN, NEW r, r = SearchN(v, m, x, sized)
    PROVE  FoundFirst(v, p, r)
<1> DEFINE States == 1..(Len(v) + 1)
           Found(i) == Matched(v, i, [k \in 1..m |-> x])
           Goes(i) == /\ IF sized THEN Len(v) + 1 - i >= m
                         ELSE i # Len(v) + 1 /\ i + Found(i) # Len(v) + 1
                      /\ Found(i) # m
           G == {j \in States : Goes(j)}
           step == [i \in G |-> i + Found(i) + 1]
           P == {i \in States : \A j \in 1..(i - 1) : j \notin PlacesOf(v, p)}
           rank == [i \in P |-> n + 1 - i]
           at == Loop(States, step)[1]
<1>0. n \in Nat /\ m \in Nat /\ Len(v) = n /\ Len(p) = m
    BY DEF Texts
<1>1. r = IF m <= 0 THEN <<1, 1>> ELSE IF Found(at) = m THEN <<at, at + m>> ELSE Nowhere(v)
    BY DEF SearchN
<1>f. \A i : Found(i) = Matched(v, i, p)
    OBVIOUS
<1> HIDE DEF Found
<1>2. CASE m = 0
    <2>2. r = <<1, 1>>
        BY <1>1, <1>2
    <2> QED
        BY <2>2, <1>2, NoPattern
<1>3. CASE m # 0
    <2>0. m \in Nat \ {0}
        BY <1>0, <1>3
    <2>1. States = 1..(n + 1)
        BY <1>0
    <2>p. \A i : /\ i \in G <=> i \in States /\ Goes(i)
                 /\ i \in P <=> i \in States /\ \A j \in 1..(i - 1) : j \notin PlacesOf(v, p)
        OBVIOUS
    <2>2. 1 \in P
        BY <1>0, <2>1
    <2> HIDE DEF G, P
    <2>3. ASSUME NEW i \in G
          PROVE  /\ step[i] \in States /\ i < step[i] /\ i \in 1..n
                 /\ \A j \in i..(step[i] - 1) : j \notin PlacesOf(v, p)
        <3> DEFINE k == Found(i)
        <3>1. i \in 1..(n + 1) /\ k # m /\ IF sized THEN n + 1 - i >= m ELSE i # n + 1 /\ i + k # n + 1
            BY <2>1, <2>p, <1>0
        <3>2. k = Matched(v, i, p) /\ i \in 1..(n + 1)
            BY <1>f, <3>1
        <3>s. step[i] = i + k + 1
            OBVIOUS
        <3> HIDE DEF k, step
        <3>3. k \in 0..m /\ i + k <= n + 1 /\ (k = m \/ i + k = n + 1 \/ (i + k <= n /\ v[i + k] # p[k + 1]))
            <4>1. StopsAfter(v, n, p, m, i, k)
                BY <3>2, MatchedStops
            <4> QED
                BY <4>1 DEF StopsAfter
        <3>4. k \in Nat /\ k < m /\ i + k <= n /\ i \in 1..n
            BY <3>1, <3>3, <2>0, <1>0
        <3>5. p[k + 1] = x
            BY <3>4, <1>0
        <3>6. v[i + k] # x
            BY <3>3, <3>4, <3>5, <1>0
        <3>7. ASSUME NEW j \in i..(step[i] - 1) PROVE j \notin PlacesOf(v, p)
            <4>1. j \in Nat /\ i <= j /\ j <= i + k /\ i \in Nat
                BY <3>s, <3>4
            <4> QED
                BY <4>1, <3>4, <3>6, NonePast
        <3>8. step[i] \in States /\ i < step[i]
            BY <3>s, <3>4, <2>1, <1>0
        <3> QED
            BY <3>4, <3>7, <3>8
    <2>4. Descends(States, G, step, P, rank)
        <3>1. G \subseteq States /\ P \subseteq States
            BY <2>p
        <3>2. step \in [G -> States]
            <4>1. \A i \in G : i + Found(i) + 1 \in States
                BY <2>3
            <4> QED
                BY <4>1
        <3>3. rank \in [P -> Nat]
            <4>1. ASSUME NEW i \in P PROVE n + 1 - i \in Nat
                <5>1. i \in 1..(n + 1)
                    BY <2>1, <2>p
                <5> QED
                    BY <5>1, <1>0
            <4> QED
                BY <4>1
        <3>4. ASSUME NEW i \in P \cap G PROVE step[i] \in P /\ rank[step[i]] < rank[i]
            <4> DEFINE y == step[i]
            <4>1. y \in States /\ i < y /\ i \in 1..n /\ \A j \in i..(y - 1) : j \notin PlacesOf(v, p)
                BY <2>3
            <4> HIDE DEF y
            <4>y. y \in 1..(n + 1)
                BY <4>1, <2>1
            <4>2. \A j \in 1..(y - 1) : j \notin PlacesOf(v, p)
                <5>1. \A j \in 1..(i - 1) : j \notin PlacesOf(v, p)
                    BY <2>p
                <5>2. ASSUME NEW j \in 1..(y - 1) PROVE j \in i..(y - 1) \/ j \in 1..(i - 1)
                    BY <4>1, <4>y, <1>0
                <5> QED
                    BY <5>1, <5>2, <4>1
            <4>3. y \in P
                BY <4>1, <4>2, <2>p
            <4>4. rank[y] = n + 1 - y /\ rank[i] = n + 1 - i
                BY <4>3
            <4>5. n + 1 - y < n + 1 - i
                BY <4>1, <4>y, <1>0
            <4> QED
                BY <4>3, <4>4, <4>5 DEF y
        <3> HIDE DEF step, rank, States
        <3> QED
            BY <3>1, <3>2, <3>3, <3>4 DEF Descends
    <2>5. at \in P /\ at \notin G
        <3> HIDE DEF step, rank, States
        <3> QED
            BY <2>2, <2>4, LoopLeaves
    <2> HIDE DEF at
    <2> DEFINE k == Found(at)
    <2>6. /\ at \in 1..(n + 1) /\ \A j \in 1..(at - 1) : j \notin PlacesOf(v, p)
          /\ k = m \/ ~(IF sized THEN n + 1 - at >= m ELSE at # n + 1 /\ at + k # n + 1)
        BY <2>1, <2>5, <2>p, <1>0
    <2>7. r = IF k = m THEN <<at, at + m>> ELSE <<n + 1, n + 1>>
        BY <1>0, <1>1, <2>0 DEF Nowhere
    <2>x. k = Matched(v, at, p) /\ at \in 1..(n + 1)
        BY <1>f, <2>6
    <2> HIDE DEF k
    <2>8. k \in 0..m /\ (k = m <=> at \in PlacesOf(v, p))
        BY <2>x, MatchedIs
    <2>9. CASE k = m
        <3>1. at \in PlacesOf(v, p)
            BY <2>8, <2>9
        <3>2. \A j \in PlacesOf(v, p) : at <= j
            <4> SUFFICES ASSUME NEW j \in PlacesOf(v, p), ~(at <= j) PROVE FALSE
                OBVIOUS
            <4>1. j \in Nat /\ j >= 1
                BY PlacesOfIs
            <4>2. j \in 1..(at - 1)
                BY <4>1, <2>6, <1>0
            <4> QED
                BY <4>2, <2>6
        <3>3. r = <<at, at + Len(p)>>
            BY <2>7, <2>9, <1>0
        <3> QED
            BY <3>1, <3>2, <3>3 DEF FoundFirst
    <2>10. CASE k # m
        <3>1. at + m > n + 1
            BY <2>6, <2>8, <2>10, <2>0, <1>0
        <3>2. PlacesOf(v, p) = {}
            BY <3>1, <2>6, NoneBehind
        <3>3. r = <<Len(v) + 1, Len(v) + 1>>
            BY <2>7, <2>10, <1>0
        <3> QED
            BY <3>2, <3>3 DEF FoundFirst
    <2> QED
        BY <2>9, <2>10
<1> QED
    BY <1>2, <1>3

\* r is the last place of p, or nowhere.
FoundLast(v, p, r) ==
    IF PlacesOf(v, p) = {} THEN r = <<Len(v) + 1, Len(v) + 1>>
    ELSE \E i \in PlacesOf(v, p) : (\A j \in PlacesOf(v, p) : j <= i) /\ r = <<i, i + Len(p)>>

\* found is the last place of p before i, or nowhere.
LastBefore(v, p, i, found) ==
    \/ (\A j \in PlacesOf(v, p) : j >= i) /\ found = Nowhere(v)
    \/ \E k \in PlacesOf(v, p) : /\ k < i /\ found = <<k, k + Len(p)>>
                                 /\ \A j \in PlacesOf(v, p) : j >= i \/ j <= k

\* When no place is left, it is the last of all.
LEMMA LastOfAll ==
    ASSUME NEW v, NEW p, NEW i, NEW found, LastBefore(v, p, i, found),
           \A j \in PlacesOf(v, p) : ~(j >= i)
    PROVE  FoundLast(v, p, found)
<1>1. CASE PlacesOf(v, p) = {}
    BY <1>1 DEF LastBefore, FoundLast, Nowhere
<1>2. CASE PlacesOf(v, p) # {}
    <2>1. PICK k \in PlacesOf(v, p) : found = <<k, k + Len(p)>> /\ \A j \in PlacesOf(v, p) : j >= i \/ j <= k
        BY <1>2 DEF LastBefore
    <2>2. \A j \in PlacesOf(v, p) : j <= k
        BY <2>1
    <2> QED
        BY <1>2, <2>1, <2>2 DEF FoundLast
<1> QED
    BY <1>1, <1>2

-----------------------------------------------------------------------------
(* find_end, forwards *)

\* When a place of p is found, it is the last before the next.
LEMMA NextFound ==
    ASSUME NEW v, NEW n, NEW p, NEW m, Texts(v, n, p, m), NEW i \in 1..n, NEW found,
           LastBefore(v, p, i, found), NEW next,
           next = IF i \in PlacesOf(v, p) THEN <<i, i + m>> ELSE found
    PROVE  LastBefore(v, p, i + 1, next)
<1>0. n \in Nat /\ m \in Nat /\ Len(p) = m /\ \A j \in PlacesOf(v, p) : j \in Nat
    BY PlacesOfIs
<1>1. CASE i \in PlacesOf(v, p)
    <2>1. i < i + 1 /\ \A j \in PlacesOf(v, p) : j >= i + 1 \/ j <= i
        BY <1>0
    <2>2. next = <<i, i + Len(p)>>
        BY <1>0, <1>1
    <2> QED
        BY <1>1, <2>1, <2>2 DEF LastBefore
<1>2. CASE i \notin PlacesOf(v, p)
    <2>1. \A j \in PlacesOf(v, p) : j >= i => j >= i + 1
        BY <1>0, <1>2
    <2>2. next = found
        BY <1>2
    <2>3. \A k \in PlacesOf(v, p) : k < i => k < i + 1
        BY <1>0
    <2> QED
        BY <2>1, <2>2, <2>3 DEF LastBefore
<1> QED
    BY <1>1, <1>2

\* find_end for forward iterators remembers the last match.
LEMMA FindEndForwardIs ==
    ASSUME NEW v, NEW n, NEW p, NEW m, Texts(v, n, p, m), m # 0,
           NEW r, r = FindEndForward(v, p)
    PROVE  FoundLast(v, p, r)
<1> DEFINE States == [i : 1..(Len(v) + 1), found : Nat \X Nat]
           Goes(w) == /\ w.i # Len(v) + 1
                      /\ Matched(v, w.i, p) = Len(p) \/ w.i + Matched(v, w.i, p) # Len(v) + 1
           G == {u \in States : Goes(u)}
           Found(w) == IF Matched(v, w.i, p) = Len(p) THEN <<w.i, w.i + Len(p)>> ELSE w.found
           Step(w) == [i |-> w.i + 1, found |-> Found(w)]
           step == [w \in G |-> Step(w)]
           P == {w \in States : LastBefore(v, p, w.i, w.found)}
           rank == [w \in P |-> n + 1 - w.i]
           start == [i |-> 1, found |-> Nowhere(v)]
           last == Loop(States, step)[start]
<1>0. n \in Nat /\ m \in Nat \ {0} /\ Len(v) = n /\ Len(p) = m
    BY DEF Texts
<1>1. r = last.found
    BY DEF FindEndForward
<1>e. ASSUME NEW w \in States
      PROVE  w.i \in 1..(n + 1) /\ w.found \in Nat \X Nat
    BY <1>0
<1>t. ASSUME NEW i \in 1..(n + 1), NEW found \in Nat \X Nat
      PROVE  [i |-> i, found |-> found] \in States
    BY <1>0
<1>p. \A w : /\ w \in G <=> w \in States /\ Goes(w)
             /\ w \in P <=> w \in States /\ LastBefore(v, p, w.i, w.found)
    OBVIOUS
<1> HIDE DEF States, G, P
<1>2. start \in P
    <2>1. 1 \in 1..(n + 1) /\ Nowhere(v) \in Nat \X Nat
        BY <1>0 DEF Nowhere
    <2>2. start \in States
        BY <2>1, <1>t
    <2>3. \A j \in PlacesOf(v, p) : j >= 1
        BY PlacesOfIs
    <2>4. LastBefore(v, p, 1, Nowhere(v))
        BY <2>3 DEF LastBefore
    <2> QED
        BY <2>2, <2>4, <1>p
<1>3. ASSUME NEW w \in G
      PROVE  /\ Step(w) \in States /\ Step(w).i = w.i + 1 /\ w.i \in 1..n
             /\ w \in P => Step(w) \in P
    <2> DEFINE i == w.i
               k == Matched(v, i, p)
               next == Found(w)
    <2>1. i \in 1..n /\ w.found \in Nat \X Nat /\ i \in 1..(n + 1)
        BY <1>p, <1>e, <1>0
    <2>2. k = m <=> i \in PlacesOf(v, p)
        BY <2>1, MatchedIs
    <2>3. next = IF k = m THEN <<i, i + m>> ELSE w.found
        BY <1>0
    <2>s. Step(w) = [i |-> i + 1, found |-> next]
        OBVIOUS
    <2>d. w.i = i
        OBVIOUS
    <2> HIDE DEF i, k, next, Step
    <2>4. next = IF i \in PlacesOf(v, p) THEN <<i, i + m>> ELSE w.found
        BY <2>2, <2>3
    <2>5. next \in Nat \X Nat /\ i + 1 \in 1..(n + 1)
        BY <2>1, <2>4, <1>0
    <2>6. Step(w) \in States /\ Step(w).i = i + 1 /\ Step(w).found = next
        BY <2>5, <2>s, <1>t
    <2>7. w \in P => LastBefore(v, p, i + 1, next)
        <3> SUFFICES ASSUME w \in P PROVE LastBefore(v, p, i + 1, next)
            OBVIOUS
        <3> DEFINE found == w.found
        <3>1. LastBefore(v, p, i, found)
            BY <1>p, <2>d
        <3> HIDE DEF found
        <3>2. next = IF i \in PlacesOf(v, p) THEN <<i, i + m>> ELSE found
            BY <2>4 DEF found
        <3> QED
            BY <2>1, <3>1, <3>2, NextFound
    <2> QED
        BY <2>1, <2>6, <2>7, <2>d, <1>p
<1>4. Descends(States, G, step, P, rank)
    <2>1. G \subseteq States /\ P \subseteq States /\ step \in [G -> States]
        <3> HIDE DEF Step
        <3> QED
            BY <1>3, <1>p
    <2>3. rank \in [P -> Nat]
        <3>1. ASSUME NEW w \in P PROVE n + 1 - w.i \in Nat
            <4>1. w.i \in 1..(n + 1)
                BY <1>p, <1>e
            <4> QED
                BY <4>1, <1>0
        <3> QED
            BY <3>1
    <2>2. ASSUME NEW w \in P \cap G PROVE step[w] \in P /\ rank[step[w]] < rank[w]
        <3> HIDE DEF Step
        <3>1. step[w] = Step(w) /\ Step(w) \in P /\ Step(w).i = w.i + 1 /\ w.i \in 1..n
            BY <1>3
        <3>2. n + 1 - (w.i + 1) < n + 1 - w.i
            BY <3>1, <1>0
        <3> QED
            BY <3>1, <3>2
    <2> HIDE DEF step, rank
    <2> QED
        BY <2>1, <2>2, <2>3 DEF Descends
<1>5. last \in P /\ last \notin G
    <2> HIDE DEF start, step, rank
    <2> QED
        BY <1>2, <1>4, LoopLeaves
<1> HIDE DEF last
<1> DEFINE i == last.i
           k == Matched(v, i, p)
<1>6. /\ i \in 1..(n + 1) /\ LastBefore(v, p, i, r)
      /\ i = n + 1 \/ (k # m /\ i + k = n + 1)
    BY <1>5, <1>p, <1>e, <1>0, <1>1
<1>7. k \in 0..m
    <2> HIDE DEF i
    <2> QED
        BY <1>6, MatchedIs
<1> HIDE DEF i, k
<1>8. i + m > n + 1
    BY <1>6, <1>7, <1>0
<1>9. \A j \in PlacesOf(v, p) : ~(j >= i)
    <2> SUFFICES ASSUME NEW j \in PlacesOf(v, p), j >= i PROVE FALSE
        OBVIOUS
    <2>1. j \in Nat /\ j + m <= n + 1
        BY PlacesOfIs
    <2> QED
        BY <2>1, <1>8, <1>6, <1>0
<1> QED
    BY <1>6, <1>9, LastOfAll

-----------------------------------------------------------------------------
(* find_end, backwards, and the subrange tests *)

\* Where the comparison of what ends at l and p, from their ends, stops.
LEMMA MatchedBackwardIs ==
    ASSUME NEW v, NEW n, NEW p, NEW m, Texts(v, n, p, m), NEW l \in 1..(n + 1),
           NEW r, r = MatchedBackward(v, l, p)
    PROVE  /\ r \in 0..m /\ r < l
           /\ r = m <=> l - m \in PlacesOf(v, p)
<1> DEFINE S == {k \in 0..m : k = m \/ l - 1 - k < 1 \/ v[l - 1 - k] # p[m - k]}
<1>0. n \in Nat /\ m \in Nat /\ Len(v) = n /\ Len(p) = m
    BY DEF Texts
<1>1. S \in SUBSET Nat /\ m \in S
    BY <1>0
<1>2. Min(S) \in S /\ \A y \in S : Min(S) <= y
    <2> HIDE DEF S
    <2> QED
        BY <1>1, MinIs
<1>3. r = Min(S)
    BY <1>0 DEF MatchedBackward
<1>4. r \in S /\ \A y \in S : r <= y
    BY <1>2, <1>3
<1>5. r \in 0..m
    BY <1>4
<1>6. ASSUME NEW j \in 0..m, j < r PROVE l - 1 - j >= 1 /\ v[l - 1 - j] = p[m - j]
    <2>1. j \notin S
        BY <1>4, <1>5, <1>6, <1>0
    <2> QED
        BY <2>1, <1>6, <1>0
<1> HIDE DEF S
<1>7. r < l
    <2>1. CASE r = 0
        BY <2>1
    <2>2. CASE r # 0
        <3>1. r - 1 \in 0..m /\ r - 1 < r
            BY <2>2, <1>5, <1>0
        <3>2. l - 1 - (r - 1) >= 1
            BY <3>1, <1>6
        <3> QED
            BY <3>2, <1>5, <1>0
    <2> QED
        BY <2>1, <2>2
<1> DEFINE i == l - m
<1>8. ASSUME r = m PROVE i \in PlacesOf(v, p)
    <2>1. i \in Nat /\ i >= 1 /\ i + m <= n + 1
        BY <1>7, <1>8, <1>0
    <2>2. ASSUME NEW k \in 1..m PROVE v[i + k - 1] = p[k]
        <3>1. m - k \in 0..m /\ m - k < r /\ l - 1 - (m - k) = i + k - 1 /\ m - (m - k) = k
            BY <1>8, <1>0
        <3>2. v[l - 1 - (m - k)] = p[m - (m - k)]
            BY <3>1, <1>6
        <3> QED
            BY <3>1, <3>2
    <2> HIDE DEF i
    <2> QED
        BY <2>1, <2>2, PlacesOfIs
<1>9. ASSUME i \in PlacesOf(v, p) PROVE r = m
    <2>1. i >= 1 /\ \A k \in 1..m : v[i + k - 1] = p[k]
        <3> HIDE DEF i
        <3> QED
            BY <1>9, PlacesOfIs
    <2>2. r = m \/ l - 1 - r < 1 \/ v[l - 1 - r] # p[m - r]
        BY <1>4 DEF S
    <2> SUFFICES ASSUME r # m PROVE FALSE
        OBVIOUS
    <2> DEFINE q == m - r
               y == l - 1 - r
    <2>3. i >= 1 /\ l = i + m /\ r < m
        BY <2>1, <1>5, <1>0
    <2>t. l \in Int /\ m \in Int /\ r \in Int
        BY <1>5, <1>0
    <2>a. q \in 1..m
        BY <2>3, <1>5, <1>0
    <2>b. i + q - 1 = y
        BY <2>t
    <2>c. y >= 1
        BY <2>3, <2>t
    <2>4. q \in 1..m /\ i + q - 1 = y /\ y >= 1
        BY <2>a, <2>b, <2>c
    <2>5. v[y] # p[q]
        <3>1. ~(y < 1)
            BY <2>c, <2>t
        <3> QED
            BY <2>2, <2>3, <2>t, <3>1
    <2> HIDE DEF q, y, i
    <2>6. v[i + q - 1] = p[q]
        BY <2>1, <2>4
    <2> QED
        BY <2>4, <2>5, <2>6
<1> QED
    BY <1>5, <1>7, <1>8, <1>9

\* No place of p ends behind l.
EndsBy(v, p, m, l) == \A j \in PlacesOf(v, p) : j + m <= l

\* With p ending at l, that is the last place; with none that fits before, there
\* is none.
LEMMA LastFromBehind ==
    ASSUME NEW v, NEW n, NEW p, NEW m, Texts(v, n, p, m), NEW l \in 1..(n + 1), EndsBy(v, p, m, l),
           NEW r, \/ l - m \in PlacesOf(v, p) /\ r = <<l - m, l>>
                  \/ l < m + 1 /\ r = Nowhere(v)
    PROVE  FoundLast(v, p, r)
<1>0. n \in Nat /\ m \in Nat /\ Len(p) = m /\ \A j \in PlacesOf(v, p) : j \in Nat /\ j >= 1
    BY PlacesOfIs
<1> DEFINE i == l - m
<1>1. CASE i \in PlacesOf(v, p) /\ r = <<i, l>>
    <2>1. \A j \in PlacesOf(v, p) : j <= i
        BY <1>0 DEF EndsBy
    <2>2. l = i + m
        BY <1>0
    <2> HIDE DEF i
    <2>3. r = <<i, i + Len(p)>>
        BY <2>2, <1>1, <1>0
    <2> QED
        BY <1>1, <2>1, <2>3 DEF FoundLast
<1>2. CASE l < m + 1 /\ r = Nowhere(v)
    <2>1. PlacesOf(v, p) = {}
        BY <1>0, <1>2 DEF EndsBy
    <2> QED
        BY <2>1, <1>2 DEF FoundLast, Nowhere
<1> QED
    BY <1>1, <1>2

\* find_end from the end, to where the pattern no longer fits.
LEMMA FindEndBackwardIs ==
    ASSUME NEW v, NEW n, NEW p, NEW m, Texts(v, n, p, m), NEW start \in 1..(n + 1), start <= m,
           NEW r, r = FindEndBackward(v, p, start)
    PROVE  FoundLast(v, p, r)
<1> DEFINE States == start..(Len(v) + 1)
           Found(l) == MatchedBackward(v, l, p)
           Goes(l) == l # start /\ Found(l) # Len(p) /\ (Found(l) = 0 \/ l - Found(l) # 1)
           G == {k \in States : Goes(k)}
           step == [l \in G |-> l - 1]
           P == {l \in States : EndsBy(v, p, m, l)}
           rank == [l \in P |-> l]
           at == Loop(States, step)[Len(v) + 1]
<1>0. n \in Nat /\ m \in Nat \ {0} /\ Len(v) = n /\ Len(p) = m
    BY DEF Texts
<1>1. r = IF at # start /\ Found(at) = Len(p) THEN <<at - Len(p), at>> ELSE Nowhere(v)
    BY DEF FindEndBackward
<1>s. States = start..(n + 1)
    BY <1>0
<1>p. \A l : /\ l \in G <=> l \in States /\ Goes(l)
             /\ l \in P <=> l \in States /\ EndsBy(v, p, m, l)
    OBVIOUS
<1> HIDE DEF G, P
<1>2. n + 1 \in P
    <2>1. EndsBy(v, p, m, n + 1)
        BY PlacesOfIs DEF EndsBy
    <2> QED
        BY <2>1, <1>p, <1>s, <1>0
<1>3. ASSUME NEW l \in G PROVE l - 1 \in States /\ l \in Nat /\ (l \in P => l - 1 \in P)
    <2> DEFINE k == Found(l)
    <2>1. l \in 1..(n + 1) /\ l \in start..(n + 1) /\ l # start /\ k # m
        BY <1>p, <1>s, <1>0
    <2>2. l - m \notin PlacesOf(v, p)
        BY <2>1, MatchedBackwardIs
    <2>3. l - 1 \in States
        BY <2>1, <1>s, <1>0
    <2>4. ASSUME l \in P PROVE EndsBy(v, p, m, l - 1)
        <3> SUFFICES ASSUME NEW j \in PlacesOf(v, p) PROVE j + m <= l - 1
            BY DEF EndsBy
        <3>1. j \in Nat /\ j + m <= l
            BY <2>4, <1>p, PlacesOfIs DEF EndsBy
        <3>2. j # l - m
            BY <2>2
        <3> QED
            BY <3>1, <3>2, <2>1, <1>0
    <2> QED
        BY <2>1, <2>3, <2>4, <1>p
<1>4. Descends(States, G, step, P, rank)
    <2>1. G \subseteq States /\ P \subseteq States /\ step \in [G -> States]
        BY <1>3, <1>p
    <2>3. rank \in [P -> Nat]
        BY <1>p, <1>s, <1>0
    <2>2. ASSUME NEW l \in P \cap G PROVE step[l] \in P /\ rank[step[l]] < rank[l]
        <3>1. l - 1 \in P /\ l \in Nat
            BY <1>3
        <3> QED
            BY <3>1
    <2> HIDE DEF step, rank, States
    <2> QED
        BY <2>1, <2>2, <2>3 DEF Descends
<1>5. at \in P /\ at \notin G
    <2>1. Len(v) + 1 \in P
        BY <1>2, <1>0
    <2> HIDE DEF step, rank, States
    <2> QED
        BY <2>1, <1>4, LoopLeaves
<1> HIDE DEF at
<1> DEFINE k == Found(at)
<1>6. /\ at \in 1..(n + 1) /\ at \in start..(n + 1) /\ EndsBy(v, p, m, at)
      /\ at = start \/ k = m \/ (k # 0 /\ at - k = 1)
    BY <1>5, <1>p, <1>s, <1>0
<1>7. k \in 0..m /\ k < at /\ (k = m <=> at - m \in PlacesOf(v, p))
    BY <1>6, MatchedBackwardIs
<1>8. r = IF at # start /\ k = m THEN <<at - m, at>> ELSE Nowhere(v)
    BY <1>0, <1>1
<1> HIDE DEF k
<1>9. CASE at # start /\ k = m
    <2>1. at - m \in PlacesOf(v, p) /\ r = <<at - m, at>>
        BY <1>7, <1>8, <1>9
    <2> QED
        BY <2>1, <1>6, LastFromBehind
<1>10. CASE ~(at # start /\ k = m)
    <2>1. at < m + 1
        BY <1>6, <1>7, <1>10, <1>0
    <2>2. r = Nowhere(v)
        BY <1>8, <1>10
    <2> QED
        BY <2>1, <2>2, <1>6, LastFromBehind
<1> QED
    BY <1>9, <1>10

\* find_end, in the way of each category.
LEMMA FindEndIs ==
    ASSUME NEW v, NEW n, NEW p, NEW m, Texts(v, n, p, m), NEW tag, NEW r, r = FindEnd(v, p, tag)
    PROVE  FoundLast(v, p, r)
<1>0. n \in Nat /\ m \in Nat /\ Len(v) = n /\ Len(p) = m /\ (p = <<>> <=> m = 0)
    BY DEF Texts
<1>1. CASE m = 0
    <2>1. r = <<n + 1, n + 1>>
        BY <1>0, <1>1 DEF FindEnd, Nowhere
    <2>2. \A i : i \in PlacesOf(v, p) <=> i \in 1..(n + 1)
        BY <1>0, <1>1, PlacesOfIs
    <2>3. n + 1 \in PlacesOf(v, p) /\ \A j \in PlacesOf(v, p) : j <= n + 1
        BY <2>2, <1>0
    <2>4. r = <<n + 1, n + 1 + Len(p)>>
        BY <2>1, <1>0, <1>1
    <2> QED
        BY <2>3, <2>4 DEF FoundLast
<1>2. CASE m # 0 /\ r = FindEndForward(v, p)
    BY <1>2, FindEndForwardIs
<1>3. CASE m # 0 /\ r = FindEndBackward(v, p, 1)
    <2>1. 1 \in 1..(n + 1) /\ 1 <= m
        BY <1>0, <1>3
    <2> QED
        BY <2>1, <1>3, FindEndBackwardIs
<1>4. CASE m # 0 /\ ~(n < m) /\ r = FindEndBackward(v, p, m)
    <2>1. m \in 1..(n + 1) /\ m <= m
        BY <1>0, <1>4
    <2> QED
        BY <2>1, <1>4, FindEndBackwardIs
<1>5. CASE n < m /\ r = Nowhere(v)
    <2>1. PlacesOf(v, p) = {}
        BY <1>0, <1>5, PlacesOfIs
    <2> QED
        BY <2>1, <1>5 DEF FoundLast, Nowhere
<1> QED
    BY <1>0, <1>1, <1>2, <1>3, <1>4, <1>5 DEF FindEnd

-----------------------------------------------------------------------------
\* starts_with, ends_with and contains ask for a place.
LEMMA StartsWithIs ==
    ASSUME NEW v, NEW n, NEW p, NEW m, Texts(v, n, p, m)
    PROVE  StartsWith(v, p) <=> 1 \in PlacesOf(v, p)
<1>1. n \in Nat /\ Len(p) = m /\ 1 \in 1..(n + 1)
    BY DEF Texts
<1> QED
    BY <1>1, MatchedIs DEF StartsWith

LEMMA EndsWithIs ==
    ASSUME NEW v, NEW n, NEW p, NEW m, Texts(v, n, p, m)
    PROVE  EndsWith(v, p) <=> n + 1 - m \in PlacesOf(v, p)
<1>0. n \in Nat /\ m \in Nat /\ Len(v) = n /\ Len(p) = m /\ v \in [1..n -> Nat] /\ p \in [1..m -> Nat]
    BY DEF Texts
<1> DEFINE d == n - m
           s == SubSeq(v, d + 1, n)
<1>1. EndsWith(v, p) <=> d >= 0 /\ s = p
    BY <1>0 DEF EndsWith
<1>2. CASE d >= 0
    <2>0. d \in Nat /\ d + 1 \in 1..(n + 1) /\ n - d = m /\ n + 1 - m = d + 1
        BY <1>0, <1>2
    <2>1. s = [k \in 1..m |-> v[d + k]]
        <3>1. v \in Seq(Nat) /\ DOMAIN v = 1..n
            BY <1>0
        <3> HIDE DEF d
        <3>2. s = [k \in 1..(n - (d + 1) + 1) |-> v[k + (d + 1) - 1]]
            BY <3>1, <2>0, <1>0
        <3>3. n - (d + 1) + 1 = m /\ \A k \in 1..m : k + (d + 1) - 1 = d + k
            BY <2>0, <1>0
        <3> QED
            BY <3>2, <3>3
    <2> HIDE DEF s
    <2>2. s = p <=> \A k \in 1..m : v[d + k] = p[k]
        BY <2>1, <1>0
    <2>3. \A k \in 1..m : (d + 1) + k - 1 = d + k
        BY <2>0, <1>0
    <2>4. (d + 1) + m <= n + 1
        BY <2>0, <1>0
    <2> HIDE DEF d
    <2>5. d + 1 \in PlacesOf(v, p) <=> \A k \in 1..m : v[d + k] = p[k]
        <3>1. d + 1 \in PlacesOf(v, p) <=> \A k \in 1..m : v[(d + 1) + k - 1] = p[k]
            <4> DEFINE i == d + 1
            <4>1. i \in Nat /\ i >= 1 /\ i + m <= n + 1
                BY <2>0, <2>4
            <4> HIDE DEF i
            <4>2. i \in PlacesOf(v, p) <=>
                      i \in Nat /\ i >= 1 /\ i + m <= n + 1 /\ \A k \in 1..m : v[i + k - 1] = p[k]
                BY PlacesOfIs
            <4>3. i \in PlacesOf(v, p) <=> \A k \in 1..m : v[i + k - 1] = p[k]
                BY <4>1, <4>2
            <4> QED
                BY <4>3 DEF i
        <3> QED
            BY <3>1, <2>3
    <2> QED
        BY <1>1, <1>2, <2>0, <2>2, <2>5
<1>3. CASE ~(d >= 0)
    <2>1. n + 1 - m \notin PlacesOf(v, p)
        BY <1>0, <1>3, PlacesOfIs
    <2> QED
        BY <2>1, <1>1, <1>3
<1> QED
    BY <1>2, <1>3

LEMMA ContainsIs ==
    ASSUME NEW v, NEW n, NEW p, NEW m, Texts(v, n, p, m), NEW sized \in BOOLEAN
    PROVE  ContainsSubrange(v, p, sized) <=> PlacesOf(v, p) # {}
<1>0. n \in Nat /\ m \in Nat /\ Len(v) = n /\ Len(p) = m /\ (p = <<>> <=> m = 0)
    BY DEF Texts
<1> DEFINE r == Search(v, p, sized)
<1>1. FoundFirst(v, p, r)
    BY SearchIs
<1>2. ContainsSubrange(v, p, sized) <=> p = <<>> \/ r[1] # r[2]
    BY DEF ContainsSubrange
<1> HIDE DEF r
<1>3. CASE m = 0
    <2>1. 1 \in PlacesOf(v, p)
        BY <1>0, <1>3, PlacesOfIs
    <2> QED
        BY <2>1, <1>0, <1>2, <1>3
<1>4. CASE m # 0 /\ PlacesOf(v, p) = {}
    <2>1. r[1] = r[2]
        BY <1>1, <1>4 DEF FoundFirst
    <2> QED
        BY <2>1, <1>0, <1>2, <1>4
<1>5. CASE m # 0 /\ PlacesOf(v, p) # {}
    <2>1. PICK i \in PlacesOf(v, p) : r = <<i, i + Len(p)>>
        BY <1>1, <1>5 DEF FoundFirst
    <2>2. i \in Nat
        BY PlacesOfIs
    <2>3. r[1] # r[2]
        BY <2>1, <2>2, <1>0, <1>5
    <2> QED
        BY <2>3, <1>2, <1>5
<1> QED
    BY <1>3, <1>4, <1>5

-----------------------------------------------------------------------------
(* The bounds, and two elements of minmax_element *)

\* lower_bound and upper_bound find the ends of the equal elements, and
\* binary_search whether there are any.
LEMMA BoundsAre ==
    ASSUME NEW v, NEW x, NEW l, l = Len(v) + 1, NEW lo, NEW hi, EqualAt(v, x, 1, l, lo, hi), NEW sized
    PROVE  /\ LowerBound(v, x, sized) = lo /\ UpperBound(v, x, sized) = hi
           /\ BinarySearch(v, x, sized) <=> lo # hi
<1>1. CutAt(Below(v, x), 1, l, lo) /\ CutAt(NotAbove(v, x), 1, l, hi)
    BY DEF EqualAt
<1>2. LowerBound(v, x, sized) = lo
    BY <1>1, PartitionPointIs DEF LowerBound
<1>3. UpperBound(v, x, sized) = hi
    BY <1>1, PartitionPointIs DEF UpperBound
<1>4. BinarySearch(v, x, sized) <=> lo # l /\ ~(x < v[lo])
    BY <1>2 DEF BinarySearch
<1>5. /\ l \in Nat /\ lo \in 1..l /\ hi \in 1..l /\ x \in Int
      /\ \A k \in 1..(l - 1) : v[k] \in Nat /\ (v[k] < x <=> k < lo) /\ (~(x < v[k]) <=> k < hi)
    BY EqualAtIs
<1>6. ~(hi < lo)
    <2> SUFFICES ASSUME hi < lo PROVE FALSE
        OBVIOUS
    <2>1. hi \in 1..(l - 1) /\ ~(hi < hi)
        BY <1>5
    <2>2. v[hi] \in Nat /\ v[hi] < x /\ x < v[hi]
        BY <2>1, <1>5
    <2> QED
        BY <2>2, <1>5
<1>7. lo # l => (~(x < v[lo]) <=> lo < hi)
    BY <1>5
<1>8. lo # hi <=> lo # l /\ lo < hi
    BY <1>5, <1>6
<1> QED
    BY <1>2, <1>3, <1>4, <1>7, <1>8

\* The elements of x have the keys k.
Keyed(x, k, n) ==
    /\ n \in Nat /\ Len(x) = n /\ DOMAIN x = 1..n
    /\ \A i \in 1..n : k[i] \in Nat /\ x[i].key = k[i]

LEMMA KeyedIs ==
    ASSUME NEW x, NEW k, NEW n, Keyed(x, k, n)
    PROVE  /\ n \in Nat /\ Len(x) = n /\ DOMAIN x = 1..n
           /\ \A i \in 1..n : k[i] \in Nat
           /\ \A i \in 1..n, j \in 1..n : Lesser(x[i], x[j]) <=> k[i] < k[j]
    BY DEF Keyed, Lesser

\* Up to c, s is the first of the least and t the last of the greatest.
Extremes(k, c, s, t) ==
    /\ s \in 1..c /\ t \in 1..c
    /\ \A j \in 1..c : /\ ~(k[j] < k[s]) /\ (j < s => k[s] < k[j])
                       /\ ~(k[t] < k[j]) /\ (j > t => k[j] < k[t])

\* minmax_element: what the next two elements, and the last one alone, change.
LEMMA PairKeeps ==
    ASSUME NEW x, NEW k, NEW n, Keyed(x, k, n), NEW i \in Nat, i < n, NEW s, NEW t,
           Extremes(k, i - 1, s, t), NEW r, r = Pair(x, [i |-> i, min |-> s, max |-> t])
    PROVE  /\ r = [i |-> i + 2, min |-> r.min, max |-> r.max]
           /\ Extremes(k, i + 1, r.min, r.max)
<1> DEFINE swapped == k[i + 1] < k[i]
           small == IF swapped THEN i + 1 ELSE i
           great == IF swapped THEN i ELSE i + 1
           min == IF k[small] < k[s] THEN small ELSE s
           max == IF k[great] < k[t] THEN t ELSE great
<1>0. /\ n \in Nat /\ (\A j \in 1..n : k[j] \in Nat)
      /\ \A j \in 1..n, m \in 1..n : Lesser(x[j], x[m]) <=> k[j] < k[m]
    BY KeyedIs
<1>1. s \in 1..(i - 1) /\ t \in 1..(i - 1)
    BY DEF Extremes
<1>2. i \in 1..n /\ i + 1 \in 1..n /\ s \in 1..n /\ t \in 1..n /\ small \in 1..n /\ great \in 1..n
    BY <1>0, <1>1
<1>3. r = [i |-> i + 2, min |-> min, max |-> max]
    <2>1. Lesser(x[i + 1], x[i]) <=> swapped
        BY <1>0, <1>2
    <2> DEFINE w == [i |-> i, min |-> s, max |-> t]
    <2>2. w.i = i /\ w.min = s /\ w.max = t
        OBVIOUS
    <2> HIDE DEF w, swapped
    <2>3. r = [i |-> i + 2, min |-> Lower(x, small, s), max |-> NotLower(x, great, t)]
        BY <2>1, <2>2 DEF Pair, w
    <2> HIDE DEF small, great
    <2>4. Lower(x, small, s) = min /\ NotLower(x, great, t) = max
        BY <1>0, <1>2 DEF Lower, NotLower
    <2> QED
        BY <2>3, <2>4
<1>4. \A j \in 1..(i - 1) : /\ ~(k[j] < k[s]) /\ (j < s => k[s] < k[j])
                            /\ ~(k[t] < k[j]) /\ (j > t => k[j] < k[t])
    BY DEF Extremes
<1>5. /\ k[i] \in Nat /\ k[i + 1] \in Nat /\ k[s] \in Nat /\ k[t] \in Nat
      /\ \A j \in 1..(i - 1) : k[j] \in Nat
    BY <1>0, <1>2
<1>6. min \in 1..(i + 1) /\ max \in 1..(i + 1)
    BY <1>1, <1>2
<1>7. ASSUME NEW j \in 1..(i + 1)
      PROVE  /\ ~(k[j] < k[min]) /\ (j < min => k[min] < k[j])
             /\ ~(k[max] < k[j]) /\ (j > max => k[j] < k[max])
    <2>1. CASE j \in 1..(i - 1)
        <3>1. /\ ~(k[j] < k[s]) /\ (j < s => k[s] < k[j]) /\ k[j] \in Nat
              /\ ~(k[t] < k[j]) /\ (j > t => k[j] < k[t])
            BY <2>1, <1>4, <1>5
        <3> QED
            BY <3>1, <2>1, <1>1, <1>2, <1>5
    <2>2. CASE j = i
        BY <2>2, <1>1, <1>2, <1>5
    <2>3. CASE j = i + 1
        BY <2>3, <1>1, <1>2, <1>5
    <2> QED
        BY <2>1, <2>2, <2>3
<1> HIDE DEF min, max
<1>8. r.min = min /\ r.max = max
    BY <1>3
<1>9. Extremes(k, i + 1, min, max)
    BY <1>6, <1>7 DEF Extremes
<1> QED
    BY <1>3, <1>8, <1>9

LEMMA SingleKeeps ==
    ASSUME NEW x, NEW k, NEW n, Keyed(x, k, n), NEW i \in Nat, i = n, NEW s, NEW t,
           Extremes(k, i - 1, s, t), NEW r, r = Single(x, [i |-> i, min |-> s, max |-> t])
    PROVE  /\ r = [i |-> i + 1, min |-> r.min, max |-> r.max]
           /\ Extremes(k, i, r.min, r.max)
<1> DEFINE less == k[i] < k[s]
           min == IF less THEN i ELSE s
           max == IF less \/ k[i] < k[t] THEN t ELSE i
<1>0. /\ n \in Nat /\ (\A j \in 1..n : k[j] \in Nat)
      /\ \A j \in 1..n, m \in 1..n : Lesser(x[j], x[m]) <=> k[j] < k[m]
    BY KeyedIs
<1>1. s \in 1..(i - 1) /\ t \in 1..(i - 1)
    BY DEF Extremes
<1>2. i \in 1..n /\ s \in 1..n /\ t \in 1..n
    BY <1>0, <1>1
<1>3. r = [i |-> i + 1, min |-> min, max |-> max]
    <2>1. (Lesser(x[i], x[s]) <=> less) /\ (Lesser(x[i], x[t]) <=> k[i] < k[t])
        BY <1>0, <1>2
    <2> HIDE DEF less
    <2> QED
        BY <2>1 DEF Single, NotLower
<1>4. \A j \in 1..(i - 1) : /\ ~(k[j] < k[s]) /\ (j < s => k[s] < k[j])
                            /\ ~(k[t] < k[j]) /\ (j > t => k[j] < k[t])
    BY DEF Extremes
<1>5. /\ k[i] \in Nat /\ k[s] \in Nat /\ k[t] \in Nat
      /\ \A j \in 1..(i - 1) : k[j] \in Nat
    BY <1>0, <1>2
<1>6. min \in 1..i /\ max \in 1..i
    BY <1>1, <1>2
<1>7. ASSUME NEW j \in 1..i
      PROVE  /\ ~(k[j] < k[min]) /\ (j < min => k[min] < k[j])
             /\ ~(k[max] < k[j]) /\ (j > max => k[j] < k[max])
    <2>0. ~(k[t] < k[s])
        BY <1>1, <1>4
    <2>1. CASE j \in 1..(i - 1)
        <3>1. /\ ~(k[j] < k[s]) /\ (j < s => k[s] < k[j]) /\ k[j] \in Nat
              /\ ~(k[t] < k[j]) /\ (j > t => k[j] < k[t])
            BY <2>1, <1>4, <1>5
        <3> QED
            BY <3>1, <2>1, <1>1, <1>2, <1>5
    <2>2. CASE j = i
        BY <2>0, <2>2, <1>1, <1>2, <1>5
    <2> QED
        BY <2>1, <2>2
<1> HIDE DEF min, max
<1>8. r.min = min /\ r.max = max
    BY <1>3
<1>9. Extremes(k, i, min, max)
    BY <1>6, <1>7 DEF Extremes
<1> QED
    BY <1>3, <1>8, <1>9

-----------------------------------------------------------------------------
(* minmax_element *)

\* minmax_element finds the first of the least and the last of the greatest.
LEMMA MinMaxElementIs ==
    ASSUME NEW x, NEW k, NEW n, Keyed(x, k, n), n # 0, NEW r, r = MinMaxElement(x)
    PROVE  r = [min |-> r.min, max |-> r.max] /\ Extremes(k, n, r.min, r.max)
<1> DEFINE States == [i : Nat \ {0}, min : DOMAIN x, max : DOMAIN x]
           G == {u \in States : u.i <= Len(x)}
           Step(w) == IF w.i = Len(x) THEN Single(x, w) ELSE Pair(x, w)
           step == [w \in G |-> Step(w)]
           Upto(i) == IF i <= n THEN i - 1 ELSE n
           P == {w \in States : w.i \in 3..(n + 3) /\ Extremes(k, Upto(w.i), w.min, w.max)}
           rank == [w \in P |-> n + 3 - w.i]
           swapped == Len(x) >= 2 /\ Lesser(x[2], x[1])
           start == [i |-> 3, min |-> IF swapped THEN 2 ELSE 1,
                     max |-> IF swapped \/ Len(x) < 2 THEN 1 ELSE 2]
           last == Loop(States, step)[start]
<1>0. /\ n \in Nat \ {0} /\ Len(x) = n /\ DOMAIN x = 1..n /\ (\A i \in 1..n : k[i] \in Nat)
      /\ \A i \in 1..n, j \in 1..n : Lesser(x[i], x[j]) <=> k[i] < k[j]
    BY KeyedIs
<1>1. r = [min |-> last.min, max |-> last.max]
    BY DEF MinMaxElement
<1>e. ASSUME NEW w \in States
      PROVE  /\ w.i \in Nat \ {0} /\ w.min \in 1..n /\ w.max \in 1..n
             /\ w = [i |-> w.i, min |-> w.min, max |-> w.max]
    BY <1>0
<1>t. ASSUME NEW i \in Nat \ {0}, NEW s \in 1..n, NEW t \in 1..n
      PROVE  [i |-> i, min |-> s, max |-> t] \in States
    BY <1>0
<1>p. \A w : /\ w \in G <=> w \in States /\ w.i <= n
             /\ w \in P <=> w \in States /\ w.i \in 3..(n + 3) /\ Extremes(k, Upto(w.i), w.min, w.max)
    BY <1>0
<1> HIDE DEF States, G, P
<1>2. start \in P
    <2>1. CASE n = 1
        <3>1. start = [i |-> 3, min |-> 1, max |-> 1] /\ Upto(3) = 1
            BY <2>1, <1>0
        <3>2. k[1] \in Nat
            BY <1>0
        <3>3. Extremes(k, 1, 1, 1)
            BY <3>2 DEF Extremes
        <3> HIDE DEF start
        <3>4. start \in States /\ start.i = 3 /\ start.min = 1 /\ start.max = 1
            BY <3>1, <1>0, <1>t
        <3> QED
            BY <3>1, <3>3, <3>4, <1>0, <1>p
    <2>2. CASE n # 1
        <3> DEFINE s == IF k[2] < k[1] THEN 2 ELSE 1
                   t == IF k[2] < k[1] THEN 1 ELSE 2
        <3>0. n >= 2 /\ 1 \in 1..n /\ 2 \in 1..n /\ k[1] \in Nat /\ k[2] \in Nat
            BY <2>2, <1>0
        <3>1. start = [i |-> 3, min |-> s, max |-> t] /\ Upto(3) = 2
            BY <3>0, <1>0
        <3>2. s \in 1..2 /\ t \in 1..2
            OBVIOUS
        <3>3. ASSUME NEW j \in 1..2
              PROVE  /\ ~(k[j] < k[s]) /\ (j < s => k[s] < k[j])
                     /\ ~(k[t] < k[j]) /\ (j > t => k[j] < k[t])
            <4>1. j = 1 \/ j = 2
                OBVIOUS
            <4> QED
                BY <4>1, <3>0
        <3> HIDE DEF s, t, start
        <3>4. Extremes(k, 2, s, t)
            BY <3>2, <3>3 DEF Extremes
        <3>5. start \in States /\ start.i = 3 /\ start.min = s /\ start.max = t
            BY <3>0, <3>1, <3>2, <1>t
        <3> QED
            BY <3>1, <3>4, <3>5, <1>0, <1>p
    <2> QED
        BY <2>1, <2>2
<1>3. ASSUME NEW w \in G
      PROVE  /\ w.i \in Nat
             /\ w \in P => Step(w) \in P /\ Step(w).i > w.i
    <2>0. w.i \in Nat
        BY <1>p, <1>e
    <2> SUFFICES ASSUME w \in P PROVE Step(w) \in P /\ Step(w).i > w.i
        BY <2>0
    <2> DEFINE i == w.i
               s == w.min
               t == w.max
               u == Step(w)
    <2>1. /\ i \in Nat /\ i <= n /\ i >= 3 /\ Extremes(k, i - 1, s, t)
          /\ w = [i |-> i, min |-> s, max |-> t]
        BY <1>p, <1>e
    <2>s. u = IF i = n THEN Single(x, w) ELSE Pair(x, w)
        BY <1>0
    <2>d. w.i = i
        OBVIOUS
    <2>q. Step(w) = u
        OBVIOUS
    <2> HIDE DEF i, s, t, u, Step
    <2>2. CASE i = n
        <3>1. u = Single(x, [i |-> i, min |-> s, max |-> t])
            BY <2>1, <2>2, <2>s
        <3>2. u = [i |-> i + 1, min |-> u.min, max |-> u.max] /\ Extremes(k, i, u.min, u.max)
            BY <2>1, <2>2, <3>1, SingleKeeps
        <3>3. u.min \in 1..n /\ u.max \in 1..n /\ i + 1 \in 3..(n + 3) /\ Upto(i + 1) = i
            BY <3>2, <2>1, <2>2, <1>0 DEF Extremes
        <3>4. u \in States /\ u.i = i + 1
            BY <3>2, <3>3, <2>1, <1>t
        <3> QED
            BY <3>2, <3>3, <3>4, <2>1, <2>d, <2>q, <1>p
    <2>3. CASE i # n
        <3>0. i < n
            BY <2>1, <2>3, <1>0
        <3>1. u = Pair(x, [i |-> i, min |-> s, max |-> t])
            BY <2>1, <2>3, <2>s
        <3>2. u = [i |-> i + 2, min |-> u.min, max |-> u.max] /\ Extremes(k, i + 1, u.min, u.max)
            BY <2>1, <3>0, <3>1, PairKeeps
        <3>3. u.min \in 1..n /\ u.max \in 1..n /\ i + 2 \in 3..(n + 3) /\ Upto(i + 2) = i + 1
            BY <3>0, <3>2, <2>1, <1>0 DEF Extremes
        <3>4. u \in States /\ u.i = i + 2
            BY <3>2, <3>3, <2>1, <1>t
        <3> QED
            BY <3>2, <3>3, <3>4, <2>1, <2>d, <2>q, <1>p
    <2> QED
        BY <2>2, <2>3
<1>s. ASSUME NEW w \in G PROVE Step(w) \in States
    <2> DEFINE i == w.i
               s == w.min
               t == w.max
    <2>1. i \in Nat \ {0} /\ i <= n /\ s \in 1..n /\ t \in 1..n
        BY <1>p, <1>e
    <2>2. CASE i = n
        <3> DEFINE v == Step(w)
                   y == IF Lesser(x[i], x[s]) THEN i ELSE s
                   z == IF Lesser(x[i], x[s]) THEN t ELSE NotLower(x, i, t)
        <3>1. w = [i |-> i, min |-> s, max |-> t]
            BY <1>p, <1>e
        <3>2. v = [i |-> i + 1, min |-> y, max |-> z]
            <4>1. v = Single(x, w)
                BY <2>2, <1>0
            <4> HIDE DEF v
            <4> QED
                BY <3>1, <4>1 DEF Single
        <3>3. i + 1 \in Nat \ {0} /\ y \in 1..n /\ z \in 1..n
            BY <2>1, <2>2, <1>0 DEF NotLower
        <3> HIDE DEF v, y, z
        <3>4. v \in States
            BY <3>2, <3>3, <1>t
        <3> QED
            BY <3>4 DEF v
    <2>3. CASE i # n
        <3> DEFINE v == Step(w)
                   small == IF Lesser(x[i + 1], x[i]) THEN i + 1 ELSE i
                   great == IF Lesser(x[i + 1], x[i]) THEN i ELSE i + 1
                   y == Lower(x, small, s)
                   z == NotLower(x, great, t)
        <3>2. v = [i |-> i + 2, min |-> y, max |-> z]
            BY <2>3, <1>0 DEF Pair
        <3>3. i + 2 \in Nat \ {0} /\ i \in 1..n /\ i + 1 \in 1..n
            BY <2>1, <2>3, <1>0
        <3>s. small \in 1..n /\ great \in 1..n
            BY <3>3
        <3> HIDE DEF small, great
        <3>4. y \in 1..n /\ z \in 1..n
            BY <3>s, <2>1 DEF Lower, NotLower
        <3> QED
            BY <3>2, <3>3, <3>4, <1>t
    <2> QED
        BY <2>2, <2>3
<1>4. Descends(States, G, step, P, rank)
    <2>1. G \subseteq States /\ P \subseteq States /\ step \in [G -> States]
        <3> HIDE DEF Step
        <3> QED
            BY <1>s, <1>p
    <2>3. rank \in [P -> Nat]
        <3>1. ASSUME NEW w \in P PROVE n + 3 - w.i \in Nat
            <4>1. w.i \in 3..(n + 3)
                BY <1>p
            <4> QED
                BY <4>1, <1>0
        <3> QED
            BY <3>1
    <2>2. ASSUME NEW w \in P \cap G PROVE step[w] \in P /\ rank[step[w]] < rank[w]
        <3> HIDE DEF Step
        <3>1. step[w] = Step(w) /\ Step(w) \in P /\ Step(w).i > w.i
            BY <1>3
        <3>2. w.i \in 3..(n + 3) /\ Step(w).i \in 3..(n + 3)
            BY <3>1, <1>p
        <3>3. n + 3 - Step(w).i < n + 3 - w.i
            BY <3>1, <3>2, <1>0
        <3> QED
            BY <3>1, <3>3
    <2> HIDE DEF step, rank
    <2> QED
        BY <2>1, <2>2, <2>3 DEF Descends
<1>5. last \in P /\ last \notin G
    <2> HIDE DEF start, step, rank
    <2> QED
        BY <1>2, <1>4, LoopLeaves
<1> HIDE DEF last
<1>6. Extremes(k, n, last.min, last.max)
    <2>1. Upto(last.i) = n
        BY <1>5, <1>p
    <2> QED
        BY <2>1, <1>5, <1>p
<1> QED
    BY <1>1, <1>6

-----------------------------------------------------------------------------
(* is_heap_until *)

\* No element before i is greater than its parent.
HeapBefore(k, n, i) == \A j \in 2..n : j < i => ~(k[j \div 2] < k[j])

\* With the children of p, those before the next parent's are in order.
LEMMA HeapGrows ==
    ASSUME NEW k, NEW n \in Nat, NEW p \in Nat \ {0}, HeapBefore(k, n, 2 * p)
    PROVE  /\ ~(k[p] < k[2 * p]) => HeapBefore(k, n, 2 * p + 1)
           /\ ~(k[p] < k[2 * p]) /\ ~(k[p] < k[2 * p + 1]) => HeapBefore(k, n, 2 * (p + 1))
<1>1. ASSUME ~(k[p] < k[2 * p]) PROVE HeapBefore(k, n, 2 * p + 1)
    <2> SUFFICES ASSUME NEW j \in 2..n, j < 2 * p + 1 PROVE ~(k[j \div 2] < k[j])
        BY DEF HeapBefore
    <2>1. CASE j < 2 * p
        BY <2>1 DEF HeapBefore
    <2>2. CASE j = 2 * p
        <3>1. j \div 2 = p
            BY <2>2
        <3> QED
            BY <3>1, <2>2, <1>1
    <2> QED
        BY <2>1, <2>2
<1>2. ASSUME ~(k[p] < k[2 * p]), ~(k[p] < k[2 * p + 1]) PROVE HeapBefore(k, n, 2 * (p + 1))
    <2> SUFFICES ASSUME NEW j \in 2..n, j < 2 * (p + 1) PROVE ~(k[j \div 2] < k[j])
        BY DEF HeapBefore
    <2>1. CASE j < 2 * p + 1
        BY <1>1, <1>2, <2>1 DEF HeapBefore
    <2>2. CASE j = 2 * p + 1
        <3>1. j \div 2 = p
            BY <2>2
        <3> QED
            BY <3>1, <2>2, <1>2
    <2> QED
        BY <2>1, <2>2
<1> QED
    BY <1>1, <1>2

\* is_heap_until finds the first element that is greater than its parent.
LEMMA IsHeapUntilIs ==
    ASSUME NEW x, NEW k, NEW n, Keyed(x, k, n), NEW r, r = IsHeapUntil(x)
    PROVE  /\ r = n + 1 \/ (r \in 2..n /\ k[r \div 2] < k[r])
           /\ HeapBefore(k, n, r)
<1> DEFINE States == 1..(Len(x) + 1)
           Goes(p) == 2 * p < Len(x) /\ ~Lesser(x[p], x[2 * p]) /\ ~Lesser(x[p], x[2 * p + 1])
           G == {q \in States : Goes(q)}
           step == [p \in G |-> p + 1]
           P == {p \in States : HeapBefore(k, n, 2 * p)}
           rank == [p \in P |-> n + 1 - p]
           at == Loop(States, step)[1]
           c == 2 * at
<1>0. /\ n \in Nat /\ Len(x) = n /\ (\A i \in 1..n : k[i] \in Nat)
      /\ \A i \in 1..n, j \in 1..n : Lesser(x[i], x[j]) <=> k[i] < k[j]
    BY KeyedIs
<1>1. r = IF c > n THEN n + 1 ELSE IF Lesser(x[at], x[c]) THEN c ELSE c + 1
    BY <1>0 DEF IsHeapUntil
<1>s. States = 1..(n + 1)
    BY <1>0
<1>p. \A p : /\ p \in G <=> p \in States /\ Goes(p)
             /\ p \in P <=> p \in States /\ HeapBefore(k, n, 2 * p)
    OBVIOUS
<1> HIDE DEF G, P
<1>2. 1 \in P
    <2>1. HeapBefore(k, n, 2 * 1)
        BY DEF HeapBefore
    <2> QED
        BY <2>1, <1>p, <1>s, <1>0
<1>k. ASSUME NEW p \in 1..(n + 1), NEW q \in {2 * p, 2 * p + 1}, q <= n
      PROVE  p \in 1..n /\ q \in 1..n /\ (Lesser(x[p], x[q]) <=> k[p] < k[q])
    <2>1. p \in 1..n /\ q \in 1..n
        BY <1>0, <1>k
    <2> QED
        BY <2>1, <1>0
<1>3. ASSUME NEW p \in G PROVE p \in 1..n /\ p + 1 \in States /\ (p \in P => p + 1 \in P)
    <2>1. /\ p \in 1..(n + 1) /\ 2 * p < n
          /\ ~Lesser(x[p], x[2 * p]) /\ ~Lesser(x[p], x[2 * p + 1])
        BY <1>p, <1>s, <1>0
    <2>2. 2 * p <= n /\ 2 * p + 1 <= n
        BY <2>1, <1>0
    <2>3. ~(k[p] < k[2 * p]) /\ ~(k[p] < k[2 * p + 1])
        BY <2>1, <2>2, <1>k
    <2>4. p \in 1..n /\ p + 1 \in States
        BY <2>1, <1>s, <1>0
    <2>5. p \in P => HeapBefore(k, n, 2 * (p + 1))
        BY <2>3, <2>4, <1>p, <1>0, HeapGrows
    <2> QED
        BY <2>4, <2>5, <1>p
<1>4. Descends(States, G, step, P, rank)
    <2>1. G \subseteq States /\ P \subseteq States /\ step \in [G -> States]
        BY <1>3, <1>p
    <2>3. rank \in [P -> Nat]
        BY <1>p, <1>s, <1>0
    <2>2. ASSUME NEW p \in P \cap G PROVE step[p] \in P /\ rank[step[p]] < rank[p]
        <3>1. p + 1 \in P /\ p \in 1..n
            BY <1>3
        <3>2. n + 1 - (p + 1) < n + 1 - p
            BY <3>1, <1>0
        <3> QED
            BY <3>1, <3>2
    <2> HIDE DEF step, rank, States
    <2> QED
        BY <2>1, <2>2, <2>3 DEF Descends
<1>5. at \in P /\ at \notin G
    <2> HIDE DEF step, rank, States
    <2> QED
        BY <1>2, <1>4, LoopLeaves
<1> HIDE DEF at
<1>6. /\ at \in 1..(n + 1) /\ HeapBefore(k, n, 2 * at)
      /\ ~(2 * at < n) \/ Lesser(x[at], x[2 * at]) \/ Lesser(x[at], x[2 * at + 1])
    BY <1>5, <1>p, <1>s, <1>0
<1>7. CASE 2 * at > n
    <2>1. r = n + 1
        BY <1>1, <1>7
    <2>2. HeapBefore(k, n, n + 1)
        BY <1>6, <1>7, <1>0 DEF HeapBefore
    <2> QED
        BY <2>1, <2>2
<1>8. CASE 2 * at <= n /\ k[at] < k[2 * at]
    <2>1. Lesser(x[at], x[2 * at])
        BY <1>6, <1>8, <1>k
    <2>2. r = 2 * at
        BY <2>1, <1>1, <1>8, <1>6, <1>0
    <2>3. (2 * at) \div 2 = at /\ 2 * at \in 2..n
        BY <1>6, <1>8, <1>0
    <2> QED
        BY <2>2, <2>3, <1>6, <1>8
<1>9. CASE 2 * at <= n /\ ~(k[at] < k[2 * at])
    <2>1. ~Lesser(x[at], x[2 * at])
        BY <1>6, <1>9, <1>k
    <2>2. r = 2 * at + 1
        BY <2>1, <1>1, <1>9, <1>6, <1>0
    <2>3. HeapBefore(k, n, 2 * at + 1)
        BY <1>6, <1>9, <1>0, HeapGrows
    <2>4. CASE 2 * at < n
        <3>1. 2 * at + 1 <= n /\ Lesser(x[at], x[2 * at + 1])
            BY <2>1, <2>4, <1>6, <1>0
        <3>2. k[at] < k[2 * at + 1]
            BY <3>1, <1>6, <1>k
        <3>3. (2 * at + 1) \div 2 = at /\ 2 * at + 1 \in 2..n
            BY <3>1, <1>6, <1>0
        <3> QED
            BY <2>2, <2>3, <3>2, <3>3
    <2>5. CASE 2 * at = n
        BY <2>2, <2>3, <2>5
    <2> QED
        BY <2>4, <2>5, <1>6, <1>9, <1>0
<1> QED
    BY <1>6, <1>7, <1>8, <1>9, <1>0

-----------------------------------------------------------------------------
(* How often a value comes *)

\* How often s has x from f to l.
Many(s, f, l, x) == Cardinality({q \in f..l : s[q] = x})

LEMMA ManyIs ==
    ASSUME NEW s, NEW f \in Int, NEW l \in Int, NEW x
    PROVE  /\ Many(s, f, l, x) \in Nat /\ IsFiniteSet({q \in f..l : s[q] = x})
           /\ Many(s, f, l, x) = 0 <=> \A q \in f..l : s[q] # x
<1> DEFINE S == {q \in f..l : s[q] = x}
<1>1. IsFiniteSet(S)
    <2>1. S \in SUBSET (f..l) /\ IsFiniteSet(f..l)
        BY FS_Interval
    <2> HIDE DEF S
    <2> QED
        BY <2>1, FS_Subset
<1>2. Cardinality(S) \in Nat /\ (Cardinality(S) = 0 <=> S = {})
    <2> HIDE DEF S
    <2> QED
        BY <1>1, FS_CardinalityType, FS_EmptySet
<1> QED
    BY <1>1, <1>2 DEF Many

\* Those up to a place, and those from it.
LEMMA ManySplits ==
    ASSUME NEW s, NEW f \in Int, NEW m \in Int, NEW l \in Int, NEW x, f <= m, m <= l + 1
    PROVE  Many(s, f, l, x) = Many(s, f, m - 1, x) + Many(s, m, l, x)
<1> DEFINE A == {q \in f..(m - 1) : s[q] = x}
           B == {q \in m..l : s[q] = x}
           C == {q \in f..l : s[q] = x}
<1>1. C = A \cup B /\ A \cap B = {}
    OBVIOUS
<1>2. IsFiniteSet(A) /\ IsFiniteSet(B) /\ Cardinality(A) \in Nat /\ Cardinality(B) \in Nat
    <2>1. IsFiniteSet(A)
        <3>1. m - 1 \in Int
            OBVIOUS
        <3> QED
            BY <3>1, ManyIs
    <2>2. IsFiniteSet(B)
        BY ManyIs
    <2> HIDE DEF A, B
    <2> QED
        BY <2>1, <2>2, FS_CardinalityType
<1>3. Many(s, f, l, x) = Cardinality(C)
    BY DEF Many
<1>4. Many(s, f, m - 1, x) = Cardinality(A) /\ Many(s, m, l, x) = Cardinality(B)
    BY DEF Many
<1> HIDE DEF A, B, C
<1>5. Cardinality(A \cup B) = Cardinality(A) + Cardinality(B) - Cardinality(A \cap B)
    BY <1>2, FS_Union
<1>6. Cardinality(A \cap B) = 0
    BY <1>1, FS_EmptySet
<1>7. Cardinality(C) = Cardinality(A) + Cardinality(B)
    BY <1>1, <1>2, <1>5, <1>6
<1> QED
    BY <1>3, <1>4, <1>7

LEMMA ManyOne ==
    ASSUME NEW s, NEW f \in Int, NEW x
    PROVE  Many(s, f, f, x) = IF s[f] = x THEN 1 ELSE 0
<1> DEFINE C == {q \in f..f : s[q] = x}
<1>1. C = IF s[f] = x THEN {f} ELSE {}
    OBVIOUS
<1> HIDE DEF C
<1> QED
    BY <1>1, FS_Singleton, FS_EmptySet DEF Many, C

\* One place more.
LEMMA ManyGrows ==
    ASSUME NEW s, NEW f \in Int, NEW l \in Int, NEW x, f <= l + 1
    PROVE  Many(s, f, l + 1, x) = Many(s, f, l, x) + (IF s[l + 1] = x THEN 1 ELSE 0)
<1> DEFINE m == l + 1
<1>1. m \in Int /\ f <= m /\ m <= m + 1 /\ m - 1 = l
    OBVIOUS
<1> HIDE DEF m
<1>2. Many(s, f, m, x) = Many(s, f, m - 1, x) + Many(s, m, m, x)
    BY <1>1, ManySplits
<1>3. Many(s, m, m, x) = IF s[m] = x THEN 1 ELSE 0
    BY <1>1, ManyOne
<1>4. Many(s, f, m, x) = Many(s, f, l, x) + (IF s[m] = x THEN 1 ELSE 0)
    BY <1>1, <1>2, <1>3
<1> QED
    BY <1>4 DEF m

LEMMA ManySame ==
    ASSUME NEW s, NEW u, NEW f \in Int, NEW l \in Int, NEW x, \A q \in f..l : s[q] = u[q]
    PROVE  Many(s, f, l, x) = Many(u, f, l, x)
<1>1. {q \in f..l : s[q] = x} = {q \in f..l : u[q] = x}
    OBVIOUS
<1> QED
    BY <1>1 DEF Many

\* How far includes has come: up to i and j the second range has of no value
\* more than the first, and of what is to come no less.
Matches(k, p, m, i, j) ==
    /\ \A x : Many(p, 1, j - 1, x) <= Many(k, 1, i - 1, x)
    /\ j <= m => \A x \in Nat : p[j] <= x => Many(k, 1, i - 1, x) <= Many(p, 1, j - 1, x)

\* An element of the first alone is less than all that are to come; one of both
\* is counted in both.
LEMMA MatchesKept ==
    ASSUME NEW k, NEW n \in Nat, k \in [1..n -> Nat], NEW p, NEW m \in Nat, p \in [1..m -> Nat],
           \A b \in 1..m, c \in 1..m : b <= c => p[b] <= p[c],
           NEW i \in 1..n, NEW j \in 1..m, Matches(k, p, m, i, j)
    PROVE  /\ k[i] < p[j] => Matches(k, p, m, i + 1, j)
           /\ k[i] = p[j] => Matches(k, p, m, i + 1, j + 1)
<1>0. k[i] \in Nat /\ p[j] \in Nat /\ i - 1 \in Int /\ j - 1 \in Int /\ 1 \in Int
      /\ 1 <= (i - 1) + 1 /\ 1 <= (j - 1) + 1
    OBVIOUS
<1>1. \A x : /\ Many(p, 1, j - 1, x) <= Many(k, 1, i - 1, x)
             /\ Many(p, 1, j - 1, x) \in Nat /\ Many(k, 1, i - 1, x) \in Nat
    BY <1>0, ManyIs DEF Matches
<1>2. \A x \in Nat : p[j] <= x => Many(k, 1, i - 1, x) <= Many(p, 1, j - 1, x)
    BY DEF Matches
<1>3. \A x : Many(k, 1, i, x) = Many(k, 1, i - 1, x) + (IF k[i] = x THEN 1 ELSE 0)
    <2> SUFFICES ASSUME NEW x PROVE Many(k, 1, i, x) = Many(k, 1, i - 1, x) + (IF k[i] = x THEN 1 ELSE 0)
        OBVIOUS
    <2> DEFINE h == i - 1
    <2>1. h \in Int /\ 1 <= h + 1 /\ h + 1 = i
        OBVIOUS
    <2> HIDE DEF h
    <2>2. Many(k, 1, h + 1, x) = Many(k, 1, h, x) + (IF k[h + 1] = x THEN 1 ELSE 0)
        BY <2>1, ManyGrows, SMTT(40)
    <2> QED
        BY <2>1, <2>2 DEF h
<1>4. \A x : Many(p, 1, j, x) = Many(p, 1, j - 1, x) + (IF p[j] = x THEN 1 ELSE 0)
    <2> SUFFICES ASSUME NEW x PROVE Many(p, 1, j, x) = Many(p, 1, j - 1, x) + (IF p[j] = x THEN 1 ELSE 0)
        OBVIOUS
    <2> DEFINE h == j - 1
    <2>1. h \in Int /\ 1 <= h + 1 /\ h + 1 = j
        OBVIOUS
    <2> HIDE DEF h
    <2>2. Many(p, 1, h + 1, x) = Many(p, 1, h, x) + (IF p[h + 1] = x THEN 1 ELSE 0)
        BY <2>1, ManyGrows, SMTT(40)
    <2> QED
        BY <2>1, <2>2 DEF h
<1>i. (i + 1) - 1 = i /\ (j + 1) - 1 = j
    OBVIOUS
<1>5. ASSUME k[i] < p[j] PROVE Matches(k, p, m, i + 1, j)
    <2>1. \A x : Many(p, 1, j - 1, x) <= Many(k, 1, i, x)
        BY <1>1, <1>3, SMTT(40)
    <2>2. \A x \in Nat : p[j] <= x => Many(k, 1, i, x) <= Many(p, 1, j - 1, x)
        <3> SUFFICES ASSUME NEW x \in Nat, p[j] <= x PROVE Many(k, 1, i, x) <= Many(p, 1, j - 1, x)
            OBVIOUS
        <3>1. k[i] # x
            BY <1>0, <1>5
        <3>2. Many(k, 1, i, x) = Many(k, 1, i - 1, x)
            BY <3>1, <1>1, <1>3
        <3> QED
            BY <3>2, <1>2
    <2> QED
        BY <2>1, <2>2, <1>i DEF Matches
<1>6. ASSUME k[i] = p[j] PROVE Matches(k, p, m, i + 1, j + 1)
    <2>1. \A x : Many(p, 1, j, x) <= Many(k, 1, i, x)
        BY <1>1, <1>3, <1>4, <1>6
    <2>2. ASSUME j + 1 <= m, NEW x \in Nat, p[j + 1] <= x PROVE Many(k, 1, i, x) <= Many(p, 1, j, x)
        <3>1. p[j] <= p[j + 1] /\ p[j + 1] \in Nat
            BY <2>2
        <3>2. Many(k, 1, i - 1, x) <= Many(p, 1, j - 1, x)
            BY <3>1, <2>2, <1>0, <1>2
        <3> QED
            BY <3>2, <1>1, <1>3, <1>4, <1>6
    <2> QED
        BY <2>1, <2>2, <1>i DEF Matches
<1> QED
    BY <1>5, <1>6

-----------------------------------------------------------------------------
(* includes *)

\* What has been matched when one of the ranges ends, or what comes next of the
\* second is not in the first, decides.
LEMMA MatchesDecide ==
    ASSUME NEW k, NEW n \in Nat, k \in [1..n -> Nat], NEW p, NEW m \in Nat, p \in [1..m -> Nat],
           \A b \in 1..n, c \in 1..n : b <= c => k[b] <= k[c],
           NEW i \in 1..(n + 1), NEW j \in 1..(m + 1), Matches(k, p, m, i, j),
           ~(i <= n /\ j <= m /\ ~(p[j] < k[i]))
    PROVE  /\ j > m => \A x : Many(p, 1, m, x) <= Many(k, 1, n, x)
           /\ j <= m => Many(k, 1, n, p[j]) < Many(p, 1, m, p[j])
<1>0. n \in Nat /\ m \in Nat /\ i - 1 \in Int /\ i \in Int /\ j - 1 \in Int /\ j \in Int
      /\ 1 \in Int /\ n \in Int /\ m \in Int /\ 1 <= i /\ i <= n + 1 /\ 1 <= j /\ j <= m + 1
    OBVIOUS
<1>1. \A x : Many(k, 1, n, x) = Many(k, 1, i - 1, x) + Many(k, i, n, x)
    BY <1>0, ManySplits
<1>2. \A x : Many(p, 1, m, x) = Many(p, 1, j - 1, x) + Many(p, j, m, x)
    BY <1>0, ManySplits
<1>3. \A x : /\ Many(k, 1, i - 1, x) \in Nat /\ Many(k, i, n, x) \in Nat
             /\ Many(p, 1, j - 1, x) \in Nat /\ Many(p, j, m, x) \in Nat
    BY <1>0, ManyIs
<1>4. \A x : Many(p, 1, j - 1, x) <= Many(k, 1, i - 1, x)
    BY DEF Matches
<1>5. ASSUME j > m PROVE \A x : Many(p, 1, m, x) <= Many(k, 1, n, x)
    <2>1. j - 1 = m
        BY <1>0, <1>5
    <2> QED
        BY <2>1, <1>1, <1>3, <1>4
<1>6. ASSUME j <= m PROVE Many(k, 1, n, p[j]) < Many(p, 1, m, p[j])
    <2> DEFINE x == p[j]
    <2>1. x \in Nat /\ x <= x /\ j \in j..m
        BY <1>0, <1>6
    <2>2. Many(k, 1, i - 1, x) <= Many(p, 1, j - 1, x)
        BY <2>1, <1>6 DEF Matches
    <2>3. \A q \in i..n : k[q] # x
        <3> SUFFICES ASSUME NEW q \in i..n PROVE k[q] # x
            OBVIOUS
        <3>1. i \in 1..n /\ q \in 1..n /\ i <= q
            BY <1>0
        <3>2. k[i] <= k[q] /\ k[i] \in Nat /\ k[q] \in Nat /\ x < k[i]
            BY <3>1, <1>6
        <3> QED
            BY <3>2, <2>1
    <2>4. p[j] = x
        OBVIOUS
    <2> HIDE DEF x
    <2>5. Many(k, i, n, x) = 0
        BY <2>3, <1>0, ManyIs
    <2>6. Many(p, j, m, x) # 0
        <3>1. Many(p, j, m, x) = 0 <=> \A q \in j..m : p[q] # x
            BY <1>0, ManyIs
        <3> QED
            BY <3>1, <2>1, <2>4
    <2>7. Many(k, 1, n, x) < Many(p, 1, m, x)
        BY <2>2, <2>5, <2>6, <1>1, <1>2, <1>3
    <2> QED
        BY <2>7 DEF x
<1> QED
    BY <1>5, <1>6

\* The keys of two sorted ranges, those of the second up to c.
SortedTexts(x, k, n, y, p, m, c) ==
    /\ Keyed(x, k, n) /\ Keyed(y, p, m) /\ k \in [1..n -> Nat] /\ p \in [1..m -> 1..c] /\ c \in Nat
    /\ \A a1 \in 1..n, a2 \in 1..n : a1 <= a2 => k[a1] <= k[a2]
    /\ \A a1 \in 1..m, a2 \in 1..m : a1 <= a2 => p[a1] <= p[a2]

\* includes: whether the first range has of each value as many as the second.
LEMMA IncludesIs ==
    ASSUME NEW x, NEW k, NEW n, NEW y, NEW p, NEW m, NEW c, SortedTexts(x, k, n, y, p, m, c)
    PROVE  Includes(x, y) <=> \A b \in 1..c : Many(p, 1, m, b) <= Many(k, 1, n, b)
<1> DEFINE States == [i : 1..(Len(x) + 1), j : 1..(Len(y) + 1)]
           Goes(w) == w.i <= Len(x) /\ w.j <= Len(y) /\ ~Lesser(y[w.j], x[w.i])
           G == {u \in States : Goes(u)}
           Step(w) == [i |-> w.i + 1, j |-> IF Lesser(x[w.i], y[w.j]) THEN w.j ELSE w.j + 1]
           step == [w \in G |-> Step(w)]
           P == {w \in States : Matches(k, p, m, w.i, w.j)}
           rank == [w \in P |-> n + 1 - w.i]
           start == [i |-> 1, j |-> 1]
           last == Loop(States, step)[start]
<1>0. /\ n \in Nat /\ m \in Nat /\ c \in Nat /\ Len(x) = n /\ Len(y) = m
      /\ k \in [1..n -> Nat] /\ p \in [1..m -> Nat] /\ p \in [1..m -> 1..c]
    BY KeyedIs DEF SortedTexts
<1>a. /\ \A b \in 1..n, d \in 1..n : b <= d => k[b] <= k[d]
      /\ \A b \in 1..m, d \in 1..m : b <= d => p[b] <= p[d]
    BY DEF SortedTexts
<1>l. \A i \in 1..n, j \in 1..m : /\ Lesser(x[i], y[j]) <=> k[i] < p[j]
                                  /\ Lesser(y[j], x[i]) <=> p[j] < k[i]
                                  /\ k[i] \in Nat /\ p[j] \in Nat
    BY DEF SortedTexts, Keyed, Lesser
<1>1. Includes(x, y) <=> last.j > m
    BY <1>0 DEF Includes
<1>e. ASSUME NEW w \in States
      PROVE  w.i \in 1..(n + 1) /\ w.j \in 1..(m + 1)
    BY <1>0
<1>t. ASSUME NEW i \in 1..(n + 1), NEW j \in 1..(m + 1)
      PROVE  [i |-> i, j |-> j] \in States
    BY <1>0
<1>p. \A w : /\ w \in G <=> w \in States /\ Goes(w)
             /\ w \in P <=> w \in States /\ Matches(k, p, m, w.i, w.j)
    OBVIOUS
<1> HIDE DEF States, G, P
<1>2. start \in P
    <2>1. start \in States
        BY <1>0, <1>t
    <2>2. \A z : Many(p, 1, 1 - 1, z) = 0 /\ Many(k, 1, 1 - 1, z) = 0
        <3> DEFINE h == 1 - 1
        <3>1. h \in Int /\ 1 \in Int /\ 1..h = {}
            OBVIOUS
        <3> HIDE DEF h
        <3>2. ASSUME NEW s, NEW z PROVE Many(s, 1, h, z) = 0
            <4>1. Many(s, 1, h, z) = 0 <=> \A q \in 1..h : s[q] # z
                BY <3>1, ManyIs
            <4> QED
                BY <4>1, <3>1
        <3>3. \A z : Many(p, 1, h, z) = 0 /\ Many(k, 1, h, z) = 0
            BY <3>2
        <3> QED
            BY <3>3 DEF h
    <2>3. Matches(k, p, m, 1, 1)
        BY <2>2 DEF Matches
    <2> QED
        BY <2>1, <2>3, <1>p
<1>3. ASSUME NEW w \in G
      PROVE  /\ Step(w) \in States /\ w.i \in 1..n /\ Step(w).i = w.i + 1
             /\ w \in P => Step(w) \in P
    <2> DEFINE i == w.i
               j == w.j
               next == IF Lesser(x[i], y[j]) THEN j ELSE j + 1
    <2>1. i \in 1..n /\ j \in 1..m /\ ~(p[j] < k[i])
        BY <1>p, <1>e, <1>0, <1>l
    <2>2. next = IF k[i] < p[j] THEN j ELSE j + 1
        BY <2>1, <1>l
    <2>s. Step(w) = [i |-> i + 1, j |-> next]
        OBVIOUS
    <2>d. w.i = i /\ w.j = j
        OBVIOUS
    <2> HIDE DEF i, j, next, Step
    <2>3. i + 1 \in 1..(n + 1) /\ next \in 1..(m + 1)
        BY <2>1, <2>2, <1>0
    <2>4. Step(w) \in States /\ Step(w).i = i + 1 /\ Step(w).j = next
        BY <2>3, <2>s, <1>t
    <2>5. ASSUME w \in P PROVE Matches(k, p, m, i + 1, next)
        <3>1. Matches(k, p, m, i, j)
            BY <2>5, <2>d, <1>p
        <3>2. /\ k[i] < p[j] => Matches(k, p, m, i + 1, j)
              /\ k[i] = p[j] => Matches(k, p, m, i + 1, j + 1)
            BY <3>1, <2>1, <1>0, <1>a, MatchesKept
        <3>3. k[i] < p[j] \/ k[i] = p[j]
            BY <2>1, <1>l
        <3> QED
            BY <3>2, <3>3, <2>2, <1>l, <2>1
    <2> QED
        BY <2>1, <2>4, <2>5, <2>d, <1>p
<1>4. Descends(States, G, step, P, rank)
    <2>1. G \subseteq States /\ P \subseteq States /\ step \in [G -> States]
        <3> HIDE DEF Step
        <3> QED
            BY <1>3, <1>p
    <2>3. rank \in [P -> Nat]
        <3>1. ASSUME NEW w \in P PROVE n + 1 - w.i \in Nat
            <4>1. w.i \in 1..(n + 1)
                BY <1>p, <1>e
            <4> QED
                BY <4>1, <1>0
        <3> QED
            BY <3>1
    <2>2. ASSUME NEW w \in P \cap G PROVE step[w] \in P /\ rank[step[w]] < rank[w]
        <3> HIDE DEF Step
        <3>1. step[w] = Step(w) /\ Step(w) \in P /\ Step(w).i = w.i + 1 /\ w.i \in 1..n
            BY <1>3
        <3>2. n + 1 - (w.i + 1) < n + 1 - w.i
            BY <3>1, <1>0
        <3> QED
            BY <3>1, <3>2
    <2> HIDE DEF step, rank
    <2> QED
        BY <2>1, <2>2, <2>3 DEF Descends
<1>5. last \in P /\ last \notin G
    <2> HIDE DEF start, step, rank
    <2> QED
        BY <1>2, <1>4, LoopLeaves
<1> HIDE DEF last
<1> DEFINE i == last.i
           j == last.j
<1>6. /\ i \in 1..(n + 1) /\ j \in 1..(m + 1) /\ Matches(k, p, m, i, j)
      /\ ~(i <= n /\ j <= m /\ ~Lesser(y[j], x[i]))
    BY <1>5, <1>p, <1>e, <1>0
<1>j. last.j = j
    OBVIOUS
<1> HIDE DEF i, j
<1>7. ~(i <= n /\ j <= m /\ ~(p[j] < k[i]))
    <2>1. i <= n /\ j <= m => i \in 1..n /\ j \in 1..m
        BY <1>6, <1>0
    <2> QED
        BY <2>1, <1>6, <1>l
<1>8. /\ j > m => \A b : Many(p, 1, m, b) <= Many(k, 1, n, b)
      /\ j <= m => Many(k, 1, n, p[j]) < Many(p, 1, m, p[j])
    BY <1>0, <1>a, <1>6, <1>7, MatchesDecide
<1>9. CASE j > m
    BY <1>1, <1>8, <1>9, <1>j
<1>10. CASE ~(j > m)
    <2> DEFINE b == p[j]
    <2>1. j <= m /\ b \in 1..c
        BY <1>10, <1>6, <1>0
    <2>2. Many(k, 1, n, b) < Many(p, 1, m, b)
        BY <2>1, <1>8
    <2> HIDE DEF b
    <2>3. Many(k, 1, n, b) \in Nat /\ Many(p, 1, m, b) \in Nat
        <3>1. 1 \in Int /\ n \in Int /\ m \in Int
            BY <1>0
        <3> QED
            BY <3>1, ManyIs
    <2>4. ~(Many(p, 1, m, b) <= Many(k, 1, n, b))
        BY <2>2, <2>3
    <2> QED
        BY <2>1, <2>4, <1>1, <1>10, <1>j
<1> QED
    BY <1>9, <1>10

-----------------------------------------------------------------------------
(* Equal numbers *)

\* The places from f to l where s has a member of W.
At(s, f, l, W) == {q \in f..l : s[q] \in W}

LEMMA AtOneMore ==
    ASSUME NEW s, NEW f \in Int, NEW l \in Int, NEW W, NEW x \in W
    PROVE  /\ IsFiniteSet(At(s, f, l, W)) /\ Cardinality(At(s, f, l, W \ {x})) \in Nat
           /\ Cardinality(At(s, f, l, W)) = Cardinality(At(s, f, l, W \ {x})) + Many(s, f, l, x)
<1> DEFINE A == At(s, f, l, W)
           B == At(s, f, l, W \ {x})
           C == {q \in f..l : s[q] = x}
<1>1. A = B \cup C /\ B \cap C = {} /\ A \in SUBSET (f..l) /\ B \in SUBSET (f..l) /\ C \in SUBSET (f..l)
    BY DEF At
<1>2. Many(s, f, l, x) = Cardinality(C)
    BY DEF Many
<1> HIDE DEF A, B, C
<1>3. IsFiniteSet(f..l)
    BY FS_Interval
<1>4. IsFiniteSet(A) /\ IsFiniteSet(B) /\ IsFiniteSet(C)
    BY <1>1, <1>3, FS_Subset
<1>5. Cardinality(B) \in Nat /\ Cardinality(C) \in Nat /\ Cardinality(B \cap C) = 0
    BY <1>1, <1>4, FS_CardinalityType, FS_EmptySet
<1>6. Cardinality(B \cup C) = Cardinality(B) + Cardinality(C) - Cardinality(B \cap C)
    BY <1>4, FS_Union
<1>7. Cardinality(A) = Cardinality(B) + Cardinality(C)
    BY <1>1, <1>5, <1>6
<1> QED
    BY <1>2, <1>4, <1>5, <1>7 DEF A, B

\* Two stretches of one length have each value as often, if they have those of
\* the one as often.
LEMMA SameCounts ==
    ASSUME NEW v, NEW u, NEW f \in Int, NEW l \in Int,
           \A q \in f..l : Many(u, f, l, v[q]) = Many(v, f, l, v[q])
    PROVE  \A x : Many(u, f, l, x) = Many(v, f, l, x)
<1> DEFINE V == {v[q] : q \in f..l}
           S == SUBSET V
           P == {W \in S : Cardinality(At(u, f, l, W)) = Cardinality(At(v, f, l, W))}
           rank == [W \in S |-> Cardinality(W)]
<1>0. IsFiniteSet(f..l)
    BY FS_Interval
<1>1. IsFiniteSet(V)
    <2> DEFINE D == f..l
               g == [q \in D |-> v[q]]
    <2>1. g \in Surjection(D, V)
        BY DEF Surjection
    <2> HIDE DEF g, V, D
    <2>2. IsFiniteSet(D)
        BY <1>0 DEF D
    <2> QED
        BY <2>1, <2>2, FS_Surjection
<1>2. rank \in [S -> Nat] /\ \A W \in S : IsFiniteSet(W)
    <2>1. ASSUME NEW W \in S PROVE IsFiniteSet(W) /\ Cardinality(W) \in Nat
        <3> HIDE DEF V
        <3> QED
            BY <1>1, FS_Subset, FS_CardinalityType
    <2> QED
        BY <2>1
<1>3. ASSUME NEW W \in S, \A U \in S : rank[U] < rank[W] => U \in P PROVE W \in P
    <2>1. CASE W = {}
        <3>1. At(u, f, l, W) = At(v, f, l, W)
            BY <2>1 DEF At
        <3> QED
            BY <3>1
    <2>2. CASE W # {}
        <3>1. PICK x \in W : TRUE
            BY <2>2
        <3>2. PICK q \in f..l : x = v[q]
            BY <3>1
        <3> DEFINE U == W \ {x}
        <3>3. Cardinality(U) = Cardinality(W) - 1 /\ Cardinality(W) \in Nat
            BY <3>1, <1>2, FS_RemoveElement
        <3>4. U \in S /\ rank[U] < rank[W]
            <4>1. U \in S
                OBVIOUS
            <4>2. rank[U] = Cardinality(U) /\ rank[W] = Cardinality(W)
                BY <4>1
            <4>3. Cardinality(U) < Cardinality(W)
                BY <3>3
            <4> HIDE DEF U, rank, S
            <4> QED
                BY <4>1, <4>2, <4>3
        <3>5. U \in P
            <4> HIDE DEF rank, P, U, S
            <4> QED
                BY <3>4, <1>3
        <3>6. Cardinality(At(u, f, l, U)) = Cardinality(At(v, f, l, U))
            BY <3>5
        <3>7. Many(u, f, l, x) = Many(v, f, l, x)
            BY <3>2
        <3>8. /\ Cardinality(At(u, f, l, W)) = Cardinality(At(u, f, l, U)) + Many(u, f, l, x)
              /\ Cardinality(At(v, f, l, W)) = Cardinality(At(v, f, l, U)) + Many(v, f, l, x)
            BY AtOneMore
        <3>9. Cardinality(At(u, f, l, W)) = Cardinality(At(v, f, l, W))
            BY <3>6, <3>7, <3>8
        <3> QED
            BY <3>9
    <2> QED
        BY <2>1, <2>2
<1>4. S \subseteq P
    <2> HIDE DEF S, P, rank
    <2> QED
        BY <1>2, <1>3, RankInduction
<1>5. V \in P
    BY <1>4
<1>6. Cardinality(At(u, f, l, V)) = Cardinality(At(v, f, l, V)) /\ At(v, f, l, V) = f..l
    BY <1>5 DEF At
<1>7. At(u, f, l, V) = f..l
    <2> DEFINE A == At(u, f, l, V)
               D == f..l
    <2>1. A \in SUBSET D /\ IsFiniteSet(D)
        BY <1>0 DEF At
    <2>2. Cardinality(D) = Cardinality(A)
        BY <1>6
    <2> HIDE DEF A, D
    <2>3. D = A
        BY <2>1, <2>2, FS_Subset
    <2> QED
        BY <2>3 DEF A, D
<1>8. \A q \in f..l : u[q] \in V
    BY <1>7 DEF At
<1> SUFFICES ASSUME NEW x PROVE Many(u, f, l, x) = Many(v, f, l, x)
    OBVIOUS
<1>9. CASE x \in V
    BY <1>9
<1>10. CASE x \notin V
    <2>1. (\A q \in f..l : u[q] # x) /\ \A q \in f..l : v[q] # x
        BY <1>8, <1>10
    <2>2. Many(u, f, l, x) = 0 <=> \A q \in f..l : u[q] # x
        BY ManyIs
    <2>3. Many(v, f, l, x) = 0 <=> \A q \in f..l : v[q] # x
        BY ManyIs
    <2> QED
        BY <2>1, <2>2, <2>3
<1> QED
    BY <1>9, <1>10

-----------------------------------------------------------------------------
(* is_permutation *)

\* What the comparison does behind the first difference: whether each value,
\* where it first comes from d on, comes as often in u.
Compared(v, u, d, n) ==
    \A i \in d..n : \/ \E j \in d..(i - 1) : v[j] = v[i]
                    \/ Many(u, d, n, v[i]) # 0 /\ Many(v, i, n, v[i]) = Many(u, d, n, v[i])

\* Where a value first comes, all of it is behind.
LEMMA AllBehind ==
    ASSUME NEW v, NEW d \in Int, NEW n \in Int, NEW i \in d..n, ~ \E j \in d..(i - 1) : v[j] = v[i]
    PROVE  Many(v, i, n, v[i]) = Many(v, d, n, v[i]) /\ Many(v, d, n, v[i]) # 0
<1> DEFINE x == v[i]
<1>0. i \in Int /\ d \in Int /\ n \in Int /\ d <= i /\ i <= n + 1 /\ i - 1 \in Int /\ i \in d..n
    OBVIOUS
<1>1. (\A j \in d..(i - 1) : v[j] # x) /\ v[i] = x
    OBVIOUS
<1> HIDE DEF x
<1>2. Many(v, d, n, x) = Many(v, d, i - 1, x) + Many(v, i, n, x)
    BY <1>0, ManySplits
<1>3. Many(v, d, i - 1, x) = 0
    <2> DEFINE h == i - 1
    <2>1. h \in Int /\ \A j \in d..h : v[j] # x
        BY <1>0, <1>1
    <2> HIDE DEF h
    <2>2. Many(v, d, h, x) = 0 <=> \A j \in d..h : v[j] # x
        BY <2>1, ManyIs
    <2> QED
        BY <2>1, <2>2 DEF h
<1>4. Many(v, i, n, x) \in Nat
    BY <1>0, ManyIs
<1>5. Many(v, d, n, x) = 0 <=> \A q \in d..n : v[q] # x
    BY ManyIs
<1> QED
    BY <1>0, <1>1, <1>2, <1>3, <1>4, <1>5 DEF x

LEMMA ComparedIs ==
    ASSUME NEW v, NEW u, NEW d \in Int, NEW n \in Int
    PROVE  Compared(v, u, d, n) <=> \A i \in d..n : Many(u, d, n, v[i]) = Many(v, d, n, v[i])
<1>1. ASSUME Compared(v, u, d, n), NEW q \in d..n PROVE Many(u, d, n, v[q]) = Many(v, d, n, v[q])
    <2> DEFINE S == {j \in d..n : v[j] = v[q]}
               T == {j - d : j \in S}
    <2>1. T \in SUBSET Nat /\ T # {}
        OBVIOUS
    <2>2. Min(T) \in T /\ \A y \in T : Min(T) <= y
        <3> HIDE DEF T
        <3> QED
            BY <2>1, MinIs
    <2>3. PICK i \in S : Min(T) = i - d
        BY <2>2
    <2>4. i \in d..n /\ v[i] = v[q]
        BY <2>3
    <2>5. ~ \E j \in d..(i - 1) : v[j] = v[i]
        <3> SUFFICES ASSUME NEW j \in d..(i - 1), v[j] = v[i] PROVE FALSE
            OBVIOUS
        <3>1. j \in S /\ j < i
            BY <2>4
        <3>2. j - d \in T
            BY <3>1
        <3>3. i - d <= j - d
            BY <3>2, <2>2, <2>3
        <3> QED
            BY <3>1, <3>3, <2>4
    <2> HIDE DEF S, T
    <2>6. Many(v, i, n, v[i]) = Many(v, d, n, v[i])
        BY <2>4, <2>5, AllBehind
    <2>7. Many(v, i, n, v[i]) = Many(u, d, n, v[i])
        BY <1>1, <2>4, <2>5 DEF Compared
    <2> QED
        BY <2>4, <2>6, <2>7
<1>2. ASSUME \A i \in d..n : Many(u, d, n, v[i]) = Many(v, d, n, v[i]) PROVE Compared(v, u, d, n)
    <2> SUFFICES ASSUME NEW i \in d..n, ~ \E j \in d..(i - 1) : v[j] = v[i]
                 PROVE  Many(u, d, n, v[i]) # 0 /\ Many(v, i, n, v[i]) = Many(u, d, n, v[i])
        BY DEF Compared
    <2>1. Many(v, i, n, v[i]) = Many(v, d, n, v[i]) /\ Many(v, d, n, v[i]) # 0
        BY AllBehind
    <2> QED
        BY <2>1, <1>2
<1> QED
    BY <1>1, <1>2

\* Two ranges that agree before d: what differs in number is behind.
LEMMA CountsBehind ==
    ASSUME NEW v, NEW u, NEW n \in Nat, NEW d \in 1..(n + 1), \A k \in 1..(d - 1) : v[k] = u[k], NEW x
    PROVE  Many(u, d, n, x) = Many(v, d, n, x) <=> Many(u, 1, n, x) = Many(v, 1, n, x)
<1>0. 1 \in Int /\ d \in Int /\ n \in Int /\ d - 1 \in Int /\ 1 <= d /\ d <= n + 1
    OBVIOUS
<1>1. /\ Many(u, 1, n, x) = Many(u, 1, d - 1, x) + Many(u, d, n, x)
      /\ Many(v, 1, n, x) = Many(v, 1, d - 1, x) + Many(v, d, n, x)
    BY <1>0, ManySplits
<1>2. Many(u, 1, d - 1, x) = Many(v, 1, d - 1, x)
    BY <1>0, ManySame
<1>3. Many(u, 1, d - 1, x) \in Nat /\ Many(u, d, n, x) \in Nat /\ Many(v, d, n, x) \in Nat
    BY <1>0, ManyIs
<1> QED
    BY <1>1, <1>2, <1>3

\* is_permutation: whether there are as many of each value.
LEMMA IsPermutationImplIs ==
    ASSUME NEW n \in Nat, NEW m \in Nat, NEW c, NEW v \in [1..n -> 1..c], NEW u \in [1..m -> 1..c]
    PROVE  IsPermutationImpl(v, u) <=>
               m = n /\ \A x \in 1..c : Many(u, 1, m, x) = Many(v, 1, n, x)
<1> DEFINE same == {k \in 1..n : k <= m /\ v[k] = u[k]}
           S == {k \in 1..(n + 1) : k \notin same}
           d == Min(S)
<1>0. Len(v) = n /\ Len(u) = m
    OBVIOUS
<1>1. d \in S /\ \A y \in S : d <= y
    <2>1. S \in SUBSET Nat /\ n + 1 \in S
        OBVIOUS
    <2> HIDE DEF S
    <2> QED
        BY <2>1, MinIs
<1>2. IsPermutationImpl(v, u) <=>
          IF d = n + 1 \/ d = m + 1 THEN n = m
          ELSE /\ n = m
               /\ \A i \in d..n : \/ \E j \in d..(i - 1) : v[j] = v[i]
                                  \/ Many(u, d, m, v[i]) # 0 /\ Many(v, i, n, v[i]) = Many(u, d, m, v[i])
    <2> DEFINE same1 == {k \in 1..Len(v) : k <= Len(u) /\ v[k] = u[k]}
               d1 == Min({k \in 1..(Len(v) + 1) : k \notin same1})
    <2>1. d1 = d
        BY <1>0
    <2>2. \A f, x : Count(u, f, x) = Many(u, f, m, x) /\ Count(v, f, x) = Many(v, f, n, x)
        BY <1>0 DEF Count, Many
    <2>3. IsPermutationImpl(v, u) <=>
              IF d1 = Len(v) + 1 \/ d1 = Len(u) + 1 THEN Len(v) = Len(u)
              ELSE /\ Len(v) = Len(u)
                   /\ \A i \in d1..Len(v) :
                          \/ \E j \in d1..(i - 1) : v[j] = v[i]
                          \/ Count(u, d1, v[i]) # 0 /\ Count(v, i, v[i]) = Count(u, d1, v[i])
        BY Zenon DEF IsPermutationImpl
    <2> HIDE DEF d, d1
    <2> QED
        BY <1>0, <2>1, <2>2, <2>3
<1>3. d \in 1..(n + 1) /\ d \notin same
    BY <1>1
<1>4. \A k \in 1..(d - 1) : k \in same
    <2> HIDE DEF d, same
    <2>1. \A k \in 1..(n + 1) : k \notin same => d <= k
        BY <1>1
    <2> QED
        BY <2>1, <1>3
<1>5. \A k \in 1..(d - 1) : k <= m /\ v[k] = u[k]
    <2> HIDE DEF d
    <2> QED
        BY <1>4
<1> HIDE DEF d, S
<1>6. CASE m # n
    BY <1>2, <1>6
<1>7. CASE m = n /\ d = n + 1
    <2>1. \A x : Many(v, 1, n, x) = Many(u, 1, n, x)
        <3>1. \A k \in 1..n : v[k] = u[k]
            BY <1>5, <1>7
        <3>2. 1 \in Int /\ n \in Int
            OBVIOUS
        <3> QED
            BY <3>1, <3>2, ManySame
    <2> QED
        BY <2>1, <1>2, <1>7
<1>8. CASE m = n /\ d # n + 1
    <2>0. d \in Int /\ n \in Int
        BY <1>3
    <2>1. IsPermutationImpl(v, u) <=> Compared(v, u, d, n)
        BY <1>2, <1>8 DEF Compared
    <2>2. IsPermutationImpl(v, u) <=> \A i \in d..n : Many(u, d, n, v[i]) = Many(v, d, n, v[i])
        BY <2>0, <2>1, ComparedIs
    <2>3. \A x : Many(u, d, n, x) = Many(v, d, n, x) <=> Many(u, 1, n, x) = Many(v, 1, n, x)
        BY <1>3, <1>5, CountsBehind
    <2>4. ASSUME \A i \in d..n : Many(u, d, n, v[i]) = Many(v, d, n, v[i])
          PROVE  \A x : Many(u, d, n, x) = Many(v, d, n, x)
        BY <2>0, <2>4, SameCounts
    <2>5. \A i \in d..n : v[i] \in 1..c
        <3>1. d..n \subseteq 1..n
            BY <1>3
        <3> QED
            BY <3>1
    <2> QED
        BY <2>2, <2>3, <2>4, <2>5, <1>8
<1> QED
    BY <1>6, <1>7, <1>8

-----------------------------------------------------------------------------
(* next_permutation and prev_permutation *)

\* What a sequence that is nowhere raised behind f has of any two places there.
LEMMA FallingMeans ==
    ASSUME NEW n \in Nat, NEW v \in [1..n -> Int], NEW f \in 1..(n + 1),
           \A k \in f..(n - 1) : ~(v[k] < v[k + 1])
    PROVE  \A i \in f..n, j \in f..n : i <= j => v[j] <= v[i]
<1>0. \A k \in f..n : k \in 1..n /\ v[k] \in Int
    OBVIOUS
<1> DEFINE S == f..n
           rank == [k \in S |-> k]
           Q(i) == {k \in S : i <= k => v[k] <= v[i]}
<1>1. ASSUME NEW i \in S PROVE S \subseteq Q(i)
    <2>1. ASSUME NEW k \in S, \A y \in S : rank[y] < rank[k] => y \in Q(i) PROVE k \in Q(i)
        <3>1. CASE k <= i
            BY <3>1, <1>0
        <3>2. CASE i < k
            <4>1. k - 1 \in f..n /\ i <= k - 1 /\ k - 1 \in f..(n - 1) /\ (k - 1) + 1 = k
                BY <3>2
            <4>2. v[k - 1] <= v[i]
                BY <4>1, <2>1
            <4>3. ~(v[k - 1] < v[k])
                BY <4>1
            <4> QED
                BY <4>1, <4>2, <4>3, <1>0
        <3> QED
            BY <3>1, <3>2
    <2>2. rank \in [S -> Nat]
        OBVIOUS
    <2> HIDE DEF rank, Q, S
    <2> QED
        BY <2>1, <2>2, RankInduction
<1> QED
    BY <1>1

\* before relates the places of lesser weight to those of greater.
Orders(before, v, n) == \A i \in 1..n, j \in 1..n : <<i, j>> \in before <=> v[i] < v[j]

\* t takes the places by falling weight no more: it rises behind i, as v falls.
Turned(v, n, t, i) ==
    \A k \in (i + 1)..(n - 1) : ~(v[k] < v[k + 1]) /\ ~(v[t[k + 1]] < v[t[k]])

\* t is the arrangement of the places 1..n that comes after their own.
Succeeds(v, n, t) ==
    \E i \in 1..n : /\ \A k \in 1..(i - 1) : t[k] = k
                    /\ v[i] < v[t[i]]
                    /\ \A k \in (i + 1)..n : v[i] < v[k] => ~(v[k] < v[t[i]])
                    /\ Turned(v, n, t, i)

\* The places behind i, one of which has changed with i, in reverse.
LEMMA TurnedIs ==
    ASSUME NEW n \in Nat, NEW v \in [1..n -> Int], NEW i \in 0..n, NEW u \in Rows(n), NEW t,
           \A k \in (i + 1)..n : u[k] \in 1..n,
           \A k \in (i + 1)..(n - 1) : ~(v[k] < v[k + 1]) /\ ~(v[u[k]] < v[u[k + 1]]),
           \A k \in (i + 1)..n : t[k] = u[n + i + 1 - k]
    PROVE  Turned(v, n, t, i)
<1> SUFFICES ASSUME NEW k \in (i + 1)..(n - 1) PROVE ~(v[k] < v[k + 1]) /\ ~(v[t[k + 1]] < v[t[k]])
    BY DEF Turned
<1> DEFINE q == n + i + 1 - (k + 1)
<1>1. q \in (i + 1)..(n - 1) /\ q + 1 = n + i + 1 - k /\ k \in (i + 1)..n /\ k + 1 \in (i + 1)..n
    OBVIOUS
<1>2. t[k + 1] = u[q] /\ t[k] = u[q + 1]
    BY <1>1
<1> HIDE DEF q
<1> QED
    BY <1>1, <1>2

\* next_permutation, told by before in which order, makes of the places the
\* next arrangement, or the first after the last.
LEMMA NextPermutationIs ==
    ASSUME NEW n \in Nat, NEW v \in [1..n -> Int], NEW s \in Rows(n), \A k \in 1..n : s[k] = k,
           NEW before, Orders(before, v, n), NEW r, r = NextPermutation(s, before)
    PROVE  /\ r.range \in Rows(n) /\ r.at \in BOOLEAN
           /\ \A k \in 1..n : r.range[k] \in 1..n
           /\ IF r.at THEN Succeeds(v, n, r.range) ELSE Turned(v, n, r.range, 0)
<1> DEFINE R == NextPermutation(s, before)
           I == {0} \cup {k \in 1..(n - 1) : <<s[k], s[k + 1]>> \in before}
           i == Max(I)
           J == {k \in (i + 1)..n : <<s[i], s[k]>> \in before}
           j == Max(J)
<1>0. s \in Rows(n) /\ Len(s) = n /\ \A k \in 1..n : s[k] = k
    BY RowIsSeq
<1>1. R = IF n <= 1 THEN Result(s, FALSE)
          ELSE IF i = 0 THEN Result(Reversed(s, 1, n + 1, "random"), FALSE)
          ELSE Result(Reversed(Swap(s, i, j), i + 1, n + 1, "random"), TRUE)
    BY <1>0 DEF NextPermutation
<1>r. r = R
    OBVIOUS
<1> HIDE DEF R
<1>v. \A k \in 1..n : v[k] \in Int
    OBVIOUS
<1>b. \A x \in 1..n, y \in 1..n : <<s[x], s[y]>> \in before <=> v[x] < v[y]
    BY <1>0 DEF Orders
<1>2. CASE n <= 1
    <2>r. R = Result(s, FALSE)
        BY <1>1, <1>2, Zenon
    <2>1. r.range = s /\ r.at = FALSE
        BY <1>r, <2>r DEF Result
    <2>2. Turned(v, n, s, 0)
        BY <1>2 DEF Turned
    <2> QED
        BY <2>1, <2>2, <1>0
<1>3. CASE n > 1
    <2>i. \A k \in 1..(n - 1) : k \in 1..n /\ k + 1 \in 1..n
        OBVIOUS
    <2>0. \A k : k \in I <=> k = 0 \/ (k \in 1..(n - 1) /\ v[k] < v[k + 1])
        BY <1>b, <2>i
    <2>1. I \in SUBSET (0..n) /\ I # {}
        <3> HIDE DEF I
        <3> QED
            <4>1. 0 \in I /\ \A k : k \in I => k \in 0..n
                BY <2>0, <1>3
            <4> QED
                BY <4>1
    <2>2. i \in I /\ \A k \in I : k <= i
        <3> HIDE DEF I
        <3> QED
            BY <2>1, MaxIs
    <2>3. i \in 0..(n - 1) /\ (i # 0 => v[i] < v[i + 1])
        <3> HIDE DEF I, i
        <3> QED
            BY <2>2, <2>0, <1>3
    <2>4. ASSUME NEW k \in (i + 1)..(n - 1) PROVE ~(v[k] < v[k + 1])
        <3>1. k \in 1..(n - 1) /\ ~(k <= i)
            BY <2>3
        <3>2. k \notin I
            BY <3>1, <2>2
        <3> QED
            BY <3>1, <3>2, <1>b, <2>i
    <2>n. n \in Nat /\ n + 1 \in 1..(n + 1) /\ i + 1 \in 1..(n + 1) /\ i + 1 <= n + 1
          /\ 1 \in 1..(n + 1) /\ 1 <= n + 1 /\ i + 1 \in 1..n /\ i \in 0..n /\ 0 \in 0..n
        BY <2>3
    <2>5. CASE i = 0
        <3> DEFINE t == Reversed(s, 1, n + 1, "random")
        <3>n. ~(n <= 1)
            BY <1>3
        <3>r. R = Result(t, FALSE)
            BY <1>1, <3>n, <2>5, Zenon
        <3>1. r.range = t /\ r.at = FALSE
            <4> HIDE DEF t
            <4> QED
                BY <1>r, <3>r DEF Result
        <3>2. t \in Rows(n) /\ \A k \in 1..n : t[k] = IF k \in 1..(n + 1 - 1) THEN s[1 + (n + 1) - 1 - k] ELSE s[k]
            <4> DEFINE l == n + 1
            <4>1. l \in 1..(n + 1) /\ 1 \in 1..(n + 1) /\ 1 <= l
                BY <2>n
            <4> HIDE DEF l
            <4>2. Reversed(s, 1, l, "random") \in Rows(n) /\ \A k \in 1..n :
                      Reversed(s, 1, l, "random")[k] = IF k \in 1..(l - 1) THEN s[1 + l - 1 - k] ELSE s[k]
                BY <4>1, <1>0, ReversedIs
            <4> QED
                BY <4>2 DEF l
        <3> HIDE DEF t, i, I
        <3>3. \A k \in 1..n : t[k] = s[n + 0 + 1 - k] /\ t[k] \in 1..n
            BY <3>2, <1>0
        <3>4. Turned(v, n, t, 0)
            <4> SUFFICES ASSUME NEW k \in 1..(n - 1) PROVE ~(v[k] < v[k + 1]) /\ ~(v[t[k + 1]] < v[t[k]])
                BY DEF Turned
            <4>1. ~(v[k] < v[k + 1])
                BY <2>4, <2>5, <2>i
            <4> DEFINE q == n - k
            <4>2. q \in 1..(n - 1) /\ n + 0 + 1 - (k + 1) = q /\ n + 0 + 1 - k = q + 1 /\ k \in 1..n /\ k + 1 \in 1..n
                BY <2>n
            <4> HIDE DEF q
            <4>3. t[k + 1] = s[q] /\ t[k] = s[q + 1] /\ s[q] = q /\ s[q + 1] = q + 1
                BY <4>2, <3>3, <1>0
            <4>4. ~(v[q] < v[q + 1])
                BY <4>2, <2>4, <2>5, <2>i
            <4> QED
                BY <4>1, <4>3, <4>4
        <3> QED
            BY <3>1, <3>2, <3>3, <3>4
    <2>6. CASE i # 0
        <3>0. R = Result(Reversed(Swap(s, i, j), i + 1, n + 1, "random"), TRUE)
            <4>1. ~(n <= 1)
                BY <1>3
            <4> QED
                BY <1>1, <4>1, <2>6, Zenon
        <3>i. i \in 1..n /\ i \in 1..(n - 1)
            BY <2>3, <2>6
        <3> HIDE DEF i, I
        <3>1. \A k : k \in J <=> k \in (i + 1)..n /\ v[i] < v[k]
            BY <1>b, <3>i
        <3>2. i + 1 \in J /\ J \in SUBSET (0..n)
            <4> HIDE DEF J
            <4> QED
                BY <3>1, <2>3, <2>6, <2>n
        <3>3. j \in J /\ \A k \in J : k <= j
            <4> HIDE DEF J
            <4> QED
                BY <3>2, MaxIs
        <3>4. j \in (i + 1)..n /\ j \in 1..n /\ v[i] < v[j]
            <4>1. j \in J
                BY <3>3
            <4>2. j \in (i + 1)..n /\ v[i] < v[j]
                <5> HIDE DEF J, j
                <5> QED
                    BY <4>1, <3>1
            <4> QED
                BY <4>2, <3>i
        <3>5. ASSUME NEW k \in (i + 1)..n, v[i] < v[k] PROVE k <= j
            BY <3>1, <3>3, <3>5
        <3> HIDE DEF J, j
        <3>6. \A x \in (i + 1)..n, y \in (i + 1)..n : x <= y => v[y] <= v[x]
            BY <2>4, <2>n, FallingMeans
        <3> DEFINE u == Swap(s, i, j)
                   t == Reversed(u, i + 1, n + 1, "random")
        <3>7. r.range = t /\ r.at = TRUE
            <4>1. R = Result(t, TRUE)
                BY <3>0, Zenon DEF t, u
            <4> HIDE DEF t
            <4> QED
                BY <1>r, <4>1 DEF Result
        <3>8. u \in Rows(n) /\ u[i] = j /\ u[j] = i /\ \A k \in 1..n : k # i /\ k # j => u[k] = k
            BY <1>0, <3>i, <3>4, SwapType, SMTT(40)
        <3> HIDE DEF u
        <3>9. t \in Rows(n) /\ \A k \in 1..n :
                  t[k] = IF k \in (i + 1)..(n + 1 - 1) THEN u[(i + 1) + (n + 1) - 1 - k] ELSE u[k]
            BY <3>8, <2>n, ReversedIs
        <3> HIDE DEF t
        <3>10. /\ \A k \in (i + 1)..n : t[k] = u[n + i + 1 - k]
               /\ \A k \in 1..i : t[k] = u[k]
            BY <3>9, <3>i
        <3>11. /\ \A k \in 1..(i - 1) : t[k] = k
               /\ t[i] = j
            BY <3>10, <3>8, <3>4, <3>i
        <3>12. \A k \in 1..n : u[k] \in 1..n
            BY <3>8, <3>4, <3>i
        <3>13. \A k \in 1..n : t[k] \in 1..n
            <4> SUFFICES ASSUME NEW k \in 1..n PROVE t[k] \in 1..n
                OBVIOUS
            <4>1. CASE k \in (i + 1)..n
                <5>1. n + i + 1 - k \in 1..n
                    BY <4>1, <3>i
                <5> QED
                    BY <5>1, <4>1, <3>10, <3>12
            <4>2. CASE k \in 1..i
                BY <4>2, <3>10, <3>12
            <4> QED
                BY <4>1, <4>2, <3>i
        <3>14. ASSUME NEW k \in (i + 1)..(n - 1) PROVE ~(v[u[k]] < v[u[k + 1]])
            <4>0. /\ k \in 1..n /\ k + 1 \in 1..n /\ k \in (i + 1)..n /\ k + 1 \in (i + 1)..n
                  /\ k # i /\ k + 1 # i
                  /\ v[k] \in Int /\ v[k + 1] \in Int /\ v[i] \in Int /\ v[j] \in Int
                BY <3>i, <3>4, <1>v
            <4>1. CASE k = j
                <5>1. u[k] = i /\ u[k + 1] = k + 1
                    BY <4>0, <4>1, <3>8
                <5>2. ~(v[i] < v[k + 1])
                    BY <4>0, <4>1, <3>5
                <5> QED
                    BY <5>1, <5>2
            <4>2. CASE k + 1 = j
                <5>1. u[k] = k /\ u[k + 1] = i
                    BY <4>0, <4>2, <3>8
                <5>2. v[j] <= v[k]
                    BY <4>0, <4>2, <3>6
                <5> QED
                    BY <5>1, <5>2, <3>4, <4>0
            <4>3. CASE k # j /\ k + 1 # j
                <5>1. u[k] = k /\ u[k + 1] = k + 1
                    BY <4>0, <4>3, <3>8
                <5> QED
                    BY <5>1, <2>4
            <4> QED
                BY <4>1, <4>2, <4>3
        <3>15. Turned(v, n, t, i)
            <4>1. /\ \A k \in (i + 1)..n : u[k] \in 1..n
                  /\ \A k \in (i + 1)..(n - 1) : ~(v[k] < v[k + 1]) /\ ~(v[u[k]] < v[u[k + 1]])
                BY <3>12, <3>14, <2>4, <3>i
            <4> QED
                BY <4>1, <3>10, <3>8, <2>n, TurnedIs
        <3>16. ASSUME NEW k \in (i + 1)..n, v[i] < v[k] PROVE ~(v[k] < v[t[i]])
            <4>1. v[j] <= v[k]
                BY <3>5, <3>6, <3>16, <3>4
            <4> QED
                BY <4>1, <3>11, <3>4, <1>v, <3>i
        <3>17. Succeeds(v, n, t)
            BY <3>i, <3>4, <3>11, <3>15, <3>16 DEF Succeeds
        <3> QED
            BY <3>7, <3>9, <3>13, <3>17
    <2> QED
        BY <2>5, <2>6
<1> QED
    BY <1>2, <1>3

-----------------------------------------------------------------------------
(* The calls *)

\* The keys are keys, and before the call every element is at its place.
Typed ==
    /\ Size \in Nat
    /\ key \in [1..Size -> 1..Keys]
Unmoved == call.op = "none" => a = Named(Size)

IInv == Typed /\ Unmoved

\* The calls whose effect PlacesAreRight tells.
Placing == {"rotate", "reverse", "partition", "stable_partition", "remove_if", "adjacent_remove_if",
            "sample", "unique_copy", "stride"}

\* A call without arguments.
LEMMA CallOne ==
    ASSUME NEW o, NEW x
    PROVE  Returning([op |-> o], x).op = o /\ Returning([op |-> o], x).at = x
    BY DEF Returning

\* Before the call nothing has moved.
LEMMA IInvInit == Init => IInv
<1> SUFFICES ASSUME Init PROVE IInv
    OBVIOUS
<1>1. call.op = "none" /\ a = [i \in 1..Size |-> i]
    BY DEF Init
<1>2. PICK n \in Nat : key \in [1..n -> 1..Keys]
    <2>1. Short \in Nat /\ Long \in Nat /\ Keys \in Nat /\ Keys >= 2
        BY BoundsAssumption
    <2>2. CASE key \in UNION {[1..n -> 1..Keys] : n \in 0..Short}
        BY <2>1, <2>2
    <2>3. CASE key \in UNION {[1..n -> 1..2] : n \in 0..Long}
        <3>1. PICK n \in 0..Long : key \in [1..n -> 1..2]
            BY <2>3
        <3>2. key \in [1..n -> 1..Keys]
            BY <3>1, <2>1
        <3> QED
            BY <3>2, <2>1
    <2>4. \/ key \in UNION {[1..n -> 1..Keys] : n \in 0..Short}
          \/ key \in UNION {[1..n -> 1..2] : n \in 0..Long}
        BY DEF Init
    <2> QED
        BY <2>2, <2>3, <2>4
<1>3. Len(key) = n
    BY <1>2
<1> QED
    BY <1>1, <1>2, <1>3 DEF IInv, Typed, Unmoved, Size, Named

\* A call that returns leaves the keys, and has a name.
LEMMA Returned ==
    ASSUME NEW o, NEW r, Returns(o, r)
    PROVE  /\ call.op = "none" /\ a' = r.range /\ call' = Returning(o, r.at)
           /\ key' = key /\ Size' = Size /\ End' = End /\ Chosen' = Chosen
    BY DEF Returns, Size, End, Chosen

\* What every call does: it is made once, and leaves the keys as they are.
Called(names) == call.op = "none" /\ key' = key /\ call'.op \in names

\* A call that returns was made.
LEMMA ReturnsCalled ==
    ASSUME NEW c, NEW r, Returns(c, r), "op" \in DOMAIN c
    PROVE  Called({c.op})
    BY DEF Returns, Returning, Called

\* Which call a step was.
LEMMA NextCalls ==
    ASSUME Next
    PROVE  \/ CallRotate /\ Called({"rotate"})
           \/ CallReverse /\ Called({"reverse"})
           \/ CallPartition /\ Called({"partition"})
           \/ CallStablePartition /\ Called({"stable_partition"})
           \/ CallRemoveIf /\ Called({"remove_if"})
           \/ CallUnstableRemoveIf /\ Called({"unstable_remove_if"})
           \/ CallAdjacentRemoveIf /\ Called({"adjacent_remove_if"})
           \/ CallNextPermutation /\ Called({"next_permutation"})
           \/ CallPrevPermutation /\ Called({"prev_permutation"})
           \/ CallNthElement /\ Called({"nth_element"})
           \/ CallStableSortInPlace /\ Called({"stable_sort"})
           \/ CallStableSortWithBuffer /\ Called({"stable_sort", "never"})
           \/ CallInplaceMerge /\ Called({"inplace_merge"})
           \/ CallSortNWithBuffer /\ Called({"sort_n_with_buffer"})
           \/ CallBinarySearches /\ Called({"lower_bound", "upper_bound", "equal_range", "binary_search"})
           \/ CallSearch /\ Called({"search"})
           \/ CallSearchN /\ Called({"search"})
           \/ CallFindEnd /\ Called({"find_end"})
           \/ CallIsPermutation /\ Called({"is_permutation", "never"})
           \/ CallBothSorted /\ Called({"set_union", "set_intersection", "set_difference", "set_symmetric_difference", "includes"})
           \/ CallMerge /\ Called({"merge"})
           \/ CallPartialSortCopy /\ Called({"partial_sort_copy"})
           \/ CallUniqueCopy /\ Called({"unique_copy"})
           \/ CallStride /\ Called({"stride"})
           \/ CallRandomly /\ Called({"sample", "sample_input", "shuffle"})
           \/ CallMinMaxElement /\ Called({"minmax_element"})
           \/ CallIsHeapUntil /\ Called({"is_heap_until"})
           \/ CallStartsEndsContains /\ Called({"starts_with", "ends_with", "contains"})
<1>1. CallRotate => Called({"rotate"})
    BY ReturnsCalled DEF CallRotate
<1>2. CallReverse => Called({"reverse"})
    BY ReturnsCalled DEF CallReverse
<1>3. CallPartition => Called({"partition"})
    BY ReturnsCalled DEF CallPartition
<1>4. CallStablePartition => Called({"stable_partition"})
    BY ReturnsCalled DEF CallStablePartition
<1>5. CallRemoveIf => Called({"remove_if"})
    BY ReturnsCalled DEF CallRemoveIf
<1>6. CallUnstableRemoveIf => Called({"unstable_remove_if"})
    BY ReturnsCalled DEF CallUnstableRemoveIf
<1>7. CallAdjacentRemoveIf => Called({"adjacent_remove_if"})
    BY ReturnsCalled DEF CallAdjacentRemoveIf
<1>8. CallNextPermutation => Called({"next_permutation"})
    BY ReturnsCalled DEF CallNextPermutation
<1>9. CallPrevPermutation => Called({"prev_permutation"})
    BY ReturnsCalled DEF CallPrevPermutation
<1>10. CallNthElement => Called({"nth_element"})
    <2>1. ASSUME CallNthElement PROVE \E nth, r : Returns([op |-> "nth_element", nth |-> nth], r)
        BY <2>1, Zenon DEF CallNthElement
    <2>2. ASSUME NEW nth, NEW r, Returns([op |-> "nth_element", nth |-> nth], r)
          PROVE  Called({"nth_element"})
        BY <2>2, ReturnsCalled
    <2> QED
        BY <2>1, <2>2
<1>11. CallStableSortInPlace => Called({"stable_sort"})
    <2>1. ASSUME CallStableSortInPlace PROVE \E r : Returns([op |-> "stable_sort"], r)
        BY <2>1, Zenon DEF CallStableSortInPlace
    <2> QED
        BY <2>1, ReturnsCalled
<1>12. CallStableSortWithBuffer => Called({"stable_sort", "never"})
    BY ReturnsCalled DEF CallStableSortWithBuffer, NeverReturns, Called
<1>13. CallInplaceMerge => Called({"inplace_merge"})
    <2>1. ASSUME CallInplaceMerge PROVE \E r : Returns([op |-> "inplace_merge"], r)
        BY <2>1, Zenon DEF CallInplaceMerge
    <2> QED
        BY <2>1, ReturnsCalled
<1>14. CallSortNWithBuffer => Called({"sort_n_with_buffer"})
    <2>1. ASSUME CallSortNWithBuffer PROVE \E r : Returns([op |-> "sort_n_with_buffer"], r)
        BY <2>1, Zenon DEF CallSortNWithBuffer
    <2> QED
        BY <2>1, ReturnsCalled
<1>15. CallBinarySearches => Called({"lower_bound", "upper_bound", "equal_range", "binary_search"})
    BY ReturnsCalled DEF CallBinarySearches, Called, Answers
<1>16. CallSearch => Called({"search"})
    BY ReturnsCalled DEF CallSearch, Answers
<1>17. CallSearchN => Called({"search"})
    BY ReturnsCalled DEF CallSearchN, Answers
<1>18. CallFindEnd => Called({"find_end"})
    BY ReturnsCalled DEF CallFindEnd, Answers
<1>19. CallIsPermutation => Called({"is_permutation", "never"})
    BY ReturnsCalled DEF CallIsPermutation, NeverReturns, Called, Answers
<1>20. CallBothSorted => Called({"set_union", "set_intersection", "set_difference", "set_symmetric_difference", "includes"})
    BY ReturnsCalled DEF CallBothSorted, Called, Answers
<1>21. CallMerge => Called({"merge"})
    BY ReturnsCalled DEF CallMerge, Answers
<1>22. CallPartialSortCopy => Called({"partial_sort_copy"})
    BY ReturnsCalled DEF CallPartialSortCopy, Answers
<1>23. CallUniqueCopy => Called({"unique_copy"})
    BY ReturnsCalled DEF CallUniqueCopy, Answers
<1>24. CallStride => Called({"stride"})
    BY ReturnsCalled DEF CallStride, Answers
<1>25. CallRandomly => Called({"sample", "sample_input", "shuffle"})
    <2>1. ASSUME CallRandomly
          PROVE  \/ \E n, r : Returns([op |-> "sample", room |-> n], r)
                 \/ \E n, r : Returns([op |-> "sample_input", room |-> n], r)
                 \/ \E r : Returns([op |-> "shuffle"], r)
        BY <2>1, Zenon DEF CallRandomly, Answers
    <2>2. ASSUME NEW n, NEW r, Returns([op |-> "sample", room |-> n], r) PROVE Called({"sample"})
        BY <2>2, ReturnsCalled
    <2>3. ASSUME NEW n, NEW r, Returns([op |-> "sample_input", room |-> n], r)
          PROVE  Called({"sample_input"})
        BY <2>3, ReturnsCalled
    <2>4. ASSUME NEW r, Returns([op |-> "shuffle"], r) PROVE Called({"shuffle"})
        BY <2>4, ReturnsCalled
    <2> QED
        BY <2>1, <2>2, <2>3, <2>4 DEF Called
<1>26. CallMinMaxElement => Called({"minmax_element"})
    BY ReturnsCalled DEF CallMinMaxElement, Answers
<1>27. CallIsHeapUntil => Called({"is_heap_until"})
    BY ReturnsCalled DEF CallIsHeapUntil, Answers
<1>28. CallStartsEndsContains => Called({"starts_with", "ends_with", "contains"})
    BY ReturnsCalled DEF CallStartsEndsContains, Called, Answers
<1> QED
    BY <1>1, <1>2, <1>3, <1>4, <1>5, <1>6, <1>7, <1>8, <1>9, <1>10, <1>11, <1>12, <1>13, <1>14, <1>15, <1>16, <1>17, <1>18, <1>19, <1>20, <1>21, <1>22, <1>23, <1>24, <1>25, <1>26, <1>27, <1>28 DEF Next

\* A remainder of less than twice the divisor.
LEMMA RemainderNear ==
    ASSUME NEW n \in Nat \ {0}, NEW x \in 0..(2 * n - 1)
    PROVE  x % n = IF x < n THEN x ELSE x - n
<1>1. x % n \in 0..(n - 1) /\ \E q \in Int : x % n = x - q * n
    <2>1. x \in Nat
        OBVIOUS
    <2> QED
        BY <2>1, Remainder
<1>2. PICK q \in Int : x % n = x - q * n
    BY <1>1
<1> DEFINE y == IF x < n THEN x ELSE x - n
           z == x % n
<1>3. y \in 0..(n - 1) /\ y \in Int /\ z \in Int /\ n \in Int /\ \E k \in Int : y = x - k * n
    <2>1. CASE x < n
        <3>1. y = x - 0 * n
            BY <2>1
        <3> QED
            BY <3>1, <2>1, <1>1
    <2>2. CASE ~(x < n)
        <3>1. y = x - 1 * n
            BY <2>2
        <3> QED
            BY <3>1, <2>2, <1>1
    <2> QED
        BY <2>1, <2>2
<1>4. PICK k \in Int : y = x - k * n
    BY <1>3
<1> HIDE DEF y
<1>5. z = y + (k - q) * n
    BY <1>2, <1>4
<1> HIDE DEF z
<1>6. Congruent(z, y, n)
    BY <1>3, <1>5 DEF Congruent
<1>7. z - y < n /\ y - z < n
    BY <1>1, <1>3 DEF z
<1>8. z = y
    BY <1>3, <1>6, <1>7, CongruentNear
<1> QED
    BY <1>8 DEF z, y

\* rotate puts the element of the middle first, and all others in turn.
LEMMA RotatePlaces ==
    ASSUME IInv, CallRotate
    PROVE  PlacesAreRight'
<1> DEFINE n == Size
<1>1. PICK m \in 1..End, kind \in Kinds(Tags) :
          Returns([op |-> "rotate", middle |-> m], Rotate(a, 1, m, End, kind))
    BY DEF CallRotate
<1> DEFINE r == Rotate(a, 1, m, End, kind)
           t == Rotated(a, 1, m, End)
<1>2. /\ call.op = "none" /\ a' = r.range /\ Size' = n /\ End' = End
      /\ call'.op = "rotate" /\ call'.middle = m /\ call'.at = r.at
    BY <1>1 DEF Returns, Returning, Size, End
<1>3. n \in Nat /\ End = n + 1 /\ a = Named(n) /\ a \in Rows(n) /\ \A i \in 1..n : a[i] = i
    BY <1>2, NamedIs DEF IInv, Typed, Unmoved, End
<1>4. r = Result(t, 1 + (End - m))
    BY <1>3, RotateIs
<1> HIDE DEF n, r
<1>5. t \in Rows(n) /\ \A i \in 1..n : t[i] = 1 + ((i + m - 2) % n)
    <2>1. m \in 1..(n + 1) /\ 1 \in 1..(n + 1) /\ n + 1 \in 1..(n + 1) /\ 1 <= m /\ m <= n + 1
        BY <1>3
    <2>e. End \in 1..(n + 1) /\ m <= End /\ n \in Nat /\ a \in Rows(n)
        BY <1>3, <2>1
    <2>2. /\ t \in Rows(n)
          /\ \A i \in 1..n : t[i] =
                  IF i < 1 \/ i >= End THEN a[i]
                  ELSE IF i < 1 + (End - m) THEN a[i + (m - 1)] ELSE a[i - (End - m)]
        BY <2>1, <2>e, RotatedIsRow
    <2> HIDE DEF t
    <2>3. ASSUME NEW i \in 1..n PROVE t[i] = 1 + ((i + m - 2) % n)
        <3> DEFINE x == i + m - 2
        <3>1. x \in 0..(2 * n - 1) /\ n \in Nat \ {0}
            BY <2>1, <1>3
        <3>2. x % n = IF x < n THEN x ELSE x - n
            BY <3>1, RemainderNear
        <3>3. CASE i < 1 + (End - m)
            <4>1. i + (m - 1) \in 1..n /\ x < n /\ i + (m - 1) = 1 + x
                BY <3>3, <2>1, <1>3
            <4> QED
                BY <4>1, <3>2, <3>3, <2>2, <1>3
        <3>4. CASE ~(i < 1 + (End - m))
            <4>1. i - (End - m) \in 1..n /\ ~(x < n) /\ i - (End - m) = 1 + (x - n)
                BY <3>4, <2>1, <1>3
            <4> QED
                BY <4>1, <3>2, <3>4, <2>2, <1>3
        <3> QED
            BY <3>3, <3>4
    <2> QED
        BY <2>2, <2>3
<1>6. a' = t /\ call'.at = 1 + (End - m)
    BY <1>2, <1>4, ResultIs
<1> HIDE DEF t
<1>7. t = [i \in 1..n |-> 1 + ((i + m - 2) % n)]
    BY <1>5 DEF Rows
<1> QED
    BY <1>2, <1>6, <1>7 DEF PlacesAreRight

\* Before the call the range has its elements at their places.
LEMMA AsNamed ==
    ASSUME IInv, call.op = "none"
    PROVE  /\ Size \in Nat /\ End = Size + 1 /\ key \in [1..Size -> 1..Keys]
           /\ a = Named(Size) /\ a \in Rows(Size) /\ \A i \in 1..Size : a[i] = i
    BY NamedIs DEF IInv, Typed, Unmoved, End

\* What stands before p, as a sequence.
LEMMA FrontIs ==
    ASSUME NEW n \in Nat, NEW s \in Rows(n), NEW p \in 1..(n + 1), NEW t, t = SubSeq(s, 1, p - 1)
    PROVE  /\ t \in Seq(Nat) /\ Len(t) = p - 1 /\ DOMAIN t = 1..(p - 1)
           /\ \A k \in 1..(p - 1) : t[k] = s[k]
<1>1. s \in Seq(Nat) /\ Len(s) = n
    BY RowIsSeq
<1>2. 1 \in 1..(Len(s) + 1) /\ p - 1 \in 0..Len(s) /\ 1 <= (p - 1) + 1 /\ (p - 1) - 1 + 1 = p - 1
    BY <1>1
<1> DEFINE m == p - 1
<1>3. 1 \in 1..(Len(s) + 1) /\ m \in 0..Len(s) /\ 1 <= m + 1 /\ m - 1 + 1 = m
    BY <1>2
<1> HIDE DEF m
<1>4. /\ SubSeq(s, 1, m) \in Seq(Nat) /\ Len(SubSeq(s, 1, m)) = m
      /\ \A k \in 1..m : SubSeq(s, 1, m)[k] = s[1 + k - 1]
    BY <1>1, <1>3, SubSeqIs
<1>5. \A k \in 1..m : 1 + k - 1 = k
    BY <1>3
<1>6. t = SubSeq(s, 1, m) /\ DOMAIN t = 1..Len(t)
    BY <1>4 DEF m
<1> QED
    BY <1>4, <1>5, <1>6 DEF m

\* And what stands from p on.
LEMMA BackIs ==
    ASSUME NEW n \in Nat, NEW s \in Rows(n), NEW p \in 1..(n + 1), NEW t, t = SubSeq(s, p, n)
    PROVE  /\ t \in Seq(Nat) /\ Len(t) = n + 1 - p
           /\ \A k \in 1..(n + 1 - p) : t[k] = s[p + k - 1]
<1>1. s \in Seq(Nat) /\ Len(s) = n
    BY RowIsSeq
<1>2. p \in 1..(Len(s) + 1) /\ n \in 0..Len(s) /\ p <= n + 1 /\ n - p + 1 = n + 1 - p
    BY <1>1
<1>3. /\ t \in Seq(Nat) /\ Len(t) = n - p + 1
      /\ \A k \in 1..(n - p + 1) : t[k] = s[p + k - 1]
    BY <1>1, <1>2, SubSeqIs
<1> QED
    BY <1>2, <1>3

\* reverse puts every element where its mirror image was.
LEMMA ReversePlaces ==
    ASSUME IInv, CallReverse
    PROVE  PlacesAreRight'
<1> DEFINE n == Size
<1>1. PICK tag : Returns([op |-> "reverse"], Result(Reversed(a, 1, End, tag), End))
    BY DEF CallReverse
<1> DEFINE t == Reversed(a, 1, End, tag)
<1>2. call.op = "none" /\ a' = t /\ Size' = n /\ End' = End /\ call'.op = "reverse"
    BY <1>1, ResultIs DEF Returns, Returning, Size, End
<1>3. n \in Nat /\ End = n + 1 /\ a \in Rows(n) /\ \A i \in 1..n : a[i] = i
    BY <1>2, AsNamed
<1> HIDE DEF n
<1>4. t \in Rows(n) /\ \A j \in 1..n : t[j] = IF j \in 1..(End - 1) THEN a[1 + End - 1 - j] ELSE a[j]
    <2>1. 1 \in 1..(n + 1) /\ End \in 1..(n + 1) /\ 1 <= End
        BY <1>3
    <2> QED
        BY <2>1, <1>3, ReversedIs
<1> HIDE DEF t
<1>5. \A j \in 1..n : t[j] = End - j
    <2> SUFFICES ASSUME NEW j \in 1..n PROVE t[j] = End - j
        OBVIOUS
    <2>1. j \in 1..(End - 1) /\ 1 + End - 1 - j = End - j /\ End - j \in 1..n
        BY <1>3
    <2> QED
        BY <2>1, <1>3, <1>4
<1>6. t = [i \in 1..n |-> End - i]
    BY <1>4, <1>5 DEF Rows
<1> QED
    BY <1>2, <1>6 DEF PlacesAreRight

\* partition leaves what was chosen in front of the iterator it returns.
LEMMA PartitionPlaces ==
    ASSUME IInv, CallPartition
    PROVE  PlacesAreRight'
<1> DEFINE n == Size
<1>1. PICK tag : Returns([op |-> "partition"], Partition(a, 1, End, Chosen, tag))
    BY DEF CallPartition
<1> DEFINE r == Partition(a, 1, End, Chosen, tag)
           front == SubSeq(r.range, 1, r.at - 1)
<1>2. /\ call.op = "none" /\ a' = r.range /\ call'.at = r.at /\ Size' = n /\ Chosen' = Chosen
      /\ call'.op = "partition"
    BY <1>1 DEF Returns, Returning, Size, Chosen
<1>3. n \in Nat /\ End = n + 1 /\ a \in Rows(n) /\ a = Named(n) /\ \A i \in 1..n : a[i] = i
    BY <1>2, AsNamed
<1>c. Chosen \subseteq 1..n
    BY DEF Chosen
<1> HIDE DEF n
<1>4. /\ r.range \in Rows(n) /\ r.at \in 1..(n + 1)
      /\ Within(r.range, 1, n + 1) = Within(a, 1, n + 1)
      /\ \A k \in 1..(r.at - 1) : r.range[k] \in Chosen
      /\ \A k \in r.at..n : r.range[k] \notin Chosen
    BY <1>3, PartitionIs
<1>5. Within(a, 1, n + 1) = 1..n
    BY <1>3, NamedIs
<1> HIDE DEF r
<1>6. \A c \in Chosen : \E k \in 1..(r.at - 1) : r.range[k] = c
    <2> SUFFICES ASSUME NEW c \in Chosen PROVE \E k \in 1..(r.at - 1) : r.range[k] = c
        OBVIOUS
    <2>1. c \in Within(r.range, 1, n + 1)
        BY <1>4, <1>5, <1>c
    <2>2. PICK k \in 1..((n + 1) - 1) : r.range[k] = c
        BY <2>1 DEF Within
    <2>3. k \in 1..n
        BY <1>3
    <2>4. ~(k >= r.at)
        BY <2>2, <2>3, <1>4
    <2>5. k \in 1..(r.at - 1)
        BY <2>3, <2>4, <1>4
    <2> QED
        BY <2>2, <2>5
<1>7. DOMAIN front = 1..(r.at - 1) /\ \A k \in 1..(r.at - 1) : front[k] = r.range[k]
    BY <1>3, <1>4, FrontIs
<1> HIDE DEF front
<1>8. {front[i] : i \in DOMAIN front} = Chosen
    BY <1>4, <1>6, <1>7
<1> QED
    BY <1>2, <1>8 DEF PlacesAreRight, front

\* stable_partition does, and keeps the order on either side.
LEMMA StablePartitionPlaces ==
    ASSUME IInv, CallStablePartition
    PROVE  PlacesAreRight'
<1> DEFINE n == Size
<1>1. PICK buffer, kind : Returns([op |-> "stable_partition"], StablePartition(a, Chosen, buffer, kind))
    BY DEF CallStablePartition
<1> DEFINE r == StablePartition(a, Chosen, buffer, kind)
           front == SubSeq(r.range, 1, r.at - 1)
           back == SubSeq(r.range, r.at, n)
<1>2. /\ call.op = "none" /\ a' = r.range /\ call'.at = r.at /\ Size' = n /\ Chosen' = Chosen
      /\ call'.op = "stable_partition"
    BY <1>1 DEF Returns, Returning, Size, Chosen
<1>3. n \in Nat /\ a = Named(n)
    BY <1>2, AsNamed
<1>c. Chosen \subseteq 1..n
    BY DEF Chosen
<1> HIDE DEF n
<1>4. r.range \in Rows(n) /\ r.at \in 1..(n + 1) /\ Sides(r.range, 1, r.at, n, Chosen)
    BY <1>3, StablePartitionIs
<1> HIDE DEF r
<1> DEFINE x == r.range
           p == r.at
<1>5. /\ \A k \in 1..(p - 1) : x[k] \in Chosen
      /\ \A k \in p..n : x[k] \notin Chosen
      /\ \A j, k \in 1..(p - 1) : j < k => x[j] < x[k]
      /\ \A j, k \in p..n : j < k => x[j] < x[k]
      /\ \A e \in 1..n : \E k \in 1..n : x[k] = e
    BY <1>4 DEF Sides
<1>6. /\ front \in Seq(Nat) /\ Len(front) = p - 1 /\ DOMAIN front = 1..(p - 1)
      /\ \A k \in 1..(p - 1) : front[k] = x[k]
    BY <1>3, <1>4, FrontIs
<1>7. back \in Seq(Nat) /\ Len(back) = n + 1 - p /\ \A k \in 1..(n + 1 - p) : back[k] = x[p + k - 1]
    BY <1>3, <1>4, BackIs, ZenonT(40)
<1>p. p \in 1..(n + 1)
    BY <1>4
<1>q. a' = x /\ call'.at = p
    BY <1>2
<1>f. front = SubSeq(x, 1, p - 1) /\ back = SubSeq(x, p, n)
    OBVIOUS
<1> HIDE DEF front, back, x, p
<1>8. {front[i] : i \in DOMAIN front} = Chosen
    <2>1. ASSUME NEW c \in Chosen PROVE \E k \in 1..(p - 1) : x[k] = c
        <3>1. PICK k \in 1..n : x[k] = c
            BY <1>5, <1>c
        <3>2. ~(k >= p)
            BY <3>1, <1>5, <1>p
        <3>3. k \in 1..(p - 1)
            BY <3>2, <1>p
        <3> QED
            BY <3>1, <3>3
    <2> QED
        BY <2>1, <1>5, <1>6
<1>9. Ascending(front)
    <2> SUFFICES ASSUME NEW i \in 1..(Len(front) - 1) PROVE front[i] < front[i + 1]
        BY DEF Ascending
    <2>1. i \in 1..(p - 1) /\ i + 1 \in 1..(p - 1) /\ i < i + 1
        BY <1>6, <1>p
    <2> QED
        BY <2>1, <1>5, <1>6
<1>10. Ascending(back)
    <2> SUFFICES ASSUME NEW i \in 1..(Len(back) - 1) PROVE back[i] < back[i + 1]
        BY DEF Ascending
    <2>1. i \in 1..(n + 1 - p) /\ i + 1 \in 1..(n + 1 - p)
        BY <1>7, <1>p, <1>3
    <2>2. p + i - 1 \in p..n /\ p + (i + 1) - 1 \in p..n /\ p + i - 1 < p + (i + 1) - 1
        BY <2>1, <1>p, <1>3
    <2> QED
        BY <2>1, <2>2, <1>5, <1>7
<1> QED
    BY <1>2, <1>q, <1>f, <1>8, <1>9, <1>10 DEF PlacesAreRight

\* What has an order in front of p has it as a sequence.
LEMMA FrontAscends ==
    ASSUME NEW n \in Nat, NEW s \in Rows(n), NEW p \in 1..(n + 1), InOrder(s, 1, p)
    PROVE  Ascending(SubSeq(s, 1, p - 1))
<1> DEFINE t == SubSeq(s, 1, p - 1)
<1>1. Len(t) = p - 1 /\ \A k \in 1..(p - 1) : t[k] = s[k]
    BY FrontIs
<1> HIDE DEF t
<1>2. ASSUME NEW i \in 1..(Len(t) - 1) PROVE t[i] < t[i + 1]
    <2>1. i \in 1..(p - 1) /\ i + 1 \in 1..(p - 1) /\ i < i + 1
        BY <1>1
    <2> QED
        BY <2>1, <1>1 DEF InOrder
<1>3. Ascending(t)
    BY <1>2 DEF Ascending
<1> QED
    BY <1>3 DEF t

\* What rises ascends.
LEMMA RisesAscends ==
    ASSUME NEW s \in Seq(Nat), NEW b, Rises(s, b)
    PROVE  Ascending(s)
<1>1. Len(s) \in Nat
    OBVIOUS
<1>2. ASSUME NEW i \in 1..(Len(s) - 1) PROVE s[i] < s[i + 1]
    <2>1. i \in 1..Len(s) /\ i + 1 \in 1..Len(s) /\ i < i + 1
        BY <1>1
    <2> QED
        BY <2>1 DEF Rises
<1> QED
    BY <1>2 DEF Ascending

\* remove_if keeps the order of what it keeps.
LEMMA RemoveIfPlaces ==
    ASSUME IInv, CallRemoveIf
    PROVE  PlacesAreRight'
<1> DEFINE n == Size
           r == RemoveIf(a, 1, End, Chosen)
<1>1. Returns([op |-> "remove_if"], r)
    BY DEF CallRemoveIf
<1>2. call.op = "none" /\ a' = r.range /\ call'.at = r.at /\ call'.op = "remove_if"
    BY <1>1 DEF Returns, Returning
<1>3. n \in Nat /\ End = n + 1 /\ a = Named(n)
    BY <1>2, AsNamed
<1> HIDE DEF n
<1>4. Keeps(r, n, (1..n) \ Chosen) /\ InOrder(r.range, 1, r.at)
    BY <1>3, RemoveIfIs
<1> HIDE DEF r
<1>5. r.range \in Rows(n) /\ r.at \in 1..(n + 1)
    BY <1>4 DEF Keeps
<1>6. Ascending(SubSeq(r.range, 1, r.at - 1))
    BY <1>3, <1>4, <1>5, FrontAscends
<1> QED
    BY <1>2, <1>6 DEF PlacesAreRight

\* adjacent_remove_if does too.
LEMMA AdjacentRemoveIfPlaces ==
    ASSUME IInv, CallAdjacentRemoveIf
    PROVE  PlacesAreRight'
<1> DEFINE n == Size
           r == AdjacentRemoveIf(a, 1, End, Precedes)
<1>1. Returns([op |-> "adjacent_remove_if"], r)
    BY DEF CallAdjacentRemoveIf
<1>2. call.op = "none" /\ a' = r.range /\ call'.at = r.at /\ call'.op = "adjacent_remove_if"
    BY <1>1 DEF Returns, Returning
<1>3. n \in Nat /\ End = n + 1 /\ a = Named(n)
    BY <1>2, AsNamed
<1> HIDE DEF n
<1>4. Keeps(r, n, {k \in 1..n : k = n \/ <<k, k + 1>> \notin Precedes}) /\ InOrder(r.range, 1, r.at)
    BY <1>3, AdjacentRemoveIfIs
<1> HIDE DEF r
<1>5. r.range \in Rows(n) /\ r.at \in 1..(n + 1)
    BY <1>4 DEF Keeps
<1>6. Ascending(SubSeq(r.range, 1, r.at - 1))
    BY <1>3, <1>4, <1>5, FrontAscends
<1> QED
    BY <1>2, <1>6 DEF PlacesAreRight

\* sample takes its elements in their order.
LEMMA RandomlyPlaces ==
    ASSUME IInv, CallRandomly
    PROVE  PlacesAreRight'
<1>1. CASE \E draws \in Draws(Size), k \in 0..(Size + 1) :
               Answers([op |-> "sample", room |-> k], SampleSized(a, k, draws))
    <2>1. PICK draws \in Draws(Size), k \in 0..(Size + 1) :
              Answers([op |-> "sample", room |-> k], SampleSized(a, k, draws))
        BY <1>1
    <2> DEFINE r == SampleSized(a, k, draws)
               n == Size
    <2>2. call.op = "none" /\ call'.at = r /\ call'.op = "sample"
        BY <2>1, ResultIs DEF Answers, Returns, Returning
    <2>3. n \in Nat /\ a = Named(n) /\ k \in Nat
        BY <2>2, AsNamed
    <2> HIDE DEF n
    <2>4. r \in Seq(Nat) /\ Rises(r, n)
        BY <2>3, SampleSizedIs
    <2> HIDE DEF r
    <2>5. Ascending(r)
        BY <2>4, RisesAscends
    <2> QED
        BY <2>2, <2>5 DEF PlacesAreRight
<1>2. CASE \/ \E draws \in Draws(Size), k \in 0..(Size + 1) :
                  Answers([op |-> "sample_input", room |-> k], SampleReservoir(a, k, draws))
           \/ \E draws \in Draws(Size) : Returns([op |-> "shuffle"], Result(Shuffled(a, draws), End))
    <2>1. call'.op \in {"sample_input", "shuffle"}
        BY <1>2 DEF Answers, Returns, Returning
    <2> QED
        BY <2>1 DEF PlacesAreRight
<1>3. \/ \E draws \in Draws(Size), k \in 0..(Size + 1) :
             Answers([op |-> "sample", room |-> k], SampleSized(a, k, draws))
      \/ \E draws \in Draws(Size), k \in 0..(Size + 1) :
             Answers([op |-> "sample_input", room |-> k], SampleReservoir(a, k, draws))
      \/ \E draws \in Draws(Size) : Returns([op |-> "shuffle"], Result(Shuffled(a, draws), End))
    BY Zenon DEF CallRandomly
<1> QED
    BY <1>1, <1>2, <1>3

\* unique_copy takes the first of each run.
LEMMA UniqueCopyPlaces ==
    ASSUME IInv, CallUniqueCopy
    PROVE  PlacesAreRight'
<1> DEFINE n == Size
           o == UniqueCopy(Elements)
           r == Names(o)
<1>1. Answers([op |-> "unique_copy"], r)
    BY DEF CallUniqueCopy
<1>2. call.op = "none" /\ call'.at = r /\ call'.op = "unique_copy" /\ key' = key /\ Size' = n
    BY <1>1, ResultIs DEF Answers, Returns, Returning, Size
<1>3. n \in Nat /\ key \in [1..n -> Nat]
    <2>1. n \in Nat /\ key \in [1..n -> 1..Keys] /\ Keys \in Nat
        BY <1>2, AsNamed, BoundsAssumption
    <2> QED
        BY <2>1
<1>4. Elements = ElementsOf(key, n)
    BY DEF Elements, ElementsOf
<1> HIDE DEF n
<1>5. RunsOf(o, key, n)
    BY <1>3, <1>4, UniqueCopyIs
<1> HIDE DEF o
<1>6. /\ o \in Seq(Elems) /\ Len(o) \in Nat
      /\ \A k \in 1..Len(o) : o[k].name \in 1..n
      /\ \A j, k \in 1..Len(o) : j < k => o[j].name < o[k].name
      /\ \A j \in 1..n : Begins(key, j) <=> \E k \in 1..Len(o) : o[k].name = j
    <2>1. o \in Seq(Elems)
        BY <1>5 DEF RunsOf
    <2>2. Len(o) \in Nat
        BY <2>1
    <2> QED
        BY <2>1, <2>2, <1>5 DEF RunsOf
<1>7. r = [k \in 1..Len(o) |-> o[k].name] /\ r \in Seq(Nat) /\ Len(r) = Len(o) /\ DOMAIN r = 1..Len(o)
    <2>1. DOMAIN o = 1..Len(o)
        BY <1>6
    <2>2. r = [k \in 1..Len(o) |-> o[k].name]
        BY <2>1 DEF Names
    <2>3. \A k \in 1..Len(o) : o[k].name \in Nat
        BY <1>3, <1>6
    <2> HIDE DEF r
    <2> QED
        BY <2>2, <2>3, <1>6
<1> HIDE DEF r
<1>8. Rises(r, n)
    BY <1>6, <1>7 DEF Rises
<1>9. {r[i] : i \in DOMAIN r} = {i \in 1..n : i = 1 \/ key[i] # key[i - 1]}
    BY <1>6, <1>7 DEF Begins
<1>10. Ascending(r)
    BY <1>7, <1>8, RisesAscends
<1> QED
    BY <1>2, <1>9, <1>10 DEF PlacesAreRight, Copied

\* stride takes every step-th element.
LEMMA StridePlaces ==
    ASSUME IInv, CallStride
    PROVE  PlacesAreRight'
<1> DEFINE n == Size
<1>1. PICK step \in 1..End : Answers([op |-> "stride", step |-> step], Stride(a, step))
    BY DEF CallStride
<1> DEFINE r == Stride(a, step)
<1>2. call.op = "none" /\ call'.at = r /\ call'.op = "stride" /\ call'.step = step /\ Size' = n
    BY <1>1, ResultIs DEF Answers, Returns, Returning, Size
<1>3. n \in Nat /\ a = Named(n) /\ step \in Nat \ {0}
    BY <1>2, AsNamed
<1>r. r = Stride(a, step)
    OBVIOUS
<1> HIDE DEF n, r
<1>x. Strode(r, n, step)
    BY <1>3, <1>r, StrideIs
<1>4. /\ r \in Seq(Nat) /\ Rises(r, n)
      /\ \A i \in 1..n : OnStride(i, step) <=> \E k \in 1..Len(r) : r[k] = i
    BY <1>x DEF Strode
<1>6. {r[k] : k \in 1..Len(r)} = {i \in 1..n : OnStride(i, step)}
    BY <1>4 DEF Rises
<1>5. Ascending(r) /\ DOMAIN r = 1..Len(r)
    BY <1>4, RisesAscends
<1> QED
    BY <1>2, <1>6, <1>5 DEF PlacesAreRight, Copied, OnStride

\* PlacesAreRight promises nothing of the other calls.
LEMMA OthersPlace ==
    ASSUME call'.op \notin Placing
    PROVE  PlacesAreRight'
    BY DEF PlacesAreRight, Placing

\* After the one call nothing is called.
LEMMA IInvNext ==
    ASSUME IInv, Next
    PROVE  IInv'
<1>1. key' = key /\ call'.op # "none"
    BY NextCalls DEF Called
<1> QED
    BY <1>1 DEF IInv, Typed, Unmoved, Size

\* Whichever call it is.
LEMMA NextPlaces ==
    ASSUME IInv, Next
    PROVE  PlacesAreRight'
<1>1. CASE CallRotate \/ CallReverse \/ CallPartition \/ CallStablePartition
    BY <1>1, RotatePlaces, ReversePlaces, PartitionPlaces, StablePartitionPlaces
<1>2. CASE CallRemoveIf \/ CallAdjacentRemoveIf \/ CallRandomly \/ CallUniqueCopy \/ CallStride
    BY <1>2, RemoveIfPlaces, AdjacentRemoveIfPlaces, RandomlyPlaces, UniqueCopyPlaces, StridePlaces
<1>3. CASE call'.op \notin Placing
    BY <1>3, OthersPlace
<1> QED
    BY <1>1, <1>2, <1>3, NextCalls DEF Called, Placing

\* Every call puts what it moves, or takes, where its contract says.
THEOREM PlacesRight == Spec => []PlacesAreRight
<1>1. Init => IInv /\ PlacesAreRight
    <2>1. Init => PlacesAreRight
        BY DEF Init, PlacesAreRight
    <2> QED
        BY <2>1, IInvInit
<1>2. IInv /\ PlacesAreRight /\ [Next]_vars => IInv' /\ PlacesAreRight'
    <2> SUFFICES ASSUME IInv, PlacesAreRight, [Next]_vars PROVE IInv' /\ PlacesAreRight'
        OBVIOUS
    <2>1. CASE Next
        BY <2>1, IInvNext, NextPlaces
    <2>2. CASE UNCHANGED vars
        <3>1. key' = key /\ a' = a /\ call' = call
            BY <2>2 DEF vars
        <3>2. IInv'
            BY <3>1 DEF IInv, Typed, Unmoved, Size
        <3>3. PlacesAreRight'
            <4>1. CASE call.op \in {"rotate", "reverse"}
                BY <3>1, <4>1 DEF PlacesAreRight, Size, End
            <4>2. CASE call.op \in {"partition", "stable_partition"}
                <5>1. Chosen' = Chosen /\ Size' = Size
                    BY <3>1 DEF Chosen, Size
                <5>2. PICK x, p : x = a /\ p = call.at
                    OBVIOUS
                <5> DEFINE front == SubSeq(x, 1, p - 1)
                           back == SubSeq(x, p, Size)
                <5>3. /\ call.op = "partition" => {front[i] : i \in DOMAIN front} = Chosen
                      /\ call.op = "stable_partition" =>
                             {front[i] : i \in DOMAIN front} = Chosen /\ Ascending(front) /\ Ascending(back)
                    BY <5>2 DEF PlacesAreRight
                <5>4. a' = x /\ call'.at = p /\ call'.op = call.op
                    BY <3>1, <5>2
                <5> QED
                    BY <4>2, <5>1, <5>3, <5>4 DEF PlacesAreRight
            <4>3. CASE call.op \in {"remove_if", "adjacent_remove_if"}
                BY <3>1, <4>3 DEF PlacesAreRight
            <4>4. CASE call.op \in {"unique_copy", "stride", "sample"}
                BY <3>1, <4>4 DEF PlacesAreRight, Size, Copied
            <4>5. CASE call'.op \notin Placing
                BY <4>5, OthersPlace
            <4> QED
                BY <3>1, <4>1, <4>2, <4>3, <4>4, <4>5 DEF Placing
        <3> QED
            BY <3>2, <3>3
    <2> QED
        BY <2>1, <2>2
<1> QED
    BY <1>1, <1>2, PTL DEF Spec

\* The places of a pattern are what the searches were proved to find.
LEMMA OccurrencesAre ==
    ASSUME key' = key, NEW p
    PROVE  /\ Occurrences(p) = PlacesOf(key, p) /\ Occurrences(p)' = PlacesOf(key, p)
           /\ End' = Len(key) + 1
    BY DEF Occurrences, PlacesOf, End, Size

\* What the calls with a pattern are made of.
LEMMA PatternIs ==
    ASSUME IInv, call.op = "none", NEW p \in Patterns
    PROVE  /\ Texts(key, Size, p, Len(p)) /\ p \in [1..Len(p) -> 1..Keys] /\ Len(p) \in Nat
           /\ key \in [1..Size -> 1..Keys] /\ Size \in Nat
<1>1. Keys \in Nat /\ Keys >= 2 /\ PatternLength \in Nat
    BY BoundsAssumption
<1>2. Size \in Nat /\ key \in [1..Size -> 1..Keys] /\ Len(key) = Size
    BY AsNamed DEF Size
<1>3. PICK m \in 0..PatternLength : p \in [1..m -> 1..2]
    BY DEF Patterns
<1>4. m \in Nat /\ Len(p) = m /\ p \in [1..m -> 1..Keys]
    BY <1>1, <1>3
<1>5. p \in [1..m -> Nat] /\ key \in [1..Size -> Nat]
    BY <1>1, <1>2, <1>4
<1> QED
    BY <1>2, <1>4, <1>5 DEF Texts

\* The first and the last place are the least and the greatest.
LEMMA FoundFirstIsMin ==
    ASSUME NEW v, NEW n, NEW p, NEW m, Texts(v, n, p, m), NEW r, FoundFirst(v, p, r)
    PROVE  r = IF PlacesOf(v, p) = {} THEN <<Len(v) + 1, Len(v) + 1>>
               ELSE <<Min(PlacesOf(v, p)), Min(PlacesOf(v, p)) + Len(p)>>
<1> DEFINE S == PlacesOf(v, p)
<1>1. S \in SUBSET Nat
    BY PlacesOfIs
<1>2. S = {} => r = <<Len(v) + 1, Len(v) + 1>>
    BY DEF FoundFirst
<1>3. S # {} => \E i \in S : (\A j \in S : i <= j) /\ r = <<i, i + Len(p)>>
    BY DEF FoundFirst
<1> HIDE DEF S
<1>4. ASSUME S # {} PROVE r = <<Min(S), Min(S) + Len(p)>>
    <2>1. PICK i \in S : (\A j \in S : i <= j) /\ r = <<i, i + Len(p)>>
        BY <1>3, <1>4
    <2>2. Min(S) \in S /\ \A y \in S : Min(S) <= y
        BY <1>1, <1>4, MinIs
    <2>3. Min(S) = i
        <3> DEFINE q == Min(S)
        <3>1. q \in Nat /\ i \in Nat /\ q <= i /\ i <= q
            BY <1>1, <2>1, <2>2
        <3> HIDE DEF q
        <3>2. q = i
            BY <3>1
        <3> QED
            BY <3>2 DEF q
    <2> QED
        BY <2>1, <2>3
<1> QED
    BY <1>2, <1>4 DEF S

LEMMA FoundLastIsMax ==
    ASSUME NEW v, NEW n, NEW p, NEW m, Texts(v, n, p, m), NEW r, FoundLast(v, p, r)
    PROVE  r = IF PlacesOf(v, p) = {} THEN <<Len(v) + 1, Len(v) + 1>>
               ELSE <<Max(PlacesOf(v, p)), Max(PlacesOf(v, p)) + Len(p)>>
<1> DEFINE S == PlacesOf(v, p)
           b == n + 1
<1>1. S \in SUBSET (0..b) /\ b \in Nat
    BY PlacesOfIs
<1>2. S = {} => r = <<Len(v) + 1, Len(v) + 1>>
    BY DEF FoundLast
<1>3. S # {} => \E i \in S : (\A j \in S : j <= i) /\ r = <<i, i + Len(p)>>
    BY DEF FoundLast
<1> HIDE DEF S, b
<1>4. ASSUME S # {} PROVE r = <<Max(S), Max(S) + Len(p)>>
    <2>1. PICK i \in S : (\A j \in S : j <= i) /\ r = <<i, i + Len(p)>>
        BY <1>3, <1>4
    <2>2. Max(S) \in S /\ \A y \in S : y <= Max(S)
        BY <1>1, <1>4, MaxIs
    <2>3. Max(S) = i
        <3> DEFINE q == Max(S)
        <3>0. \A y \in S : y \in Nat
            BY <1>1
        <3>1. q \in Nat /\ i \in Nat /\ q <= i /\ i <= q
            BY <3>0, <2>1, <2>2
        <3> HIDE DEF q
        <3>2. q = i
            BY <3>1
        <3> QED
            BY <3>2 DEF q
    <2> QED
        BY <2>1, <2>3
<1> QED
    BY <1>2, <1>4 DEF S

\* What search and find_end are to answer.
LEMMA SearchAnswered ==
    ASSUME key' = key, call'.op = "search", NEW n, NEW m, Texts(key, n, call'.pattern, m),
           FoundFirst(key, call'.pattern, call'.at)
    PROVE  AnswersAreRight'
<1> DEFINE p == call'.pattern
           S == PlacesOf(key, p)
<1>1. Occurrences(call.pattern)' = S /\ End' = Len(key) + 1
    BY DEF Occurrences, PlacesOf, End, Size
<1>2. call'.at = IF S = {} THEN <<Len(key) + 1, Len(key) + 1>> ELSE <<Min(S), Min(S) + Len(p)>>
    BY FoundFirstIsMin
<1> HIDE DEF S
<1> QED
    BY <1>1, <1>2 DEF AnswersAreRight

LEMMA FindEndAnswered ==
    ASSUME key' = key, call'.op = "find_end", NEW n, NEW m, Texts(key, n, call'.pattern, m),
           FoundLast(key, call'.pattern, call'.at)
    PROVE  AnswersAreRight'
<1> DEFINE p == call'.pattern
           S == PlacesOf(key, p)
<1>1. Occurrences(call.pattern)' = S /\ End' = Len(key) + 1
    BY DEF Occurrences, PlacesOf, End, Size
<1>2. call'.at = IF S = {} THEN <<Len(key) + 1, Len(key) + 1>> ELSE <<Max(S), Max(S) + Len(p)>>
    BY FoundLastIsMax
<1> HIDE DEF S
<1> QED
    BY <1>1, <1>2 DEF AnswersAreRight

\* search, search_n and find_end answer as their definitions say.
LEMMA SearchAnswers ==
    ASSUME IInv, CallSearch
    PROVE  AnswersAreRight'
<1>1. PICK p \in Patterns, sized \in BOOLEAN :
          Answers([op |-> "search", pattern |-> p], Search(key, p, sized))
    BY DEF CallSearch
<1> DEFINE r == Search(key, p, sized)
<1>2. call.op = "none" /\ key' = key /\ call'.op = "search" /\ call'.at = r /\ call'.pattern = p
    BY <1>1, ResultIs DEF Answers, Returns, Returning
<1>3. Texts(key, Size, p, Len(p))
    BY <1>2, PatternIs
<1>4. FoundFirst(key, p, r)
    BY <1>3, SearchIs
<1> HIDE DEF r
<1> QED
    BY <1>2, <1>3, <1>4, SearchAnswered

LEMMA SearchNAnswers ==
    ASSUME IInv, CallSearchN
    PROVE  AnswersAreRight'
<1>1. PICK m \in 0..PatternLength, sized \in BOOLEAN :
          Answers([op |-> "search", pattern |-> [k \in 1..m |-> 1]], SearchN(key, m, 1, sized))
    BY DEF CallSearchN
<1> DEFINE r == SearchN(key, m, 1, sized)
           p == [k \in 1..m |-> 1]
<1>2. call.op = "none" /\ key' = key /\ call'.op = "search" /\ call'.at = r /\ call'.pattern = p
    BY <1>1, ResultIs DEF Answers, Returns, Returning
<1>m. m \in Nat /\ p \in [1..m -> 1..2] /\ Len(p) = m /\ PatternLength \in Nat
    BY BoundsAssumption
<1>p. p \in Patterns
    BY <1>m DEF Patterns
<1>3. Texts(key, Size, p, m)
    BY <1>2, <1>m, <1>p, PatternIs
<1>4. FoundFirst(key, p, r)
    BY <1>3, SearchNIs
<1> HIDE DEF r, p
<1> QED
    BY <1>2, <1>3, <1>4, SearchAnswered

LEMMA FindEndAnswers ==
    ASSUME IInv, CallFindEnd
    PROVE  AnswersAreRight'
<1>1. PICK p \in Patterns, tag \in Tags :
          Answers([op |-> "find_end", pattern |-> p], FindEnd(key, p, tag))
    BY DEF CallFindEnd
<1> DEFINE r == FindEnd(key, p, tag)
<1>2. call.op = "none" /\ key' = key /\ call'.op = "find_end" /\ call'.at = r /\ call'.pattern = p
    BY <1>1, ResultIs DEF Answers, Returns, Returning
<1>3. Texts(key, Size, p, Len(p))
    BY <1>2, PatternIs
<1>4. FoundLast(key, p, r)
    BY <1>3, FindEndIs
<1> HIDE DEF r
<1> QED
    BY <1>2, <1>3, <1>4, FindEndAnswered

\* starts_with, ends_with and contains whether there is such a place.
LEMMA StartsEndsContainsAnswers ==
    ASSUME IInv, CallStartsEndsContains
    PROVE  AnswersAreRight'
<1>1. PICK p \in Patterns, sized \in BOOLEAN :
        \/ Answers([op |-> "starts_with", pattern |-> p], StartsWith(key, p))
        \/ Answers([op |-> "ends_with", pattern |-> p], EndsWith(key, p))
        \/ Answers([op |-> "contains", pattern |-> p], ContainsSubrange(key, p, sized))
    BY DEF CallStartsEndsContains
<1>2. /\ call.op = "none" /\ key' = key /\ call'.pattern = p
      /\ \/ call'.op = "starts_with" /\ call'.at = StartsWith(key, p)
         \/ call'.op = "ends_with" /\ call'.at = EndsWith(key, p)
         \/ call'.op = "contains" /\ call'.at = ContainsSubrange(key, p, sized)
    BY <1>1, ResultIs DEF Answers, Returns, Returning
<1>3. Texts(key, Size, p, Len(p)) /\ Size = Len(key)
    BY <1>2, PatternIs DEF Size
<1>4. /\ StartsWith(key, p) <=> 1 \in PlacesOf(key, p)
      /\ EndsWith(key, p) <=> Size + 1 - Len(p) \in PlacesOf(key, p)
      /\ ContainsSubrange(key, p, sized) <=> PlacesOf(key, p) # {}
    BY <1>3, StartsWithIs, EndsWithIs, ContainsIs
<1>5. /\ StartsWith(key, p) \in BOOLEAN /\ EndsWith(key, p) \in BOOLEAN
      /\ ContainsSubrange(key, p, sized) \in BOOLEAN
    BY DEF StartsWith, EndsWith, ContainsSubrange
<1>6. /\ StartsWith(key, p) = (1 \in PlacesOf(key, p))
      /\ EndsWith(key, p) = (Size + 1 - Len(p) \in PlacesOf(key, p))
      /\ ContainsSubrange(key, p, sized) = (PlacesOf(key, p) # {})
    BY <1>4, <1>5
<1> DEFINE S == PlacesOf(key, p)
           e == Size + 1
<1>7. Occurrences(call.pattern)' = S /\ End' = e /\ (call.pattern)' = p
    BY <1>2, <1>3 DEF Occurrences, PlacesOf, End, Size
<1>a. ASSUME call'.op = "starts_with", call'.at = StartsWith(key, p) PROVE call'.at = (1 \in S)
    BY <1>a, <1>6
<1>b. ASSUME call'.op = "ends_with", call'.at = EndsWith(key, p) PROVE call'.at = (e - Len(p) \in S)
    <2>1. EndsWith(key, p) <=> e - Len(p) \in S
        <3>1. Size \in Nat /\ Len(p) \in Nat
            BY <1>3 DEF Texts
        <3> QED
            BY <1>4, <3>1
    <2>2. EndsWith(key, p) \in BOOLEAN
        BY <1>5
    <2> HIDE DEF S, e
    <2> QED
        BY <1>b, <2>1, <2>2
<1>c. ASSUME call'.op = "contains", call'.at = ContainsSubrange(key, p, sized) PROVE call'.at = (S # {})
    BY <1>c, <1>6
<1>8. \/ call'.op = "starts_with" /\ call'.at = (1 \in S)
      \/ call'.op = "ends_with" /\ call'.at = (e - Len(p) \in S)
      \/ call'.op = "contains" /\ call'.at = (S # {})
    <2> HIDE DEF S, e
    <2> QED
        BY <1>2, <1>a, <1>b, <1>c
<1> HIDE DEF S, e
<1>9. CASE call'.op = "starts_with" /\ call'.at = (1 \in S)
    BY <1>7, <1>9 DEF AnswersAreRight
<1>10. CASE call'.op = "ends_with" /\ call'.at = (e - Len(p) \in S)
    BY <1>7, <1>10 DEF AnswersAreRight
<1>11. CASE call'.op = "contains" /\ call'.at = (S # {})
    BY <1>7, <1>11 DEF AnswersAreRight
<1> QED
    BY <1>8, <1>9, <1>10, <1>11
\* In a sorted range the bounds are where the keys that are less, and those not
\* greater, end.
LEMMA BinarySearchesAnswer ==
    ASSUME IInv, CallBinarySearches
    PROVE  AnswersAreRight'
<1>1. PICK x \in 0..(Keys + 1), sized \in BOOLEAN :
        \/ Answers([op |-> "lower_bound", value |-> x], LowerBound(key, x, sized))
        \/ Answers([op |-> "upper_bound", value |-> x], UpperBound(key, x, sized))
        \/ Answers([op |-> "equal_range", value |-> x], EqualRange(key, x, sized))
        \/ Answers([op |-> "binary_search", value |-> x], BinarySearch(key, x, sized))
    BY DEF CallBinarySearches
<1>2. /\ call.op = "none" /\ key' = key /\ call'.value = x
      /\ \/ call'.op = "lower_bound" /\ call'.at = LowerBound(key, x, sized)
         \/ call'.op = "upper_bound" /\ call'.at = UpperBound(key, x, sized)
         \/ call'.op = "equal_range" /\ call'.at = EqualRange(key, x, sized)
         \/ call'.op = "binary_search" /\ call'.at = BinarySearch(key, x, sized)
    BY <1>1, ResultIs DEF Answers, Returns, Returning
<1>k. Keys \in Nat
    BY BoundsAssumption
<1>3. Size \in Nat /\ key \in [1..Size -> Nat] /\ Size = Len(key) /\ x \in Int
    BY <1>k, <1>2, AsNamed DEF Size
<1>4. \A i \in 1..(Size - 1) : key[i] <= key[i + 1]
    BY <1>3 DEF CallBinarySearches, Sorted
<1> DEFINE below == Cardinality({i \in 1..Size : key[i] < x})
           through == Cardinality({i \in 1..Size : key[i] <= x})
           lo == 1 + below
           hi == 1 + through
           l == Size + 1
<1>5. EqualAt(key, x, 1, l, lo, hi)
    BY <1>3, <1>4, SortedCuts
<1>6. l = Len(key) + 1
    BY <1>3
<1>n. below \in Nat /\ through \in Nat
    <2> DEFINE A == {i \in 1..Size : key[i] < x}
               B == {i \in 1..Size : key[i] <= x}
    <2>1. IsFiniteSet(1..Size) /\ A \subseteq 1..Size /\ B \subseteq 1..Size
        <3>1. Size \in Int /\ 1 \in Int
            BY <1>3
        <3>2. IsFiniteSet(1..Size)
            BY <3>1, FS_Interval
        <3> QED
            BY <3>2
    <2>2. IsFiniteSet(A) /\ IsFiniteSet(B)
        <3> HIDE DEF A, B
        <3> QED
            BY <2>1, FS_Subset
    <2> HIDE DEF A, B
    <2>3. Cardinality(A) \in Nat /\ Cardinality(B) \in Nat
        BY <2>2, FS_CardinalityType
    <2> QED
        BY <2>3 DEF A, B
<1>b. below' = below /\ through' = through
    BY <1>2 DEF Size
<1>c. /\ (Cardinality({i \in 1..Size : key[i] < call.value}))' = below
      /\ (Cardinality({i \in 1..Size : key[i] <= call.value}))' = through
    BY <1>2 DEF Size
<1> DEFINE z == call'.value
<1> HIDE DEF lo, hi, l
<1>7. LowerBound(key, x, sized) = lo /\ UpperBound(key, x, sized) = hi
      /\ (BinarySearch(key, x, sized) <=> lo # hi)
    BY <1>5, <1>6, BoundsAre
<1>8. EqualRange(key, x, sized) = <<lo, hi>>
    BY <1>5, <1>6, EqualRangeIs
<1> HIDE DEF below, through
<1>9. CASE call'.op = "lower_bound" /\ call'.at = LowerBound(key, x, sized)
    BY <1>9, <1>7, <1>c DEF AnswersAreRight, lo
<1>10. CASE call'.op = "upper_bound" /\ call'.at = UpperBound(key, x, sized)
    BY <1>10, <1>7, <1>c DEF AnswersAreRight, hi
<1>11. CASE call'.op = "equal_range" /\ call'.at = EqualRange(key, x, sized)
    BY <1>11, <1>8, <1>c DEF AnswersAreRight, lo, hi
<1>12. CASE call'.op = "binary_search" /\ call'.at = BinarySearch(key, x, sized)
    <2>1. BinarySearch(key, x, sized) <=> below # through
        BY <1>7, <1>n DEF lo, hi
    <2>2. BinarySearch(key, x, sized) \in BOOLEAN
        BY DEF BinarySearch
    <2>3. call'.at = (below # through)
        BY <2>1, <2>2, <1>12
    <2> QED
        BY <2>3, <1>12, <1>c DEF AnswersAreRight
<1> QED
    BY <1>2, <1>9, <1>10, <1>11, <1>12

\* How often a value comes.
LEMMA CountOfIs ==
    ASSUME NEW n \in Nat, NEW V, NEW s \in [1..n -> V], NEW x
    PROVE  CountOf(s, x) = Many(s, 1, n, x)
    BY DEF CountOf, Many

\* is_permutation, called on ranges of which it does not know the lengths.
LEMMA IsPermutationAnswers ==
    ASSUME IInv, Known = {}, CallIsPermutation
    PROVE  AnswersAreRight'
<1>1. PICK p \in Patterns :
          Answers([op |-> "is_permutation", pattern |-> p], IsPermutation(key, p, FALSE))
    BY DEF CallIsPermutation, CallsItself
<1>2. /\ call.op = "none" /\ key' = key /\ call'.pattern = p
      /\ call'.op = "is_permutation" /\ call'.at = IsPermutation(key, p, FALSE)
    BY <1>1, ResultIs DEF Answers, Returns, Returning
<1> DEFINE n == Size
           m == Len(p)
           c == Keys
<1>3. n \in Nat /\ m \in Nat /\ key \in [1..n -> 1..c] /\ p \in [1..m -> 1..c]
    BY <1>2, PatternIs
<1>s. Size' = n /\ (call.pattern)' = p /\ (Len(call.pattern))' = m
    BY <1>2 DEF Size
<1> HIDE DEF n, m, c
<1>4. IsPermutationImpl(key, p) <=> m = n /\ \A x \in 1..c : Many(p, 1, m, x) = Many(key, 1, n, x)
    BY <1>3, IsPermutationImplIs
<1>5. \A x : CountOf(p, x) = Many(p, 1, m, x) /\ CountOf(key, x) = Many(key, 1, n, x)
    BY <1>3, CountOfIs
<1> DEFINE Same == m = n /\ \A x \in 1..c : CountOf(p, x) = CountOf(key, x)
<1>6. IsPermutation(key, p, FALSE) <=> Same
    BY <1>4, <1>5 DEF IsPermutation
<1>7. IsPermutation(key, p, FALSE) \in BOOLEAN
    BY DEF IsPermutation
<1>8. call'.at = Same
    <2> DEFINE b == IsPermutation(key, p, FALSE)
    <2>1. call'.at = b /\ (b <=> Same) /\ b \in BOOLEAN /\ Same \in BOOLEAN
        BY <1>2, <1>6, <1>7
    <2> HIDE DEF Same, b
    <2> QED
        BY <2>1
<1>9. (Len(call.pattern) = Size /\ \A x \in 1..Keys : CountOf(call.pattern, x) = CountOf(key, x))' = Same
    BY <1>2, <1>s DEF CountOf, c
<1> HIDE DEF Same
<1> QED
    BY <1>2, <1>8, <1>9 DEF AnswersAreRight

\* includes of two sorted ranges, by the names behind which their keys are.
LEMMA BothSortedAnswers ==
    ASSUME IInv, CallBothSorted
    PROVE  AnswersAreRight'
<1>1. PICK p \in Patterns :
        /\ Sorted(p)
        /\ \/ \E o \in {"set_union", "set_intersection", "set_difference", "set_symmetric_difference"} : \E s :
                  Answers([op |-> o, second |-> p], s)
           \/ Answers([op |-> "includes", second |-> p], Includes(Elements, Second(p)))
    BY Zenon DEF CallBothSorted
<1>2. CASE \E o \in {"set_union", "set_intersection", "set_difference", "set_symmetric_difference"} : \E s :
               Answers([op |-> o, second |-> p], s)
    <2>1. call'.op \in {"set_union", "set_intersection", "set_difference", "set_symmetric_difference"}
        BY <1>2 DEF Answers, Returns, Returning
    <2> QED
        BY <2>1 DEF AnswersAreRight
<1>3. CASE Answers([op |-> "includes", second |-> p], Includes(Elements, Second(p)))
    <2> DEFINE n == Size
               m == Len(p)
               c == Keys
               x == Elements
               y == Second(p)
    <2>2. /\ call.op = "none" /\ key' = key /\ call'.second = p
          /\ call'.op = "includes" /\ call'.at = Includes(x, y)
        BY <1>3, ResultIs DEF Answers, Returns, Returning
    <2>3. n \in Nat /\ m \in Nat /\ key \in [1..n -> 1..c] /\ p \in [1..m -> 1..c] /\ c \in Nat
        BY <2>2, PatternIs, BoundsAssumption
    <2>4. /\ x = [i \in 1..n |-> [key |-> key[i], name |-> i]]
          /\ y = [j \in 1..m |-> [key |-> p[j], name |-> n + j]]
        BY <2>3 DEF Elements, Second
    <2>5. /\ \A i \in 1..(n - 1) : key[i] <= key[i + 1]
          /\ \A i \in 1..(m - 1) : p[i] <= p[i + 1]
        BY <1>1 DEF CallBothSorted, Sorted, Size
    <2>s. Size' = n
        BY <2>2 DEF Size
    <2> HIDE DEF n, m, c, x, y
    <2>6. key \in [1..n -> Nat] /\ p \in [1..m -> Nat]
        BY <2>3
    <2>7. Keyed(x, key, n) /\ Keyed(y, p, m)
        BY <2>3, <2>4, <2>6 DEF Keyed
    <2>8. /\ \A i \in 1..n, j \in 1..n : i <= j => key[i] <= key[j]
          /\ \A i \in 1..m, j \in 1..m : i <= j => p[i] <= p[j]
        BY <2>3, <2>5, <2>6, SortedMeans
    <2>9. SortedTexts(x, key, n, y, p, m, c)
        BY <2>3, <2>6, <2>7, <2>8 DEF SortedTexts
    <2>10. Includes(x, y) <=> \A b \in 1..c : Many(p, 1, m, b) <= Many(key, 1, n, b)
        BY <2>9, IncludesIs
    <2>11. \A b : CountOf(p, b) = Many(p, 1, m, b) /\ CountOf(key, b) = Many(key, 1, n, b)
        BY <2>3, CountOfIs
    <2> DEFINE Has == \A b \in 1..c : CountOf(p, b) <= CountOf(key, b)
               r == Includes(x, y)
    <2>12. r <=> Has
        BY <2>10, <2>11
    <2>13. r \in BOOLEAN /\ Has \in BOOLEAN
        BY DEF Includes
    <2>14. (\A b \in 1..Keys : CountOf(call.second, b) <= CountOf(key, b))' = Has
        BY <2>2 DEF CountOf, c
    <2>15. call'.at = r
        BY <2>2
    <2> HIDE DEF r, Has
    <2>16. call'.at = Has
        BY <2>12, <2>13, <2>15
    <2> QED
        BY <2>2, <2>14, <2>16 DEF AnswersAreRight
<1> QED
    BY <1>1, <1>2, <1>3

\* minmax_element finds the first of the least, and the last of the greatest.
LEMMA MinMaxElementAnswers ==
    ASSUME IInv, CallMinMaxElement
    PROVE  AnswersAreRight'
<1> DEFINE n == Size
           r == MinMaxElement(Elements)
           least == {i \in 1..n : \A j \in 1..n : key[i] <= key[j]}
           most == {i \in 1..n : \A j \in 1..n : key[j] <= key[i]}
<1>1. n > 0 /\ Answers([op |-> "minmax_element"], r)
    BY DEF CallMinMaxElement
<1>2. call.op = "none" /\ key' = key /\ call'.op = "minmax_element" /\ call'.at = r /\ Size' = n
    BY <1>1, ResultIs DEF Answers, Returns, Returning, Size
<1>3. n \in Nat /\ key \in [1..n -> Nat] /\ n # 0
    <2>1. Keys \in Nat
        BY BoundsAssumption
    <2> QED
        BY <2>1, <1>1, <1>2, AsNamed
<1>4. Keyed(Elements, key, n)
    BY <1>3 DEF Keyed, Elements
<1>5. r = [min |-> r.min, max |-> r.max] /\ Extremes(key, n, r.min, r.max)
    <2> HIDE DEF n
    <2> QED
        BY <1>3, <1>4, MinMaxElementIs
<1> DEFINE s == r.min
           t == r.max
<1>6. /\ (least)' = least /\ (most)' = most
    BY <1>2
<1> HIDE DEF n, r
<1>7. /\ s \in 1..n /\ t \in 1..n
      /\ \A j \in 1..n : /\ ~(key[j] < key[s]) /\ (j < s => key[s] < key[j])
                         /\ ~(key[t] < key[j]) /\ (j > t => key[j] < key[t])
    BY <1>5 DEF Extremes
<1>8. r = [min |-> s, max |-> t]
    BY <1>5
<1> HIDE DEF s, t
<1>k. \A i \in 1..n : key[i] \in Nat /\ i \in Nat
    BY <1>3
<1>9. s \in least /\ \A i \in least : s <= i
    BY <1>7, <1>k
<1>10. t \in most /\ \A i \in most : i <= t
    BY <1>7, <1>k
<1>11. least \in SUBSET Nat /\ most \in SUBSET (0..n)
    BY <1>3
<1>i. \A S \in {least, most} : \A i \in S : i \in Nat
    BY <1>11, <1>3
<1> HIDE DEF least, most
<1>12. Min(least) = s
    <2> DEFINE q == Min(least)
    <2>1. q \in least /\ q <= s
        BY <1>9, <1>11, MinIs
    <2>2. q \in Nat /\ s \in Nat /\ s <= q /\ q <= s
        BY <2>1, <1>9, <1>i
    <2> HIDE DEF q
    <2>3. q = s
        BY <2>2
    <2> QED
        BY <2>3 DEF q
<1>13. Max(most) = t
    <2> DEFINE q == Max(most)
    <2>1. q \in most /\ t <= q
        BY <1>10, <1>11, <1>3, MaxIs
    <2>2. q \in Nat /\ t \in Nat /\ q <= t /\ t <= q
        BY <2>1, <1>10, <1>i
    <2> HIDE DEF q
    <2>3. q = t
        BY <2>2
    <2> QED
        BY <2>3 DEF q
<1>14. call'.at = [min |-> Min(least), max |-> Max(most)]
    BY <1>2, <1>8, <1>12, <1>13
<1> QED
    BY <1>2, <1>14, <1>6 DEF AnswersAreRight, least, most
\* is_heap_until finds the first element greater than its parent.
LEMMA IsHeapUntilAnswers ==
    ASSUME IInv, CallIsHeapUntil
    PROVE  AnswersAreRight'
<1> DEFINE n == Size
           r == IsHeapUntil(Elements)
           out == {i \in 2..n : key[i \div 2] < key[i]}
           S == {n + 1} \cup out
<1>1. Answers([op |-> "is_heap_until"], r)
    BY DEF CallIsHeapUntil
<1>2. call.op = "none" /\ key' = key /\ call'.op = "is_heap_until" /\ call'.at = r /\ Size' = n
    BY <1>1, ResultIs DEF Answers, Returns, Returning, Size
<1>3. n \in Nat /\ key \in [1..n -> Nat]
    <2>1. Keys \in Nat
        BY BoundsAssumption
    <2> QED
        BY <2>1, <1>1, <1>2, AsNamed
<1>4. Keyed(Elements, key, n)
    BY <1>3 DEF Keyed, Elements
<1>5. /\ r = n + 1 \/ (r \in 2..n /\ key[r \div 2] < key[r])
      /\ HeapBefore(key, n, r)
    <2> HIDE DEF n
    <2> QED
        BY <1>4, IsHeapUntilIs
<1>6. ({End} \cup {i \in 2..Size : key[i \div 2] < key[i]})' = S
    BY <1>2 DEF End
<1> HIDE DEF n, r
<1>7. r \in S /\ \A i \in out : ~(i < r)
    BY <1>5 DEF HeapBefore
<1>8. r \in Nat /\ n + 1 \in Nat /\ \A i \in S : i \in Nat /\ (i = n + 1 \/ i \in out)
    BY <1>5, <1>3
<1>9. r <= n + 1
    BY <1>5, <1>3
<1> HIDE DEF S, out
<1>10. \A i \in S : r <= i
    BY <1>7, <1>8, <1>9
<1>11. Min(S) = r
    <2> DEFINE q == Min(S)
    <2>1. S \in SUBSET Nat /\ S # {}
        BY <1>7, <1>8
    <2>2. q \in S /\ q <= r
        BY <2>1, <1>7, MinIs
    <2>3. q \in Nat /\ r <= q
        BY <2>2, <1>8, <1>10
    <2> HIDE DEF q
    <2>4. q = r
        BY <2>2, <2>3, <1>8
    <2> QED
        BY <2>4 DEF q
<1> QED
    BY <1>2, <1>6, <1>11 DEF AnswersAreRight

\* The values an arrangement of the places leaves.
LEMMA ValuesAre ==
    ASSUME key' = key, NEW n, Size = n, NEW t, a' = t
    PROVE  Size' = n /\ Values' = [i \in 1..n |-> key[t[i]]] /\ key' = key
    BY DEF Values, Size

\* next_permutation makes the next arrangement of the keys.
LEMMA NextPermutationAnswers ==
    ASSUME IInv, CallNextPermutation
    PROVE  AnswersAreRight'
<1> DEFINE n == Size
           r == NextPermutation(a, Precedes)
           t == r.range
<1>1. Returns([op |-> "next_permutation"], r)
    BY DEF CallNextPermutation
<1>2. call.op = "none" /\ key' = key /\ call'.op = "next_permutation" /\ call'.at = r.at /\ a' = t
    BY <1>1 DEF Returns, Returning
<1>3. n \in Nat /\ key \in [1..n -> Int] /\ a \in Rows(n) /\ \A i \in 1..n : a[i] = i
    <2>1. Keys \in Nat
        BY BoundsAssumption
    <2> QED
        BY <2>1, <1>2, AsNamed
<1>4. Orders(Precedes, key, n)
    BY DEF Orders, Precedes, Before
<1>5. /\ r.at \in BOOLEAN /\ \A k \in 1..n : t[k] \in 1..n
      /\ IF r.at THEN Succeeds(key, n, t) ELSE Turned(key, n, t, 0)
    <2> HIDE DEF n
    <2> QED
        BY <1>3, <1>4, NextPermutationIs
<1> DEFINE u == [i \in 1..n |-> key[t[i]]]
<1>6. Values' = u /\ key' = key
    BY <1>2, ValuesAre
<1>7. DOMAIN key = 1..n /\ Len(key) = n
    BY <1>3 DEF Size
<1> HIDE DEF n, r, t
<1>u. \A k \in 1..n : u[k] = key[t[k]]
    OBVIOUS
<1> HIDE DEF u
<1>8. ASSUME Turned(key, n, t, 0)
      PROVE  \A k \in 1..(n - 1) : ~(key[k] < key[k + 1]) /\ ~(u[k + 1] < u[k])
    <2> SUFFICES ASSUME NEW k \in 1..(n - 1) PROVE ~(key[k] < key[k + 1]) /\ ~(u[k + 1] < u[k])
        OBVIOUS
    <2>1. k \in 1..n /\ k + 1 \in 1..n /\ k \in (0 + 1)..(n - 1)
        BY <1>3
    <2> QED
        BY <2>1, <1>u, <1>8 DEF Turned
<1>9. ASSUME Succeeds(key, n, t)
      PROVE  \E i \in 1..n :
                 /\ \A k \in 1..(i - 1) : u[k] = key[k]
                 /\ key[i] < u[i]
                 /\ \A k \in (i + 1)..n : key[i] < key[k] => ~(key[k] < u[i])
                 /\ \A k \in (i + 1)..(n - 1) : ~(key[k] < key[k + 1]) /\ ~(u[k + 1] < u[k])
    <2>1. PICK i \in 1..n : /\ \A k \in 1..(i - 1) : t[k] = k
                            /\ key[i] < key[t[i]]
                            /\ \A k \in (i + 1)..n : key[i] < key[k] => ~(key[k] < key[t[i]])
                            /\ Turned(key, n, t, i)
        BY <1>9 DEF Succeeds
    <2>2. \A k \in 1..(i - 1) : k \in 1..n
        BY <1>3
    <2>3. \A k \in (i + 1)..(n - 1) : k \in 1..n /\ k + 1 \in 1..n
        BY <1>3
    <2>4. \A k \in (i + 1)..(n - 1) : ~(key[k] < key[k + 1]) /\ ~(u[k + 1] < u[k])
        BY <2>1, <2>3, <1>u DEF Turned
    <2>5. \A k \in 1..(i - 1) : u[k] = key[k]
        BY <2>1, <2>2, <1>u
    <2>6. u[i] = key[t[i]]
        BY <1>u
    <2> QED
        BY <2>1, <2>4, <2>5, <2>6
<1>10. CASE r.at
    <2>1. Follows(u, key, LAMBDA p, q : p < q)
        BY <1>5, <1>7, <1>9, <1>10 DEF Follows
    <2> QED
        BY <2>1, <1>2, <1>6, <1>10 DEF AnswersAreRight, Follows
<1>11. CASE ~r.at
    <2>1. StartsAgain(u, key, LAMBDA p, q : p < q)
        BY <1>5, <1>7, <1>8, <1>11 DEF StartsAgain
    <2> QED
        BY <2>1, <1>2, <1>6, <1>11 DEF AnswersAreRight, StartsAgain
<1> QED
    BY <1>10, <1>11
\* prev_permutation, to which the greater keys come before, the one before it.
LEMMA PrevPermutationAnswers ==
    ASSUME IInv, CallPrevPermutation
    PROVE  AnswersAreRight'
<1> DEFINE n == Size
           before == {<<p[2], p[1]>> : p \in Precedes}
           r == NextPermutation(a, before)
           t == r.range
           v == [i \in 1..n |-> 0 - key[i]]
<1>1. Returns([op |-> "prev_permutation"], r)
    BY DEF CallPrevPermutation
<1>2. call.op = "none" /\ key' = key /\ call'.op = "prev_permutation" /\ call'.at = r.at /\ a' = t
    BY <1>1 DEF Returns, Returning
<1>3. n \in Nat /\ key \in [1..n -> Int] /\ a \in Rows(n) /\ \A i \in 1..n : a[i] = i
    <2>1. Keys \in Nat
        BY BoundsAssumption
    <2> QED
        BY <2>1, <1>2, AsNamed
<1>v. v \in [1..n -> Int] /\ \A i \in 1..n, j \in 1..n : v[i] < v[j] <=> key[j] < key[i]
    BY <1>3
<1>4. Orders(before, v, n)
    <2>1. ASSUME NEW i \in 1..n, NEW j \in 1..n PROVE <<i, j>> \in before <=> key[j] < key[i]
        <3>1. <<i, j>> \in before <=> <<j, i>> \in Precedes
            BY DEF Precedes
        <3> QED
            BY <3>1 DEF Precedes, Before
    <2> QED
        BY <2>1, <1>v DEF Orders
<1> HIDE DEF v
<1>5. /\ r.at \in BOOLEAN /\ \A k \in 1..n : t[k] \in 1..n
      /\ IF r.at THEN Succeeds(v, n, t) ELSE Turned(v, n, t, 0)
    <2> HIDE DEF n, before
    <2> QED
        BY <1>3, <1>4, <1>v, NextPermutationIs
<1> DEFINE u == [i \in 1..n |-> key[t[i]]]
<1>6. Values' = u /\ key' = key
    BY <1>2, ValuesAre
<1>7. DOMAIN key = 1..n /\ Len(key) = n
    BY <1>3 DEF Size
<1> HIDE DEF n, r, t
<1>u. \A k \in 1..n : u[k] = key[t[k]]
    OBVIOUS
<1>w. ASSUME NEW i \in 0..n, Turned(v, n, t, i)
      PROVE  \A k \in (i + 1)..(n - 1) : ~(key[k + 1] < key[k]) /\ ~(u[k] < u[k + 1])
    <2> SUFFICES ASSUME NEW k \in (i + 1)..(n - 1) PROVE ~(key[k + 1] < key[k]) /\ ~(u[k] < u[k + 1])
        OBVIOUS
    <2>1. k \in 1..n /\ k + 1 \in 1..n
        BY <1>3
    <2>2. ~(v[k] < v[k + 1]) /\ ~(v[t[k + 1]] < v[t[k]])
        BY <1>w DEF Turned
    <2>3. t[k] \in 1..n /\ t[k + 1] \in 1..n /\ u[k] = key[t[k]] /\ u[k + 1] = key[t[k + 1]]
        BY <2>1, <1>5, <1>u
    <2> HIDE DEF u
    <2> QED
        BY <2>1, <2>2, <2>3, <1>v
<1> HIDE DEF u
<1>9. ASSUME Succeeds(v, n, t)
      PROVE  \E i \in 1..n :
                 /\ \A k \in 1..(i - 1) : u[k] = key[k]
                 /\ u[i] < key[i]
                 /\ \A k \in (i + 1)..n : key[k] < key[i] => ~(u[i] < key[k])
                 /\ \A k \in (i + 1)..(n - 1) : ~(key[k + 1] < key[k]) /\ ~(u[k] < u[k + 1])
    <2>1. PICK i \in 1..n : /\ \A k \in 1..(i - 1) : t[k] = k
                            /\ v[i] < v[t[i]]
                            /\ \A k \in (i + 1)..n : v[i] < v[k] => ~(v[k] < v[t[i]])
                            /\ Turned(v, n, t, i)
        BY <1>9 DEF Succeeds
    <2>2. /\ \A k \in 1..(i - 1) : k \in 1..n
          /\ \A k \in (i + 1)..n : k \in 1..n
          /\ i \in 0..n
        BY <1>3
    <2>4. \A k \in (i + 1)..(n - 1) : ~(key[k + 1] < key[k]) /\ ~(u[k] < u[k + 1])
        BY <2>1, <2>2, <1>w
    <2>5. \A k \in 1..(i - 1) : u[k] = key[k]
        BY <2>1, <2>2, <1>u
    <2>6. u[i] = key[t[i]] /\ t[i] \in 1..n
        BY <1>u, <1>5
    <2>7. u[i] < key[i]
        BY <2>1, <2>6, <1>v
    <2>8. \A k \in (i + 1)..n : key[k] < key[i] => ~(u[i] < key[k])
        BY <2>1, <2>2, <2>6, <1>v
    <2> QED
        BY <2>4, <2>5, <2>7, <2>8
<1>10. CASE r.at
    <2>1. Follows(u, key, LAMBDA p, q : q < p)
        BY <1>5, <1>7, <1>9, <1>10 DEF Follows
    <2> QED
        BY <2>1, <1>2, <1>6, <1>10 DEF AnswersAreRight, Follows
<1>11. CASE ~r.at
    <2>0. \A k \in (0 + 1)..(n - 1) : ~(key[k + 1] < key[k]) /\ ~(u[k] < u[k + 1])
        <3>1. 0 \in 0..n
            BY <1>3
        <3> QED
            BY <3>1, <1>5, <1>11, <1>w
    <2>2. \A k \in 1..(n - 1) : k \in (0 + 1)..(n - 1)
        OBVIOUS
    <2>1. StartsAgain(u, key, LAMBDA p, q : q < p)
        BY <2>0, <2>2, <1>7 DEF StartsAgain
    <2> QED
        BY <2>1, <1>2, <1>6, <1>11 DEF AnswersAreRight, StartsAgain
<1> QED
    BY <1>10, <1>11

\* stable_sort does not call itself for ever unless it is told so.
LEMMA StableSortWithBufferAnswers ==
    ASSUME Known = {}, CallStableSortWithBuffer
    PROVE  AnswersAreRight'
<1>1. call'.op = "stable_sort"
    <2>1. \E r, op : op.op = "stable_sort" /\ "op" \in DOMAIN op /\ Returns(op, r)
        <3>1. ASSUME NEW size \in TemporaryBuffers(Size), NEW r, size # 0,
                     Returns([op |-> "stable_sort", buffer |-> size], r)
              PROVE  \E s, op : op.op = "stable_sort" /\ "op" \in DOMAIN op /\ Returns(op, s)
            <4> DEFINE op == [op |-> "stable_sort", buffer |-> size]
            <4>1. op.op = "stable_sort" /\ "op" \in DOMAIN op
                OBVIOUS
            <4>2. Returns(op, r)
                BY <3>1
            <4> HIDE DEF op
            <4> QED
                BY <4>1, <4>2
        <3>2. \E size \in TemporaryBuffers(Size) : \E r : size # 0 /\ Returns([op |-> "stable_sort", buffer |-> size], r)
            BY DEF CallStableSortWithBuffer
        <3> QED
            BY <3>1, <3>2
    <2>2. PICK r, op : op.op = "stable_sort" /\ "op" \in DOMAIN op /\ Returns(op, r)
        BY <2>1
    <2> QED
        BY <2>2 DEF Returns, Returning
<1> QED
    BY <1>1 DEF AnswersAreRight

\* The calls that answer.
Answering == {"next_permutation", "prev_permutation", "lower_bound", "upper_bound", "equal_range",
              "binary_search", "search", "find_end", "is_permutation", "includes",
              "minmax_element", "is_heap_until", "starts_with", "ends_with", "contains", "never"}

LEMMA OthersAnswer ==
    ASSUME call'.op \notin Answering
    PROVE  AnswersAreRight'
    BY DEF AnswersAreRight, Answering

LEMMA NextAnswers ==
    ASSUME IInv, Known = {}, Next
    PROVE  AnswersAreRight'
<1>1. CASE CallNextPermutation \/ CallPrevPermutation \/ CallBinarySearches
    BY <1>1, NextPermutationAnswers, PrevPermutationAnswers, BinarySearchesAnswer
<1>2. CASE CallSearch \/ CallSearchN \/ CallFindEnd \/ CallStartsEndsContains \/ CallIsPermutation
    BY <1>2, SearchAnswers, SearchNAnswers, FindEndAnswers, StartsEndsContainsAnswers, IsPermutationAnswers
<1>3. CASE CallBothSorted \/ CallMinMaxElement \/ CallIsHeapUntil \/ CallStableSortWithBuffer
    BY <1>3, BothSortedAnswers, MinMaxElementAnswers, IsHeapUntilAnswers, StableSortWithBufferAnswers
<1>4. CASE call'.op \notin Answering
    BY <1>4, OthersAnswer
<1> QED
    BY <1>1, <1>2, <1>3, <1>4, NextCalls DEF Called, Answering

\* Without the defects that a run can leave in, every call returns with the
\* answer its definition gives, for all ranges and whatever it is called with.
THEOREM AnswersRight ==
    ASSUME Known = {}
    PROVE  Spec => []AnswersAreRight
<1>1. Init => IInv /\ AnswersAreRight
    <2>1. Init => AnswersAreRight
        BY DEF Init, AnswersAreRight
    <2> QED
        BY <2>1, IInvInit
<1>2. IInv /\ AnswersAreRight /\ [Next]_vars => IInv' /\ AnswersAreRight'
    <2> SUFFICES ASSUME IInv, AnswersAreRight, [Next]_vars PROVE IInv' /\ AnswersAreRight'
        OBVIOUS
    <2>1. CASE Next
        BY <2>1, IInvNext, NextAnswers
    <2>2. CASE UNCHANGED vars
        <3>1. key' = key /\ a' = a /\ call' = call
            BY <2>2 DEF vars
        <3>2. IInv'
            BY <3>1 DEF IInv, Typed, Unmoved, Size
        <3>3. Values' = Values /\ Size' = Size /\ End' = End
            BY <3>1 DEF Values, Size, End
        <3>4. Occurrences(call.pattern)' = Occurrences(call.pattern)
            BY <3>1 DEF Occurrences, End, Size
        <3>5. AnswersAreRight'
            BY <3>1, <3>3, <3>4, ZenonT(150) DEF AnswersAreRight, Follows, StartsAgain, CountOf
        <3> QED
            BY <3>2, <3>5
    <2> QED
        BY <2>1, <2>2
<1> QED
    BY <1>1, <1>2, PTL DEF Spec
===============================================================================
