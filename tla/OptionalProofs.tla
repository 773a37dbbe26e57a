--------------------------- MODULE OptionalProofs ---------------------------
(***************************************************************************)
(* For any number of optionals and boxes, and any values: the flag of each *)
(* tells exactly whether a T lives in it, whatever throws.  Then the       *)
(* chunk_view that keeps the iterator of a single-pass range in one, for   *)
(* every length, chunk size and number of copies.                          *)
(***************************************************************************)
EXTENDS Optional, ChunkInput, TLAPS, NaturalsInduction, WellFoundedInduction

IInv == TypeOK /\ FlagTellsLifetime

Storage == [engaged_ : BOOLEAN, data_ : Values \cup {Unspecified, Dead}, objects : {0, 1}]

\* A cell whose flag agrees with what lives in it.
Sound(x) == /\ x \in Storage
            /\ x.objects = (IF x.engaged_ THEN 1 ELSE 0)
            /\ x.engaged_ <=> x.data_ # Dead

LEMMA CellwiseInv ==
    IInv <=> /\ live \subseteq Cells
             /\ opt = [c \in Cells |-> opt[c]]
             /\ \A c \in Cells : Sound(opt[c]) /\ (opt[c].engaged_ => c \in live)
BY DEF IInv, TypeOK, FlagTellsLifetime, Sound, Storage

\* The building blocks keep a cell sound: reset always, construction on a cell
\* that is not engaged, assignment of a live value on one that is.
LEMMA Blocks ==
    ASSUME NEW x, Sound(x), NEW v \in Values \cup {Unspecified}, NEW how \in Hows
    PROVE  /\ Sound(Reset(x)) /\ ~Reset(x).engaged_
           /\ ~x.engaged_ => Sound(ConstructFrom(x, v))
           /\ x.engaged_ => Sound(Assigned(x, v)) /\ Assigned(x, v).engaged_
           /\ x.engaged_ => /\ Sound(Used(how, x)) /\ Used(how, x).engaged_
                            /\ \A y \in ThrewOn(how, x) : Sound(y) /\ y.engaged_
BY OptionalAssumption, SMT
   DEF Sound, Storage, Reset, ConstructFrom, Assigned, Used, ThrewOn, Hows

LEMMA EmptyIsSound == Sound(Disengaged) /\ ~Disengaged.engaged_
BY DEF Sound, Storage, Disengaged

LEMMA InitIInv == Init => IInv
BY EmptyIsSound, CellwiseInv DEF Init

\* Each call keeps the invariant on both of its exits.
LEMMA NextIInv == IInv /\ [Next]_vars => IInv'
<1> SUFFICES ASSUME IInv, [Next]_vars PROVE IInv'
    OBVIOUS
<1>0. /\ live \subseteq Cells
      /\ opt = [c \in Cells |-> opt[c]]
      /\ \A c \in Cells : Sound(opt[c]) /\ (opt[c].engaged_ => c \in live)
    BY CellwiseInv
<1>a. ASSUME /\ live' \subseteq Cells
             /\ opt' = [c \in Cells |-> opt'[c]]
             /\ \A c \in Cells : Sound(opt'[c]) /\ (opt'[c].engaged_ => c \in live')
      PROVE  IInv'
    BY <1>a DEF IInv, TypeOK, FlagTellsLifetime, Sound, Storage
<1>b. \A c \in Cells : /\ Sound(Reset(opt[c])) /\ ~Reset(opt[c]).engaged_
                       /\ opt[c].engaged_ => opt[c].data_ \in Values \cup {Unspecified}
                       /\ Sound(Disengaged) /\ ~Disengaged.engaged_
    BY <1>0, Blocks, EmptyIsSound DEF Sound, Storage, Hows
<1>c. \A c \in Cells : \A v \in Values \cup {Unspecified} :
         /\ ~opt[c].engaged_ => Sound(ConstructFrom(opt[c], v))
         /\ Sound(ConstructFrom(Reset(opt[c]), v))
         /\ Sound(ConstructFrom(Disengaged, v))
         /\ opt[c].engaged_ => Sound(Assigned(opt[c], v))
    BY <1>0, <1>b, Blocks, EmptyIsSound DEF Hows
<1>d. \A c \in Cells : \A how \in Hows :
         opt[c].engaged_ => /\ Sound(Used(how, opt[c]))
                            /\ \A y \in ThrewOn(how, opt[c]) : Sound(y)
    BY <1>0, Blocks
<1>1. ASSUME NEW c \in Cells, Construct(c) PROVE IInv'
    BY <1>0, <1>a, <1>b, <1>1 DEF Construct
<1>2. ASSUME NEW c \in Cells, Destroy(c) PROVE IInv'
    BY <1>0, <1>a, <1>b, <1>2 DEF Destroy
<1>3. ASSUME NEW c \in Cells, ResetOp(c) PROVE IInv'
    BY <1>0, <1>a, <1>b, <1>3 DEF ResetOp
<1>4. ASSUME NEW c \in Cells, NEW v \in Values, ConstructInPlace(c, v) PROVE IInv'
    BY <1>0, <1>a, <1>c, <1>4 DEF ConstructInPlace
<1>5. ASSUME NEW c \in Cells, NEW v \in Values, Emplace(c, v) PROVE IInv'
    BY <1>0, <1>a, <1>b, <1>c, <1>5 DEF Emplace, Emptied
<1>6. ASSUME NEW c \in Cells, NEW v \in Values, AssignValue(c, v) PROVE IInv'
    BY <1>0, <1>a, <1>c, <1>6 DEF AssignValue
<1>7. ASSUME NEW c \in Cells, NEW s \in Cells, NEW how \in Hows, ConstructFromOther(c, s, how)
      PROVE  IInv'
    BY <1>0, <1>a, <1>b, <1>c, <1>d, <1>7 DEF ConstructFromOther
<1>8. ASSUME NEW c \in Cells, NEW s \in Cells, NEW how \in Hows, AssignFrom(c, s, how)
      PROVE  IInv'
    BY <1>0, <1>a, <1>b, <1>c, <1>d, <1>8 DEF AssignFrom
<1>9. ASSUME NEW c \in Cells, NEW s \in Cells, Swap(c, s) PROVE IInv'
    <2>0. c # s /\ c \in live /\ s \in live /\ live' = live
        BY <1>9 DEF Swap
    <2>1. ASSUME opt[c].engaged_, opt[s].engaged_, NEW p \in SwapDebris(opt[c], opt[s])
          PROVE  Sound(p[1]) /\ Sound(p[2])
        <3>1. /\ Sound(Assigned(opt[c], Unspecified)) /\ Sound(Assigned(opt[s], Unspecified))
              /\ Sound(Assigned(opt[c], opt[s].data_))
              /\ Sound(opt[c]) /\ Sound(opt[s])
            BY <1>0, <1>b, <1>c, <2>1
        <3> QED
            BY <2>1, <3>1 DEF SwapDebris
    <2>2. opt[c].engaged_ => Sound(GivenAway(opt[c])) /\ ~GivenAway(opt[c]).engaged_
        BY <1>0, <1>d, Blocks DEF GivenAway, Hows
    <2>3. ASSUME opt[c].engaged_, opt[s].engaged_, NEW p \in SwapDebris(opt[c], opt[s]),
                 opt' = [opt EXCEPT ![c] = p[1], ![s] = p[2]]
          PROVE  IInv'
        BY <1>0, <1>a, <2>0, <2>1, <2>3
    <2>4. CASE opt[c].engaged_ /\ opt[s].engaged_
        BY <1>0, <1>a, <1>b, <1>c, <1>9, <2>0, <2>3, <2>4 DEF Swap
    <2>5. CASE ~opt[c].engaged_ /\ ~opt[s].engaged_
        BY <1>0, <1>a, <1>9, <2>0, <2>5 DEF Swap
    <2>6. CASE opt[c].engaged_ /\ ~opt[s].engaged_
        BY <1>0, <1>a, <1>b, <1>c, <1>d, <1>9, <2>0, <2>2, <2>6 DEF Swap, Hows
    <2> QED
        BY <1>9, <2>4, <2>5, <2>6 DEF Swap
<1>10. ASSUME NEW c \in Cells, NEW s \in Cells, Rebuild(c, s) PROVE IInv'
    <2>0. c # s /\ c \in live /\ s \in live /\ live' = live
        BY <1>10 DEF Rebuild
    <2>1. Sound(Reset(opt[c])) /\ ~Reset(opt[c]).engaged_
        BY <1>0, <1>b
    <2>2. CASE ~opt[s].engaged_
        BY <1>0, <1>a, <1>10, <2>0, <2>1, <2>2 DEF Rebuild
    <2>3. CASE opt[s].engaged_
        <3>1. /\ \A y \in ThrewOn("move", opt[s]) : Sound(y)
              /\ Sound(Used("move", opt[s]))
            BY <1>0, <1>d, <2>3 DEF Hows
        <3>2. Sound(ConstructFrom(Reset(opt[c]), opt[s].data_))
            BY <1>0, <1>b, <1>c, <2>1, <2>3
        <3> QED
            BY <1>0, <1>a, <1>10, <2>0, <2>1, <2>3, <3>1, <3>2 DEF Rebuild
    <2> QED
        BY <2>2, <2>3
<1>11. CASE UNCHANGED vars
    BY <1>0, <1>a, <1>11 DEF vars
<1> QED
    BY <1>1, <1>2, <1>3, <1>4, <1>5, <1>6, <1>7, <1>8, <1>9, <1>10, <1>11 DEF Next

\* In every optional, whichever calls were made and whichever of them threw, the
\* flag is up exactly when one object lives in the storage.
THEOREM FlagIsTruthful == Spec => []FlagTellsLifetime
<1>1. Spec => []IInv
    BY InitIInv, NextIInv, PTL DEF Spec
<1>2. IInv => FlagTellsLifetime
    BY DEF IInv
<1> QED
    BY <1>1, <1>2, PTL

\* The storage of every optional keeps its type.
THEOREM TypesAreCorrect == Spec => []TypeOK
<1>1. Spec => []IInv
    BY InitIInv, NextIInv, PTL DEF Spec
<1>2. IInv => TypeOK
    BY DEF IInv
<1> QED
    BY <1>1, <1>2, PTL

-----------------------------------------------------------------------------
\* What a storage means to a user, given that an optional exists there.
Meaning(x) == IF x.engaged_ THEN x.data_ ELSE none

LEMMA InitMaps == Init => Maybe!Init
BY DEF Init, Maybe!Init, Held

\* Every exit of every call is an operation of MaybeValue.
LEMMA StepMaps == IInv /\ [Next]_vars => [Maybe!Next]_<<Held, call>>
<1> SUFFICES ASSUME IInv, [Next]_vars PROVE [Maybe!Next]_<<Held, call>>
    OBVIOUS
<1>0. /\ live \subseteq Cells
      /\ opt = [c \in Cells |-> opt[c]]
      /\ \A c \in Cells : Sound(opt[c]) /\ (opt[c].engaged_ => c \in live)
    BY CellwiseInv
<1>b. \A c \in Cells : /\ opt[c].engaged_ => /\ opt[c].data_ \in Values \cup {Unspecified}
                                               /\ opt[c].data_ \notin {none, absent}
    BY <1>0, OptionalAssumption DEF Sound, Storage
<1>v. ASSUME NEW d \in Cells
      PROVE  /\ Held[d] = IF d \notin live THEN absent ELSE Meaning(opt[d])
             /\ Held'[d] = IF d \notin live' THEN absent ELSE Meaning(opt'[d])
             /\ d \notin live => Held[d] = absent
             /\ d \in live => Held[d] = Meaning(opt[d]) /\ Held[d] # absent
    BY <1>b, OptionalAssumption DEF Held, Meaning
\* How a step is recognised as an abstract one: by what it does to each optional.
<1>f. ASSUME NEW c \in Cells, NEW s \in Cells, Threw(c, s),
             Held'[c] \in Maybe!Debris(Held[c], Held[s]),
             Held'[s] \in Maybe!Debris(Held[s], Held[c]),
             \A d \in Cells \ {c, s} : Held'[d] = Held[d]
      PROVE  Maybe!Fail(c, s)
    <2>1. Held' = [Held EXCEPT ![s] = Held'[s], ![c] = Held'[c]]
        BY <1>f DEF Held
    <2> QED
        BY <1>f, <2>1 DEF Maybe!Fail, Threw
<1>p. ASSUME NEW c \in Cells, NEW v, Held'[c] = v,
             \A d \in Cells \ {c} : Held'[d] = Held[d]
      PROVE  Held' = [Held EXCEPT ![c] = v]
    BY <1>p DEF Held
<1>q. ASSUME NEW c \in Cells, NEW s \in Cells, NEW v, NEW w, Held'[c] = v,
             c # s => Held'[s] = w, \A d \in Cells \ {c, s} : Held'[d] = Held[d]
      PROVE  Held' = [Held EXCEPT ![s] = w, ![c] = v]
    BY <1>q DEF Held
<1> USE <1>0, <1>v
<1>1. ASSUME NEW c \in Cells, Construct(c) PROVE Maybe!Create(c)
    BY <1>1, <1>p DEF Construct, Maybe!Create, Disengaged, Meaning
<1>2. ASSUME NEW c \in Cells, Destroy(c) PROVE Maybe!Discard(c)
    BY <1>2, <1>p DEF Destroy, Maybe!Discard
<1>3. ASSUME NEW c \in Cells, ResetOp(c) PROVE Maybe!Clear(c)
    BY <1>3, <1>p DEF ResetOp, Maybe!Clear, Reset, Meaning
<1>4. ASSUME NEW c \in Cells, NEW v \in Values, ConstructInPlace(c, v)
      PROVE  Maybe!Put(c, v) \/ Maybe!Fail(c, c)
    <2>1. CASE call' = <<"put", c, v>> /\ live' = live \cup {c}
               /\ opt' = [opt EXCEPT ![c] = ConstructFrom(Disengaged, v)]
        BY <2>1, <1>p DEF Maybe!Put, ConstructFrom, Meaning
    <2>2. CASE UNCHANGED <<live, opt>> /\ Threw(c, c)
        BY <1>4, <2>2, <1>f DEF ConstructInPlace, Maybe!Debris
    <2> QED
        BY <1>4, <2>1, <2>2 DEF ConstructInPlace
<1>5. ASSUME NEW c \in Cells, NEW v \in Values, Emplace(c, v)
      PROVE  Maybe!Put(c, v) \/ Maybe!Fail(c, c)
    <2>1. CASE call' = <<"put", c, v>> /\ opt' = [opt EXCEPT ![c] = ConstructFrom(Emptied(@), v)]
        BY <1>5, <2>1, <1>p DEF Emplace, Maybe!Put, ConstructFrom, Meaning
    <2>2. CASE opt' = [opt EXCEPT ![c] = Emptied(@)] /\ Threw(c, c)
        <3>1. Held'[c] = none
            BY <1>5, <2>2 DEF Emplace, Emptied, Reset, Meaning
        <3> QED
            BY <1>5, <2>2, <3>1, <1>f DEF Emplace, Maybe!Debris, Meaning
    <2> QED
        BY <1>5, <2>1, <2>2 DEF Emplace
<1>6. ASSUME NEW c \in Cells, NEW v \in Values, AssignValue(c, v)
      PROVE  Maybe!Put(c, v) \/ Maybe!Fail(c, c)
    <2>0. c \in live /\ live' = live
        BY <1>6 DEF AssignValue
    <2>1. CASE opt[c].engaged_ /\ opt' = [opt EXCEPT ![c] = Assigned(@, v)] /\ call' = <<"put", c, v>>
        BY <1>6, <2>0, <2>1, <1>p DEF Maybe!Put, Assigned, Meaning, Sound, Storage
    <2>2. CASE opt[c].engaged_ /\ opt' = [opt EXCEPT ![c] = Assigned(@, Unspecified)] /\ Threw(c, c)
        <3>1. Held'[c] = Unspecified /\ Held[c] \notin {none, absent}
            BY <1>b, <2>0, <2>2 DEF Assigned, Meaning, Sound, Storage
        <3> QED
            BY <2>0, <2>2, <3>1, <1>f DEF Maybe!Debris
    <2>3. CASE opt' = [opt EXCEPT ![c] = ConstructFrom(@, v)] /\ call' = <<"put", c, v>>
        BY <1>6, <2>0, <2>3, <1>p DEF Maybe!Put, ConstructFrom, Meaning
    <2>4. CASE UNCHANGED opt /\ Threw(c, c)
        BY <2>0, <2>4, <1>f DEF Maybe!Debris
    <2> QED
        BY <1>6, <2>1, <2>2, <2>3, <2>4 DEF AssignValue
<1>7. ASSUME NEW c \in Cells, NEW s \in Cells, NEW how \in Hows, ConstructFromOther(c, s, how)
      PROVE  Maybe!Transfer(c, s, how) \/ Maybe!Fail(c, s)
    <2>0. c \notin live /\ s \in live /\ c # s
        BY <1>7 DEF ConstructFromOther
    <2>1. CASE call' = <<how, c, s>>
        <3>0. live' = live \cup {c}
            BY <1>7, <2>1 DEF ConstructFromOther, Threw, Hows
        <3>1. CASE ~opt[s].engaged_
            <4>1. opt' = [opt EXCEPT ![c] = Disengaged]
                BY <1>7, <3>1 DEF ConstructFromOther
            <4> QED
                BY <2>0, <2>1, <3>0, <3>1, <4>1, <1>q
                   DEF Maybe!Transfer, Maybe!Left, Disengaged, Meaning
        <3>2. CASE opt[s].engaged_
            <4>1. opt' = [opt EXCEPT ![c] = ConstructFrom(Disengaged, opt[s].data_), ![s] = Used(how, @)]
                BY <1>7, <2>1, <3>2 DEF ConstructFromOther, Threw, Hows
            <4>2. Held'[c] = Held[s]
                BY <2>0, <3>0, <3>2, <4>1 DEF ConstructFrom, Meaning
            <4>3. Held'[s] = Maybe!Left(how, Held[s])
                BY <1>b, <2>0, <3>0, <3>2, <4>1, ZenonT(40)
                   DEF Used, Assigned, Meaning, Sound, Storage, Maybe!Left
            <4>4. \A d \in Cells \ {c, s} : Held'[d] = Held[d]
                BY <3>0, <4>1
            <4>5. Held' = [Held EXCEPT ![s] = Maybe!Left(how, Held[s]), ![c] = Held[s]]
                BY <2>0, <4>2, <4>3, <4>4, <1>q
            <4> QED
                BY <2>0, <2>1, <4>5 DEF Maybe!Transfer
        <3> QED
            BY <3>1, <3>2
    <2>2. CASE Threw(c, s)
        <3>1. PICK y \in ThrewOn(how, opt[s]) : opt' = [opt EXCEPT ![s] = y]
            BY <1>7, <2>2 DEF ConstructFromOther, Threw, Hows
        <3>2. opt[s].engaged_ /\ live' = live
            BY <1>7, <2>2 DEF ConstructFromOther, Threw, Hows
        <3>3. Held'[s] \in {Held[s], Unspecified} /\ Held[s] \notin {none, absent}
            BY <1>b, <2>0, <3>1, <3>2 DEF ThrewOn, Used, Assigned, Meaning, Sound, Storage
        <3> QED
            BY <2>0, <2>2, <3>1, <3>2, <3>3, <1>f DEF Maybe!Debris
    <2> QED
        BY <1>7, <2>1, <2>2 DEF ConstructFromOther
<1>8. ASSUME NEW c \in Cells, NEW s \in Cells, NEW how \in Hows, AssignFrom(c, s, how)
      PROVE  Maybe!Transfer(c, s, how) \/ Maybe!Fail(c, s)
    <2>0. c \in live /\ s \in live /\ live' = live /\ (how = "move" => c # s)
        BY <1>8 DEF AssignFrom
    <2>1. CASE call' = <<how, c, s>> /\ ~opt[s].engaged_
        BY <1>8, <2>0, <2>1, <1>q DEF AssignFrom, Maybe!Transfer, Maybe!Left, Reset, Meaning, Threw, Hows
    <2>2. CASE /\ call' = <<how, c, s>> /\ opt[s].engaged_
               /\ \/ opt' = [opt EXCEPT ![s] = Used(how, @), ![c] = Assigned(@, opt[s].data_)] /\ opt[c].engaged_
                  \/ opt' = [opt EXCEPT ![s] = Used(how, @), ![c] = ConstructFrom(@, opt[s].data_)] /\ ~opt[c].engaged_
        <3>1. Held'[c] = Held[s]
            BY <2>0, <2>2 DEF Assigned, ConstructFrom, Used, Meaning, Sound, Storage
        <3>2. c # s => Held'[s] = Maybe!Left(how, Held[s])
            BY <1>b, <2>0, <2>2 DEF Assigned, ConstructFrom, Used, Meaning, Sound, Storage, Maybe!Left
        <3> QED
            BY <2>0, <2>2, <3>1, <3>2, <1>q DEF Maybe!Transfer
    <2>3. CASE Threw(c, s)
        <3>1. PICK y \in ThrewOn(how, opt[s]) :
                 \/ opt' = [opt EXCEPT ![s] = y, ![c] = Assigned(@, Unspecified)] /\ opt[c].engaged_
                 \/ opt' = [opt EXCEPT ![s] = y] /\ ~opt[c].engaged_
            BY <1>8, <2>3 DEF AssignFrom, Threw, Hows
        <3>2. opt[s].engaged_
            BY <1>8, <2>3 DEF AssignFrom, Threw, Hows
        <3>3. Held[s] \notin {none, absent} /\ (opt[c].engaged_ => Held[c] \notin {none, absent})
            BY <1>b, <2>0, <3>2 DEF Meaning
        <3>4. c # s => Held'[s] \in {Held[s], Unspecified}
            BY <2>0, <3>1, <3>2 DEF ThrewOn, Used, Assigned, Meaning, Sound, Storage
        <3>5. Held'[c] = IF opt[c].engaged_ THEN Unspecified ELSE Held[c]
            BY <2>0, <3>1, <3>2 DEF Assigned, Meaning, Sound, Storage
        <3>6. Held'[c] \in Maybe!Debris(Held[c], Held[s])
            BY <2>0, <3>3, <3>5 DEF Maybe!Debris, Meaning
        <3>7. Held'[s] \in Maybe!Debris(Held[s], Held[c])
            BY <2>0, <3>2, <3>3, <3>4, <3>5 DEF Maybe!Debris, Meaning
        <3>8. \A d \in Cells \ {c, s} : Held'[d] = Held[d]
            BY <2>0, <3>1
        <3> QED
            BY <2>3, <3>6, <3>7, <3>8, <1>f
    <2> QED
        BY <1>8, <2>1, <2>2, <2>3 DEF AssignFrom
<1>9. ASSUME NEW c \in Cells, NEW s \in Cells, Swap(c, s)
      PROVE  Maybe!Exchange(c, s) \/ Maybe!Fail(c, s)
    <2>0. c \in live /\ s \in live /\ live' = live /\ c # s
        BY <1>9 DEF Swap
    <2>1. CASE call' = <<"swap", c, s>>
        <3>1. Held'[c] = Held[s] /\ Held'[s] = Held[c]
            BY <1>9, <2>0, <2>1 DEF Swap, Assigned, ConstructFrom, GivenAway, Used, Reset, Meaning,
                                    Sound, Storage, Threw
        <3>2. \A d \in Cells \ {c, s} : Held'[d] = Held[d]
            BY <1>9, <2>0, <2>1 DEF Swap, Threw
        <3> QED
            BY <2>0, <2>1, <3>1, <3>2, <1>q DEF Maybe!Exchange
    <2>2. CASE Threw(c, s) /\ opt[s].engaged_
        <3>1. PICK p \in SwapDebris(opt[c], opt[s]) : opt' = [opt EXCEPT ![c] = p[1], ![s] = p[2]]
            BY <1>9, <2>2 DEF Swap, Threw
        <3>2. opt[c].engaged_
            BY <1>9, <2>2 DEF Swap, Threw
        <3>3. Held[s] \notin {none, absent} /\ Held[c] \notin {none, absent}
            BY <1>b, <2>0, <2>2, <3>2 DEF Meaning
        <3>4. /\ Held'[c] \in {Held[c], Unspecified, Held[s]}
              /\ Held'[s] \in {Held[s], Unspecified}
            <4>1. opt'[c] = p[1] /\ opt'[s] = p[2]
                BY <2>0, <3>1
            <4>2. /\ p[1] \in {opt[c], Assigned(opt[c], Unspecified), Assigned(opt[c], opt[s].data_)}
                  /\ p[2] \in {opt[s], Assigned(opt[s], Unspecified)}
                BY DEF SwapDebris
            <4>3. /\ Meaning(p[1]) \in {opt[c].data_, Unspecified, opt[s].data_}
                  /\ Meaning(p[2]) \in {opt[s].data_, Unspecified}
                BY <2>2, <3>2, <4>2 DEF Assigned, Meaning, Sound, Storage
            <4> QED
                BY <2>0, <2>2, <3>2, <4>1, <4>3 DEF Meaning
        <3> QED
            BY <2>0, <2>2, <3>1, <3>3, <3>4, <1>f DEF Maybe!Debris
    <2>3. CASE Threw(c, s) /\ ~opt[s].engaged_
        <3>1. PICK y \in ThrewOn("move", opt[c]) : opt' = [opt EXCEPT ![c] = y]
            BY <1>9, <2>3 DEF Swap, Threw
        <3>2. opt[c].engaged_
            BY <1>9, <2>3 DEF Swap, Threw
        <3>3. Held'[c] \in {Held[c], Unspecified} /\ Held[c] \notin {none, absent}
            BY <1>b, <2>0, <3>1, <3>2 DEF ThrewOn, Used, Assigned, Meaning, Sound, Storage
        <3> QED
            BY <2>0, <2>3, <3>1, <3>3, <1>f DEF Maybe!Debris
    <2> QED
        BY <1>9, <2>1, <2>2, <2>3 DEF Swap
<1>10. ASSUME NEW c \in Cells, NEW s \in Cells, Rebuild(c, s)
      PROVE  Maybe!Transfer(c, s, "move") \/ Maybe!Fail(c, s)
    <2>0. c \in live /\ s \in live /\ live' = live /\ c # s
        BY <1>10 DEF Rebuild
    <2>1. CASE ~opt[s].engaged_
        <3>1. opt' = [opt EXCEPT ![c] = Reset(@)] /\ call' = <<"move", c, s>>
            BY <1>10, <2>1 DEF Rebuild
        <3> QED
            BY <2>0, <2>1, <3>1, <1>q DEF Maybe!Transfer, Maybe!Left, Reset, Meaning
    <2>2. CASE call' = <<"move", c, s>> /\ opt[s].engaged_
        <3>0. opt' = [opt EXCEPT ![s] = Used("move", @), ![c] = ConstructFrom(Reset(@), opt[s].data_)]
            BY <1>10, <2>2 DEF Rebuild, Threw
        <3>1. Held'[c] = Held[s]
            BY <2>0, <2>2, <3>0 DEF ConstructFrom, Meaning
        <3>2. Held'[s] = Maybe!Left("move", Held[s])
            BY <1>b, <2>0, <2>2, <3>0 DEF Used, Assigned, Meaning, Sound, Storage, Maybe!Left
        <3>3. \A d \in Cells \ {c, s} : Held'[d] = Held[d]
            BY <2>0, <3>0
        <3> QED
            BY <2>0, <2>2, <3>1, <3>2, <3>3, <1>q DEF Maybe!Transfer
    <2>3. CASE Threw(c, s) /\ opt[s].engaged_
        <3>1. PICK y \in ThrewOn("move", opt[s]) : opt' = [opt EXCEPT ![s] = y, ![c] = Reset(@)]
            BY <1>10, <2>3 DEF Rebuild, Threw
        <3>2. Held[s] \notin {none, absent} /\ Held'[s] \in {Held[s], Unspecified}
            BY <1>b, <2>0, <2>3, <3>1, ZenonT(40) DEF ThrewOn, Used, Assigned, Meaning, Sound, Storage
        <3>3. Held'[c] = none
            BY <2>0, <3>1 DEF Reset, Meaning
        <3>4. Held'[c] \in Maybe!Debris(Held[c], Held[s])
            BY <2>0, <3>3 DEF Maybe!Debris, Meaning
        <3>5. Held'[s] \in Maybe!Debris(Held[s], Held[c])
            BY <3>2 DEF Maybe!Debris
        <3>6. \A d \in Cells \ {c, s} : Held'[d] = Held[d]
            BY <2>0, <3>1
        <3> QED
            BY <2>3, <3>4, <3>5, <3>6, <1>f
    <2> QED
        BY <1>10, <2>1, <2>2, <2>3 DEF Rebuild
<1>11. CASE UNCHANGED vars
    BY <1>11 DEF vars, Held
<1>12. Next => Maybe!Next
    BY <1>1, <1>2, <1>3, <1>4, <1>5, <1>6, <1>7, <1>8, <1>9, <1>10 DEF Next, Maybe!Next, Hows
<1> QED
    BY <1>11, <1>12

\* optional implements the value semantics of MaybeValue.
THEOREM ImplementsMaybeValue == Spec => HoldsValues
<1>1. Spec => []IInv
    BY InitIInv, NextIInv, PTL DEF Spec
<1> QED
    BY <1>1, InitMaps, StepMaps, PTL DEF Spec, HoldsValues, Maybe!Spec

-----------------------------------------------------------------------------
(* chunk_view of a single-pass range: the inductive invariant adds to the   *)
(* types that a chunk in hand which is not used up ends before the base does *)

ChunkIInv == ChunkTypeOK /\ InnerReadsInBounds

LEMMA ChunkInitIInv == ChunkInit => ChunkIInv
BY ChunkAssumption DEF ChunkInit, ChunkIInv, ChunkTypeOK, InnerReadsInBounds, InnerDone, nullopt

\* Every operation of the view and of its cursors keeps the invariant.
LEMMA ChunkNextIInv == ChunkIInv /\ [ChunkNext]_chunkvars => ChunkIInv'
<1> SUFFICES ASSUME ChunkIInv, [ChunkNext]_chunkvars PROVE ChunkIInv'
    OBVIOUS
<1>0. len \in Nat /\ n_ \in Nat \ {0} /\ MaxCopies \in Nat
    BY ChunkAssumption DEF ChunkIInv, ChunkTypeOK
<1> USE <1>0 DEF ChunkIInv, ChunkTypeOK, InnerReadsInBounds, InnerDone, nullopt
<1>1. CASE BeginCursor
    BY <1>1 DEF BeginCursor
<1>2. CASE OuterRead
    BY <1>2 DEF OuterRead, OuterDone
<1>3. CASE InnerNext
    BY <1>3 DEF InnerNext, RemainderAfterTake
<1>4. CASE OuterNext
    BY <1>4 DEF OuterNext, Advanced, NewRemainder, Lesser
<1>5. CASE CopyView
    BY <1>5 DEF CopyView
<1>6. CASE UNCHANGED chunkvars
    BY <1>6 DEF chunkvars
<1> QED
    BY <1>1, <1>2, <1>3, <1>4, <1>5, <1>6 DEF ChunkNext

\* The types of the view's members and iterators hold in every reachable state.
THEOREM ChunkTypesAreCorrect == ChunkSpec => []ChunkTypeOK
<1>1. ChunkSpec => []ChunkIInv
    BY ChunkInitIInv, ChunkNextIInv, PTL DEF ChunkSpec
<1>2. ChunkIInv => ChunkTypeOK
    BY DEF ChunkIInv
<1> QED
    BY <1>1, <1>2, PTL

\* A chunk's iterator that has not reached its end never stands at the base's
\* end, whatever sequence of begin, ++ and copies went before.
THEOREM InnerIsReadable == ChunkSpec => []InnerReadsInBounds
<1>1. ChunkSpec => []ChunkIInv
    BY ChunkInitIInv, ChunkNextIInv, PTL DEF ChunkSpec
<1>2. ChunkIInv => InnerReadsInBounds
    BY DEF ChunkIInv
<1> QED
    BY <1>1, <1>2, PTL

-----------------------------------------------------------------------------
LEMMA ChunkInitMaps == ChunkInit => Chunks!Init
BY ChunkAssumption DEF ChunkInit, Chunks!Init, Chunks!NotStarted, ChunkEnd, OuterDone, nullopt

\* A step of the view is a step of the sequence of chunks, or leaves it as it is.
LEMMA ChunkStepMaps == ChunkIInv /\ [ChunkNext]_chunkvars => [Chunks!Next]_(Chunks!cvars)
<1> SUFFICES ASSUME ChunkIInv, [ChunkNext]_chunkvars PROVE [Chunks!Next]_(Chunks!cvars)
    OBVIOUS
<1>0. len \in Nat /\ n_ \in Nat \ {0}
    BY ChunkAssumption DEF ChunkIInv, ChunkTypeOK
<1> USE <1>0 DEF ChunkIInv, ChunkTypeOK, InnerReadsInBounds, InnerDone, OuterDone, nullopt,
                 ChunkEnd, Lesser, Chunks!Lesser, Chunks!cvars
<1>1. CASE BeginCursor
    <2>1. Chunks!Start(remainder_)
        BY <1>1 DEF BeginCursor, Chunks!Start
    <2> QED
        BY <2>1 DEF Chunks!Next
<1>2. CASE OuterRead
    BY <1>2 DEF OuterRead
<1>3. CASE InnerNext
    <2>1. Chunks!Take
        BY <1>3 DEF InnerNext, RemainderAfterTake, Chunks!Take
    <2> QED
        BY <2>1 DEF Chunks!Next
<1>4. CASE OuterNext
    <2>1. Chunks!NextChunk
        BY <1>4 DEF OuterNext, Advanced, NewRemainder, Chunks!NextChunk
    <2> QED
        BY <2>1 DEF Chunks!Next
<1>5. CASE CopyView
    <2>1. CASE it_cache_ = nullopt
        BY <1>5, <2>1 DEF CopyView
    <2>2. CASE it_cache_ # nullopt
        BY <1>5, <2>2 DEF CopyView, Chunks!Abandon, Chunks!Next
    <2> QED
        BY <2>1, <2>2
<1>6. CASE UNCHANGED chunkvars
    BY <1>6 DEF chunkvars
<1> QED
    BY <1>1, <1>2, <1>3, <1>4, <1>5, <1>6 DEF ChunkNext

\* The traversal of a single-pass base through one shared iterator is a
\* traversal of consecutive intervals.
THEOREM ChunksPartitionTheBase == ChunkSpec => Partition
<1>1. ChunkSpec => []ChunkIInv
    BY ChunkInitIInv, ChunkNextIInv, PTL DEF ChunkSpec
<1> QED
    BY <1>1, ChunkInitMaps, ChunkStepMaps, PTL DEF ChunkSpec, Partition, Chunks!Spec

-----------------------------------------------------------------------------
(* Distances *)

LEMMA Quotient ==
  ASSUME NEW n \in Nat \ {0}, NEW a \in Nat
  PROVE  /\ a \div n \in Nat /\ a % n \in 0 .. n - 1
         /\ n * (a \div n) \in Nat /\ a = n * (a \div n) + (a % n)
         /\ n * (a \div n) =< a /\ a < n * (a \div n) + n
<1>1. a \div n \in Nat /\ n * (a \div n) =< a /\ a < n * (a \div n) + n
  OBVIOUS
<1>2. a = n * (a \div n) + (a % n) /\ a % n \in 0 .. n - 1
  OBVIOUS
<1>3. QED
  BY <1>1, <1>2

LEMMA QuotientIsUnique ==
  ASSUME NEW n \in Nat \ {0}, NEW a \in Nat, NEW q \in Nat, n * q =< a, a < n * q + n
  PROVE  a \div n = q
<1>1. /\ a \div n \in Nat /\ n * (a \div n) =< a /\ a < n * (a \div n) + n
      /\ n * (a \div n) \in Nat /\ n * q \in Nat
  BY Quotient
<1>2. ASSUME NEW x \in Nat, NEW y \in Nat, x < y PROVE n * x + n =< n * y
  <2>1. x + 1 =< y
    BY <1>2
  <2>2. n * (x + 1) =< n * y
    BY <2>1
  <2>3. n * (x + 1) = n * x + n
    OBVIOUS
  <2>4. QED
    BY <2>2, <2>3
<1>3. QED
  BY <1>1, <1>2

\* One more chunk for every n_ elements or part of them.
LEMMA ChunksInStep ==
  ASSUME n_ \in Nat \ {0}, NEW d \in Nat
  PROVE  /\ ChunksIn(d) \in Nat
         /\ d = 0 => ChunksIn(d) = 0
         /\ d # 0 => ChunksIn(d) = 1 + ChunksIn(d - Lesser(n_, d))
         /\ d \div n_ + (IF d % n_ # 0 THEN 1 ELSE 0) = ChunksIn(d)
<1>1. d + n_ - 1 \in Nat
  OBVIOUS
<1>2. ChunksIn(d) \in Nat
  BY <1>1, Quotient DEF ChunksIn
<1>3. ASSUME d = 0 PROVE ChunksIn(d) = 0
  BY <1>3, QuotientIsUnique DEF ChunksIn
<1>4. ASSUME d # 0 PROVE ChunksIn(d) = 1 + ChunksIn(d - Lesser(n_, d))
  <2> DEFINE e == d - Lesser(n_, d)
             c == ChunksIn(e)
  <2>1. e \in Nat /\ e + n_ - 1 \in Nat
    BY DEF Lesser
  <2>2. c \in Nat /\ n_ * c =< e + n_ - 1 /\ e + n_ - 1 < n_ * c + n_ /\ n_ * c \in Nat
    BY <2>1, Quotient, Zenon DEF ChunksIn
  <2>3. n_ * (1 + c) = n_ * c + n_
    BY <2>2
  <2>4. CASE n_ =< d
    <3>1. d = e + n_
      BY <2>4 DEF Lesser
    <3> HIDE DEF e, c
    <3>2. n_ * (1 + c) =< d + n_ - 1 /\ d + n_ - 1 < n_ * (1 + c) + n_
      BY <2>1, <2>2, <2>3, <3>1
    <3>3. 1 + c \in Nat
      BY <2>2
    <3>4. (d + n_ - 1) \div n_ = 1 + c
      BY <1>1, <3>2, <3>3, QuotientIsUnique
    <3>5. QED
      BY <3>4 DEF ChunksIn, c, e
  <2>5. CASE d < n_
    <3>1. e = 0
      BY <2>5 DEF Lesser
    <3>2. c = 0
      BY <3>1, QuotientIsUnique DEF ChunksIn
    <3>3. n_ * 1 =< d + n_ - 1 /\ d + n_ - 1 < n_ * 1 + n_
      BY <1>4, <2>5
    <3>4. (d + n_ - 1) \div n_ = 1
      BY <1>1, <3>3, QuotientIsUnique
    <3>5. QED
      BY <3>2, <3>4 DEF ChunksIn
  <2>6. QED
    BY <2>4, <2>5
<1>5. d \div n_ + (IF d % n_ # 0 THEN 1 ELSE 0) = ChunksIn(d)
  <2> DEFINE q == d \div n_
             s == d % n_
  <2>1. q \in Nat /\ s \in 0 .. n_ - 1 /\ d = n_ * q + s /\ n_ * q \in Nat
    BY Quotient, Zenon
  <2>2. n_ * (q + 1) = n_ * q + n_
    BY <2>1
  <2> HIDE DEF q, s
  <2>3. CASE s = 0
    <3>1. (d + n_ - 1) \div n_ = q
      BY <1>1, <2>1, <2>3, QuotientIsUnique
    <3>2. QED
      BY <2>1, <2>3, <3>1 DEF ChunksIn, q, s
  <2>4. CASE s # 0
    <3>1. (d + n_ - 1) \div n_ = q + 1
      BY <1>1, <2>1, <2>2, <2>4, QuotientIsUnique
    <3>2. QED
      BY <2>4, <3>1 DEF ChunksIn, q, s
  <2>5. QED
    BY <2>3, <2>4
<1>6. QED
  BY <1>2, <1>3, <1>4, <1>5

\* The ++ that lead from a chunk border to the end, as the recursive definition in
\* StepsToDone counts them.
StepOf(F) == [p \in 0 .. len |-> IF p = len THEN 0 ELSE 1 + F[Lesser(p + n_, len)]]
StepsFrom == CHOOSE F : F = StepOf(F)

\* The recursion has a solution, the number of chunks left, and no other.
LEMMA StepsAreChunks ==
  ASSUME n_ \in Nat \ {0}, len \in Nat, NEW p \in 0 .. len
  PROVE  StepsFrom[p] = ChunksIn(len - p)
<1> DEFINE C == [x \in 0 .. len |-> ChunksIn(len - x)]
<1>1. ASSUME NEW x \in 0 .. len, x # len
      PROVE  /\ Lesser(x + n_, len) \in 0 .. len /\ Lesser(x + n_, len) > x
             /\ ChunksIn(len - x) = 1 + ChunksIn(len - Lesser(x + n_, len))
  <2>1. len - x \in Nat /\ len - x # 0
    BY <1>1
  <2>2. len - Lesser(x + n_, len) = len - x - Lesser(n_, len - x)
    BY DEF Lesser
  <2>3. QED
    BY <1>1, <2>1, <2>2, ChunksInStep DEF Lesser
<1>2. ChunksIn(len - len) = 0
  BY ChunksInStep
<1>3. C = StepOf(C)
  BY <1>1, <1>2 DEF StepOf
<1>4. StepsFrom = StepOf(StepsFrom)
  BY <1>3 DEF StepsFrom
<1>5. \A x \in 0 .. len :
        StepsFrom[x] = IF x = len THEN 0 ELSE 1 + StepsFrom[Lesser(x + n_, len)]
  BY <1>4 DEF StepOf
<1>6. \A x \in 0 .. len : StepsFrom[x] = ChunksIn(len - x)
  <2> DEFINE Wrong == { d \in 0 .. len : StepsFrom[len - d] # ChunksIn(d) }
  <2>1. SUFFICES ASSUME Wrong # {} PROVE FALSE
    <3>1. ASSUME NEW x \in 0 .. len, Wrong = {} PROVE StepsFrom[x] = ChunksIn(len - x)
      <4>1. len - x \in 0 .. len /\ len - (len - x) = x
        OBVIOUS
      <4>2. QED
        BY <3>1, <4>1
    <3>2. QED
      BY <3>1
  <2>2. Wrong \subseteq Nat
    OBVIOUS
  <2>3. PICK d \in Wrong : \A e \in Wrong : ~(<<e, d>> \in OpToRel(<, Nat))
    BY <2>1, <2>2, WFMin, NatLessThanWellFounded
  <2>4. \A e \in Wrong : ~(e < d)
    BY <2>2, <2>3 DEF OpToRel
  <2> DEFINE x == len - d
             y == Lesser(x + n_, len)
  <2>5. d \in 0 .. len /\ x \in 0 .. len /\ len - x = d /\ StepsFrom[x] # ChunksIn(d)
    OBVIOUS
  <2> HIDE DEF x, Wrong
  <2>6. CASE x = len
    BY <1>2, <1>5, <2>5, <2>6
  <2>7. CASE x # len
    <3>1. y \in 0 .. len /\ y > x /\ ChunksIn(d) = 1 + ChunksIn(len - y)
      BY <1>1, <2>5, <2>7
    <3>2. StepsFrom[x] = 1 + StepsFrom[y]
      BY <1>5, <2>5, <2>7
    <3>3. len - y \in 0 .. len /\ len - (len - y) = y /\ len - y < d
      BY <2>5, <3>1
    <3>4. StepsFrom[y] = ChunksIn(len - y)
      BY <2>4, <3>3 DEF Wrong
    <3>5. QED
      BY <2>5, <3>1, <3>2, <3>4
  <2>8. QED
    BY <2>6, <2>7
<1>7. QED
  BY <1>6

\* More elements make no fewer chunks.
LEMMA ChunksInGrows ==
  ASSUME n_ \in Nat \ {0}, NEW d \in Nat, NEW e \in 0 .. d
  PROVE  ChunksIn(e) =< ChunksIn(d)
<1> DEFINE c == ChunksIn(d)
           b == ChunksIn(e)
<1>1. /\ c \in Nat /\ b \in Nat /\ n_ * c \in Nat /\ n_ * b \in Nat
      /\ d + n_ - 1 < n_ * c + n_ /\ n_ * b =< e + n_ - 1
  <2>1. d + n_ - 1 \in Nat /\ e + n_ - 1 \in Nat
    OBVIOUS
  <2>2. /\ c \in Nat /\ n_ * c \in Nat /\ d + n_ - 1 < n_ * c + n_
    BY <2>1, Quotient, Zenon DEF ChunksIn
  <2>3. /\ b \in Nat /\ n_ * b \in Nat /\ n_ * b =< e + n_ - 1
    BY <2>1, Quotient, Zenon DEF ChunksIn
  <2>4. QED
    BY <2>2, <2>3
<1> HIDE DEF b, c
<1>2. SUFFICES ASSUME c < b PROVE FALSE
  BY <1>1 DEF b, c
<1>3. n_ * (c + 1) =< n_ * b
  <2>1. c + 1 =< b
    BY <1>1, <1>2
  <2>2. QED
    BY <1>1, <2>1
<1>4. n_ * (c + 1) = n_ * c + n_
  BY <1>1
<1>5. n_ * c + n_ =< n_ * b
  BY <1>3, <1>4
<1>6. QED
  BY <1>1, <1>5

\* What a chunk iterator's distance to the end says is the number of ++ that take it
\* there, with one too many at the end and one too few from a used-up chunk, in every
\* state; and size() is the number of ++ of a whole traversal, one less at most for a
\* copy made in mid-chunk.  For every length and chunk size.
THEOREM DistancesCountSteps == ChunkSpec => []DistanceCountsSteps
<1>1. ASSUME ChunkIInv PROVE DistanceCountsSteps
  <2> DEFINE next == Lesser(it_cache_ + remainder_, len)
  <2>1. /\ len \in Nat /\ n_ \in Nat \ {0} /\ remainder_ \in 0 .. n_
        /\ it_cache_ \in {nullopt} \cup 0 .. len /\ (cursor = "none" <=> it_cache_ = nullopt)
    BY <1>1, ChunkAssumption DEF ChunkIInv, ChunkTypeOK
  <2>2. StepsToDone = IF OuterDone THEN 0 ELSE 1 + StepsFrom[next]
    BY DEF StepsToDone, StepsFrom, StepOf
  <2>3. ASSUME it_cache_ # nullopt
        PROVE  /\ it_cache_ \in 0 .. len /\ next \in it_cache_ .. len
               /\ ChunksIn(len - next) \in Nat
               /\ ~OuterDone => StepsToDone = 1 + ChunksIn(len - next)
    <3>1. it_cache_ \in 0 .. len /\ next \in it_cache_ .. len
      BY <2>1, <2>3 DEF Lesser
    <3>2. next \in 0 .. len /\ len - next \in Nat
      <4> HIDE DEF next
      <4>1. QED
        BY <2>1, <3>1
    <3>3. StepsFrom[next] = ChunksIn(len - next)
      BY <2>1, <3>2, StepsAreChunks
    <3>4. ChunksIn(len - next) \in Nat
      BY <2>1, <3>2, ChunksInStep
    <3>5. QED
      BY <2>2, <3>1, <3>3, <3>4
  <2>4. ASSUME cursor # "none"
        PROVE  OuterDistance = StepsToDone + Misreported
    <3>1. it_cache_ \in 0 .. len /\ it_cache_ # nullopt
      BY <2>1, <2>4
    <3>2. CASE OuterDone
      <4>1. StepsToDone = 0 /\ Misreported = 1
        BY <2>2, <3>2 DEF Misreported, OuterDone
      <4>2. len - it_cache_ < remainder_
        BY <2>1, <3>2 DEF OuterDone
      <4>3. QED
        BY <4>1, <4>2 DEF OuterDistance
    <3>3. CASE ~OuterDone /\ len - it_cache_ < remainder_
      <4>1. next = len /\ remainder_ # 0
        BY <2>1, <3>1, <3>3 DEF Lesser
      <4>2. ChunksIn(len - len) = 0
        BY <2>1, ChunksInStep
      <4>3. StepsToDone = 1 /\ Misreported = 0
        BY <2>3, <3>1, <3>3, <4>1, <4>2 DEF Misreported
      <4>4. QED
        BY <3>3, <4>3 DEF OuterDistance
    <3>4. CASE ~OuterDone /\ ~(len - it_cache_ < remainder_)
      <4>1. len - next = len - it_cache_ - remainder_
        BY <2>1, <3>1, <3>4 DEF Lesser
      <4>2. OuterDistance = ChunksIn(len - next) + (IF remainder_ # 0 THEN 1 ELSE 0)
        BY <3>4, <4>1 DEF OuterDistance
      <4>3. StepsToDone = 1 + ChunksIn(len - next) /\ ChunksIn(len - next) \in Nat
        BY <2>3, <3>1, <3>4
      <4>4. Misreported = IF remainder_ = 0 THEN -1 ELSE 0
        BY <3>4 DEF Misreported
      <4>5. QED
        BY <4>2, <4>3, <4>4
    <3>5. QED
      BY <3>2, <3>3, <3>4
  <2>5. Size = ChunksIn(len) /\ ChunksIn(len) \in Nat
    BY <2>1, ChunksInStep DEF Size
  <2>6. ASSUME it_cache_ = 0, OuterDone PROVE StepsToDone - Size = 0
    <3>1. len = 0
      BY <2>6 DEF OuterDone
    <3>2. QED
      BY <2>1, <2>2, <2>5, <2>6, <3>1, ChunksInStep
  <2>7. ASSUME it_cache_ = 0, ~OuterDone
        PROVE  StepsToDone - Size \in (IF remainder_ = n_ THEN {0} ELSE {0, 1})
    <3> DEFINE whole == Lesser(n_, len)
    <3>1. /\ StepsToDone = 1 + ChunksIn(len - next) /\ ChunksIn(len - next) \in Nat
          /\ next \in 0 .. len
      BY <2>3, <2>7 DEF nullopt
    <3>2. next =< whole /\ whole \in 0 .. len /\ (remainder_ = n_ => next = whole)
      BY <2>1, <2>7 DEF Lesser
    <3>3. len # 0 => Size = 1 + ChunksIn(len - whole)
      BY <2>1, <2>5, ChunksInStep
    <3>4. ChunksIn(len - whole) =< ChunksIn(len - next) /\ ChunksIn(len - next) =< Size
      <4>1. /\ len - next \in 0 .. len /\ len - next \in Nat
            /\ len - whole \in 0 .. len - next /\ len - whole \in Nat
        BY <2>1, <3>1, <3>2
      <4> HIDE DEF next, whole
      <4>2. ChunksIn(len - whole) =< ChunksIn(len - next)
        BY <2>1, <4>1, ChunksInGrows
      <4>3. ChunksIn(len - next) =< ChunksIn(len)
        BY <2>1, <4>1, ChunksInGrows
      <4>4. QED
        BY <2>5, <4>2, <4>3
    <3>5. ChunksIn(len - whole) \in Nat
      <4>1. len - whole \in Nat
        BY <2>1, <3>2
      <4>2. QED
        BY <2>1, <4>1, ChunksInStep
    <3> HIDE DEF next, whole
    <3>6. CASE len # 0
      BY <2>5, <3>1, <3>2, <3>3, <3>4, <3>5, <3>6
    <3>7. CASE len = 0
      <4>1. Size = 0 /\ ChunksIn(len - next) = 0
        BY <2>1, <2>5, <3>1, <3>4, <3>7, ChunksInStep
      <4>2. remainder_ # n_
        BY <2>1, <2>7, <3>7 DEF OuterDone
      <4>3. QED
        BY <3>1, <4>1, <4>2
    <3>8. QED
      BY <3>6, <3>7
  <2>8. QED
    BY <2>4, <2>6, <2>7 DEF DistanceCountsSteps
<1>2. ChunkSpec => []ChunkIInv
  BY ChunkInitIInv, ChunkNextIInv, PTL DEF ChunkSpec
<1>3. QED
  BY <1>1, <1>2, PTL
=============================================================================
