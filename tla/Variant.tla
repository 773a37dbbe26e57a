------------------------------ MODULE Variant ------------------------------
(***************************************************************************)
(* variant<Ts...> of detail/variant.hpp for alternatives with non-trivial  *)
(* lifetime.  The alternatives share one union; index_ alone says which of *)
(* them is alive in it, and (size_t)-1 that none is: a variant becomes     *)
(* valueless when an operation that has destroyed the old alternative      *)
(* throws before it has built the new one.  The recursions over the        *)
(* alternatives (variant_visit_, variant_move_copy_) are modelled by what  *)
(* they do for each index, those that run off their end included.          *)
(***************************************************************************)
EXTENDS Integers, TLAPS

CONSTANTS Cells,         \* places a variant can be constructed in
          NAlt,          \* sizeof...(Ts)
          CopiesThrow,   \* whether the copy or move constructor of an
                         \* alternative may throw
          CopyValueless  \* whether callers construct variants from valueless ones

ASSUME VariantAssumption == /\ NAlt \in Nat \ {0}
                            /\ CopiesThrow \in BOOLEAN
                            /\ CopyValueless \in BOOLEAN

VARIABLES
    live,     \* the cells in which a variant currently exists
    index_,   \* what its index_ says
    objects,  \* not in the program: how many objects of each alternative have
              \* been constructed in the cell and not yet destroyed
    last,     \* not in the program: how the last call went, and on which cell
    tainted,  \* not in the program: a variant was built from a valueless one, or
              \* a constructor that threw destroyed by an index never written
    ended     \* "asserted": EARANGES_EXPECT(false) was reached; "undefined": an
              \* object that does not exist was destroyed; else "no"

vars == <<live, index_, objects, last, tainted, ended>>

Alternatives == 0 .. NAlt - 1

npos == -1   \* (size_t)-1

Indices == Alternatives \cup {npos, NAlt}

Nothing == [k \in Alternatives |-> 0]

Init == /\ live = {}
        /\ index_ = [c \in Cells |-> npos]
        /\ objects = [c \in Cells |-> Nothing]
        /\ last = <<"none">>
        /\ tainted = FALSE
        /\ ended = "no"

Running == ended = "no"

valid(c) == index_[c] # npos

-----------------------------------------------------------------------------
\* The object of alternative k appears in, or is destroyed in, a cell.
Born(objs, k) == IF k \in Alternatives THEN [objs EXCEPT ![k] = @ + 1] ELSE objs
Dies(objs, k) == IF k \in Alternatives THEN [objs EXCEPT ![k] = @ - 1] ELSE objs

\* variant_visit_ of an index runs off the alternatives: EARANGES_EXPECT(false).
VisitAsserts(i) == i \notin Alternatives

\* clear_: nothing for a valueless variant.  Mutant: the index is kept.
Cleared(c) == IF valid(c) THEN Dies(objects[c], index_[c]) ELSE objects[c]
ClearEnds(c) == IF valid(c) /\ VisitAsserts(index_[c]) THEN "asserted" ELSE "no"
IndexCleared_Kept(c) == index_[c]
IndexCleared(c) == npos

\* variant_move_copy_: counts the alternatives up to that.index(), so it yields
\* sizeof...(Ts) when there is none at that index.  Mutant: its result is lost.
CopiedIndex_NotStored(i) == npos
CopiedIndex(i) == IF i \in Alternatives THEN i ELSE NAlt

-----------------------------------------------------------------------------
\* variant(emplaced_index_t<k>, args...)
Construct(c, k) ==
    /\ Running /\ c \notin live
    /\ \/ /\ live' = live \cup {c}
          /\ index_' = [index_ EXCEPT ![c] = k]
          /\ objects' = [objects EXCEPT ![c] = Born(@, k)]
          /\ last' = <<"ok", c>>
       \/ last' = <<"threw", c>> /\ UNCHANGED <<live, index_, objects>>
    /\ UNCHANGED <<tainted, ended>>

\* variant(variant const &), variant(variant &&): that.valid() is not asked.
ConstructFrom(c, s) ==
    /\ Running /\ c \notin live /\ s \in live
    /\ CopyValueless \/ valid(s)
    /\ live' = live \cup {c}
    /\ index_' = [index_ EXCEPT ![c] = CopiedIndex(index_[s])]
    /\ objects' = [objects EXCEPT ![c] = Born(@, index_[s])]
    /\ last' = <<"ok", c>>
    /\ tainted' = (tainted \/ index_[s] \notin Alternatives)
    /\ UNCHANGED ended

\* The same when the alternative's constructor throws: the base variant_base is
\* already built, so its destructor calls clear_(), which reads an index_ that
\* was never written and may hold anything.
ConstructFromThrows(c, s) ==
    /\ CopiesThrow
    /\ Running /\ c \notin live /\ s \in live /\ index_[s] \in Alternatives
    /\ \E garbage \in Indices :
          /\ objects' = [objects EXCEPT ![c] = Dies(@, garbage)]
          /\ ended' = IF garbage = npos THEN "no"
                      ELSE IF VisitAsserts(garbage) THEN "asserted" ELSE "undefined"
          /\ tainted' = (tainted \/ garbage # npos)
    /\ last' = <<"threw", c>>
    /\ UNCHANGED <<live, index_>>

\* ~variant_base
Destroy(c) == /\ Running /\ c \in live
              /\ ended' = ClearEnds(c)
              /\ live' = live \ {c}
              /\ objects' = [objects EXCEPT ![c] = Cleared(c)]
              /\ index_' = [index_ EXCEPT ![c] = IndexCleared(c)]
              /\ last' = <<"ok", c>>
              /\ UNCHANGED tainted

\* emplace<k>: clear_(), construct, and only then the index.
\* Mutant: the index first.
IndexWhenEmplaceThrows_SetFirst(c, k) == k
IndexWhenEmplaceThrows(c, k) == IndexCleared(c)

Emplace(c, k) ==
    /\ Running /\ c \in live
    /\ ended' = ClearEnds(c)
    /\ \/ /\ index_' = [index_ EXCEPT ![c] = k]
          /\ objects' = [objects EXCEPT ![c] = Born(Cleared(c), k)]
          /\ last' = <<"ok", c>>
       \/ /\ index_' = [index_ EXCEPT ![c] = IndexWhenEmplaceThrows(c, k)]
          /\ objects' = [objects EXCEPT ![c] = Cleared(c)]
          /\ last' = <<"threw", c>>
    /\ UNCHANGED <<live, tainted>>

\* operator= of both kinds: clear_(), then assign_(that) if that is - still -
\* valid: a variant assigned to itself has just been cleared.
Assign(c, s) ==
    /\ Running /\ {c, s} \subseteq live
    /\ ended' = ClearEnds(c)
    /\ \/ /\ valid(s) /\ c # s
          /\ index_' = [index_ EXCEPT ![c] = CopiedIndex(index_[s])]
          /\ objects' = [objects EXCEPT ![c] = Born(Cleared(c), index_[s])]
          /\ last' = <<"ok", c>>
       \/ /\ valid(s) => c = s
          /\ index_' = [index_ EXCEPT ![c] = IndexCleared(c)]
          /\ objects' = [objects EXCEPT ![c] = Cleared(c)]
          /\ last' = IF c = s THEN <<"self", c>> ELSE <<"emptied", c>>
       \/ /\ valid(s) /\ c # s /\ CopiesThrow /\ index_[s] \in Alternatives
          /\ index_' = [index_ EXCEPT ![c] = IndexCleared(c)]
          /\ objects' = [objects EXCEPT ![c] = Cleared(c)]
          /\ last' = <<"threw", c>>
    /\ UNCHANGED <<live, tainted>>

Next == \E c \in Cells :
          \/ Destroy(c)
          \/ \E k \in Alternatives : Construct(c, k) \/ Emplace(c, k)
          \/ \E s \in Cells : ConstructFrom(c, s) \/ ConstructFromThrows(c, s) \/ Assign(c, s)

Spec == Init /\ [][Next]_vars

-----------------------------------------------------------------------------
\* Each variable has its type; what is built and not destroyed is counted.
TypeOK == /\ live \subseteq Cells
          /\ index_ \in [Cells -> Indices]
          /\ objects \in [Cells -> [Alternatives -> Int]]
          /\ tainted \in BOOLEAN /\ ended \in {"no", "asserted", "undefined"}
          /\ \A c \in Cells \ live : index_[c] = npos

\* The variant at c holds what its index says: that alternative, once, alone.
Honest(c) == objects[c] = [k \in Alternatives |-> IF index_[c] = k THEN 1 ELSE 0]

\* Through every emplace, assignment - to itself too - and destruction, failed or
\* not, the index tells what lives in the union and no visit runs off the
\* alternatives.  Only the two defects of the copy and move constructors can break
\* it: reading valueless variants, and cleaning up by an unwritten index
\* (variant.hpp:638-652, 704-755).
IndexTellsLifetime ==
    ~tainted => /\ ended = "no"
                /\ \A c \in Cells : index_[c] # NAlt /\ Honest(c)

\* A variant loses its value only when a call on it throws, when it is assigned a
\* valueless one, or - the code does not test for it - itself.
ValuelessByFailureOnly ==
    [][\A c \in live \cap live' :
          index_[c] \in Alternatives /\ index_'[c] = npos
             => last' \in {<<"threw", c>>, <<"self", c>>, <<"emptied", c>>}]_vars

\* "return (EARANGES_EXPECT(false), 0);" (variant.hpp:343): a visit always ends at
\* an alternative.  Not so for a copy of a valueless variant, nor after an
\* alternative's copy constructor has thrown.
NoAssertionFails == ended # "asserted"

-----------------------------------------------------------------------------
(***************************************************************************)
(* Proofs.  For any variants of any number of alternatives: unless one of  *)
(* the two defects has struck, index_ tells what lives in the union.       *)
(***************************************************************************)
IInv == TypeOK /\ IndexTellsLifetime

\* The objects of a variant whose index is i.
Only(i) == [k \in Alternatives |-> IF i = k THEN 1 ELSE 0]

LEMMA NposIsNoAlternative == npos \notin Alternatives /\ NAlt \notin Alternatives /\ npos # NAlt
BY VariantAssumption DEF npos, Alternatives

\* Destroying the alternative that the index names, or building one where none
\* is, leaves the objects that the new index tells.
LEMMA ObjectSteps ==
    /\ Only(npos) = Nothing
    /\ \A i \in Alternatives : /\ Dies(Only(i), i) = Nothing
                               /\ Born(Nothing, i) = Only(i)
BY NposIsNoAlternative DEF Only, Nothing, Dies, Born

LEMMA Typing ==
    ASSUME NEW o \in [Alternatives -> Int], NEW i \in Indices
    PROVE  Born(o, i) \in [Alternatives -> Int] /\ Dies(o, i) \in [Alternatives -> Int]
BY DEF Born, Dies

LEMMA InitIInv == Init => IInv
<1> SUFFICES ASSUME Init PROVE IInv
    OBVIOUS
<1>1. TypeOK
    <2>1. Nothing \in [Alternatives -> Int] /\ npos \in Indices
        BY DEF Nothing, Indices
    <2> QED
        BY <2>1 DEF Init, TypeOK
<1>2. \A c \in Cells : index_[c] = npos /\ objects[c] = Only(npos)
    BY ObjectSteps DEF Init
<1>3. IndexTellsLifetime
    BY <1>2, NposIsNoAlternative DEF Init, IndexTellsLifetime, Honest, Only
<1> QED
    BY <1>1, <1>3 DEF IInv

\* Each call keeps the types.
LEMMA NextTypes == TypeOK /\ [Next]_vars => TypeOK'
<1> SUFFICES ASSUME TypeOK, [Next]_vars PROVE TypeOK'
    OBVIOUS
<1>0. Nothing \in [Alternatives -> Int] /\ npos \in Indices /\ NAlt \in Indices
      /\ Alternatives \subseteq Indices
    BY DEF Nothing, Indices
<1>1. \A c \in Cells : Cleared(c) \in [Alternatives -> Int]
    BY Typing DEF Cleared, TypeOK
<1>2. \A c \in Cells : \A i \in Indices : /\ Born(Cleared(c), i) \in [Alternatives -> Int]
                                         /\ Born(objects[c], i) \in [Alternatives -> Int]
                                         /\ Dies(objects[c], i) \in [Alternatives -> Int]
    BY <1>1, Typing DEF TypeOK
<1> USE <1>0, <1>1, <1>2 DEF TypeOK, ClearEnds, IndexCleared
<1>3. ASSUME NEW c \in Cells, Destroy(c) PROVE TypeOK'
    BY <1>3 DEF Destroy
<1>4. ASSUME NEW c \in Cells, NEW k \in Alternatives, Construct(c, k) PROVE TypeOK'
    <2>1. CASE UNCHANGED <<live, index_, objects>>
        BY <1>4, <2>1 DEF Construct
    <2>2. CASE objects' = [objects EXCEPT ![c] = Born(objects[c], k)] /\ live' = live \cup {c}
               /\ index_' = [index_ EXCEPT ![c] = k]
        <3>1. Born(objects[c], k) \in [Alternatives -> Int] /\ k \in Indices
            OBVIOUS
        <3>2. objects' \in [Cells -> [Alternatives -> Int]]
            BY <2>2, <3>1
        <3> QED
            BY <1>4, <2>2, <3>1, <3>2 DEF Construct
    <2> QED
        BY <1>4, <2>1, <2>2 DEF Construct
<1>5. ASSUME NEW c \in Cells, NEW k \in Alternatives, Emplace(c, k) PROVE TypeOK'
    <2>1. \E o \in [Alternatives -> Int] : objects' = [objects EXCEPT ![c] = o]
        BY <1>5 DEF Emplace
    <2>2. \E i \in Indices : index_' = [index_ EXCEPT ![c] = i]
        BY <1>5 DEF Emplace, IndexWhenEmplaceThrows
    <2>3. c \in live /\ live' = live /\ tainted' = tainted /\ ended' \in {"no", "asserted"}
        BY <1>5 DEF Emplace
    <2> QED
        BY <2>1, <2>2, <2>3
<1>6. ASSUME NEW c \in Cells, NEW s \in Cells, ConstructFrom(c, s) PROVE TypeOK'
    BY <1>6 DEF ConstructFrom, CopiedIndex
<1>7. ASSUME NEW c \in Cells, NEW s \in Cells, ConstructFromThrows(c, s) PROVE TypeOK'
    BY <1>7 DEF ConstructFromThrows
<1>8. ASSUME NEW c \in Cells, NEW s \in Cells, Assign(c, s) PROVE TypeOK'
    <2>1. \E o \in [Alternatives -> Int] : objects' = [objects EXCEPT ![c] = o]
        BY <1>8 DEF Assign
    <2>2. \E i \in Indices : index_' = [index_ EXCEPT ![c] = i]
        BY <1>8 DEF Assign, CopiedIndex
    <2>3. c \in live /\ live' = live /\ tainted' = tainted /\ ended' \in {"no", "asserted"}
        BY <1>8 DEF Assign
    <2> QED
        BY <2>1, <2>2, <2>3
<1>9. CASE UNCHANGED vars
    BY <1>9 DEF vars
<1> QED
    BY <1>3, <1>4, <1>5, <1>6, <1>7, <1>8, <1>9 DEF Next

\* Each call that is not struck by a defect keeps index and objects in step.
LEMMA NextHonest == IInv /\ [Next]_vars => IndexTellsLifetime'
<1> SUFFICES ASSUME IInv, [Next]_vars, ~tainted' PROVE IndexTellsLifetime'
    BY DEF IndexTellsLifetime
<1>0. ~tainted /\ ended = "no" /\ \A c \in Cells : /\ index_[c] \in Alternatives \cup {npos}
                                                  /\ objects[c] = Only(index_[c])
    <2>1. ~tainted
        BY DEF Next, vars, Construct, ConstructFrom, ConstructFromThrows, Destroy, Emplace, Assign
    <2> QED
        BY <2>1 DEF IInv, TypeOK, IndexTellsLifetime, Honest, Only, Indices
<1>1. \A c \in Cells : /\ Cleared(c) = Nothing
                       /\ ClearEnds(c) = "no"
    BY <1>0, ObjectSteps, NposIsNoAlternative DEF Cleared, ClearEnds, valid, VisitAsserts
<1>2. ASSUME ended' = "no",
             \A c \in Cells : /\ index_'[c] \in Alternatives \cup {npos}
                              /\ objects'[c] = Only(index_'[c])
      PROVE  IndexTellsLifetime'
    BY <1>2, NposIsNoAlternative DEF IndexTellsLifetime, Honest, Only
<1> USE <1>0, <1>1, <1>2, ObjectSteps DEF IndexCleared, TypeOK, IInv
<1>3. ASSUME NEW c \in Cells, Destroy(c) PROVE IndexTellsLifetime'
    BY <1>3 DEF Destroy
<1>4. ASSUME NEW c \in Cells, NEW k \in Alternatives, Construct(c, k) PROVE IndexTellsLifetime'
    BY <1>4 DEF Construct
<1>5. ASSUME NEW c \in Cells, NEW k \in Alternatives, Emplace(c, k) PROVE IndexTellsLifetime'
    BY <1>5 DEF Emplace, IndexWhenEmplaceThrows
<1>6. ASSUME NEW c \in Cells, NEW s \in Cells, ConstructFrom(c, s) PROVE IndexTellsLifetime'
    BY <1>6 DEF ConstructFrom, CopiedIndex
<1>7. ASSUME NEW c \in Cells, NEW s \in Cells, ConstructFromThrows(c, s) PROVE IndexTellsLifetime'
    BY <1>7, NposIsNoAlternative DEF ConstructFromThrows, Dies
<1>8. ASSUME NEW c \in Cells, NEW s \in Cells, Assign(c, s) PROVE IndexTellsLifetime'
    <2>1. CASE /\ index_' = [index_ EXCEPT ![c] = CopiedIndex(index_[s])]
               /\ objects' = [objects EXCEPT ![c] = Born(Cleared(c), index_[s])]
               /\ valid(s)
        BY <1>8, <2>1 DEF Assign, CopiedIndex, valid
    <2>2. CASE /\ index_' = [index_ EXCEPT ![c] = IndexCleared(c)]
               /\ objects' = [objects EXCEPT ![c] = Cleared(c)]
        BY <1>8, <2>2 DEF Assign
    <2> QED
        BY <1>8, <2>1, <2>2 DEF Assign
<1>9. CASE UNCHANGED vars
    BY <1>9 DEF vars
<1> QED
    BY <1>3, <1>4, <1>5, <1>6, <1>7, <1>8, <1>9 DEF Next

LEMMA NextIInv == IInv /\ [Next]_vars => IInv'
BY NextTypes, NextHonest DEF IInv

\* index_ is an alternative, npos, or the number one past the alternatives that
\* a copy of a valueless variant computes; never anything else.
THEOREM TypesAreCorrect == Spec => []TypeOK
<1>1. Init => TypeOK
    BY InitIInv DEF IInv
<1> QED
    BY <1>1, NextTypes, PTL DEF Spec

\* The index of a variant tells which alternative lives in it, alone, and no
\* visit asserts, unless a valueless variant was copied or a copy constructor threw.
THEOREM IndexIsTruthful == Spec => []IndexTellsLifetime
<1>1. Spec => []IInv
    BY InitIInv, NextIInv, PTL DEF Spec
<1>2. IInv => IndexTellsLifetime
    BY DEF IInv
<1> QED
    BY <1>1, <1>2, PTL

\* A copied index is an alternative or one past them: copying never makes a
\* variant valueless.
LEMMA CopiesAreNotNpos == \A i \in Indices : CopiedIndex(i) # npos
BY NposIsNoAlternative DEF CopiedIndex

\* A variant loses its value only by a call on it that throws, by the assignment
\* of a valueless one, or by its assignment to itself.
THEOREM OnlyFailuresEmpty == Spec => ValuelessByFailureOnly
<1> DEFINE Loses(c) == c \in live /\ c \in live' /\ index_[c] \in Alternatives /\ index_'[c] = npos
           Told(c) == last' \in {<<"threw", c>>, <<"self", c>>, <<"emptied", c>>}
           NoLoss == \A c \in live \cap live' :
                        index_[c] \in Alternatives /\ index_'[c] = npos => Told(c)
<1>1. TypeOK /\ [Next]_vars => [NoLoss]_vars
    <2> SUFFICES ASSUME TypeOK, Next, NEW d \in Cells, Loses(d) PROVE Told(d)
        BY DEF TypeOK
    <2>0. index_'[d] # index_[d] /\ npos \notin Alternatives
        BY NposIsNoAlternative
    <2> USE <2>0 DEF TypeOK
    <2>1. ASSUME NEW c \in Cells, Destroy(c) PROVE Told(d)
        BY <2>1 DEF Destroy
    <2>2. ASSUME NEW c \in Cells, NEW k \in Alternatives, Construct(c, k) PROVE Told(d)
        BY <2>2 DEF Construct
    <2>3. ASSUME NEW c \in Cells, NEW k \in Alternatives, Emplace(c, k) PROVE Told(d)
        BY <2>3 DEF Emplace
    <2>4. ASSUME NEW c \in Cells, NEW s \in Cells, ConstructFrom(c, s) PROVE Told(d)
        BY <2>4 DEF ConstructFrom
    <2>5. ASSUME NEW c \in Cells, NEW s \in Cells, ConstructFromThrows(c, s) PROVE Told(d)
        BY <2>5 DEF ConstructFromThrows
    <2>6. ASSUME NEW c \in Cells, NEW s \in Cells, Assign(c, s) PROVE Told(d)
        <3>1. d = c
            BY <2>6 DEF Assign
        <3>2. CopiedIndex(index_[s]) # npos
            BY CopiesAreNotNpos
        <3> QED
            BY <2>6, <3>1, <3>2 DEF Assign
    <2> QED
        BY <2>1, <2>2, <2>3, <2>4, <2>5, <2>6 DEF Next
<1>2. Spec => []TypeOK
    BY TypesAreCorrect
<1> QED
    BY <1>1, <1>2, PTL DEF Spec, ValuelessByFailureOnly
=============================================================================
