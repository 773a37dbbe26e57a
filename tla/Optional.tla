------------------------------ MODULE Optional ------------------------------
(***************************************************************************)
(* optional<T> of utility/optional.hpp for a T with non-trivial lifetime   *)
(* whose constructors and assignments may throw.  The value lives in a     *)
(* union: nothing but the flag engaged_ says whether an object is there,   *)
(* and every operation has to keep the two in step on each of its exits.   *)
(* A call is one step, with one outcome for each place where T may throw.  *)
(* semiregular_box<T> of utility/semiregular_box.hpp is the same storage   *)
(* with fewer operations, made for a T that may not be assignable.         *)
(***************************************************************************)
EXTENDS Integers

CONSTANTS Optionals,    \* places an optional can be constructed in,
          Boxes,        \* or a semiregular_box
          Values,       \* values a caller can put into an optional
          Unspecified,  \* a live T moved from, or whose assignment threw
          Dead,         \* storage without an object
          none, absent  \* of the abstract specification: empty; no optional there

ASSUME OptionalAssumption ==
    /\ {Unspecified, Dead, none, absent} \cap Values = {}
    /\ Unspecified # Dead /\ Unspecified # none /\ Unspecified # absent /\ none # absent

Cells == Optionals \cup Boxes
Alike(c, s) == {c, s} \subseteq Optionals \/ {c, s} \subseteq Boxes

VARIABLES
    live, \* the cells in which an optional or a box currently exists
    opt,  \* their storage: the flag, the bytes, and - not in the program - how
          \* many objects T are alive in it
    call  \* not in the program: the call last made, "fail" when it threw

vars == <<live, opt, call>>

Hows == {"copy", "move"}

Disengaged == [engaged_ |-> FALSE, data_ |-> Dead, objects |-> 0]

Init == live = {} /\ opt = [c \in Cells |-> Disengaged] /\ call = <<"none">>

Threw(c, s) == call' = <<"fail", c, s>>

-----------------------------------------------------------------------------
\* The parts every operation is built from.

\* optional_storage::reset.  Mutant: the flag stays up.
Reset_KeepFlag(x) == IF x.engaged_
                     THEN [x EXCEPT !.data_ = Dead, !.objects = @ - 1]
                     ELSE x
Reset(x) == IF x.engaged_
            THEN [engaged_ |-> FALSE, data_ |-> Dead, objects |-> x.objects - 1]
            ELSE x

\* construct_from: placement new, then the flag.
ConstructFrom(x, v) == [engaged_ |-> TRUE, data_ |-> v, objects |-> x.objects + 1]

\* data_ = v
Assigned(x, v) == [x EXCEPT !.data_ = v]

\* What T leaves of an argument it copied or moved from ...
Used(how, x) == IF how = "move" THEN Assigned(x, Unspecified) ELSE x

\* ... and of one it threw on.
ThrewOn(how, x) == {x, Used(how, x)}

-----------------------------------------------------------------------------
\* Constructors.  When T's throws the optional has never existed.

Construct(c) == /\ c \notin live
                /\ live' = live \cup {c}
                /\ opt' = [opt EXCEPT ![c] = Disengaged]
                /\ call' = <<"create", c>>

ConstructInPlace(c, v) ==
    /\ c \notin live
    /\ \/ /\ live' = live \cup {c}
          /\ opt' = [opt EXCEPT ![c] = ConstructFrom(Disengaged, v)]
          /\ call' = <<"put", c, v>>
       \/ UNCHANGED <<live, opt>> /\ Threw(c, c)

ConstructFromOther(c, s, how) ==
    /\ c \notin live /\ s \in live /\ Alike(c, s)
    /\ \/ /\ ~opt[s].engaged_
          /\ live' = live \cup {c}
          /\ opt' = [opt EXCEPT ![c] = Disengaged]
          /\ call' = <<how, c, s>>
       \/ /\ opt[s].engaged_
          /\ live' = live \cup {c}
          /\ opt' = [opt EXCEPT ![c] = ConstructFrom(Disengaged, opt[s].data_),
                                ![s] = Used(how, @)]
          /\ call' = <<how, c, s>>
       \/ /\ opt[s].engaged_
          /\ \E y \in ThrewOn(how, opt[s]) : opt' = [opt EXCEPT ![s] = y]
          /\ UNCHANGED live
          /\ Threw(c, s)

Destroy(c) == /\ c \in live
              /\ live' = live \ {c}
              /\ opt' = [opt EXCEPT ![c] = Reset(@)]
              /\ call' = <<"discard", c>>

-----------------------------------------------------------------------------
\* Modifiers.

\* reset, operator=(nullopt_t)
ResetOp(c) == /\ c \in live \cap Optionals
              /\ opt' = [opt EXCEPT ![c] = Reset(@)]
              /\ call' = <<"clear", c>>
              /\ UNCHANGED live

\* emplace, emplace_deref: reset(), then construct.  Mutant: no reset().
Emptied_Not(x) == x
Emptied(x) == Reset(x)

Emplace(c, v) == /\ c \in live \cap Optionals
                 /\ \/ /\ opt' = [opt EXCEPT ![c] = ConstructFrom(Emptied(@), v)]
                       /\ call' = <<"put", c, v>>
                    \/ opt' = [opt EXCEPT ![c] = Emptied(@)] /\ Threw(c, c)
                 /\ UNCHANGED live

\* operator=(U &&)
AssignValue(c, v) ==
    /\ c \in live \cap Optionals
    /\ \/ /\ opt[c].engaged_
          /\ opt' = [opt EXCEPT ![c] = Assigned(@, v)]
          /\ call' = <<"put", c, v>>
       \/ /\ opt[c].engaged_
          /\ opt' = [opt EXCEPT ![c] = Assigned(@, Unspecified)]
          /\ Threw(c, c)
       \/ /\ ~opt[c].engaged_
          /\ opt' = [opt EXCEPT ![c] = ConstructFrom(@, v)]
          /\ call' = <<"put", c, v>>
       \/ ~opt[c].engaged_ /\ UNCHANGED opt /\ Threw(c, c)
    /\ UNCHANGED live

\* assign_from, of copy and move assignment (a T moved to itself is left out),
\* and the same cases in the assignments of a box whose T can be assigned.
AssignFrom(c, s, how) ==
    /\ {c, s} \subseteq live /\ (how = "move" => c # s)
    /\ Alike(c, s)
    /\ \/ /\ ~opt[s].engaged_
          /\ opt' = [opt EXCEPT ![c] = Reset(@)]
          /\ call' = <<how, c, s>>
       \/ /\ opt[s].engaged_ /\ opt[c].engaged_
          /\ opt' = [opt EXCEPT ![s] = Used(how, @), ![c] = Assigned(@, opt[s].data_)]
          /\ call' = <<how, c, s>>
       \/ /\ opt[s].engaged_ /\ opt[c].engaged_
          /\ \E y \in ThrewOn(how, opt[s]) :
                 opt' = [opt EXCEPT ![s] = y, ![c] = Assigned(@, Unspecified)]
          /\ Threw(c, s)
       \/ /\ opt[s].engaged_ /\ ~opt[c].engaged_
          /\ opt' = [opt EXCEPT ![s] = Used(how, @), ![c] = ConstructFrom(@, opt[s].data_)]
          /\ call' = <<how, c, s>>
       \/ /\ opt[s].engaged_ /\ ~opt[c].engaged_
          /\ \E y \in ThrewOn(how, opt[s]) : opt' = [opt EXCEPT ![s] = y]
          /\ Threw(c, s)
    /\ UNCHANGED live

\* Move assignment of a box whose T cannot: the old value is destroyed before
\* the new one is built.
Rebuild(c, s) ==
    /\ {c, s} \subseteq live \cap Boxes /\ c # s
    /\ \/ /\ ~opt[s].engaged_
          /\ opt' = [opt EXCEPT ![c] = Reset(@)]
          /\ call' = <<"move", c, s>>
       \/ /\ opt[s].engaged_
          /\ opt' = [opt EXCEPT ![s] = Used("move", @),
                                ![c] = ConstructFrom(Reset(@), opt[s].data_)]
          /\ call' = <<"move", c, s>>
       \/ /\ opt[s].engaged_
          /\ \E y \in ThrewOn("move", opt[s]) :
                 opt' = [opt EXCEPT ![s] = y, ![c] = Reset(@)]
          /\ Threw(c, s)
    /\ UNCHANGED live

\* What a ranges::swap of two engaged values that throws leaves: it moves x to a
\* temporary, assigns y to x, then the temporary to y.
SwapDebris(x, y) ==
    LET gone(z) == Assigned(z, Unspecified)
    IN  ({x, gone(x)} \X {y}) \cup ({gone(x)} \X {y, gone(y)})
        \cup {<<Assigned(x, y.data_), gone(y)>>}

\* What the engaged side of a swap with an empty one is left with.
\* Mutant: it is moved from but not reset.
GivenAway_NotReset(x) == Used("move", x)
GivenAway(x) == Reset(Used("move", x))

\* swap_ for a T that is not trivial; c is the engaged one when only one is.
Swap(c, s) ==
    /\ {c, s} \subseteq live \cap Optionals /\ c # s
    /\ \/ /\ opt[c].engaged_ /\ opt[s].engaged_
          /\ opt' = [opt EXCEPT ![c] = Assigned(@, opt[s].data_), ![s] = Assigned(@, opt[c].data_)]
          /\ call' = <<"swap", c, s>>
       \/ /\ opt[c].engaged_ /\ opt[s].engaged_
          /\ \E p \in SwapDebris(opt[c], opt[s]) : opt' = [opt EXCEPT ![c] = p[1], ![s] = p[2]]
          /\ Threw(c, s)
       \/ ~opt[c].engaged_ /\ ~opt[s].engaged_ /\ UNCHANGED opt /\ call' = <<"swap", c, s>>
       \/ /\ opt[c].engaged_ /\ ~opt[s].engaged_
          /\ opt' = [opt EXCEPT ![s] = ConstructFrom(@, opt[c].data_), ![c] = GivenAway(@)]
          /\ call' = <<"swap", c, s>>
       \/ /\ opt[c].engaged_ /\ ~opt[s].engaged_
          /\ \E y \in ThrewOn("move", opt[c]) : opt' = [opt EXCEPT ![c] = y]
          /\ Threw(c, s)
    /\ UNCHANGED live

Next == \E c \in Cells :
          \/ Construct(c) \/ Destroy(c) \/ ResetOp(c)
          \/ \E v \in Values : ConstructInPlace(c, v) \/ Emplace(c, v) \/ AssignValue(c, v)
          \/ \E s \in Cells :
                \/ \E how \in Hows : ConstructFromOther(c, s, how) \/ AssignFrom(c, s, how)
                \/ Swap(c, s) \/ Rebuild(c, s)

Spec == Init /\ [][Next]_vars

-----------------------------------------------------------------------------
\* Each storage has its parts.
TypeOK ==
    /\ live \subseteq Cells
    /\ opt \in [Cells -> [engaged_ : BOOLEAN, data_ : Values \cup {Unspecified, Dead}, objects : {0, 1}]]

\* The flag never lies: an engaged optional holds exactly one live object, a
\* disengaged or destroyed one none, whichever call threw at whichever point.
\* So no value is read, assigned or destroyed twice, and none is leaked
\* (optional.hpp:110-113, 159-166, 219-281, 622-663, semiregular_box.hpp:71-98).
FlagTellsLifetime ==
    \A c \in Cells : /\ opt[c].objects = (IF opt[c].engaged_ THEN 1 ELSE 0)
                     /\ opt[c].engaged_ <=> opt[c].data_ # Dead
                     /\ opt[c].engaged_ => c \in live

\* The three-way case distinctions of assign_from and swap_, the layers of
\* constructors, and every exit by an exception amount to the operations of
\* MaybeValue: assignment transfers, swap exchanges, a failure fabricates nothing.
Held == [c \in Cells |-> IF c \notin live THEN absent
                         ELSE IF opt[c].engaged_ THEN opt[c].data_ ELSE none]

Maybe == INSTANCE MaybeValue WITH val <- Held

HoldsValues == Maybe!Spec
=============================================================================
