------------------------------ MODULE Traversal ------------------------------
(* What a bidirectional view promises of an iterator into it: it starts at    *)
(* the first element or at the end, moves by one element of the view at a     *)
(* time and never leaves it.  An iterator in hand moves in no other way.      *)
(* Elements are named by where they lie in the order of traversal.            *)
EXTENDS Integers

CONSTANT NoElement   \* no iterator is in hand

VARIABLES elems,     \* the elements of the view the iterator walks over
          end,       \* the place after the last of them
          here       \* where the iterator is

vars == <<elems, end, here>>

Places == elems \cup {end}
Follows(q, p) == q \in Places /\ q > p /\ \A r \in Places : r > p => r >= q
Precedes(q, p) == q \in Places /\ q < p /\ \A r \in Places : r < p => r =< q
IsFirst(p) == p \in Places /\ \A r \in Places : r >= p

Init == here = NoElement

\* an iterator to the first element of a view, or the end of an empty one, where
\* none was in hand
Begin == /\ here = NoElement
         /\ IsFirst(here)'
         /\ \A e \in elems' : e < end'

\* likewise to its end
End == /\ here = NoElement
       /\ (here = end)'
       /\ \A e \in elems' : e < end'

Next == /\ here \in elems
        /\ Follows(here', here)
        /\ UNCHANGED <<elems, end>>

Prev == /\ here # NoElement
        /\ Precedes(here', here)
        /\ UNCHANGED <<elems, end>>

\* the iterator was given up, or its view assigned to or moved from
Invalidate == here' = NoElement

Spec == Init /\ [][Begin \/ End \/ Next \/ Prev \/ Invalidate]_vars
=============================================================================
