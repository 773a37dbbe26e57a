----------------------------- MODULE PriorityQueue -----------------------------
(* What the heap algorithms promise: a set of elements of which only the      *)
(* greatest is taken out.  Elements with equal keys may leave in any order.   *)
EXTENDS Integers

VARIABLES key,   \* of every element there is
          queue  \* the elements in it

queueVars == <<key, queue>>

Elements == DOMAIN key
Greatest(e) == e \in queue /\ \A f \in queue : key[f] =< key[e]

Init == queue = {}

Insert == \E e \in Elements \ queue : queue' = queue \cup {e}
Extract == \E e \in queue : Greatest(e) /\ queue' = queue \ {e}
\* the greatest leaves for a lesser one
Replace == \E e \in queue, f \in Elements \ queue :
             Greatest(e) /\ key[f] < key[e] /\ queue' = (queue \ {e}) \cup {f}
Clear == queue' = {}
Fill == queue = {} /\ queue' \in SUBSET Elements

Next == UNCHANGED key /\ (Insert \/ Extract \/ Replace \/ Clear \/ Fill)

Spec == Init /\ [][Next]_queueVars
=============================================================================
