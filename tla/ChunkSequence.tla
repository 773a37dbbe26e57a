--------------------------- MODULE ChunkSequence ---------------------------
(***************************************************************************)
(* What views::chunk promises of one traversal of a single-pass base: the  *)
(* len elements are cut into consecutive intervals that end at hi, the     *)
(* consumer stands at element at of the current one, takes the elements in *)
(* order, and may abandon an interval at any point, which skips exactly    *)
(* its tail.  Every interval but the first has n_ elements, or all that    *)
(* are left.  The head of the first is left open: a copied view may start  *)
(* with a short one (see ChunkInput).                                      *)
(***************************************************************************)
EXTENDS Integers

CONSTANTS Lengths, ChunkSizes

VARIABLES len, n_, at, hi, past

cvars == <<len, n_, at, hi, past>>

Lesser(a, b) == IF a <= b THEN a ELSE b

NotStarted == at = -1 /\ hi = -1 /\ past = FALSE

Init == len \in Lengths /\ n_ \in ChunkSizes /\ NotStarted

Start(head) == /\ at = -1
               /\ at' = 0
               /\ hi' = Lesser(head, len)
               /\ past' = (len = 0 /\ head # 0)
               /\ UNCHANGED <<len, n_>>

Take == /\ at # -1 /\ ~past /\ at < hi
        /\ at' = at + 1
        /\ UNCHANGED <<len, n_, hi, past>>

NextChunk == /\ at # -1 /\ ~past
             /\ at' = hi
             /\ hi' = Lesser(hi + n_, len)
             /\ past' = (hi = len)
             /\ UNCHANGED <<len, n_>>

Abandon == at # -1 /\ at' = -1 /\ hi' = -1 /\ past' = FALSE /\ UNCHANGED <<len, n_>>

Next == Take \/ NextChunk \/ Abandon \/ \E head \in 0 .. n_ : Start(head)

Spec == Init /\ [][Next]_cvars
=============================================================================
