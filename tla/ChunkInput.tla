----------------------------- MODULE ChunkInput -----------------------------
(***************************************************************************)
(* chunk_view over a single-pass range (view/chunk.hpp): one base          *)
(* iterator, kept in the view, is moved by two kinds of cursor - the       *)
(* outer one, which steps from chunk to chunk, and the inner one of the    *)
(* chunk in hand - and the view counts in remainder_ what is left of that  *)
(* chunk.  An element is its position 0 .. len-1 in the base; position len *)
(* is the base's sentinel.                                                 *)
(***************************************************************************)
EXTENDS Integers

CONSTANTS Lengths,    \* lengths the base may have
          ChunkSizes, \* values of the chunk size n
          MaxCopies   \* bound: how often the view is copied or moved

ASSUME ChunkAssumption ==
    /\ Lengths \subseteq Nat
    /\ ChunkSizes \subseteq Nat \ {0}   \* EARANGES_EXPECT(0 < n)
    /\ MaxCopies \in Nat

VARIABLES
    len,        \* elements of base_ (never changes)
    n_,         \* chunk size (never changes)
    it_cache_,  \* the base iterator, or nullopt
    remainder_, \* elements of the current chunk still to be taken
    cursor,     \* what the consumer holds: nothing, an outer cursor, or also
                \* the inner view read from it
    copies

chunkvars == <<len, n_, it_cache_, remainder_, cursor, copies>>

nullopt == -1

Lesser(a, b) == IF a <= b THEN a ELSE b

ChunkInit ==
        /\ len \in Lengths
        /\ n_ \in ChunkSizes
        /\ it_cache_ = nullopt
        /\ remainder_ = n_
        /\ cursor = "none"
        /\ copies = 0

-----------------------------------------------------------------------------
\* The tests of the cursors.  end(base_) is len.

InnerDone == remainder_ = 0

OuterDone == it_cache_ = len /\ remainder_ # 0

\* inner_view::distance_to: the size the chunk in hand reports.
InnerDistance == Lesser(len - it_cache_, remainder_)

\* The chunks that d elements beyond the chunk in hand make, the last one partial.
\* Mutant: the partial last chunk forgotten.
ChunksIn_RoundedDown(d) == d \div n_
ChunksIn(d) == (d + n_ - 1) \div n_

\* outer_cursor::distance_to: the number of chunks it reports up to the end.
OuterDistance ==
    LET d == len - it_cache_
    IN  IF d < remainder_
        THEN 1
        ELSE ChunksIn(d - remainder_) + (IF remainder_ # 0 THEN 1 ELSE 0)

\* chunk_view_::size.
Size == len \div n_ + (IF len % n_ # 0 THEN 1 ELSE 0)

-----------------------------------------------------------------------------
\* begin() restarts the base and caches its iterator; remainder_ is not touched.
BeginCursor == /\ cursor = "none"
               /\ it_cache_' = 0
               /\ cursor' = "outer"
               /\ UNCHANGED <<len, n_, remainder_, copies>>

OuterRead == /\ cursor = "outer"
             /\ ~OuterDone
             /\ cursor' = "inner"
             /\ UNCHANGED <<len, n_, it_cache_, remainder_, copies>>

\* What ++ of the chunk's iterator leaves in remainder_: a chunk that the base
\* cuts short is over at once.
\* Mutant: the base's end is not looked at.
RemainderAfterTake_NoEndTest == remainder_ - 1
RemainderAfterTake == IF remainder_ - 1 # 0 /\ it_cache_ + 1 = len
                      THEN 0
                      ELSE remainder_ - 1

InnerNext == /\ cursor = "inner"
             /\ ~InnerDone
             /\ it_cache_' = it_cache_ + 1
             /\ remainder_' = RemainderAfterTake
             /\ UNCHANGED <<len, n_, cursor, copies>>

\* advance(it, remainder_, end): over what is left of the chunk, not past the end.
\* Mutant: advance without the bound.
Advanced_Unbounded == it_cache_ + remainder_
Advanced == Lesser(it_cache_ + remainder_, len)

\* The new chunk's quota.  Mutant: remainder_ is left as it was.
NewRemainder_Kept == remainder_
NewRemainder == n_

\* ++ of the outer iterator, whatever the inner view has or has not taken.  It
\* invalidates the inner view.
OuterNext == /\ cursor # "none"
             /\ ~OuterDone
             /\ it_cache_' = Advanced
             /\ remainder_' = NewRemainder
             /\ cursor' = "outer"
             /\ UNCHANGED <<len, n_, copies>>

\* The consumer goes on with a copy of (or what was move-constructed from) the
\* view: base_, n_ and remainder_ are copied, non_propagating_cache is not.
CopyView == /\ copies < MaxCopies
            /\ it_cache_' = nullopt
            /\ cursor' = "none"
            /\ copies' = copies + 1
            /\ UNCHANGED <<len, n_, remainder_>>

ChunkNext == BeginCursor \/ OuterRead \/ InnerNext \/ OuterNext \/ CopyView

ChunkSpec == ChunkInit /\ [][ChunkNext]_chunkvars

\* for(auto chunk : rng): whoever runs the loop keeps incrementing the outer
\* iterator until it compares equal to the end.
LoopSpec == ChunkSpec /\ WF_chunkvars(OuterNext)

-----------------------------------------------------------------------------
\* Each variable has its type: the iterator stays within the base, the
\* remainder within a chunk, and it_cache_ is engaged exactly when a cursor is held.
ChunkTypeOK ==
          /\ len \in Lengths
          /\ n_ \in ChunkSizes
          /\ it_cache_ \in {nullopt} \cup 0 .. len
          /\ remainder_ \in 0 .. n_
          /\ cursor \in {"none", "outer", "inner"}
          /\ copies \in 0 .. MaxCopies
          /\ cursor = "none" <=> it_cache_ = nullopt

\* A chunk's iterator that does not compare equal to its end can be
\* dereferenced: done() looks only at remainder_, never at the base, so this
\* rests on next() zeroing remainder_ when the base runs out, and on the outer
\* cursor having refused to hand out a chunk at the end (chunk.hpp:265-291, 323-332).
InnerReadsInBounds == cursor = "inner" /\ ~InnerDone => it_cache_ < len

\* The ++ of the outer iterator it takes to reach the end from a chunk border.
StepsToDone ==
    LET From[p \in 0 .. len] == IF p = len THEN 0 ELSE 1 + From[Lesser(p + n_, len)]
    IN  IF OuterDone THEN 0 ELSE 1 + From[Lesser(it_cache_ + remainder_, len)]

\* What end - i says beside the number of ++i that lead to the end.  At the end it
\* says one more: the early return of 1 asks only whether the base holds less than
\* the rest of a chunk, so an empty base has a distance of 1 and a size of 0, where
\* test/view/chunk.cpp:47 expects (N + K - 1) / K of both.  From a chunk that was read
\* to its end it says one less: the ++ that leaves such a chunk is not counted, and
\* the distance from a used-up last chunk to the end is 0.
Misreported == CASE OuterDone -> 1
                 [] remainder_ = 0 -> -1
                 [] OTHER -> 0

\* In every state end - i is the number of ++i that lead to the end, but for the two
\* cases above: for partial last chunks, abandoned ones and short first ones too
\* (chunk.hpp:344-356).  size() is the number of ++ of a whole traversal, and one
\* less at most when a copy begins in mid-chunk (chunk.hpp:364-369).
DistanceCountsSteps ==
    /\ cursor # "none" => OuterDistance = StepsToDone + Misreported
    /\ it_cache_ = 0 => StepsToDone - Size \in (IF remainder_ = n_ THEN {0} ELSE {0, 1})

\* "each inner range has $n$ elements. The last range may have fewer"
\* (chunk.hpp:414-416): a chunk just reached holds n elements or all that is left.
\* The first chunk of a view copied in mid-chunk does not.
ChunkIsWhole == cursor = "outer" => InnerDistance = Lesser(n_, len - it_cache_)

\* The traversal is a traversal of consecutive intervals: no element is in two
\* chunks, none is skipped but the tail of a chunk the consumer abandons, and
\* every chunk after the first is whole.
ChunkEnd == IF it_cache_ = nullopt THEN nullopt ELSE Lesser(it_cache_ + remainder_, len)

Chunks == INSTANCE ChunkSequence WITH at <- it_cache_, hi <- ChunkEnd, past <- OuterDone

Partition == Chunks!Spec

\* A loop that only increments the outer iterator ends, whatever is left
\* unread in each chunk and wherever the view was copied.
LoopTerminates == cursor # "none" ~> (OuterDone \/ cursor = "none")

=============================================================================
