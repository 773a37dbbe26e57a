-------------------------------- MODULE SplitView --------------------------------
(* split_view (view/split.hpp).  Over a forward range the outer iterator is a *)
(* place in the base, and a piece is read by inner iterators of its own; over *)
(* a single-pass range the place is in the view, and the piece in hand moves  *)
(* it on behind the outer iterator's back.                                    *)
EXTENDS Integers, Sequences, FiniteSetsExt

Keys == {"x", "y"}
Words(max) == UNION { [1 .. n -> Keys] : n \in 0 .. max }
\* curr: the shared place; incremented and read: of the piece in hand
Fresh(max) ==
  [base : Words(max), pattern : Words(2), input : {FALSE}] \cup
  [base : Words(max), pattern : Words(1), input : {TRUE},
   curr : {1}, incremented : {FALSE}, read : {0}]

Last(v) == Len(v.base) + 1
\* ranges::mismatch runs to the end of the pattern
Matches(v, i) ==
  /\ i + Len(v.pattern) =< Last(v)
  /\ \A k \in 1 .. Len(v.pattern) : v.base[i + k - 1] = v.pattern[k]
\* ++ of the outer iterator: behind the next delimiter
Behind(v, i) ==
  IF i = Last(v) THEN i
  ELSE IF v.pattern = <<>> THEN i + 1
  ELSE LET found == { j \in i .. Last(v) - 1 : Matches(v, j) }
       IN IF found = {} THEN Last(v) ELSE Min(found) + Len(v.pattern)
\* done_() of an inner iterator
Done(v, i, incremented) ==
  i = Last(v) \/ (IF v.pattern = <<>> THEN incremented ELSE Matches(v, i))

\* of a forward range
Begin(v) == [it |-> 1]
End(v) == [it |-> Last(v)]
Next(v, c) == IF v.input THEN c ELSE [it |-> Behind(v, c.it)]
Equal(c, d) == c.it = d.it
Piece(v, from) ==
  LET stop == Min({ j \in from .. Last(v) : Done(v, j, j # from) })
  IN [k \in 1 .. stop - from |-> from + k - 1]

\* of a single-pass range
AfterBegin(v) == IF v.input THEN [v EXCEPT !.curr = 1, !.incremented = FALSE, !.read = 0] ELSE v
AfterNext(v, c) ==
  IF v.input THEN [v EXCEPT !.curr = Behind(v, v.curr), !.incremented = FALSE, !.read = 0] ELSE v
\* ++ of the piece in hand
MayRead(v) == v.input /\ ~Done(v, v.curr, v.incremented)
AfterRead(v) ==
  [v EXCEPT !.incremented = TRUE, !.read = @ + 1,
            !.curr = IF v.pattern = <<>> THEN @ ELSE @ + 1]

AtEnd(v, c) == (IF v.input THEN v.curr ELSE c.it) = Last(v)
\* the whole piece, or what the piece in hand reads next
Read(v, c) ==
  IF ~v.input THEN Piece(v, c.it)
  ELSE IF Done(v, v.curr, v.incremented) THEN <<>> ELSE <<v.curr>>

\* doc/index.md: split "using the delimiter specifier to find the boundaries";
\* no piece begins behind the last element
Pieces(v) ==
  LET rest[i \in 1 .. Last(v)] ==
        LET found == { j \in i .. Last(v) - 1 : Matches(v, j) }
            stop == IF v.pattern = <<>> THEN i + 1
                    ELSE IF found = {} THEN Last(v) ELSE Min(found)
            next == IF found = {} THEN Last(v) ELSE stop + Len(v.pattern)
        IN IF i = Last(v) THEN <<>>
           ELSE <<[k \in 1 .. stop - i |-> i + k - 1]>> \o rest[next]
  IN rest[1]
Size(v) == Len(Pieces(v))
Element(v, k) ==
  LET piece == Pieces(v)[k + 1]
  IN IF ~v.input THEN piece ELSE SubSeq(piece, v.read + 1, IF v.read < Len(piece) THEN v.read + 1 ELSE v.read)
=============================================================================
