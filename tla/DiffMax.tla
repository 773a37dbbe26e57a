------------------------------- MODULE DiffMax -------------------------------
(* detail::diffmax_t (iterator/diffmax_t.hpp), the difference type of an      *)
(* iota_view of 64 bit integers: a sign and a magnitude of as many bits as    *)
(* the integers have, so that the distance of any two of them can be told.    *)
(* The magnitude wraps.  What the operators compute is proved in              *)
(* PositionsProofs, for every number of bits.                                 *)
EXTENDS Integers

CONSTANT Modulus  \* 2^w of std::uintmax_t

Magnitudes == 0 .. Modulus - 1
DiffMax == [neg : BOOLEAN, val : Magnitudes]

\* no negative zero, as _check() ensures
Checked(a) == ~a.neg \/ a.val # 0
Differences == {a \in DiffMax : Checked(a)}

\* _normalize and the tagged constructor; the arithmetic of unsigned integers
Normalize(neg, val) == [neg |-> neg /\ val # 0, val |-> val]
Wrap(i) == i % Modulus

\* from an integer, and to an unsigned one
Of(i) == IF 0 > i THEN [neg |-> TRUE, val |-> Wrap(-i)] ELSE [neg |-> FALSE, val |-> Wrap(i)]
ToUnsigned(a) == IF a.neg THEN Wrap(-a.val) ELSE a.val

Less(a, b) == IF a.neg THEN b.neg => a.val > b.val ELSE ~b.neg /\ a.val < b.val
AtMost(a, b) == ~Less(b, a)

Negative(a) == Normalize(~a.neg, a.val)

Plus(a, b) ==
  IF a.neg = b.neg THEN Normalize(a.neg, Wrap(a.val + b.val))
  ELSE IF a.neg
  THEN IF a.val > b.val THEN Normalize(TRUE, a.val - b.val) ELSE Normalize(FALSE, b.val - a.val)
  ELSE IF b.val > a.val THEN Normalize(TRUE, b.val - a.val) ELSE Normalize(FALSE, a.val - b.val)

Minus(a, b) == Plus(a, Negative(b))

\* The sign is taken from the magnitude after the step.
Increment(a) ==
  LET val == Wrap(IF a.neg THEN a.val - 1 ELSE a.val + 1) IN [neg |-> val # 0 /\ a.neg, val |-> val]
Decrement(a) ==
  LET val == Wrap(IF a.neg THEN a.val + 1 ELSE a.val - 1) IN [neg |-> val # 0 /\ a.neg, val |-> val]

------------------------------------------------------------------------------
\* the integer a difference stands for
Value(a) == IF a.neg THEN -a.val ELSE a.val
InRange(i) == i > -Modulus /\ i < Modulus
==============================================================================
