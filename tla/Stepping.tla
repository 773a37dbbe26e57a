------------------------------- MODULE Stepping -------------------------------
(* The arithmetic of iterators: C++ division and ranges::advance.            *)
LOCAL INSTANCE Integers

\* division rounds towards zero, and the remainder has the sign of the dividend
Div(a, b) == IF a >= 0 THEN a \div b ELSE -((-a) \div b)
Mod(a, b) == a - b * Div(a, b)

\* advance(it, n, bound): where the iterator stops
Stop(at, n, bound) ==
  IF (n > 0 /\ bound =< at + n) \/ (n < 0 /\ at + n =< bound) THEN bound ELSE at + n
\* the same for iterators that cannot be subtracted: the first step back is
\* taken before the bound is looked at
StopBack(at, n, bound) ==
  IF at # bound /\ at + n =< bound THEN bound ELSE at + n
\* what is left of n
Rest(at, n, bound) == n - (Stop(at, n, bound) - at)

Lesser(a, b) == IF a < b THEN a ELSE b
=============================================================================
