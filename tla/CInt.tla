-------------------------------- MODULE CInt --------------------------------
(* Integer operations of C that differ from those of TLA+.                   *)
EXTENDS Integers

Sign(s) == IF s > 0 THEN 1 ELSE -1
Abs(x) == IF x < 0 THEN -x ELSE x

\* C's division and remainder truncate.
Quot(x, y) == IF (x < 0) = (y < 0) THEN Abs(x) \div Abs(y) ELSE -(Abs(x) \div Abs(y))
Rem(x, y) == x - y * Quot(x, y)
=============================================================================
