------------------------------- MODULE Decimals -------------------------------
(***************************************************************************)
(* Decimal arithmetic as the code does it, on integers: the division by a  *)
(* power of ten that quantizes an amount.                                  *)
(***************************************************************************)
EXTENDS Integers

Magnitude(n) == IF n < 0 THEN -n ELSE n

\* The integer nearest to a/b, a tie away from zero: ROUND_HALF_UP, and what
\* the database does to a value with more decimals than its column.
HalfUp(a, b) ==
  LET d == Magnitude(b)  n == Magnitude(a)  q == (2 * n + d) \div (2 * d)
  IN IF (a < 0) = (b < 0) THEN q ELSE -q

\* A tie goes to the even one: quantize without a rounding, of a divisor b > 0.
HalfEven(a, b) == LET q == a \div b  r == 2 * (a % b)
                  IN IF r > b \/ (r = b /\ q % 2 = 1) THEN q + 1 ELSE q
=============================================================================
