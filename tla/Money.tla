------------------------------- MODULE Money -------------------------------
(***************************************************************************)
(* Whole cents out of exact fractions: pricing_core/money.py and the       *)
(* rounding of controller.py.  A fraction is given as numerator and        *)
(* positive denominator.                                                   *)
(***************************************************************************)
EXTENDS Integers

\* Slips: rounded towards zero; rounded up.
HalfEven_Down(n, d) == n \div d

HalfEven_Up(n, d) == (n + d - 1) \div d

\* To the nearest integer, a tie to the even one.
HalfEven(n, d) ==
  LET q == n \div d
      r == n % d
  IN IF 2 * r < d THEN q
     ELSE IF 2 * r > d THEN q + 1
     ELSE q + (q % 2)

\* Slip: rounded to the nearest cent.
Ceil_Nearest(n, d) == HalfEven(n, d)

\* The smallest integer that is not below the fraction.
Ceil(n, d) == (n + d - 1) \div d

\* Slip: the floor of a quote forgotten.
AtLeast_Not(cents, reserve) == cents

\* A quote is never below the reserve.
AtLeast(cents, reserve) == IF cents < reserve THEN reserve ELSE cents

Clamp(v, lo, hi) ==
  IF hi < lo \/ v < lo THEN lo ELSE IF v > hi THEN hi ELSE v
=============================================================================
