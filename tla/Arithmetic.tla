----------------------------- MODULE Arithmetic -----------------------------
(* What Python and NumPy do with numbers. *)
EXTENDS Integers

Clamp(lo, x, hi) == IF x < lo THEN lo ELSE IF x > hi THEN hi ELSE x

Gap(a, b) == IF a > b THEN a - b ELSE b - a

(* round: the nearest integer to n / d, of two the even one *)
Rounded(n, d) ==
  LET q == n \div d
      twice == 2 * (n % d) IN
  IF twice > d \/ (twice = d /\ q % 2 = 1) THEN q + 1 ELSE q
=============================================================================
