------------------------------- MODULE CDivision -------------------------------
(* Division of integers in C and C++ by a positive b: it rounds towards zero. *)
EXTENDS Integers

CDiv(a, b) == IF a >= 0 THEN a \div b ELSE (a + b - 1) \div b

CMod(a, b) == a - b * CDiv(a, b)

=============================================================================
