----------------------------- MODULE MCFormula -----------------------------
(***************************************************************************)
(* ClientFormula on a few tokens of each kind.  Formula has the arithmetic *)
(* of the integers modulo 11, in which division is exact, and the older    *)
(* library that of integers of four bits, which are cut off.               *)
(***************************************************************************)
EXTENDS ClientFormula

SampleParts ==
  [n \in Name |-> CASE n = "A1B1" -> <<"A1", "B1">> [] n = "A_1" -> <<>> [] OTHER -> <<n>>]

SampleNormal == [n \in Name |-> IF n = "a1" THEN "A1" ELSE n]

\* 5 / 2 is 8 modulo 11.
SampleNumber(strict, t) ==
  CASE t = "0" -> 0 [] t = "2" -> 2 [] t = "2.5" -> 8 [] t = "1e1" -> 10 [] t = "A1" -> 3

Modulus == 11

SampleNumbers == -8..(Modulus - 1)

Wrap(x) == ((x + 8) % 16) - 8

\* Division of integers rounds towards zero.
Quotient(x, y) ==
  LET size(z) == IF z < 0 THEN -z ELSE z
      q       == size(x) \div size(y)
  IN IF (x < 0) = (y < 0) THEN q ELSE -q

SamplePlus(strict, x, y)  == IF strict THEN Wrap(x + y) ELSE (x + y) % Modulus
SampleMinus(strict, x, y) == IF strict THEN Wrap(x - y) ELSE (x - y) % Modulus
SampleTimes(strict, x, y) == IF strict THEN Wrap(x * y) ELSE (x * y) % Modulus
SampleOver(strict, x, y)  ==
  IF strict THEN Wrap(Quotient(x, y))
  ELSE CHOOSE z \in 0..(Modulus - 1) : (z * y) % Modulus = x % Modulus

=============================================================================
