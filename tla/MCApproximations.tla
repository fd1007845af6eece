-------------------------- MODULE MCApproximations --------------------------
(* A small instance of Approximations for TLC. *)
EXTENDS Approximations

\* Numbers with eight digits, from 1/2 to 1.
RandomNumbers == {Random(Dyadic(2 * n + 1, -8)) : n \in 64 .. 127}
SomeRandom == {Random(Dyadic(n, -8)) : n \in {17, 37, 127, 161, 219, 255}}

\* Numbers that are close to each other, and to targets.
CloseNumbers == {Random(Dyadic(n, -8)) : n \in {95, 97}} \cup {Rational(3, 8)}

SomeIntegers == {Rational(n, 1) : n \in {19, 20, 21, 22}}

MCNumber ==
  RandomNumbers \cup CloseNumbers
  \cup {Rational(n, 1) : n \in {0, 5}} \cup SomeIntegers \cup {Rational(1, 3), Rational(-5, 7)}
  \cup {Constrained(m, e, r) : m \in {-3, -1, 0, 5}, e \in {-1, 2}, r \in SomeRandom}
  \cup {Product(<<r, s>>) : r \in SomeRandom, s \in SomeRandom}

MCTarget ==
  {Real(r) : r \in SomeRandom \cup SomeIntegers \cup CloseNumbers}
  \cup {Arf(Dyadic(n, -3)) : n \in {3, 4, 148}} \cup {Mpz(22)}
  \cup {Mpq(1, 3), Mpq(16, 3)}

MCPrecision == {1, 2, 3, 5}

\* The example in the documentation of RealNumber::arb.
OneThird == {Rational(1, 3)}
Three == {3}

\* A product a^4 * b with factors of which all digits after the ninth are ones,
\* so that all of its errors are as large as they get and add up.
FourthPower == LET a == Random(Dyadic(4127, -13)) IN {Product(<<a, a, a, a, Random(Dyadic(7535, -13))>>)}
Four == {4}

\* Rational numbers and a neighbouring integer.
TwentyTwo == {Mpz(22)}
=============================================================================
