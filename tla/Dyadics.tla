------------------------------ MODULE Dyadics ------------------------------
(***************************************************************************)
(* Floating point numbers of arbitrary size and the roundings of them that *)
(* the library asks its ball arithmetic for (class Arf): m * 2^e with an   *)
(* odd mantissa m, or zero.                                                *)
(***************************************************************************)
EXTENDS Naturals, Integers

Abs(n) == IF n < 0 THEN -n ELSE n

\* Powers of two.
Squared[n \in Nat] == n * n
Power[k \in Nat] == IF k = 0 THEN 1 ELSE (1 + (k % 2)) * Squared[Power[k \div 2]]

\* The number of binary digits of an integer.
Width[n \in Nat] == IF n = 0 THEN 0 ELSE Width[n \div 2] + 1
Bits(n) == Width[Abs(n)]

Binary == [m : Int, e : Int]

\* How often two divides a positive number.
Zeros[n \in Nat \ {0}] == IF n % 2 = 1 THEN 0 ELSE Zeros[n \div 2] + 1

\* m * 2^e with an odd mantissa.
Normalized[a \in Binary] ==
  IF a.m = 0 THEN [m |-> 0, e |-> 0]
  ELSE LET k == Zeros[Abs(a.m)] IN [m |-> a.m \div Power[k], e |-> a.e + k]
Dyadic(m, e) == Normalized[[m |-> m, e |-> e]]

\* The numbers that have been brought to this form: an odd mantissa, or zero.
Normal(a) == a \in Binary /\ (a.m % 2 = 1 \/ (a.m = 0 /\ a.e = 0))

Int2Dyadic(n) == Dyadic(n, 0)

\* a and b as multiples of a common power of two.
CommonExponent(a, b) == IF a.e < b.e THEN a.e ELSE b.e
Times2(a, e) == a.m * Power[a.e - e]

Total[p \in Binary \X Binary] ==
  LET e == CommonExponent(p[1], p[2]) IN Dyadic(Times2(p[1], e) + Times2(p[2], e), e)
DPlus(a, b) == Total[<<a, b>>]
DNeg(a) == [a EXCEPT !.m = - @]
DMinus(a, b) == DPlus(a, DNeg(b))
DTimes(a, b) == Dyadic(a.m * b.m, a.e + b.e)
DAbs(a) == [a EXCEPT !.m = Abs(@)]
DShift(a, k) == IF a.m = 0 THEN a ELSE [a EXCEPT !.e = @ + k]
DLess(a, b) == DMinus(a, b).m < 0
DLeq(a, b) == DMinus(a, b).m <= 0

\* The exponent of a, as in arf_t: |a| is in [2^(Exponent2 - 1), 2^Exponent2).
Exponent2(a) == a.e + Bits(a.m)

\* The rounding of a quotient n/d of integers, d > 0, to an integer.
Down(n, d) == n \div d
Up(n, d) == - ((- n) \div d)
Nearest(n, d) ==
  LET q == n \div d
      r == 2 * (n % d)
  IN  IF r < d \/ (r = d /\ q % 2 = 0) THEN q ELSE q + 1

\* a rounded to a number of binary digits.
Round(a, bits, rounding(_, _)) ==
  LET rounded[c \in Binary] ==
        LET k == Bits(c.m) - bits
        IN  IF k <= 0 THEN c ELSE Dyadic(rounding(c.m, Power[k]), c.e + k)
  IN  rounded[a]

RoundNear(a, bits) == Round(a, bits, Nearest)
\* The first binary digits of a positive number.
Digits(a, bits) == Round(a, bits, Down)

\* n/d, d > 0, rounded to the nearest number with so many binary digits.
Quotient[q \in Int \X Nat \X Nat] ==
  LET n == q[1]
      d == q[2]
      scaled(k) == <<n * Power[IF k > 0 THEN k ELSE 0], d * Power[IF k > 0 THEN 0 ELSE - k]>>
      hasBits(k) == Power[q[3] - 1] * scaled(k)[2] <= Abs(scaled(k)[1])
      most == q[3] + Bits(d) - Bits(n)
      k == IF hasBits(most - 1) THEN most - 1 ELSE most
  IN  IF n = 0 THEN Int2Dyadic(0) ELSE Dyadic(Nearest(scaled(k)[1], scaled(k)[2]), - k)
RoundQuotient(n, d, bits) == Quotient[<<n, d, bits>>]
=============================================================================
