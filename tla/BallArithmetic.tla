--------------------------- MODULE BallArithmetic ---------------------------
(***************************************************************************)
(* Approximations of real numbers.  A real number provides floating point  *)
(* approximations of any precision (arf_); refine puts a ball around such  *)
(* an approximation.                                                       *)
(*                                                                         *)
(* Here, a random number is given by finitely many binary digits; the code *)
(* generates them with rand48, one after the other.                        *)
(***************************************************************************)
EXTENDS Dyadics, Sequences
LOCAL INSTANCE SequencesExt

Random(digits) == [kind |-> "random", value |-> digits]
Rational(n, d) == [kind |-> "rational", num |-> n, den |-> d]
\* initial + inner * 2^(e - 1)
Constrained(m, e, inner) == [kind |-> "constrained", initial |-> Dyadic(m, e), e |-> e, inner |-> inner]
Product(factors) == [kind |-> "product", factors |-> factors]

\* What these numbers are: random numbers are in (0, 1), rational numbers in lowest
\* terms, and the given digits of a constrained number end at 2^e.
IsRandom(r) ==
  /\ r.kind = "random" /\ r = Random(r.value)
  /\ Normal(r.value) /\ r.value.m > 0 /\ Exponent2(r.value) <= 0

IsRational(r) ==
  /\ r.kind = "rational" /\ r = Rational(r.num, r.den)
  /\ r.num \in Int /\ r.den \in Nat \ {0}
  /\ \A d \in 1 .. r.den - 1 : (r.num * d) % r.den # 0

IsConstrained(r) ==
  /\ r.kind = "constrained" /\ r.e \in Int /\ IsRandom(r.inner)
  /\ Normal(r.initial) /\ (r.initial.m = 0 \/ r.e <= r.initial.e)

IsProduct(r) ==
  /\ r.kind = "product"
  /\ \A i \in 1 .. Len(r.factors) : IsRandom(r.factors[i]) \/ IsConstrained(r.factors[i])

IsNumber(r) == IsRandom(r) \/ IsRational(r) \/ IsConstrained(r) \/ IsProduct(r)

-----------------------------------------------------------------------------
(* Approximations: arf_ of the four classes, for prec >= 0. *)

ApproximateRandom(r, prec) == Digits(r.value, prec + 1)

ApproximateRational(r, prec) ==
  RoundQuotient(r.num, r.den, IF prec = 0 THEN 1 ELSE prec)

\* Mutant: one digit of inner is missing.
ApproximateConstrainedShort(r, prec) ==
  LET missing == prec - Bits(r.initial.m)
      sum == DPlus(r.initial, DShift(ApproximateRandom(r.inner, missing - 1), r.e - 1))
  IN  RoundNear(IF missing > 0 THEN sum ELSE r.initial, prec + 1)

ApproximateConstrained(r, prec) ==
  LET missing == prec + 1 - Bits(r.initial.m)
      sum == DPlus(r.initial, DShift(ApproximateRandom(r.inner, missing - 1), r.e - 1))
  IN  RoundNear(IF missing > 0 THEN sum ELSE r.initial, prec + 1)

ApproximateFactor(r, prec) ==
  IF r.kind = "random" THEN ApproximateRandom(r, prec) ELSE ApproximateConstrained(r, prec)

ApproximateProduct(r, prec) ==
  LET n == Len(r.factors)
      working == prec + Bits(3 * n - 1)   \* prec + ceil(log2(3 * n))
  IN  RoundNear(FoldLeft(LAMBDA a, f : RoundNear(DTimes(a, ApproximateFactor(f, working)), working),
                         Int2Dyadic(1), r.factors),
                prec + 1)

Approximate(r, prec) ==
  CASE r.kind = "random" -> ApproximateRandom(r, prec)
    [] r.kind = "rational" -> ApproximateRational(r, prec)
    [] r.kind = "constrained" -> ApproximateConstrained(r, prec)
    [] r.kind = "product" -> ApproximateProduct(r, prec)

-----------------------------------------------------------------------------
(* Balls: a midpoint and a radius; whole is zero_pm_inf. *)

Ball(mid, rad) == [mid |-> mid, rad |-> rad, whole |-> FALSE]
Whole == [mid |-> Int2Dyadic(0), rad |-> Int2Dyadic(0), whole |-> TRUE]
Exactly(d) == Ball(d, Int2Dyadic(0))

Lower(b) == DMinus(b.mid, b.rad)
Upper(b) == DPlus(b.mid, b.rad)

\* arb_rel_accuracy_bits of a ball with a radius.
Accuracy(b) == Exponent2(b.mid) - Exponent2(b.rad) - 1
HasAccuracy(b, prec) == ~b.whole /\ b.mid.m # 0 /\ Accuracy(b) >= prec

\* Mutant: any ball is good enough.
RefineOnce(r, b, prec) ==
  LET mid == Approximate(r, prec)
  IN  IF ~b.whole THEN b ELSE Ball(mid, Dyadic(1, Exponent2(mid) - prec - 2))

\* RealNumber::refine
Refine(r, b, prec) ==
  LET mid == Approximate(r, prec)
  IN  IF HasAccuracy(b, prec) THEN b
      ELSE Ball(mid, Dyadic(1, Exponent2(mid) - prec - 2))

\* Mutant: the approximation has too few digits.
CmpShort(r, b) ==
  LET low == Round(Lower(b), Accuracy(b), Down)
      high == Round(Upper(b), Accuracy(b), Up)
      approximation == Approximate(r, 1)
  IN  IF DLess(approximation, low) THEN -1 ELSE IF DLess(high, approximation) THEN 1 ELSE 0

\* RealNumber::cmp: the ends of the interval are rounded outwards, to as many
\* digits as the accuracy of the ball.  (For a midpoint 0 arb_rel_accuracy_bits is
\* defined in another way; refine computes no such ball of a number that is not
\* zero.)
Cmp(r, b) ==
  LET low == Round(Lower(b), Accuracy(b), Down)
      high == Round(Upper(b), Accuracy(b), Up)
      bits == IF Bits(low.m) < Bits(high.m) THEN Bits(high.m) ELSE Bits(low.m)
      approximation == Approximate(r, bits + 1)
  IN  IF DLess(approximation, low) THEN -1 ELSE IF DLess(high, approximation) THEN 1 ELSE 0

\* Arb::operator< and Arb::operator> answer yes, no, or nothing.
CertainlyLess(b, c) == DLess(Upper(b), Lower(c))

\* Mutant: the radius is forgotten.
CertainlyNotLessByMidpoint(b, c) == DLeq(c.mid, b.mid)

CertainlyNotLess(b, c) == DLeq(Upper(c), Lower(b))

-----------------------------------------------------------------------------
(* The exact values of real numbers, num / den. *)
Value(r) ==
  CASE r.kind = "random" -> [num |-> r.value, den |-> 1]
    [] r.kind = "rational" -> [num |-> Int2Dyadic(r.num), den |-> r.den]
    [] r.kind = "constrained" ->
         [num |-> DPlus(r.initial, DShift(r.inner.value, r.e - 1)), den |-> 1]
    [] r.kind = "product" ->
         [num |-> FoldLeft(LAMBDA a, f : DTimes(a, f.value), Int2Dyadic(1), r.factors), den |-> 1]

Difference(v, w) ==
  DMinus(DTimes(v.num, Int2Dyadic(w.den)), DTimes(w.num, Int2Dyadic(v.den)))
=============================================================================
