--------------------------- MODULE Approximations ---------------------------
(***************************************************************************)
(* How real numbers are approximated and compared.  A ball around an       *)
(* approximation is what comparisons look at: they double the precision    *)
(* until the balls tell two numbers apart.                                 *)
(***************************************************************************)
EXTENDS BallArithmetic

CONSTANTS
  Number,     \* the real numbers in play
  Target,     \* what they are compared to
  Precision,  \* the precisions that callers ask for
  FastPrecision  \* ARB_PRECISION_FAST, where comparisons with rationals start: 64 in the code

VARIABLES
  number,  \* a real number
  ball,    \* a ball of the caller, for refine
  asked,   \* the precision that it has been refined to last
  task,    \* the comparison that is running
  result   \* what the last comparison has returned, or "none"

vars == <<number, ball, asked, task, result>>

-----------------------------------------------------------------------------
(* What a real number is compared to: another real number, a floating point
   number, or a rational number. *)
Real(r) == [kind |-> "real", number |-> r]
Arf(d) == [kind |-> "arf", value |-> d]
Mpz(n) == Arf(Int2Dyadic(n))   \* integers are compared as floating point numbers
Mpq(n, d) == [kind |-> "mpq", num |-> n, den |-> d]

IsTarget(rhs) ==
  \/ rhs.kind = "real" /\ IsNumber(rhs.number)
  \/ rhs.kind = "arf" /\ Normal(rhs.value)
  \/ rhs.kind = "mpq" /\ rhs.num \in Int /\ rhs.den \in Nat \ {0}

ASSUME NumberAssumption == \A r \in Number : IsNumber(r)
ASSUME TargetAssumption == \A rhs \in Target : IsTarget(rhs)
ASSUME PrecisionAssumption == Precision \subseteq Nat \ {0} /\ FastPrecision \in Nat \ {0}

Idle == [call |-> "none"]
None == [call |-> "none"]

Init ==
  /\ number \in Number
  /\ ball = Whole
  /\ asked = 0
  /\ task = Idle
  /\ result = None

\* A caller refines a ball, to any precision, any number of times.
RefineBall ==
  /\ task = Idle
  /\ \E prec \in Precision : \E refined \in {Refine(number, ball, prec)} :
       /\ ball' = refined
       /\ asked' = prec
  /\ UNCHANGED <<number, task, result>>

\* What needs no balls: numbers that are the same, or both rational.
Same(rhs) ==
  \/ rhs.kind = "real" /\ rhs.number = number
  \/ rhs.kind = "arf" /\ number.kind = "rational" /\ DTimes(rhs.value, Int2Dyadic(number.den)) = Int2Dyadic(number.num)

BothRational(rhs) == rhs.kind = "mpq" /\ number.kind = "rational"

RationalIs(call, rhs) ==
  IF call = "less" THEN number.num * rhs.den < rhs.num * number.den ELSE rhs.num * number.den < number.num * rhs.den

CompareSame ==
  /\ task = Idle
  /\ \E rhs \in Target, call \in {"less", "greater"} :
       /\ Same(rhs)
       /\ result' = [call |-> call, rhs |-> rhs, answer |-> FALSE]
  /\ UNCHANGED <<number, ball, asked, task>>

CompareRationals ==
  /\ task = Idle
  /\ \E rhs \in Target, call \in {"less", "greater"} :
       /\ BothRational(rhs)
       /\ result' = [call |-> call, rhs |-> rhs, answer |-> RationalIs(call, rhs)]
  /\ UNCHANGED <<number, ball, asked, task>>

CompareCall ==
  /\ task = Idle
  /\ \E rhs \in Target, call \in {"less", "greater"} :
       /\ ~Same(rhs) /\ ~BothRational(rhs)
       /\ task' = [call |-> call, rhs |-> rhs, self |-> Whole, other |-> Whole,
                   prec |-> IF rhs.kind = "mpq" THEN FastPrecision ELSE 2]
  /\ result' = None
  /\ UNCHANGED <<number, ball, asked>>

\* The balls of this round.  Arb::operator<(mpq_class) multiplies both sides by
\* the denominator.
SelfBall == Refine(number, IF task.rhs.kind = "mpq" THEN Whole ELSE task.self, task.prec)

OtherBall ==
  CASE task.rhs.kind = "real" -> Refine(task.rhs.number, task.other, task.prec)
    [] task.rhs.kind = "arf" -> Exactly(task.rhs.value)
    [] task.rhs.kind = "mpq" -> Exactly(Int2Dyadic(task.rhs.num))

\* (arb_mul keeps 30 digits of the radius, rounded up; here it is exact, which
\* makes a difference only if the numerator is at an end of the ball.)
Scaled(b) ==
  LET den == Int2Dyadic(task.rhs.den)
  IN  IF task.rhs.kind = "mpq" THEN Ball(DTimes(b.mid, den), DTimes(b.rad, den)) ELSE b

\* For a floating point number a, > a is the negation of < a.
Yes(b, c) ==
  CASE task.call = "less" -> CertainlyLess(b, c)
    [] task.call = "greater" /\ task.rhs.kind = "arf" -> CertainlyNotLess(b, c)
    [] task.call = "greater" /\ task.rhs.kind # "arf" -> CertainlyLess(c, b)

No(b, c) ==
  CASE task.call = "less" -> CertainlyNotLess(b, c)
    [] task.call = "greater" /\ task.rhs.kind = "arf" -> CertainlyLess(b, c)
    [] task.call = "greater" /\ task.rhs.kind # "arf" -> CertainlyNotLess(c, b)

\* Mutant: the precision stays.
NextPrecisionStays(prec) == prec

NextPrecision(prec) == 2 * prec

\* One round of a comparison decides it or doubles the precision.
CompareStep ==
  /\ task # Idle
  /\ \E self \in {SelfBall}, other \in {OtherBall} : \E scaled \in {Scaled(self)} :
       \/ /\ Yes(scaled, other) \/ No(scaled, other)
          /\ task' = Idle
          /\ result' = [call |-> task.call, rhs |-> task.rhs, answer |-> Yes(scaled, other)]
       \/ /\ ~Yes(scaled, other) /\ ~No(scaled, other)
          /\ task' = [task EXCEPT !.self = self, !.other = other, !.prec = NextPrecision(@)]
          /\ UNCHANGED result
  /\ UNCHANGED <<number, ball, asked>>

Next == RefineBall \/ CompareSame \/ CompareRationals \/ CompareCall \/ CompareStep

Spec == Init /\ [][Next]_vars

\* A running comparison continues.
FairSpec == Spec /\ WF_vars(CompareStep)

-----------------------------------------------------------------------------
(* What comparisons should find. *)
ValueOfTarget(rhs) ==
  CASE rhs.kind = "real" -> Value(rhs.number)
    [] rhs.kind = "arf" -> [num |-> rhs.value, den |-> 1]
    [] rhs.kind = "mpq" -> [num |-> Int2Dyadic(rhs.num), den |-> rhs.den]

Covers(b, r) ==
  b.whole \/
  LET v == Value(r)
      distance == DAbs(Difference(v, [num |-> b.mid, den |-> 1]))
  IN  DLeq(distance, DTimes(b.rad, Int2Dyadic(v.den)))

\* Approximations have the relative accuracy and at most the number of digits
\* that arf promises.
ArfIsAccurate ==
  \A prec \in Precision :
    LET v == Value(number)
        a == Approximate(number, prec)
        error == DAbs(Difference(v, [num |-> a, den |-> 1]))
    IN  /\ DLeq(DShift(error, prec), DAbs(v.num))
        /\ Bits(a.m) <= prec + 1

\* The assertion at the end of refine, whatever has been asked for before: cmp finds
\* number inside the ball.
RefinedIsFound == asked # 0 => Cmp(number, ball) = 0

\* The assertions at the end of refine: the ball also has the accuracy that was
\* asked for last.
RefineAssertions ==
  /\ RefinedIsFound
  /\ asked # 0 /\ number # Rational(0, 1) => HasAccuracy(ball, asked)

\* When cmp finds a number outside the ball of the number that it is compared
\* to, it is outside.
CmpIsSound ==
  LET b == task.other
  IN  task # Idle /\ ~b.whole /\ b.rad.m # 0 /\ b.mid.m # 0 /\ Cmp(number, b) # 0 => ~Covers(b, number)

IsRight ==
  LET difference == Difference(Value(number), ValueOfTarget(result.rhs)).m
  IN  result.answer <=> IF result.call = "less" THEN difference < 0 ELSE difference > 0

\* Random numbers are ordered as their digits are, and rational numbers as
\* fractions are, although their balls are too small to contain them: rounding
\* is monotonic, so the balls of two numbers of a kind do not just miss each other.
NumbersOfAKindAreOrdered ==
  result # None /\ ((result.rhs.kind = "real" /\ number.kind = result.rhs.number.kind
                      /\ number.kind \in {"random", "rational"})
                    \/ BothRational(result.rhs))
    => IsRight

\* Comparisons with floating point numbers and integers are right.
ComparisonsAreRight == result # None => IsRight

\* A comparison only goes on while the balls are as small as they were asked to
\* be and the numbers are closer than three times their radii.
UndecidedAreClose ==
  task # Idle /\ ~task.self.whole =>
    LET distance == Difference(Value(number), ValueOfTarget(task.rhs))
        dens == Value(number).den * (IF task.rhs.kind = "real" THEN Value(task.rhs.number).den
                                ELSE IF task.rhs.kind = "mpq" THEN task.rhs.den ELSE 1)
    IN  /\ number # Rational(0, 1) => HasAccuracy(task.self, task.prec \div 2)
        /\ DLeq(DAbs(distance), DTimes(Int2Dyadic(3 * dens), DPlus(task.self.rad, task.other.rad)))

\* A refined ball contains the number.
RefineContains == Covers(ball, number)

\* Comparisons end.
ComparisonsEnd == []<>(task = Idle)
=============================================================================
