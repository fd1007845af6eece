---------------------------- MODULE ElementBalls ----------------------------
(***************************************************************************)
(* What elements of modules over the integers are as numbers.  Element::arb*)
(* adds up the balls of the generators, with more and more precision until *)
(* the sum has the accuracy that was asked for.  Comparisons, floor, ceil, *)
(* floordiv and the conversion to double ask for more and more accuracy    *)
(* until the balls decide, unless an exact shortcut applies before.        *)
(***************************************************************************)
EXTENDS BallArithmetic, FiniteSets
LOCAL INSTANCE SequencesExt

CONSTANTS
  Atom,          \* the ids of the random real numbers
  Drawn,         \* the binary digits that these can have, as functions of the atoms
  Operand,       \* the elements in play
  Ratio,         \* the rational numbers that elements are compared to, as pairs
  FastPrecision, \* ARB_PRECISION_FAST: 64 in the code
  DoubleBits,    \* DBL_MANT_DIG: 53 in the code
  RadiusBits,    \* MAG_BITS, the binary digits of a radius: 30 in the code
  MaxAnswers     \* bound of the model: number of calls

C == INSTANCE Combinations

VARIABLES
  digits,  \* the binary digits of the random real numbers
  x, y,    \* the elements of the client
  task,    \* the call that is running
  answers  \* what calls have returned

vars == <<digits, x, y, task, answers>>

-----------------------------------------------------------------------------
(* Sums, products, and quotients of balls. *)

Truncated(a, bits) == IF a.m < 0 THEN DNeg(Digits(DNeg(a), bits)) ELSE Digits(a, bits)

\* A midpoint that is not exact contributes one unit in the last place.
Widened[mid \in Binary, exact \in BOOLEAN, rad \in Binary, prec \in Nat] ==
  LET error == IF exact THEN rad ELSE DPlus(rad, Dyadic(1, Exponent2(mid) - prec))
  IN  Ball(mid, Round(error, RadiusBits, Up))

RoundedDown(mid, rad, prec) ==
  LET m == Truncated(mid, prec) IN Widened[m, m = mid, rad, prec]

BallPlus(b, c, prec) == RoundedDown(DPlus(b.mid, c.mid), DPlus(b.rad, c.rad), prec)

\* What the radii contribute to a product.
Spread(b, c) == DPlus(DTimes(DAbs(b.mid), c.rad), DTimes(DAbs(c.mid), b.rad))

BallTimes(b, c, prec) ==
  RoundedDown(DTimes(b.mid, c.mid), DPlus(Spread(b, c), DTimes(b.rad, c.rad)), prec)

\* The first digits of a / b.
DOver(a, b, bits) ==
  LET missing == bits + Bits(b.m) - Bits(a.m)
      k == IF missing < 0 THEN 0 ELSE missing
      size == Digits(Dyadic((Abs(a.m) * 2^k) \div Abs(b.m), a.e - b.e - k), bits)
  IN  IF (a.m < 0) = (b.m < 0) THEN size ELSE DNeg(size)

\* The radius of a quotient of balls with a radius grows by one unit in its last
\* place (mag_div).
BallOver(b, c, prec) ==
  LET mid == DOver(b.mid, c.mid, prec)
      size == Digits(DAbs(c.mid), RadiusBits)
      least == Digits(DMinus(DAbs(c.mid), c.rad), RadiusBits)
      rad == DOver(Round(Spread(b, c), RadiusBits, Up), Digits(DTimes(size, least), RadiusBits), RadiusBits)
      more == IF rad.m = 0 THEN rad ELSE DPlus(rad, Dyadic(1, Exponent2(rad) - RadiusBits))
  IN  Widened[mid, DTimes(mid, c.mid) = b.mid, more, prec]

\* Arb::operator std::pair<Arf, Arf>
Ends ==
  [b \in [mid : Binary, rad : Binary, whole : {FALSE}] |->
    IF b.rad.m = 0 THEN <<b.mid, b.mid>>
    ELSE <<Round(Lower(b), Accuracy(b), Down), Round(Upper(b), Accuracy(b), Up)>>]

Floor(a) == IF a.e >= 0 THEN a.m * 2^a.e ELSE a.m \div 2^(- a.e)
Ceil(a) == - Floor(DNeg(a))

-----------------------------------------------------------------------------
(* Elements. *)
RealOf(g) == IF g = C!One THEN Rational(1, 1) ELSE Random(digits[CHOOSE a \in DOMAIN g : TRUE])

\* IntegerRing::arb
ArbOf(c) == Exactly(Int2Dyadic(c))

CeilLog2(n) == CHOOSE k \in 0 .. n : 2^k >= n /\ (k = 0 \/ 2^(k - 1) < n)

InitialPrecision(e, accuracy) == accuracy + (IF C!Rank(e) = 0 THEN 0 ELSE CeilLog2(C!Rank(e)))

\* Mutant: the sum is trusted to be as accurate as the generators.
IsAccurateAlways(b, accuracy) == TRUE

IsAccurate(b, accuracy) == b.rad.m = 0 \/ HasAccuracy(b, accuracy)

-----------------------------------------------------------------------------
(* Calls: what they ask for before they look at balls. *)
Idle == [call |-> "none"]

Less(e, f) == [call |-> "less", elements |-> <<e, f>>]
LessRational(e, q) == [call |-> "less rational", elements |-> <<e>>, q |-> q]
GreaterRational(e, q) == [call |-> "greater rational", elements |-> <<e>>, q |-> q]
LessNumber(e, g) == [call |-> "less number", elements |-> <<e>>, number |-> g]
GreaterNumber(e, g) == [call |-> "greater number", elements |-> <<e>>, number |-> g]
FloorOf(e) == [call |-> "floor", elements |-> <<e>>]
CeilOf(e) == [call |-> "ceil", elements |-> <<e>>]
FloorDiv(e, f) == [call |-> "floordiv", elements |-> <<e, f>>]
Double(e) == [call |-> "double", elements |-> <<e>>]

\* The real numbers that elements are compared to.
Numbers == {C!One} \cup {[a \in {b} |-> 1] : b \in Atom}

Calls ==
  {Less(x, y), Less(y, x), FloorOf(x), CeilOf(x), FloorDiv(x, y), Double(x)}
  \cup {LessRational(x, q) : q \in Ratio} \cup {GreaterRational(x, q) : q \in Ratio}
  \cup {LessNumber(x, g) : g \in Numbers} \cup {GreaterNumber(x, g) : g \in Numbers}

EqualRational(e, q) == C!HasRational(e) /\ C!RationalOf(e) * q[2] = q[1]

When(condition, answer) == IF condition THEN {answer} ELSE {}

\* The shortcuts, as sets of at most one answer.
Shortcut(c) ==
  LET e == c.elements[1]
  IN CASE c.call = "less" -> When(C!Equal(e, c.elements[2]), FALSE)
       [] c.call \in {"less rational", "greater rational"} -> When(EqualRational(e, c.q), FALSE)
       [] c.call \in {"less number", "greater number"} -> When(C!EqualNumber(e, c.number), FALSE)
       [] c.call \in {"floor", "ceil"} -> When(C!HasRational(e), C!RationalOf(e))
       [] c.call = "double" -> When(C!HasRational(e), RoundNear(Int2Dyadic(C!RationalOf(e)), DoubleBits))
       [] c.call = "floordiv" ->
            LET module == C!Span(e.module, c.elements[2].module)
            IN  IF C!IsZero(e) THEN {0}
                ELSE C!ExactFloor(C!Promote(e, module), C!Promote(c.elements[2], module))

\* The elements whose balls are needed.
Summands(c) ==
  IF c.call = "floordiv"
  THEN LET module == C!Span(c.elements[1].module, c.elements[2].module)
       IN  <<C!Promote(c.elements[1], module), C!Promote(c.elements[2], module)>>
  ELSE c.elements

-----------------------------------------------------------------------------
(* What balls tell, as sets of at most one answer. *)
IfLess(b, c) == When(CertainlyLess(b, c), TRUE) \cup When(CertainlyNotLess(b, c), FALSE)

\* Arb::operator<(mpq_class) multiplies by the denominator.
IfLessRational(b, q) ==
  LET den == Int2Dyadic(q[2])
  IN  IfLess(Ball(DTimes(b.mid, den), Round(DTimes(b.rad, den), RadiusBits, Up)), Exactly(Int2Dyadic(q[1])))

NumberBall(c, prec) == Refine(RealOf(c.number), Whole, prec)
IfLessNumber(b, c, prec) == IfLess(b, NumberBall(c, prec))

\* The common value of both ends of a ball.
Common(value(_), b) == {v \in {value(Ends[b][1])} : v = value(Ends[b][2])}

\* Mutant: one end of the ball decides.
IfFloorOfUpperEnd(b) == {Floor(Ends[b][2])}

IfFloor(b) == Common(Floor, b)
IfCeil(b) == Common(Ceil, b)

\* Arb::operator== and Arb::operator!= answer once balls miss each other, or if
\* both have one element only.
IfEqual(b, c) ==
  When(b = c /\ b.rad.m = 0, TRUE)
  \cup When(DLess(Upper(b), Lower(c)) \/ DLess(Upper(c), Lower(b)), FALSE)
IfDiffers(b, c) == {~equal : equal \in IfEqual(b, c)}

\* floordiv divides as soon as it is known whether the divisor is zero.
IfFloorDiv(b, div, prec) ==
  IF IfDiffers(div, ArbOf(0)) = {} THEN {} ELSE IfFloor(BallOver(b, div, prec))

ToDouble(a) == RoundNear(a, DoubleBits)
IfDouble(b) == Common(ToDouble, b)

Verdict(c, balls, prec) ==
  CASE c.call = "less" -> IfLess(balls[1], balls[2])
    [] c.call = "less rational" -> IfLessRational(balls[1], c.q)
    [] c.call = "greater rational" -> {~less : less \in IfLessRational(balls[1], c.q)}
    [] c.call = "less number" -> IfLessNumber(balls[1], c, prec)
    [] c.call = "greater number" -> {~less : less \in IfLessNumber(balls[1], c, prec)}
    [] c.call = "floor" -> IfFloor(balls[1])
    [] c.call = "ceil" -> IfCeil(balls[1])
    [] c.call = "floordiv" -> IfFloorDiv(balls[1], balls[2], prec)
    [] c.call = "double" -> IfDouble(balls[1])

-----------------------------------------------------------------------------
\* (All the balls that a verdict is based on.)
Evidence(t) ==
  IF t.call.call \in {"less number", "greater number"}
  THEN Append(t.balls, NumberBall(t.call, t.prec)) ELSE t.balls

Init ==
  /\ digits \in Drawn
  /\ x \in Operand
  /\ y \in Operand
  /\ task = Idle
  /\ answers = [c \in {} |-> 0]

Answer(c, value, balls) ==
  answers' = [d \in DOMAIN answers \cup {c} |->
                IF d = c THEN [value |-> value, balls |-> balls] ELSE answers[d]]

\* A round of a loop: the accuracy that it asks for, the balls that it has got,
\* the precision with which Element::arb adds up the next one, and what it has
\* got so far.
InRound(c, prec, balls, working) ==
  [call |-> c, prec |-> prec, balls |-> balls,
   working |-> working, terms |-> 0, ret |-> Exactly(Int2Dyadic(0))]

\* Mutant: the loop asks for the same balls again.
AgainAsAccurate(prec) == prec

MoreAccurate(prec) == 2 * prec

Begin(c, prec) == InRound(c, prec, <<>>, InitialPrecision(Summands(c)[1], prec))

Ask(c) ==
  /\ task = Idle
  /\ c \notin DOMAIN answers
  /\ Cardinality(DOMAIN answers) < MaxAnswers
  /\ c.call = "floordiv" => ~C!IsZero(c.elements[2])
  /\ c.call \in {"less number", "greater number"} => C!RelatedTo(c.elements[1], c.number)
  /\ \E shortcut \in {Shortcut(c)} :
       \/ /\ shortcut # {}
          /\ \E value \in shortcut : Answer(c, value, <<>>)
          /\ UNCHANGED task
       \/ /\ shortcut = {}
          /\ task' = Begin(c, IF c.call = "double" THEN DoubleBits + 2 ELSE FastPrecision)
          /\ UNCHANGED answers
  /\ UNCHANGED <<digits, x, y>>

\* Element::arb: ret += the product of a generator and its coefficient.
AddTerm ==
  /\ task # Idle
  /\ Len(task.balls) < Len(task.call.elements)
  /\ \E e \in {Summands(task.call)[Len(task.balls) + 1]}, i \in {task.terms + 1} :
       /\ i <= C!Rank(e)
       /\ \E generator \in {Refine(RealOf(e.module[i]), Whole, task.working)} :
          \E term \in {BallTimes(generator, ArbOf(e.coefficients[i]), task.working)} :
          \E ret \in {BallPlus(task.ret, term, task.working)} :
            task' = [task EXCEPT !.ret = ret, !.terms = i]
  /\ UNCHANGED <<digits, x, y, answers>>

\* The end of a round of Element::arb.
AddedUp ==
  /\ task # Idle
  /\ Len(task.balls) < Len(task.call.elements)
  /\ \E summands \in {Summands(task.call)}, n \in {Len(task.balls) + 1} :
       /\ task.terms = C!Rank(summands[n])
       /\ task' = IF IsAccurate(task.ret, task.prec)
                  THEN InRound(task.call, task.prec, Append(task.balls, task.ret),
                               IF n < Len(summands) THEN InitialPrecision(summands[n + 1], task.prec) ELSE 0)
                  ELSE InRound(task.call, task.prec, task.balls, 2 * task.working)
  /\ UNCHANGED <<digits, x, y, answers>>

\* The end of a round of a comparison, floor, ...
Decide ==
  /\ task # Idle
  /\ Len(task.balls) = Len(task.call.elements)
  /\ \E verdict \in {Verdict(task.call, task.balls, task.prec)} :
       \/ /\ verdict # {}
          /\ \E value \in verdict : Answer(task.call, value, Evidence(task))
          /\ task' = Idle
       \/ /\ verdict = {}
          /\ task' = Begin(task.call, MoreAccurate(task.prec))
          /\ UNCHANGED answers
  /\ UNCHANGED <<digits, x, y>>

Next == (\E c \in Calls : Ask(c)) \/ AddTerm \/ AddedUp \/ Decide

Spec == Init /\ [][Next]_vars

\* A call that is running continues.
FairSpec == Spec /\ WF_vars(AddTerm \/ AddedUp \/ Decide)

-----------------------------------------------------------------------------
(* The exact value of an element. *)
Exact(e) ==
  FoldLeft(LAMBDA a, n : DPlus(a, DTimes(Int2Dyadic(e.coefficients[n]), Value(RealOf(e.module[n])).num)),
           Int2Dyadic(0), [n \in 1 .. C!Rank(e) |-> n])

\* The balls of Element::arb have the accuracy that was asked for.  The element
\* may be outside of its ball, as the balls of generators are too small, see
\* RefineContains, but it is never off by more than twice the radius, however
\* much the generators cancel.
ArbIsClose ==
  task # Idle =>
    \A n \in DOMAIN task.balls :
      LET b == task.balls[n]
          e == task.call.elements[n]
      IN  /\ C!IsZero(e) <=> b.rad.m = 0
          /\ C!IsZero(e) \/ HasAccuracy(b, task.prec)
          /\ DLeq(DAbs(DMinus(Exact(e), b.mid)), DShift(b.rad, 1))

\* An operand and what is off by at most the radius of the ball that was used.
ExactOperand(c, n) ==
  IF n <= Len(c.elements) THEN Exact(c.elements[n]) ELSE Value(RealOf(c.number)).num
Slack(answer, n) == IF answer.balls = <<>> THEN Int2Dyadic(0) ELSE answer.balls[n].rad
Least(c, answer, n) == DMinus(ExactOperand(c, n), Slack(answer, n))
Most(c, answer, n) == DPlus(ExactOperand(c, n), Slack(answer, n))

\* Whether low < high or low >= high is possible.
MayBe(less, low, high) == IF less THEN DLess(low[1], high[2]) ELSE DLeq(high[1], low[2])

IsQuotient(q, v, w, slack) ==
  LET rest == DMinus(v, DTimes(Int2Dyadic(q), w))
      bounds == IF w.m > 0 THEN <<Int2Dyadic(0), w>> ELSE <<w, Int2Dyadic(0)>>
  IN  DLeq(DMinus(bounds[1], slack), rest) /\ DLeq(rest, DPlus(bounds[2], slack))

IsRight(c, answer) ==
  LET value == answer.value
      least == Least(c, answer, 1)
      most == Most(c, answer, 1)
      ratio(d) == DTimes(d, Int2Dyadic(c.q[2]))
      bound == Int2Dyadic(c.q[1])
  IN CASE c.call \in {"less", "less number"} ->
            MayBe(value, <<least, most>>, <<Least(c, answer, 2), Most(c, answer, 2)>>)
       [] c.call = "greater number" ->
            MayBe(value, <<Least(c, answer, 2), Most(c, answer, 2)>>, <<least, most>>)
       [] c.call = "less rational" -> MayBe(value, <<ratio(least), ratio(most)>>, <<bound, bound>>)
       [] c.call = "greater rational" -> MayBe(value, <<bound, bound>>, <<ratio(least), ratio(most)>>)
       [] c.call = "floor" -> value \in Floor(least) .. Floor(most)
       [] c.call = "ceil" -> value \in Ceil(least) .. Ceil(most)
       [] c.call = "double" -> DLeq(ToDouble(least), value) /\ DLeq(value, ToDouble(most))
       [] c.call = "floordiv" ->
            IsQuotient(value, Exact(c.elements[1]), Exact(c.elements[2]),
                       DPlus(Slack(answer, 1), DTimes(Int2Dyadic(Abs(value) + 1), Slack(answer, 2))))

\* Comparisons, floor, ceil, floordiv, and the conversion to double are right
\* without exception when a shortcut answers, and otherwise for numbers that are
\* no further from the elements than the radius of the balls that decided: the
\* loops that compare ends of balls, round them outwards, and divide them, add
\* no error to the one of arb.
AnswersAreRight == \A c \in DOMAIN answers : IsRight(c, answers[c])

\* Every call ends: arb reaches the accuracy that it is asked for, and then the
\* balls decide, as equal elements and integers are recognised before.
CallsEnd == []<>(task = Idle)
=============================================================================
