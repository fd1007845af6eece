------------------------------ MODULE Elements ------------------------------
(***************************************************************************)
(* A client of Element<IntegerRing> with two variables x and y that it     *)
(* changes by the in-place operations of elements, in any order.  What the *)
(* operations compute is defined in Combinations; the two that can fail    *)
(* half-way, polynomial division and the multiplication and division by a  *)
(* number, are modelled as the loops they are.                             *)
(*                                                                         *)
(* Polynomials says what all this should amount to.                        *)
(***************************************************************************)
EXTENDS Combinations

CONSTANTS
  Basis,           \* the modules whose generators the client uses: sets of monomials
  Ratio,           \* the numbers to multiply with, records [num, den]
  MaxDegree, MaxRank,
    \* bounds of the model: degree of the generators and rank of the module of x
  MaxCoefficient,  \* bound of the model: the coefficients that arithmetic gives x
  OperandDegree, OperandRank, OperandCoefficient,
                   \* bounds of the model: the same for y
  QuotientBound    \* bound of the model: where to look for other quotients

\* Generators are monomials in the irrational real numbers.
ASSUME BasisAssumption ==
  \A gens \in Basis :
    /\ IsFiniteSet(gens)
    /\ \A g \in gens :
         /\ DOMAIN g \subseteq Atom
         /\ g \in [DOMAIN g -> Nat \ {0}]
         /\ TotalDegree(g) <= MaxDegree

\* x /= n has the denominator n, which may be negative, or 0.
ASSUME RatioAssumption == \A r \in Ratio : r.num \in Int /\ r.den \in Int

ASSUME BoundAssumption == MaxDegree \in Nat /\ QuotientBound \in Nat

VARIABLES
  x, y,     \* elements
  task,     \* the loop that is running
  outcome   \* the last operation and how it ended: "ok", "nullopt", or "throws"

vars == <<x, y, task, outcome>>

Idle == [call |-> "none"]

Init ==
  /\ x = Zero(<<>>)
  /\ y = Zero(<<>>)
  /\ task = Idle
  /\ outcome = <<"none", "ok">>

Within(e, degree, rank, coefficient) ==
  /\ Rank(e) <= rank
  /\ \A n \in 1 .. Rank(e) :
       /\ TotalDegree(e.module[n]) <= degree
       /\ e.coefficients[n] \in -coefficient .. coefficient

Bounded(e) == Within(e, MaxDegree, MaxRank, MaxCoefficient)

Finish(op, result) == outcome' = <<op, result>>

\* An operation that has the result e for x.
Compute(op, e) ==
  /\ task = Idle
  /\ Bounded(e)
  /\ x' = e
  /\ Finish(op, "ok")
  /\ UNCHANGED <<y, task>>

-----------------------------------------------------------------------------
\* Module::gen and Module::zero
Take ==
  /\ task = Idle
  /\ \E gens \in Basis :
       \/ y' = Zero(Make(gens))
       \/ \E n \in 1 .. Cardinality(gens) : y' = Gen(Make(gens), n)
  /\ Finish("take", "ok")
  /\ UNCHANGED <<x, task>>

\* The list that a module is made from has a generator twice.
TakeThrows ==
  /\ task = Idle
  /\ \E gens \in Basis : \E g \in gens : ~AreGenerators(Append(Make(gens), g))
  /\ Finish("take", "throws")
  /\ UNCHANGED <<x, y, task>>

Exchange ==
  /\ task = Idle
  /\ Within(x, OperandDegree, OperandRank, OperandCoefficient)
  /\ x' = y
  /\ y' = x
  /\ Finish("exchange", "ok")
  /\ UNCHANGED task

AddTo == Compute("+=", Plus(x, y))

SubtractFrom == Compute("-=", Plus(x, Minus(y)))

MultiplyBy == Compute("*=", Product(x, y))

Negate == Compute("-", Minus(x))

SimplifyIt == Compute("rewrite", Simplify(x))

PromoteIt == Compute("rewrite", Promote(x, Span(x.module, y.module)))

-----------------------------------------------------------------------------
(* x *= num/den and x /= den/num: one step for each coefficient.  (before is
   not in the code: it is x before the call.) *)
ScaleCall ==
  /\ task = Idle
  /\ Bounded(x)
  /\ \E r \in Ratio : task' = [call |-> "scale", ratio |-> r, at |-> 1, before |-> x]
  /\ UNCHANGED <<x, y, outcome>>

\* IntegerRing::imul and idiv
ScaleStep ==
  /\ task.call = "scale"
  /\ task.at <= Rank(x)
  /\ task.ratio.den # 0
  /\ IsMultiple(x.coefficients[task.at] * task.ratio.num, task.ratio.den)
  /\ x' = [x EXCEPT !.coefficients[task.at] = Truncated(@ * task.ratio.num, task.ratio.den)]
  /\ task' = [task EXCEPT !.at = @ + 1]
  /\ UNCHANGED <<y, outcome>>

\* "division by zero": nothing has been changed.
ScaleByZero ==
  /\ task.call = "scale"
  /\ task.at <= Rank(x)
  /\ task.ratio.den = 0
  /\ task' = Idle
  /\ Finish("scale", "throws")
  /\ UNCHANGED <<x, y>>

\* "cannot divide these integers": thrown after the multiplication with the
\* numerator; what comes before this coefficient has been scaled already.
ScaleThrows ==
  /\ task.call = "scale"
  /\ task.at <= Rank(x)
  /\ task.ratio.den # 0
  /\ ~IsMultiple(x.coefficients[task.at] * task.ratio.num, task.ratio.den)
  /\ x' = [x EXCEPT !.coefficients[task.at] = @ * task.ratio.num]
  /\ task' = Idle
  /\ Finish("scale", "throws")
  /\ UNCHANGED y

ScaleReturn ==
  /\ task.call = "scale"
  /\ task.at > Rank(x)
  /\ task' = Idle
  /\ Finish("scale", "ok")
  /\ UNCHANGED <<x, y>>

-----------------------------------------------------------------------------
(* x = x.truediv(y): polynomial division, one step for each term. *)
TrueDivideThrows ==
  /\ task = Idle
  /\ IsZero(y)
  /\ Finish("truediv", "throws")
  /\ UNCHANGED <<x, y, task>>

TrueDivideByOne ==
  /\ task = Idle
  /\ EqualInteger(y, 1)
  /\ Finish("truediv", "ok")
  /\ UNCHANGED <<x, y, task>>

TrueDivideCall ==
  /\ task = Idle
  /\ Bounded(x)
  /\ ~IsZero(y) /\ ~EqualInteger(y, 1)
  /\ LET module == Span(x.module, y.module)
     IN  task' = [call |-> "truediv", lhs |-> Promote(x, module), rhs |-> Promote(y, module),
                  remainder |-> Promote(x, module), quotient |-> Zero(module)]
  /\ UNCHANGED <<x, y, outcome>>

\* The next term of the quotient, and whether there is one.
TermCoefficient == Truncated(LeadingCoefficient(task.remainder), LeadingCoefficient(task.rhs))

\* Mutant: whether the leading coefficients divide each other is not checked.
TermExistsRounds == Divides(LeadingGen(task.rhs), LeadingGen(task.remainder))

TermExists ==
  /\ Divides(LeadingGen(task.rhs), LeadingGen(task.remainder))
  /\ TermCoefficient * LeadingCoefficient(task.rhs) = LeadingCoefficient(task.remainder)

Term == Multiple(TermCoefficient, Quotient(LeadingGen(task.remainder), LeadingGen(task.rhs)))

\* Mutant: the new terms of the quotient replace the old ones.
TrueDivideStepOverwrites ==
  /\ task.call = "truediv"
  /\ ~IsZero(task.remainder)
  /\ TermExists
  /\ task' = [task EXCEPT !.quotient = Term,
                          !.remainder = Plus(@, Minus(Product(Term, task.rhs)))]
  /\ UNCHANGED <<x, y, outcome>>

TrueDivideStep ==
  /\ task.call = "truediv"
  /\ ~IsZero(task.remainder)
  /\ TermExists
  /\ \E term \in {Term} : \E product \in {Product(term, task.rhs)} :
       task' = [task EXCEPT !.quotient = Plus(@, term), !.remainder = Plus(@, Minus(product))]
  /\ UNCHANGED <<x, y, outcome>>

TrueDivideNone ==
  /\ task.call = "truediv"
  /\ ~IsZero(task.remainder)
  /\ ~TermExists
  /\ task' = Idle
  /\ Finish("truediv", "nullopt")
  /\ UNCHANGED <<x, y>>

TrueDivideReturn ==
  /\ task.call = "truediv"
  /\ IsZero(task.remainder)
  /\ x' = task.quotient
  /\ task' = Idle
  /\ Finish("truediv", "ok")
  /\ UNCHANGED y

-----------------------------------------------------------------------------
Loop ==
  \/ ScaleStep \/ ScaleByZero \/ ScaleThrows \/ ScaleReturn
  \/ TrueDivideStep \/ TrueDivideNone \/ TrueDivideReturn

Next ==
  \/ Take \/ TakeThrows \/ Exchange
  \/ AddTo \/ SubtractFrom \/ MultiplyBy \/ Negate \/ SimplifyIt \/ PromoteIt
  \/ ScaleCall \/ TrueDivideThrows \/ TrueDivideByOne \/ TrueDivideCall
  \/ Loop

Spec == Init /\ [][Next]_vars

\* A running loop continues.
FairSpec == Spec /\ WF_vars(Loop)

-----------------------------------------------------------------------------
Monomial == {m \in UNION {[A -> 1 .. MaxDegree] : A \in SUBSET Atom} : TotalDegree(m) <= MaxDegree}

Polynomial(e) ==
  LET support == {n \in 1 .. Rank(e) : e.coefficients[n] # 0}
  IN  [m \in {e.module[n] : n \in support} |->
         e.coefficients[CHOOSE n \in support : e.module[n] = m]]

P == INSTANCE Polynomials WITH
       x <- Polynomial(IF task.call = "scale" THEN task.before ELSE x),
       y <- Polynomial(y),
       Generator <- Monomial

\* Elements compute what polynomials do, whatever modules they come from and
\* however many operations came before; division finds a quotient whenever
\* there is one; a scaling that throws leaves coefficients that are the old
\* ones, the new ones, or the old ones times the numerator.
ImplementsPolynomials == P!Spec

\* The generators of a module are sorted and distinct, and an element has one
\* coefficient for each; this also holds for the elements of a division.
TypeOK ==
  /\ IsElement(x) /\ IsElement(y)
  /\ task.call \in {"none", "scale", "truediv"}
  /\ task.call = "truediv" =>
       \A e \in {task.lhs, task.rhs, task.remainder, task.quotient} : IsElement(e)
  /\ outcome[2] \in {"ok", "nullopt", "throws"}

\* (A division leaves x and y alone until it returns, so there is no need to look
\* at the same x and y again while it runs.)
Quiet == task.call # "truediv"

\* Elements are equal iff they are equal as polynomials, which simplify decides
\* as well: it takes equal elements to the same coefficients in the same module.
EqualityIsExact ==
  Quiet =>
    /\ Equal(x, y) <=> Polynomial(x) = Polynomial(y)
    /\ Simplify(x) = Simplify(y) <=> Polynomial(x) = Polynomial(y)

\* An element is equal to a generator or an integer, or a unit, iff it is one
\* as a polynomial.
NumbersAreRecognised ==
  Quiet =>
    /\ \A g \in Monomial :
         RelatedTo(x, g) => (EqualNumber(x, g) <=> Polynomial(x) = Polynomial(Multiple(1, g)))
    /\ \A c \in {-1, 0, 1} : EqualInteger(x, c) <=> Polynomial(x) = Polynomial(Multiple(c, One))
    /\ Unit(x) <=> \E c \in {-1, 1} : EqualInteger(x, c)

\* The integers of size at most c.
UpTo(c) == (c .. -c) \cup (-c .. c)

\* The shortcut of floordiv applies iff x is an integer multiple of y, and then
\* finds the integer.
FloorIsExact ==
  LET module == Span(x.module, y.module)
      candidates == UNION {UpTo(c) : c \in Range(x.coefficients)}
  IN  Quiet /\ ~IsZero(x) =>
        ExactFloor(Promote(x, module), Promote(y, module)) =
        {q \in candidates : P!Scale(Polynomial(y), q) = Polynomial(x)}

\* While a division runs, lhs = quotient * rhs + remainder.
DivisionInvariant ==
  task.call = "truediv" =>
    Polynomial(task.lhs) =
    P!Add(P!Mul(Polynomial(task.quotient), Polynomial(task.rhs)), Polynomial(task.remainder))

\* Each step of a division lowers the leading generator of the remainder.
LeadingGeneratorDecreases ==
  [][task.call = "truediv" /\ task'.call = "truediv" =>
       \/ IsZero(task'.remainder)
       \/ Smaller(LeadingGen(task'.remainder), LeadingGen(task.remainder))]_vars

\* Polynomial division and scaling end: a division does not subtract for ever.
LoopsEnd == []<>(task = Idle)
=============================================================================
