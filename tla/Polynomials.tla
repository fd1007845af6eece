---------------------------- MODULE Polynomials ----------------------------
(***************************************************************************)
(* What the arithmetic of elements promises: elements are polynomials with *)
(* integer coefficients in the irrational real numbers; which module they  *)
(* live in, which generators have coefficient zero and in which order the  *)
(* generators are does not matter.  A polynomial maps the monomials that   *)
(* appear in it to their coefficients.                                     *)
(***************************************************************************)
EXTENDS Naturals, Integers, FiniteSetsExt, Monomials

CONSTANTS
  Generator,     \* the monomials that can be generators of a module
  Ratio,         \* the numbers to multiply with, records [num, den]
  QuotientBound  \* bound of the model: where to look for quotients

VARIABLES
  x, y,    \* two variables that hold elements
  outcome  \* the last operation and how it ended: "ok", "nullopt", or "throws"

vars == <<x, y, outcome>>

Coeff(p, m) == IF m \in DOMAIN p THEN p[m] ELSE 0

\* The polynomial with the coefficients c(_) at the monomials in S.
Poly(S, c(_)) == [m \in {n \in S : c(n) # 0} |-> c(m)]

O == Poly({}, LAMBDA m : 0)

Add(p, q) == Poly(DOMAIN p \cup DOMAIN q, LAMBDA m : Coeff(p, m) + Coeff(q, m))

Scale(p, c) == Poly(DOMAIN p, LAMBDA m : p[m] * c)

Mul(p, q) ==
  Poly({Times(m, n) : m \in DOMAIN p, n \in DOMAIN q},
       LAMBDA g : MapThenSumSet(LAMBDA mn : p[mn[1]] * q[mn[2]],
                    {mn \in (DOMAIN p) \X (DOMAIN q) : Times(mn[1], mn[2]) = g}))

\* The degree of a polynomial that is not zero: the total degree or, for an
\* irrational number a, the degree in a.
Highest(S) == CHOOSE d \in S : \A e \in S : e <= d
Degree(p) == Highest({TotalDegree(m) : m \in DOMAIN p})
DegreeIn(p, a) == Highest({Exponent(m, a) : m \in DOMAIN p})

\* The exact quotients of p and q with coefficients up to QuotientBound.  (The
\* degree of a product is the sum of the degrees.)
Quotients(p, q) ==
  LET monomials == {m \in Generator :
                      /\ TotalDegree(m) <= Degree(p) - Degree(q)
                      /\ \A a \in DOMAIN m : m[a] <= DegreeIn(p, a) - DegreeIn(q, a)}
      candidates == {Poly(monomials, LAMBDA m : c[m]) :
                       c \in [monomials -> -QuotientBound .. QuotientBound]}
  IN  IF p = O THEN {O} ELSE {r \in candidates : Mul(r, q) = p}
-----------------------------------------------------------------------------
Init == x = O /\ y = O /\ outcome = <<"none", "ok">>

Done(op) == outcome' = <<op, "ok">>

\* Obtain a generator, or zero, of some module.
Take ==
  /\ y' \in {O} \cup {Poly({m}, LAMBDA n : 1) : m \in Generator}
  /\ Done("take")
  /\ UNCHANGED x

\* A generator is given twice.
TakeThrows == outcome' = <<"take", "throws">> /\ UNCHANGED <<x, y>>

Exchange == x' = y /\ y' = x /\ Done("exchange")

AddTo == x' = Add(x, y) /\ Done("+=") /\ UNCHANGED y
SubtractFrom == x' = Add(x, Scale(y, -1)) /\ Done("-=") /\ UNCHANGED y
MultiplyBy == x' = Mul(x, y) /\ Done("*=") /\ UNCHANGED y
Negate == x' = Scale(x, -1) /\ Done("-") /\ UNCHANGED y

\* Simplify, or promote to another module: the value stays the same.
Rewrite == Done("rewrite") /\ UNCHANGED <<x, y>>

\* Multiply by num/den (and divide by den/num.)
ScaleBy(num, den) ==
  /\ Done("scale")
  /\ Scale(x', den) = Scale(x, num)
  /\ den = 0 => x' = x
  /\ UNCHANGED y

IsMultiple(a, b) == a % (IF b < 0 THEN - b ELSE b) = 0

\* If not all coefficients can be divided, some of them have been changed.
ScaleByThrows(num, den) ==
  /\ outcome' = <<"scale", "throws">>
  /\ den = 0 \/ \E m \in DOMAIN x : ~IsMultiple(x[m] * num, den)
  /\ \A m \in DOMAIN x \cup DOMAIN x' :
       \/ Coeff(x', m) \in {Coeff(x, m), Coeff(x, m) * num}
       \/ Coeff(x', m) * den = Coeff(x, m) * num
  /\ UNCHANGED y

\* The quotient is exact, or there is none, or the divisor is zero.
TrueDivide == Done("truediv") /\ y # O /\ Mul(x', y) = x /\ UNCHANGED y
TrueDivideNone ==
  outcome' = <<"truediv", "nullopt">> /\ y # O /\ Quotients(x, y) = {} /\ UNCHANGED <<x, y>>
TrueDivideThrows == outcome' = <<"truediv", "throws">> /\ y = O /\ UNCHANGED <<x, y>>

Next ==
  \/ Take \/ TakeThrows \/ Exchange \/ AddTo \/ SubtractFrom \/ MultiplyBy \/ Negate \/ Rewrite
  \/ \E r \in Ratio : ScaleBy(r.num, r.den) \/ ScaleByThrows(r.num, r.den)
  \/ TrueDivide \/ TrueDivideNone \/ TrueDivideThrows

Spec == Init /\ [][Next]_vars
=============================================================================
