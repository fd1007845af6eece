---------------------------- MODULE Combinations ----------------------------
(***************************************************************************)
(* Modules over the integers, Module<IntegerRing>, and their elements,     *)
(* Element<IntegerRing>.  A module is given by its basis: distinct         *)
(* monomials in increasing order.  (The only rational generator here       *)
(* is 1, the empty monomial.)  As modules are unique, a module is its      *)
(* basis.  An element is a module and a coefficient for each generator.    *)
(*                                                                         *)
(* The operations on elements walk over these two lists; what they should  *)
(* compute are the operations on polynomials at the end of this module.    *)
(***************************************************************************)
EXTENDS Naturals, Integers, Sequences, FiniteSets, Monomials
LOCAL INSTANCE FiniteSetsExt
LOCAL INSTANCE Functions

CONSTANT Atom   \* the ids of the irrational real numbers in use that are no products

ASSUME AtomAssumption == Atom \subseteq Nat /\ IsFiniteSet(Atom)

One == [a \in {} |-> 0]

\* RealNumber::deglex
Smaller(f, g) == Deglex([a \in Atom |-> a], f, g)

-----------------------------------------------------------------------------
(* Modules. *)

\* Module::basis
Gens(module) == Range(module)

\* Module::Module insists on generators that are distinct and of which at most
\* one is rational.
AreGenerators(list) ==
  \A m, n \in DOMAIN list : m # n => list[m] # list[n] /\ ~(list[m] = One /\ list[n] = One)

\* Module::make sorts the generators.
Make(gens) ==
  [n \in 1 .. Cardinality(gens) |->
     CHOOSE f \in gens : Cardinality({g \in gens : Smaller(g, f)}) = n - 1]

\* There is one module for each list of (ids of) generators.
SameModule(m, n) == m = n

Submodule(m, n) == Gens(m) \subseteq Gens(n)

\* Mutant: the generators of the second module are appended without sorting.
SpanAppends(m, n) ==
  IF Submodule(n, m) THEN m
  ELSE IF Submodule(m, n) THEN n ELSE m \o Make(Gens(n) \ Gens(m))

Span(m, n) ==
  IF Submodule(n, m) THEN m
  ELSE IF Submodule(m, n) THEN n ELSE Make(Gens(m) \cup Gens(n))

-----------------------------------------------------------------------------
(* Elements. *)

Element(module, coefficients) == [module |-> module, coefficients |-> coefficients]

Rank(e) == Len(e.module)

IsZero(e) == \A n \in 1 .. Rank(e) : e.coefficients[n] = 0

Zero(module) == Element(module, [n \in 1 .. Len(module) |-> 0])

\* Module::gen (counting from 1).
Gen(module, n) == Element(module, [k \in 1 .. Len(module) |-> IF k = n THEN 1 ELSE 0])

\* The generator of a module of rank one, times c.
Multiple(c, g) == Element(Make({g}), <<c>>)

\* Mutant: a generator of the other module is skipped without a coefficient.
MergeSkips(ours, c, theirs) ==
  LET merge[p \in (1 .. Len(ours) + 1) \X (1 .. Len(theirs) + 1)] ==
        LET i == p[1]
            j == p[2]
        IN  IF j > Len(theirs) THEN <<>>
            ELSE IF i > Len(ours) THEN <<0>> \o merge[<<i, j + 1>>]
            ELSE IF ours[i] = theirs[j] THEN <<c[i]>> \o merge[<<i + 1, j + 1>>]
            ELSE <<0>> \o merge[<<i + 1, j + 1>>]
  IN  merge[<<1, 1>>]

\* The loop of promote: the coefficients c of our generators, or 0, for each
\* of their generators.  A generator of ours that is not among theirs is
\* dropped.
Merge(ours, c, theirs) ==
  LET merge[p \in (1 .. Len(ours) + 1) \X (1 .. Len(theirs) + 1)] ==
        LET i == p[1]
            j == p[2]
        IN  IF j > Len(theirs) THEN <<>>
            ELSE IF i > Len(ours) THEN <<0>> \o merge[<<i, j + 1>>]
            ELSE IF ours[i] = theirs[j] THEN <<c[i]>> \o merge[<<i + 1, j + 1>>]
            ELSE IF Smaller(ours[i], theirs[j]) THEN merge[<<i + 1, j>>]
            ELSE <<0>> \o merge[<<i, j + 1>>]
  IN  merge[<<1, 1>>]

Promote(e, module) ==
  IF SameModule(e.module, module) THEN e
  ELSE IF IsZero(e) THEN Zero(module)
  ELSE Element(module, Merge(e.module, e.coefficients, module))

Plus(e, f) ==
  LET module == Span(e.module, f.module)
      d == Promote(e, module).coefficients
      c == Promote(f, module).coefficients
  IN  Element(module, [n \in 1 .. Len(module) |-> d[n] + c[n]])

Minus(e) == Element(e.module, [n \in 1 .. Rank(e) |-> - e.coefficients[n]])

\* Mutant: of several ways to write a product of generators only one counts.
CoefficientOnce(e, f, g) ==
  LET pairs == {p \in (1 .. Rank(e)) \X (1 .. Rank(f)) : Times(e.module[p[1]], f.module[p[2]]) = g}
      p == CHOOSE p \in pairs : TRUE
  IN  e.coefficients[p[1]] * f.coefficients[p[2]]

\* The coefficient that e * f gets at g, adding to what is in the map already.
Coefficient(e, f, g) ==
  LET pairs == {p \in (1 .. Rank(e)) \X (1 .. Rank(f)) : Times(e.module[p[1]], f.module[p[2]]) = g}
  IN  MapThenSumSet(LAMBDA p : e.coefficients[p[1]] * f.coefficients[p[2]], pairs)

Product(e, f) ==
  LET module == Make({Times(g, h) : g \in Gens(e.module), h \in Gens(f.module)})
  IN  IF IsZero(e) THEN e
      ELSE IF IsZero(f) THEN f
      ELSE Element(module, [n \in 1 .. Len(module) |-> Coefficient(e, f, module[n])])

Simplify(e) ==
  Promote(e, Make({e.module[n] : n \in {n \in 1 .. Rank(e) : e.coefficients[n] # 0}}))

-----------------------------------------------------------------------------
(* What one can ask of elements. *)

Equal(e, f) ==
  LET module == Span(e.module, f.module)
  IN  Promote(e, module).coefficients = Promote(f, module).coefficients

\* Element == RealNumber for a generator g: throws if g is unrelated.
RelatedTo(e, g) == IsZero(e) \/ g \in Gens(e.module)

EqualNumber(e, g) ==
  /\ ~IsZero(e)
  /\ \A n \in 1 .. Rank(e) : e.coefficients[n] = IF e.module[n] = g THEN 1 ELSE 0

\* Mutant: generators with coefficient zero count.
HasRationalByModule(e) == \A n \in 1 .. Rank(e) : e.module[n] = One

\* The conversion to an optional rational: is there a value, which one is it?
HasRational(e) ==
  \A n \in 1 .. Rank(e) : e.coefficients[n] # 0 => e.module[n] = One

RationalOf(e) ==
  MapThenSumSet(LAMBDA n : e.coefficients[n], {n \in 1 .. Rank(e) : e.module[n] = One})

EqualInteger(e, c) == HasRational(e) /\ RationalOf(e) = c

IsUnit(c) == c \in {-1, 1}   \* IntegerRing::unit

Unit(e) ==
  /\ ~IsZero(e)
  /\ \A n \in 1 .. Rank(e) :
       e.coefficients[n] # 0 => e.module[n] = One /\ IsUnit(e.coefficients[n])

\* Division of integers in C++ rounds towards zero.
Truncated(a, b) ==
  LET sign(c) == IF c < 0 THEN -1 ELSE 1
      abs(c) == sign(c) * c
  IN  sign(a) * sign(b) * (abs(a) \div abs(b))

\* a % b == 0 in C++ (b may be negative)
IsMultiple(a, b) == a % (IF b < 0 THEN - b ELSE b) = 0

\* Mutant: generators that appear only in the second operand are overlooked.
ExactFloorOverlooks(e, f) ==
  LET support == {n \in 1 .. Rank(e) : e.coefficients[n] # 0}
  IN  {q \in {Truncated(e.coefficients[n], f.coefficients[n]) :
              n \in {n \in support : f.coefficients[n] # 0}} :
         \A n \in support : e.coefficients[n] = q * f.coefficients[n]}

\* The lambda exact in floordiv for two elements of a module: the quotient if
\* one is an integer multiple of the other, as a set of at most one integer.
ExactFloor(e, f) ==
  LET support(g) == {n \in 1 .. Rank(g) : g.coefficients[n] # 0}
  IN  IF support(e) # support(f) THEN {}
      ELSE {q \in {Truncated(e.coefficients[n], f.coefficients[n]) : n \in support(e)} :
              \A n \in support(e) : e.coefficients[n] = q * f.coefficients[n]}

\* The leading term of an element that is not zero: the last coefficient that
\* is not zero.
Leading(e) ==
  CHOOSE n \in 1 .. Rank(e) :
    /\ e.coefficients[n] # 0
    /\ \A k \in n + 1 .. Rank(e) : e.coefficients[k] = 0

LeadingGen(e) == e.module[Leading(e)]
LeadingCoefficient(e) == e.coefficients[Leading(e)]

IsElement(e) ==
  /\ Len(e.coefficients) = Len(e.module)
  /\ \A n \in 1 .. Rank(e) : e.coefficients[n] \in Int
  /\ \A n \in 2 .. Rank(e) : Smaller(e.module[n - 1], e.module[n])
=============================================================================
