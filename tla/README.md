# Verification of exact-real

TLA+ specifications of libexactreal (`libexactreal/`), the C++ library of exact real numbers and
finitely generated modules of real numbers, with TLC configurations and TLAPS proofs.
Paths below are relative to the root of the repository, i.e., `src/` in `PROJECT.json`.

## 1. The system

| Component | State | Operations | Interacts with |
|---|---|---|---|
| Factories of real numbers (`random_real_number.cc`, `constrained_random_real_number.cc`, `rational_real_number.cc`, `real_number_product.cc`, `real_number_base.cc`) | live objects, weak caches of four factories, the 1024 products that `KeepSetAlive` owns, the id counter | `random`, `rational`, `operator*`, `operator/`, destruction with the last pointer, `save`, `load` | everything above compares numbers by address and sorts them by id |
| Seeds (`seed.cc`) | a counter that wraps | `Seed()` | factories |
| Product keys (`real_number_product.cc`) | none; loops over two or three sorted vectors | `Key::persist`, `Key::operator==`, hash, division, `deglex` | factory of products, order of modules |
| Approximations (`arf_`, `refine`, `arb`, `cmp`, `operator<` ...) | balls that callers refine; a memo of `arf` | approximate, refine, compare | comparisons of numbers, order and `floor` of elements |
| Modules (`module.cc`) | unique sorted bases; the latest 1024 are kept alive | `make`, `span`, `submodule`, `gen`, `zero` | elements, serialization |
| Elements (`element.cc`) | a module and a coefficient per generator | ring operations in place, scaling, `truediv`, `floordiv`, `promote`, `simplify`, comparisons, `arb`, `floor`, `ceil`, conversion to double | modules, coefficient rings, approximations |
| Coefficient rings (`integer_ring.cc`, `rational_field.cc`, `number_field.cc`) | none | arithmetic of coefficients | elements |
| Serialization (`cereal.hpp`, `cppyy.hpp`) | an archive, and what has been written to or read from it | save and load with sharing of pointers | factories, modules |
| Arf/Arb wrappers (`arf.cc`, `arb.cc`) | none | arithmetic of FLINT | approximations, elements |
| Expression templates (`yap/`) | the target of an assignment, temporaries, the settings in force | assign an expression, `@=` | approximations, elements |
| Python interface (`pyexactreal`) | none of its own | wraps the above for Sage | all |

The library has no threads. What makes it hard is sharing and order: objects die with their last
pointer and may come back with another id; identity, caching, and the order of the generators
all rest on these ids; loops walk over several sorted lists at once and must agree with each
other, down to a hash; elements of different modules are moved to a common one before each
operation; comparisons and divisions are loops without an obvious bound; a division can throw
half way; an expression is evaluated in place, into a variable that it may contain; an archive outlives the process and its ids.  What makes each component correct:

* factories: one live object per number, one number per object; parts of objects live as long as these do; ids grow;
  a number comes back from an archive as what it was.
* product keys: `persist`, lookup, division and `deglex` compute product, equality, quotient,
  and a monomial order, and end.
* approximations: the promised relative accuracy; balls and comparisons tell the truth; they end.
* modules and elements: the arithmetic of polynomials, whichever module an element lives in.
* elements as numbers: balls of the accuracy that was asked for, however much terms cancel; right answers; loops that end.
* expression templates: a variable gets the value of the expression, nothing else changes.
* serialization: what has been saved is what is loaded, whatever objects of an archive share.

`PROJECT.json` lists every component with its status, and the hazards at their lines.

## 2. Modules

| Module | Models | Notes |
|---|---|---|
| `Monomials` | products of powers, division, `deglex` as a definition | shared by all |
| `RealNumbers` | the factories | one action per operation; an object is its id |
| `UniqueReals` | what the factories promise | abstract specification of `RealNumbers` |
| `RealNumbersProofs` | | theorems about `RealNumbers` |
| `ProductKeys` | the loops of `real_number_product.cc` | one action per branch of a loop |
| `Combinations` | modules and elements as sorted lists with coefficients | pure operators |
| `Elements` | a client that computes with two elements | loops of scaling and of `truediv` step by step |
| `Polynomials` | what elements promise | abstract specification of `Elements` |
| `Dyadics` | floating point numbers and their roundings | pure operators |
| `BallArithmetic` | `arf_` of the four classes, balls, `refine`, `cmp` | pure operators |
| `Approximations` | a client that refines and compares real numbers | one step per round of a comparison |
| `ElementBalls` | `arb`, comparisons, `floor`, `ceil`, `floordiv`, conversion to double of elements | composes `BallArithmetic` and `Combinations`; one step per term of a sum and per round of a loop |
| `ExpressionTrees` | expressions of Arbs or Arfs, their settings, the static assertions | pure operators |
| `Expressions` | their evaluation, with temporaries | one step per visit of a node |
| `Assignments` | what an assignment promises | abstract specification of `Expressions` |
| `ExpressionsProofs` | | theorems about `Expressions` |
| `ProductKeysProofs` | | theorems about `ProductKeys`: factors, then hashes, monomials and `deglex` |
| `MonomialsProofs` | | lemmas about finite sums, monomials, their degrees and their order |
| `ElementsProofs` | | theorems about `Elements` |
| `ApproximationsProofs` | | theorems about `Approximations`: floating point numbers, roundings, approximations, balls, comparisons |
| `RecursiveFunctions` | | lemmas for the proofs: induction, and the functions that are defined by recursion |
| `Serialization` | elements in archives, across restarts | sharing within an archive, and the order of ids |
| `SerializationProofs` | | theorems about `Serialization` |
| `MC*` | small instances | |

**RealNumbers.** `store` holds the live objects (`heap`: id to key), the caches (key to id) and
the id counter; `held` are the pointers of callers, `kept` those of `KeepSetAlive`. Each factory
call is an action that looks the key up (`Obtain`), returns the object to the caller, and then
destroys whatever nothing points to (`Sweep`). Any set of pointers may be released at any time and
the process may end at any time (`Restart`), also between reading two factors of a product. The archive
has values (`Value`), not ids. Products throw for rational factors other than 1; calls that throw
or return an operand itself are no steps, unless they draw a seed first (`RandomBetweenThrows`). Which products `KeepSetAlive` drops is left open. The prototypes
at `real_number.cc:236` draw the first ids during static initialisation: ids start at any `FirstId`.
Leading digits of a constrained real are any of `Initial`: the factories only compare them.

**ProductKeys.** Vectors of `[id, exp]`, indices `i`, `j`, `k`, one step for each iteration. Division subtracts in a list of exponents (`quotient`)
and collects the factors with an exponent that is not zero in a second loop (`DivideCollect`). `Monomial`
takes a list to what it stands for. Operands are products or single numbers; the latter are passed as a list with one factor (`OperandFactors`). The properties compare the results with `Monomials`, which is what `RealNumbers`,
`Combinations` and `Serialization` use in turn.

**Combinations, Elements, Polynomials.** Modules are unique, so a module is its basis. `Elements` has
variables `x` and `y` as a program would; operations are methods of `x`. Scaling (a coefficient at a time,
and it may throw half way) and `truediv` (a term at a time) are loops of their own. The refinement mapping
takes an element to its polynomial; while a scaling runs, to the one before it.
Quotients are specified by what they are (`Mul(q, y) = x`), not by how they are found.

**Dyadics, BallArithmetic, Approximations.** Numbers are given with all their digits, so that a property
can compare an approximation to the exact value; the code draws the digits with rand48. `arf_` follows the
code of each class: truncation of random digits, rounding to nearest of fractions, digits of
a constrained real from two sources, and working precision of products. `Refine`, `Cmp` and the comparison loops are as in
`real_number.cc`. `IsNumber` and `IsTarget` say what these numbers are: the digits of a random number are in (0, 1), fractions are in lowest terms, the given
digits of a constrained real end where those of its inner number start. Magnitudes of radii (30 bits, rounded up) are exact here, also when a ball is multiplied by the denominator of a fraction (`Scaled`); in `ElementBalls`,
where they add up, they are rounded up to `RadiusBits`. Balls that callers refine start as `zero_pm_inf` or come out of an earlier call of `refine`.

**ElementBalls.** A client asks a question about its elements (`Ask`). If the exact shortcut of the call applies, it has the answer;
otherwise the call runs two loops, one inside the other: `AddTerm` and `AddedUp` are `Element::arb`, which adds up the balls of generators, times
coefficients, and starts again with twice the working precision when the sum is not accurate enough (`IsAccurate`); `Decide` is the end of a round of
the loop of the call, which has a verdict or asks for twice the accuracy. Sums, products and quotients of balls follow FLINT, with its rounding
errors. What decides are the operators of Arb (`IfLess`, `IfEqual` ...), the ends of a ball rounded outwards (`Ends`), and for
`floordiv` the quotient of two balls. Comparisons with a real number throw unless it is a generator (`RelatedTo`); that
is no step.

**ExpressionTrees, Expressions, Assignments.** `Form` makes an expression from variables, `Start`, `Assign` and `InPlace` evaluate it into
a variable, any variable, also one of its own. The recursion of the transformation is `agenda`: evaluate a tree into a location
(`EvaluateTerminal`, `EvaluateCall`, `EvaluateUnary`, `EvaluateBinary`), or apply an operator or a negation to what is there (`ApplyBinary`,
`ApplyUnary`). `memory` has the variables and the temporaries that right operands are evaluated into; the settings that calls fix travel
down the tree. A value is symbolic: the operator, the values it has been applied to, and the settings it was applied with. `Assignments`
has the variables only: one step sets one of them to the value of an expression.

**Serialization.** Atoms get ids in order of creation, a loading process gives ids to atoms in the order of the
archive, keeps those of atoms that live, and sorts the basis again (`Make`, `Sorted`); coefficients are attached by position (`Load`).
Factors of a product are written in the order of their addresses, i.e., in any order (`FactorsOf`). Generators are random numbers and products of them, not rational numbers (`BasisAssumption`). An archive has any number of elements; a
pointer to a module, a product or an atom is written in full where it comes up first and as a number later (`Pointer`), and is
looked up by that number when reading (`LoadReference`). Both sides number pointers by themselves, in the order in which they reach them. An open archive keeps
what has passed through it alive (`Shared`), so closing it (`Close`, `CloseReader`) can destroy numbers. The client can create and drop
numbers, elements and modules between any two elements of an archive, while writing and while reading.

## 3. Runs

| Run | Question | Bounds and why they suffice |
|---|---|---|
| `RealNumbers` | uniqueness, exactness of caches, life time of parts, reload; refinement of `UniqueReals` | four ids, two seeds, one leading part, exponents up to 2, one kept product: enough for two atoms and two products, objects that die and come back, a key that hits and one that misses, wrap of the seeds; the theorems lift these bounds |
| `ProductKeys` | the loops against `Monomials` | three ids with gaps, exponents up to 2 (3 in the cache): operands that are products or not; each branch, lists that end early or late; words of 16 values so that hashes wrap |
| `Elements` | refinement of `Polynomials`, equality, recognition of numbers, exact floor, invariant and progress of division | two atoms, degree 2, three generators, coefficients -1..1 (operands of multiplications and divisions degree 1, two generators; -2..2): bases that overlap, contain each other, or have nothing in common; coefficients that do and do not divide; factors 2, 3/2, -3/2 and 1/0 to scale with; quotients are searched up to `QuotientBound` |
| `ElementsLive` | loops end | one atom |
| `Approximations` | accuracy, assertions of `refine`, soundness of `cmp`, order of numbers of a kind; comparisons end | all random numbers with eight digits that end in 1, fractions, constrained reals with leading parts of both signs and zero, products of two, numbers that are close to each other and to targets; precisions 1 to 5 in any sequence. The first precision of comparisons with fractions is 4 instead of 64. The theorems lift all of these bounds but the one on products |
| `ElementBalls` | accuracy of `arb`, right answers, loops end | eight elements of rank three over two random generators, among them zero, integers, and sums in which leading digits cancel; four choices of digits, for which everything is decided before the numbers exceed the integers of TLC; three bits instead of 64 and 53, six bits for radii; one call from each pair of elements, as calls share nothing but the elements, which they do not change |
| `Expressions` | refinement of `Assignments`, locality, settings | expressions up to `MCExpressions`' trees, with the target on either side of an operator, nested on the left and on the right, calls in all places; two assignments in a row, i.e., an expression that is evaluated again after its variables have changed; two operators; four locations for temporaries, of which these trees need three |
| `Serialization` | what loading restores | three atoms, a basis of atoms and one of products that share a factor and whose order depends on the order of the atoms; two elements in an archive, so that modules, products and atoms come up again; four ids in a process, i.e., an atom can come back with another id. (Two elements are the fewest that share; a third one would find nothing that the second has not.) |
| `RefineContains`, `ComparisonsAreRight`, `RefinedContainsProduct`, `LoadRestoresElement` | violations, see below | |

Each property has a mutant of the code that violates it (the operators marked "Mutant").

**Fairness.** Only steps of a loop that is running are assumed to happen (`WF_vars(Step)`, `WF_vars(Loop)`,
`WF_vars(CompareStep)`, `WF_vars(AddTerm \/ AddedUp \/ Decide)`): the program is sequential, and a function that has been called continues until it returns. Nothing is assumed
about what callers do. That the comparisons end depends on finitely many digits: two different numbers differ in some digit.

**Deadlock** is checked everywhere but in `Serialization`, where a process that has used up its `MaxId` ids and has not saved
anything has nothing left to do.

## 4. Disagreements with the documentation and the tests

* `RefineContains`: `RealNumber::refine` and `arb` promise a ball that contains the number
  (`exact-real/real_number.hpp:152`, `:174`). The radius is half an ulp of the approximation, its error can be a full one.
  The example in the documentation, 1/3 with three bits, shows it: 5/16 ± 1/64 does not contain 1/3. The assertions in `refine` hold
  nevertheless (`RefineAssertions`) as `cmp` rounds the ball outward before it looks.
* `ComparisonsAreRight`: as a consequence, comparing with an exact number can go wrong: 21 < 22 is false for
  `RealNumber::rational(21)`. Random numbers, and rational numbers, are still ordered correctly among
  themselves (`NumbersOfAKindAreOrdered`): both balls are off in the same way.
  Elements inherit this: they may be outside of their ball, but by no more than its radius (`ArbIsClose`), and answers are right for numbers that are no further
  from the element than that (`AnswersAreRight`). With the digits of `Draw(263, 273)` and three bits, the floor of b - 3a, a bit less than
  -1, is -1 rather than -2. In the code such digits have a probability of about 2^-64.
* `RefinedContainsProduct`: `arf_` of a product of n factors works with ⌈log2(3n)⌉ more bits than it was asked for. These pay for the errors of n factors
  and n - 1 multiplications, but the result is rounded once more (`real_number_product.cc:532`). The error bounds leave room for that if 4n is at most the power of two that 3n is rounded up to,
  i.e., not for 5, 9, 10, 17, ... factors. The run has five factors, a⁴b, whose digits after the ninth are all ones: `cmp` finds the number outside of the
  ball that `refine` has just computed with four bits, so that the assertion at the end of `refine` fails (`RefinedIsFound`). (`ArfIsAccurate` cannot be evaluated there: its
  integers are too large for TLC.) For products of two, TLC finds no such case (run `Approximations`); that there is none is not proved.
* `LoadRestoresElement`: coefficients are saved in the order of the generators; the loading process sorts the
  generators by its own ids and does not move the coefficients along. It is enough that it has created one of the generators before, or that
  the element before this one in the archive has. While the generators live (`RestoredInSameProcess`), and in a process that has none
  of them, if none is a product (`RestoredInNewProcess`), all is well, and the module is the right one in any case (`GeneratorsRestored`).

Found while reading, not covered by a run: `Arb::operator!=(mpq_class)` (`arb.cc:259`) is `operator==`; `floordiv` by zero divides by the exact ball of zero
and rounds the result, which is not a number, to an integer: `!(div != 0)` (`element.cc:512`) asks whether the comparison is decided, not how; `promote` drops a non-zero coefficient of a generator that the
target does not have, unless that generator comes last, which its documentation excludes but only the last case asserts.

## 5. Proofs

`RealNumbersProofs` proves, for all values of the constants that satisfy the assumptions named in `RealNumbers`
(`SeedAssumption`: seeds are 0 .. SeedModulus - 1; `RationalAssumption`: the rationals in play are integers, closed under products, with 1;
`BoundAssumption`: the bounds are natural numbers): `TypeCorrect`, `CachesAreExact`, `NumbersAreUnique`,
`DivisionIsExact`, `Implementation` (of `UniqueReals`) and `LoadIsExact`.

The inductive invariant is `IInv == TypeOK /\ CacheExact /\ ReadsArchive`. `TypeOK` says that objects are made
of live parts; `CacheExact` that heap and caches are inverse to each other. Uniqueness of
representations is not inductive by itself (another object of the same value could hide from the caches) but
follows from `CacheExact`: two objects with the same value have, part by part, the same key
(`ConsistentIsUnique`). `ReadsArchive` relates the factors that have been read to the archive; without it nothing is known about
a load that was interleaved with destruction. The argument goes through three facts about the store: `Obtain` preserves it and returns
an object with the requested key (`ObtainSound`), growing the heap does not change values (`ValueGrows`), and `Sweep` keeps
everything that roots reach.

`ExpressionsProofs` proves `EvaluationLocal`, `SettingsStayBound` and `EvaluationIsAssignment` (`Expressions` implements `Assignments`), from
`VariableAssumption` (there are variables), `TreeAssumption` (what an expression is made of is an expression of the client as well),
`HeightAssumption` (expressions are finite: their types are), `UnboundAssumption` (a setting that is not given is none: an `optional` without a value),
`LocationAssumption` (a temporary is no variable) and `CallsAssumption` (the bound is a natural number). None of the three properties is inductive. That nothing is left in the end
needs to know that an operator is pending for each temporary: in `IInv == TypeInv /\ IntoTarget /\ InUse /\ Untouched`,
what is on the agenda writes to the target or to temporaries; the temporaries in use are exactly those that the operators on
the agenda will consume, each of them once; the other variables are as they were. For the settings, each tree on the agenda has been accepted with
the settings that it will be evaluated with. For the values, what is left on the agenda takes the memory as it is to the
memory that the assignment has to end with; a step keeps this, as what it writes is not read by what comes later. The value of a tree is a function of the tree and its settings, by
induction on its height.

`ProductKeysProofs` proves that the loops are right for operands with any number of factors, any ids and any exponents, from
`KeyAssumption` (ids are natural numbers; the bounds are positive): `TypeCorrect` (indices stay in range, lists are sorted),
`MergeIsProduct` (`Merges`, the part of `PersistIsTimes` without the hash), `KeyIsRecognized` (`Recognizes`, the same of `EqualIsTimes`) and
`QuotientIsFound` (`DivideIsQuotient`). The properties speak of the moment when a function returns and are not inductive. `IInv` adds a loop invariant for each of
the functions: in `persist`, all that has been merged is smaller than what is ahead in both operands, has the right exponents, and nothing
has been left out (`PersistInv`); in `Key==`, the same for the part of the key that has been compared (`EqualInv`); in the division, exactly the factors of `rhs` that have been passed
have been subtracted, and the others are not among the factors of `lhs` that have been passed (`DivideInv`). That lists are sorted by distinct ids
takes them to monomials (`MonomialOf`) and tells that a factor is missing as soon as a larger one comes up (`AbsentFrom`).

The second part of the module goes on from there to all of `PersistIsTimes` (`PersistedKeyIsFound`), `EqualIsTimes` (`EqualKeysHaveEqualHashes`) and
`DeglexIsMonomialOrder` (`DeglexOrdersMonomials`). A hash that has been computed by repeated squaring, modulo the size of a word, is a power, and the product
over the operands is that over the merged factors (`HashOfKey`); this is what the cache needs to find a key again. `deglex` walks over two lists of factors
in step: the invariant `DeglexInv` says that the lists agree up to where it is, in lists of factors and therefore in monomials, so the first difference decides.

`ElementsProofs` proves everything that the run `Elements` checks: `TypeCorrect`, `EqualityDecided`, `NumbersDecided`, `FloorDecided`,
`DivisionCorrect`, `RemainderDecreases` and `ElementsArePolynomials` (`Elements` implements `Polynomials`), for any modules, any number of
generators, and coefficients of any size. The assumptions: `AtomAssumption` (finitely many random numbers are in use, with ids), `BasisAssumption` (modules
have finitely many generators, monomials in these numbers), `RatioAssumption` (numerators and denominators are integers: `x /= n` also divides by negative numbers, and throws for 0) and `BoundAssumption`
(bounds are natural numbers). The argument:

1. `Smaller` is a strict total order that multiplication respects (`MonomialsProofs`), so `Make` lists a finite set of generators in increasing order, without gaps (`MakeFacts`), and `Span` has the generators of both (`SpanFacts`).
2. An element is known by its coefficient `At(e, g)` at each monomial `g`, which is 0 where it has no such generator. Each operation is described by these numbers:
   the merge of `promote` keeps them if the other module has the generators (`MergeMerges`, an induction on what is left of two lists), sums and negatives add and negate
   them, and a product has at `g` the sum over all pairs of generators with the product `g` (`Con`, `ProductFacts`), which is distributive and does not depend on the modules.
3. Two elements have the same coefficients iff they have the same polynomial (`SamePolynomial`); so what `At` says of an element is what `Polynomials` says of its image
   (`AddIsSum`, `ScaleIsMultiple`, `MulIsProduct`).
4. The leading generator of a product is the product of the leading generators, and its coefficient the product of the coefficients, as integers have no
   zero divisors (`LeadingOfProduct`). So subtracting the next term lowers the leading generator (`NextRemainder`), and if the remainder is a multiple of the divisor there is a next term (`MultipleHasTerm`).
   That `truediv` may answer that there is no quotient follows: if there were one, the remainder would be a multiple of the divisor (`RemainderIsMultiple`).

The invariant `Inv` is that elements are valid, and `Scaling` or `Dividing` while such a loop runs. `Scaling`: the coefficients before `task.at` have been scaled, the others are as they were, and nothing
has been scaled if the denominator is 0. `Dividing`: the operands are `x` and `y` in a common module, the divisor is not zero, and dividend = quotient * divisor + remainder at each monomial. Neither follows from the
properties: a scaling that throws is only right because of what has been scaled before, and an answer `nullopt` because of all the terms before.

`SerializationProofs` proves everything that the run `Serialization` checks: `ElementsAreSorted` (`TypeOK`), `ModulesComeBack` (`GeneratorsRestored`), `ElementsComeBack`
(`RestoredInSameProcess`) and `ElementsComeBackElsewhere` (`RestoredInNewProcess`), for archives of any length, any modules and any ids, from `BasisAssumption`: there are finitely many
atoms, and generators are products of positive powers of them. The argument:

1. Writing: an archive is a list of codes. Each is a number of a pointer, with the content if the pointer comes up for the first time. That makes sense relative to the list `S` of all pointers that the writer
   has registered, of which only a beginning was there at the time; codes say what they say also when `S` grows (`ModuleCode`). `Records(S, c, B, E, saved)` says that the element `n` in `E` is that of the module with generators `B[n]`,
   that it takes the number of registered pointers from `c[n - 1]` to `c[n]`, and what had been saved.
2. Reading: the pointers that have been read are always the first `c[next - 1]` ones of `S` (`HasRead`): for a number the same one, for a module one with the same generators, in the order of this process (`Stands`).
   In between, when only some of the factors of a product or generators of a module have been read, those that are being read (`O`) are missing. The induction over the lists is in `ReadChain`.
3. The generators are therefore the right ones (`NextFacts`). There is only one way to sort them (`AscendingIsUnique`), so with ids in the same order they are sorted as they were when they were saved,
   and the coefficients fit (`SameOrder`). Ids are the same as long as an atom lives; if none of the generators does, they are given out in the order of the archive, which is the order of the generators if
   these are single random numbers (with products, it is the order of their factors, and the theorem would be false).

The invariant is `Inv == Living /\ Writing /\ Reading`: what `TypeOK` says and that all that is owned is alive; the archive that is being written records what has been saved; the complete one does as well, and the reader is
at one of its elements. The properties are about a single step, whose outcome depends on all that has been written and read before, so none of them is inductive. `Writing` and `Reading` say that there are lists, of any length, with some property: TLC cannot
evaluate them, it checks what follows from them.

`ApproximationsProofs` proves the safety properties that the run `Approximations` checks, for all random, rational and constrained numbers and all precisions: `ArfAccuracy` (`ArfIsAccurate`), `Refining`
(`RefineAssertions`), `CmpSoundness` (`CmpIsSound`), `Closeness` (`UndecidedAreClose`), and, without any restriction as it is about random and rational numbers only, `Ordering` (`NumbersOfAKindAreOrdered`). The assumptions are
`NumberAssumption` and `TargetAssumption` (numbers are what the factories create: `IsNumber`, `IsTarget`) and `PrecisionAssumption` (precisions are positive). Products are excluded where their approximations matter: with five
factors the statements are false (`RefinedContainsProduct`), and with two, a fold over a list and its two roundings, they are left to the run. The argument:

1. Powers of two, the number of digits of an integer, and odd parts are recursive functions that halve their argument (`Halving`). A floating point number is an integer multiple `At(a, s)` of 2^-s for all
   large s, so any few of them are integers at a common scale (`CommonScale`), and sums, products with integers, comparisons and shifts are those of these integers.
2. Numbers to be approximated are n / d with a floating point number n (`IsValue`). A result is *nearest* if no number with b digits is closer (`IsNearest`), and it *respects* numbers with b digits if it is on the same side of each of them as
   the exact number, or equal to it (`Respects`). Truncation respects, rounding of floating point numbers and of fractions is nearest (`RationalIsFine`, `RandomIsFine`), and what is nearest respects. A constrained real is a sum that has been truncated
   and then rounded; it respects because its given digits and the digits of the inner number do not overlap (`ConstrainedIsFine`).
3. Respecting and nearest numbers are accurate (`RespectIsAccurate`, `NearestIsAccurate`) and within twice the radius that `refine` puts around them (`RespectIsInReach`, `NearestIsInReach`): `Fine` is what all classes have in common.
4. `cmp` rounds the ends of a ball outward to p digits, and asks for an approximation with more digits than these ends have. The approximation respects them: it is found outside only if the number is. The rounded ball
   contains the number if the ball does (`CmpFindsCovered`), and also if it is the ball of a refinement, which need not contain it but whose rounded ends are at least the next numbers with p digits (`CmpFindsRefined`).
5. Rounding is monotonic, so if the balls of two numbers of a kind, which have equal relative radii, miss each other, the numbers are in the order of the balls (`ApartIsOrdered`). For rational numbers this needs lowest terms: equal numbers are the same (`LowestTerms`).
6. If balls overlap, the numbers are within three times the sum of the radii: each is within twice its radius, and the midpoints are within the sum (`OverlapIsClose`, `ScaledIsClose`).

The inductive invariant `IInv` is `NumbersOfAKindAreOrdered` together with what the balls are: the ball of the caller is the one around an approximation with *some* precision, at least the one that was asked for last (`BallInv`); the balls of a running
comparison are those of half the next precision, and they overlap (`TaskInv`). None of the properties is inductive without it: they follow from what balls are, not from how accurate they are.

*Induction over data.* The theorem of the library about functions that are defined by recursion takes operators as parameters. `RecursiveFunctions` states induction for sets of numbers instead. Its parameters are constants, which are instantiated, and
it gives existence and uniqueness of a recursive function whose value only depends on values at smaller arguments: the merge of
`promote`, sums over sets, the value of an expression, the folds that write and read lists, powers of a hash, powers of two.

Only model-checked: that loops end (`Terminates`, `LoopsEnd`, `ComparisonsEnd`, `CallsEnd`; liveness and ENABLED are out of TLAPS' reach; for division, `RemainderDecreases` is the reason); approximations of products; and
`ElementBalls`, i.e., how errors of balls add up in a sum of any number of terms.

## 6. Not modelled

Coefficients other than integers; rational generators other than 1; division of an element by zero with `floordiv`; hash, printing, and the byte format of
archives; the memo of `arf` (a pure cache); archives of versions of cereal that register addresses instead of pointers (`cereal.hpp:259`), in which an address
that is used again can be taken for what had been there before; the addition to `Arb`s and `Arf`s of numbers that are not
`Arb`s or `Arf`s (they are variables that do not change in `Expressions`); overflow of exponents and precisions; FLINT, GMP, e-antic, cereal and unique-factory, which are not part of the repository
and appear as external definitions; the Python interface, which has no state of its own.

## 7. Plan

Done, in this order: `RealNumbers` with its abstract specification and proofs; `ProductKeys` and proofs of its loop invariants; `Combinations`,
`Elements`, `Polynomials`; `Approximations`; `Expressions` with its abstract specification and a proof; `ElementBalls`; `Serialization`
with sharing inside of archives.

Done since: proofs of all that the runs `ProductKeys`, `Expressions`, `Elements` and `Serialization` check except termination, and of `Approximations` except termination and products.

Next:

1. Proofs: that the error of a ball in `ElementBalls` is bounded by its radius when a term is added, from the facts about roundings in `ApproximationsProofs`, and that the answers follow from it; and the accuracy of products of up to four factors.
2. Elements over a field and over modules with several rational generators (`rationalCoefficients`): extend `Combinations` with the ring as a parameter; run as `Elements`.
3. The leading digits of constrained reals (`RealNumber::random(lower, upper)`), whose loop has to stay within the interval.
