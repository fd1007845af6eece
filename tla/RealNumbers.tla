---------------------------- MODULE RealNumbers ----------------------------
(***************************************************************************)
(* The real numbers of libexactreal and the factories that create them.    *)
(*                                                                         *)
(* A real number is an object that is only ever reached through shared     *)
(* pointers.  Four factories hand such pointers out: random reals (looked  *)
(* up by their seed), rationals (by their value), constrained random reals *)
(* (by their leading part and the pointer to the random real that provides *)
(* the remaining digits) and products (by the ids and exponents of their   *)
(* factors).  A factory only remembers its objects weakly; the factory of  *)
(* the products also keeps a bounded set of its latest results alive.      *)
(* Everything above this layer compares real numbers by their address and  *)
(* orders them by the id their constructor drew from a global counter.     *)
(*                                                                         *)
(* An object is represented by its id.  A process may exit at any point;   *)
(* the next process starts with empty factories, fresh counters and the    *)
(* archive that was written last.                                          *)
(***************************************************************************)
EXTENDS Naturals, Integers, FiniteSets, Monomials

CONSTANTS
  SeedModulus,    \* seeds are unsigned ints: 2^32 in the code
  FirstSeed,      \* where the counter of the default seeds starts
  RationalValue,  \* the rational numbers in play, closed under products
  Initial,        \* the leading parts (mantissa, exponent) of constrained reals
  FirstId,        \* where the counter of the ids starts
  MaxId,          \* bound of the model: the last id a process draws
  MaxExponent,    \* bound of the model: the exponents in a product
  KeepLimit       \* how many products KeepSetAlive holds: 1024 in the code

ASSUME SeedAssumption == SeedModulus \in Nat \ {0} /\ FirstSeed \in 0 .. SeedModulus - 1
ASSUME RationalAssumption ==
  /\ RationalValue \subseteq Int
  /\ 1 \in RationalValue
  /\ \A p, q \in RationalValue : p * q \in RationalValue
ASSUME BoundAssumption ==
  /\ FirstId \in Nat /\ MaxId \in Nat /\ FirstId <= MaxId
  /\ MaxExponent \in Nat /\ KeepLimit \in Nat

VARIABLES
  store,     \* the live objects, the weak caches of the factories, the id counter
  nextSeed,  \* the counter of Seed()
  held,      \* the objects to which code outside this layer has a shared pointer
  kept,      \* the products that KeepSetAlive holds on to
  loading,   \* the product that is being read from an archive
  archive    \* the value in the file that was written last, if any

vars == <<store, nextSeed, held, kept, loading, archive>>

Seeds == 0 .. SeedModulus - 1
Ids == FirstId .. MaxId

(***************************************************************************)
(* What a factory looks up; the object it creates consists of just this.   *)
(***************************************************************************)
RandomKey(seed) == [kind |-> "random", seed |-> seed]
RationalKey(value) == [kind |-> "rational", value |-> value]
ConstrainedKey(initial, inner) ==
  [kind |-> "constrained", initial |-> initial, inner |-> inner]
ProductKey(factors) == [kind |-> "product", factors |-> factors]

IsRational(k) == k.kind = "rational"
IsProduct(k) == k.kind = "product"
\* What can be a factor of a product.
IsIrrationalAtom(k) == k.kind \in {"random", "constrained"}

\* The objects to which an object has a shared pointer itself.
PartsOf(k) ==
  IF k.kind = "product" THEN DOMAIN k.factors
  ELSE IF k.kind = "constrained" THEN {k.inner} ELSE {}

Parts(heap, S) == UNION {PartsOf(heap[o]) : o \in S}

\* Everything that is kept alive by the shared pointers in S.
Reach(heap, S) == S \cup Parts(heap, S) \cup Parts(heap, Parts(heap, S))

Extend(f, x, y) == [z \in DOMAIN f \cup {x} |-> IF z = x THEN y ELSE f[z]]

Filter(f, S) == [z \in S |-> f[z]]

EmptyFunction == [z \in {} |-> z]

EmptyStore == [heap |-> EmptyFunction, cache |-> EmptyFunction, nextId |-> FirstId]

\* Mutant: products are not looked up, each call creates one.
ObtainNewProduct(st, key) ==
  IF key \in DOMAIN st.cache /\ ~IsProduct(key)
  THEN st
  ELSE [heap |-> Extend(st.heap, st.nextId, key),
        cache |-> Extend(st.cache, key, st.nextId),
        nextId |-> st.nextId + 1]

\* UniqueFactory::get: an unexpired entry of the cache is returned, otherwise
\* the object is created (which draws the next id) and entered.
Obtain(st, key) ==
  IF key \in DOMAIN st.cache
  THEN st
  ELSE [heap |-> Extend(st.heap, st.nextId, key),
        cache |-> Extend(st.cache, key, st.nextId),
        nextId |-> st.nextId + 1]

\* Mutant: the entry of a destroyed object stays in the cache.
SweepKeepsEntries(st, roots) ==
  [heap |-> Filter(st.heap, Reach(st.heap, roots)), cache |-> st.cache, nextId |-> st.nextId]

\* Mutant: the ids of destroyed objects are given out again, like addresses are.
SweepRecyclesIds(st, roots) ==
  LET alive == Reach(st.heap, roots)
  IN  [heap |-> Filter(st.heap, alive),
       cache |-> Filter(st.cache, {k \in DOMAIN st.cache : st.cache[k] \in alive}),
       nextId |-> CHOOSE n \in FirstId .. st.nextId :
                    (\A o \in alive : o < n) /\ (n = FirstId \/ n - 1 \in alive)]

\* An object is destroyed with the last shared pointer to it, which expires the
\* weak pointer in its factory.
Sweep(st, roots) ==
  LET alive == Reach(st.heap, roots)
  IN  [heap |-> Filter(st.heap, alive),
       cache |-> Filter(st.cache, {k \in DOMAIN st.cache : st.cache[k] \in alive}),
       nextId |-> st.nextId]

-----------------------------------------------------------------------------
(***************************************************************************)
(* The number that an object stands for, without any reference to ids.     *)
(* This is also what an archive contains.                                  *)
(***************************************************************************)
AtomValue(heap, o) ==
  IF heap[o].kind = "constrained"
  THEN ConstrainedKey(heap[o].initial, heap[heap[o].inner])
  ELSE heap[o]

FactorValues(heap, factors) ==
  {<<AtomValue(heap, m), factors[m]>> : m \in DOMAIN factors}

Value(heap, o) ==
  IF IsProduct(heap[o])
  THEN ProductKey(FactorValues(heap, heap[o].factors))
  ELSE AtomValue(heap, o)

\* The factory calls that recreate an atom from its value.
InnerStore(st, v) ==
  IF v.kind = "constrained" THEN Obtain(st, v.inner) ELSE st
AtomKey(st, v) ==
  IF v.kind = "constrained" THEN ConstrainedKey(v.initial, st.cache[v.inner]) ELSE v
ObtainAtom(st, v) == Obtain(InnerStore(st, v), AtomKey(InnerStore(st, v), v))
AtomId(st, v) ==
  ObtainAtom(st, v).cache[AtomKey(InnerStore(st, v), v)]

-----------------------------------------------------------------------------
\* The factors of a number that is not rational, as a monomial over ids.
FactorsOf(heap, o) == IF IsProduct(heap[o]) THEN heap[o].factors ELSE [m \in {o} |-> 1]

WithinBound(f) == \A m \in DOMAIN f : f[m] <= MaxExponent

-----------------------------------------------------------------------------
Idle == loading = {}

Loaded == UNION {{p[1] : p \in l.got} : l \in loading}

Init ==
  /\ store = EmptyStore
  /\ nextSeed = FirstSeed
  /\ held = {}
  /\ kept = {}
  /\ loading = {}
  /\ archive = {}

\* A call returns the object x of the factories' new state st to its caller.
Return(st, x) ==
  /\ Idle
  /\ st.nextId <= MaxId + 1
  /\ held' = held \cup {x}
  /\ store' = Sweep(st, held' \cup kept')
  /\ UNCHANGED <<loading, archive>>

\* ... which did not involve the factory of the products
ReturnAtom(st, x) == kept' = kept /\ Return(st, x)

\* ... or did: its result is kept alive, at the expense of older ones.
KeepSetAlive(x) == {K \in SUBSET (kept \cup {x}) : x \in K /\ Cardinality(K) <= KeepLimit}

ReturnProduct(st, x) ==
  /\ \E K \in KeepSetAlive(x) : kept' = K
  /\ Return(st, x)

\* Seed()
DrawSeed == nextSeed' = (nextSeed + 1) % SeedModulus

\* RealNumber::random(), RealNumber::random(seed)
Random ==
  /\ DrawSeed
  /\ LET v == RandomKey(nextSeed) IN ReturnAtom(ObtainAtom(store, v), AtomId(store, v))

RandomWithSeed(seed) ==
  /\ UNCHANGED nextSeed
  /\ LET v == RandomKey(seed) IN ReturnAtom(ObtainAtom(store, v), AtomId(store, v))

\* RealNumber::random(lower, upper): the same seed determines the leading part,
\* here any of Initial, and the random real that provides the other digits.
RandomBetween(initial) ==
  /\ DrawSeed
  /\ LET v == ConstrainedKey(initial, RandomKey(nextSeed))
     IN  ReturnAtom(ObtainAtom(store, v), AtomId(store, v))

\* ... which throws if the interval has no interior, or if it is to be the one
\* around a double that is not finite; the seed has been drawn by then.
RandomBetweenThrows ==
  /\ Idle
  /\ DrawSeed
  /\ UNCHANGED <<store, held, kept, loading, archive>>

RandomBetweenWithSeed(initial, seed) ==
  /\ UNCHANGED nextSeed
  /\ LET v == ConstrainedKey(initial, RandomKey(seed))
     IN  ReturnAtom(ObtainAtom(store, v), AtomId(store, v))

Rational(q) ==
  /\ UNCHANGED nextSeed
  /\ LET v == RationalKey(q) IN ReturnAtom(ObtainAtom(store, v), AtomId(store, v))

\* operator* when a factor is rational: a factor 1 returns the other factor
\* itself, which its caller holds already (no step here); any other rational
\* can only be multiplied with a rational, everything else throws.
MultiplyRationals(a, b) ==
  /\ IsRational(store.heap[a])
  /\ IsRational(store.heap[b])
  /\ Rational(store.heap[a].value * store.heap[b].value)

\* operator* of two numbers that are not rational
Multiply(a, b) ==
  LET f == Times(FactorsOf(store.heap, a), FactorsOf(store.heap, b))
      st == Obtain(store, ProductKey(f))
  IN  /\ ~IsRational(store.heap[a])
      /\ ~IsRational(store.heap[b])
      /\ WithinBound(f)
      /\ UNCHANGED nextSeed
      /\ ReturnProduct(st, st.cache[ProductKey(f)])

\* operator/ of two numbers that are not rational; when the divisor does not
\* divide, nullopt is returned (no step here).  Division by the rational 1
\* returns the dividend (no step here), by other rationals it throws.
Divide(a, b) ==
  LET f == FactorsOf(store.heap, a)
      g == FactorsOf(store.heap, b)
      q == Quotient(f, g)
      st == Obtain(store, ProductKey(q))
  IN  /\ ~IsRational(store.heap[a])
      /\ ~IsRational(store.heap[b])
      /\ Divides(g, f)
      /\ UNCHANGED nextSeed
      /\ \/ /\ DOMAIN q = {}
            /\ Rational(1)
         \/ \E m \in DOMAIN q :
              /\ DOMAIN q = {m} /\ q[m] = 1
              /\ ReturnAtom(store, m)
         \/ /\ IsProper(q)
            /\ ReturnProduct(st, st.cache[ProductKey(q)])

\* operator/ of a rational by itself
DivideRationals(a) ==
  /\ IsRational(store.heap[a])
  /\ Rational(1)

\* The caller drops some of its shared pointers.
Release(S) ==
  /\ Idle
  /\ S # {}
  /\ held' = held \ S
  /\ store' = Sweep(store, held' \cup kept)
  /\ UNCHANGED <<nextSeed, kept, loading, archive>>

\* RealNumber::save
Save(o) ==
  /\ Idle
  /\ archive' = {Value(store.heap, o)}
  /\ UNCHANGED <<store, nextSeed, held, kept, loading>>

\* RealNumber::load of anything but a product
LoadAtom(v) ==
  /\ ~IsProduct(v)
  /\ UNCHANGED nextSeed
  /\ ReturnAtom(ObtainAtom(store, v), AtomId(store, v))

\* RealNumber::load of a product reads a map from factors to exponents; its
\* entries come in the order that the addresses of the factors had when the
\* product was saved, i.e., in any order.
LoadProduct(v) ==
  /\ Idle
  /\ IsProduct(v)
  /\ loading' = {[todo |-> v.factors, got |-> {}]}
  /\ UNCHANGED <<store, nextSeed, held, kept, archive>>

LoadFactor ==
  \E l \in loading : \E p \in l.todo :
    LET st == ObtainAtom(store, p[1])
    IN  /\ st.nextId <= MaxId + 1
        /\ loading' = {[todo |-> l.todo \ {p},
                        got |-> l.got \cup {<<AtomId(store, p[1]), p[2]>>}]}
        /\ store' = Sweep(st, held \cup kept \cup Loaded')
        /\ UNCHANGED <<nextSeed, held, kept, archive>>

\* Mutant: all factors get the same exponent.
LoadedFactorsMixed(got) ==
  [m \in {p[1] : p \in got} |-> (CHOOSE p \in got : TRUE)[2]]

\* The exponents are paired with the factors once those are sorted by id.
LoadedFactors(got) ==
  [m \in {p[1] : p \in got} |-> (CHOOSE p \in got : p[1] = m)[2]]

LoadFinish ==
  \E l \in loading :
    LET key == ProductKey(LoadedFactors(l.got))
        st == Obtain(store, key)
        x == st.cache[key]
    IN  /\ l.todo = {}
        /\ st.nextId <= MaxId + 1
        /\ loading' = {}
        /\ held' = held \cup {x}
        /\ \E K \in KeepSetAlive(x) : kept' = K
        /\ store' = Sweep(st, held' \cup kept')
        /\ UNCHANGED <<nextSeed, archive>>

\* The process exits and another one starts.
Restart ==
  /\ store' = EmptyStore
  /\ nextSeed' = FirstSeed
  /\ held' = {}
  /\ kept' = {}
  /\ loading' = {}
  /\ UNCHANGED archive

Next ==
  \/ Random
  \/ \E s \in Seeds : RandomWithSeed(s)
  \/ \E i \in Initial : RandomBetween(i)
  \/ RandomBetweenThrows
  \/ \E i \in Initial, s \in Seeds : RandomBetweenWithSeed(i, s)
  \/ \E q \in RationalValue : Rational(q)
  \/ \E a, b \in held : MultiplyRationals(a, b)
  \/ \E a, b \in held : Multiply(a, b)
  \/ \E a, b \in held : Divide(a, b)
  \/ \E a \in held : DivideRationals(a)
  \/ \E S \in SUBSET held : Release(S)
  \/ \E o \in held : Save(o)
  \/ \E v \in archive : LoadAtom(v)
  \/ \E v \in archive : LoadProduct(v)
  \/ LoadFactor
  \/ LoadFinish
  \/ Restart

Spec == Init /\ [][Next]_vars
-----------------------------------------------------------------------------
(***************************************************************************)
(* Properties.                                                             *)
(***************************************************************************)
Alive == DOMAIN store.heap

\* What an object can be made of: its parts are objects of the same heap, the
\* inner part of a constrained real is a random real, the factors of a product
\* are irrational and no products, and a product is not just one of its factors
\* (the assertions in the constructor of RealNumberProduct).
WellFormed(heap, k) ==
  \/ \E s \in Seeds : k = RandomKey(s)
  \/ \E q \in RationalValue : k = RationalKey(q)
  \/ \E i \in Initial, o \in DOMAIN heap :
       heap[o].kind = "random" /\ k = ConstrainedKey(i, o)
  \/ /\ k.kind = "product"
     /\ k = ProductKey(k.factors)
     /\ DOMAIN k.factors \subseteq DOMAIN heap
     /\ k.factors \in [DOMAIN k.factors -> Nat \ {0}]
     /\ \A m \in DOMAIN k.factors : IsIrrationalAtom(heap[m])
     /\ IsProper(k.factors)

\* The numbers that archives contain.
IsAtomValue(v) ==
  \/ \E s \in Seeds : v = RandomKey(s)
  \/ \E q \in RationalValue : v = RationalKey(q)
  \/ \E i \in Initial, s \in Seeds : v = ConstrainedKey(i, RandomKey(s))

\* The entries of the map that is archived for a product.
AreFactorValues(F) ==
  /\ \A p \in F : /\ p = <<p[1], p[2]>>
                  /\ IsAtomValue(p[1]) /\ IsIrrationalAtom(p[1])
                  /\ p[2] \in Nat \ {0}
  /\ \A p, q \in F : p[1] = q[1] => p = q
  /\ F # {}
  /\ ~ \E p \in F : F = {p} /\ p[2] = 1

IsValue(v) ==
  \/ IsAtomValue(v)
  \/ v.kind = "product" /\ v = ProductKey(v.factors) /\ AreFactorValues(v.factors)

\* What is still to be read and what has been read make up the archived product.
LoadingOK(heap, l) ==
  /\ l = [todo |-> l.todo, got |-> l.got]
  /\ \A p \in l.got : p = <<p[1], p[2]>> /\ p[1] \in DOMAIN heap
  /\ AreFactorValues(l.todo \cup {<<AtomValue(heap, p[1]), p[2]>> : p \in l.got})

\* All objects are well-formed and have an id below the counter.
StoreOK(st) ==
  /\ st = [heap |-> st.heap, cache |-> st.cache, nextId |-> st.nextId]
  /\ st.heap = [o \in DOMAIN st.heap |-> st.heap[o]]
  /\ st.cache = [k \in DOMAIN st.cache |-> st.cache[k]]
  /\ st.nextId \in Nat /\ FirstId <= st.nextId
  /\ \A o \in DOMAIN st.heap : o \in FirstId .. st.nextId - 1 /\ WellFormed(st.heap, st.heap[o])

CacheMatches(st) ==
  /\ \A o \in DOMAIN st.heap : st.heap[o] \in DOMAIN st.cache /\ st.cache[st.heap[o]] = o
  /\ \A k \in DOMAIN st.cache : st.cache[k] \in DOMAIN st.heap /\ st.heap[st.cache[k]] = k

\* The type of the state: whatever has a pointer to an object sees it alive, an
\* interrupted load is part of an archived product, archives hold numbers.
TypeOK ==
  /\ StoreOK(store)
  /\ store.nextId <= MaxId + 1
  /\ nextSeed \in Seeds
  /\ held \cup kept \cup Loaded \subseteq Alive
  /\ \A l \in loading : LoadingOK(store.heap, l)
  /\ \A v \in archive : IsValue(v)

\* Every live object is found by the factories under its own key, and nothing
\* else is: a hit never returns another number nor a destroyed object.
CacheExact == CacheMatches(store)

\* Two live objects never stand for the same number; this is why operator== can
\* compare addresses (real_number.cc) and why products can be looked up by the
\* ids of their factors, whatever has been destroyed and recreated in between.
UniqueRepresentation ==
  \A o, p \in Alive : Value(store.heap, o) = Value(store.heap, p) => o = p

\* operator/ undoes operator*: for all live numbers a and b which are not
\* rational, (a * b) / b is a.
DivisionUndoesMultiplication ==
  \A a, b \in Alive :
    LET f == FactorsOf(store.heap, a)
        g == FactorsOf(store.heap, b)
    IN  ~IsRational(store.heap[a]) /\ ~IsRational(store.heap[b])
          => Divides(g, Times(f, g)) /\ Quotient(Times(f, g), g) = f

\* The factories implement what the code above them relies on.
Abstract == INSTANCE UniqueReals WITH
              named <- {<<Value(store.heap, o), o>> : o \in Alive},
              issued <- store.nextId
ImplementsUniqueReals == Abstract!Spec

\* The value that an archive holds is loaded as the number that was saved.
LoadRestoresValue ==
  [][LoadFinish => \E v \in archive, x \in held' :
       /\ \E l \in loading : v.factors = {<<AtomValue(store.heap, p[1]), p[2]>> : p \in l.got}
       /\ x \in DOMAIN store'.heap
       /\ Value(store'.heap, x) = v]_vars
=============================================================================
