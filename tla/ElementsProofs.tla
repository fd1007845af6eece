---------------------------- MODULE ElementsProofs ----------------------------
(***************************************************************************)
(* Elements computes with polynomials, for any generators, any lengths of  *)
(* the lists, and coefficients of any size.                                *)
(***************************************************************************)
EXTENDS Elements, MonomialsProofs, SequenceTheorems
LOCAL INSTANCE FiniteSetsExt

-----------------------------------------------------------------------------
(* The order of generators. *)

IsGen(f) == MonomialOn(f, Atom)

LEMMA SmallerIsConnex ==
  ASSUME NEW f, IsGen(f), NEW g, IsGen(g), f # g
  PROVE  Smaller(f, g) <=> ~Smaller(g, f)
<1>1. Orders([a \in Atom |-> a], Atom)
  BY AtomAssumption DEF Orders
<1> QED
  BY <1>1, DeglexIsConnex DEF Smaller, IsGen

LEMMA SmallerIsIrreflexive ==
  ASSUME NEW f, IsGen(f)
  PROVE  ~Smaller(f, f)
<1>1. Orders([a \in Atom |-> a], Atom)
  BY AtomAssumption DEF Orders
<1> QED
  BY <1>1, DeglexIsIrreflexive DEF Smaller, IsGen

LEMMA SmallerIsTransitive ==
  ASSUME NEW f, IsGen(f), NEW g, IsGen(g), NEW h, IsGen(h), Smaller(f, g), Smaller(g, h)
  PROVE  Smaller(f, h)
<1>1. Orders([a \in Atom |-> a], Atom)
  BY AtomAssumption DEF Orders
<1> QED
  BY <1>1, DeglexIsTransitive DEF Smaller, IsGen

LEMMA SmallerIsCompatible ==
  ASSUME NEW f, IsGen(f), NEW g, IsGen(g), NEW h, IsGen(h)
  PROVE  Smaller(f, g) <=> Smaller(Times(f, h), Times(g, h))
<1>1. Orders([a \in Atom |-> a], Atom)
  BY AtomAssumption DEF Orders
<1> QED
  BY <1>1, DeglexIsCompatible DEF Smaller, IsGen

LEMMA TimesIsGen ==
  ASSUME NEW f, IsGen(f), NEW g, IsGen(g)
  PROVE  IsGen(Times(f, g))
BY TimesIsMonomial DEF IsGen

-----------------------------------------------------------------------------
(* Modules. *)

\* A basis: generators in increasing order.
IsModule(m) ==
  /\ Len(m) \in Nat /\ DOMAIN m = 1 .. Len(m) /\ m = [n \in 1 .. Len(m) |-> m[n]]
  /\ \A n \in 1 .. Len(m) : IsGen(m[n])
  /\ \A i, j \in 1 .. Len(m) : i < j => Smaller(m[i], m[j])

\* What modules can be made from.
AreGens(S) == IsFiniteSet(S) /\ \A f \in S : IsGen(f)

LEMMA LenOfFunction ==
  ASSUME NEW n \in Nat, NEW m, DOMAIN m = 1 .. n, m = [k \in 1 .. n |-> m[k]]
  PROVE  Len(m) = n
<1>1. m \in [1 .. n -> {m[k] : k \in 1 .. n}]
  OBVIOUS
<1>2. m \in Seq({m[k] : k \in 1 .. n})
  BY <1>1, SeqDef
<1> QED
  BY <1>2, LenProperties

LEMMA ModuleIsOneToOne ==
  ASSUME NEW m, IsModule(m), NEW i \in 1 .. Len(m), NEW j \in 1 .. Len(m), m[i] = m[j]
  PROVE  i = j
<1>1. ~Smaller(m[i], m[j]) /\ ~Smaller(m[j], m[i])
  BY SmallerIsIrreflexive DEF IsModule
<1>2. ~ i < j /\ ~ j < i
  BY <1>1 DEF IsModule
<1>3. i \in Int /\ j \in Int
  BY DEF IsModule
<1> QED
  BY <1>2, <1>3

\* How many generators are smaller.
Below(S, f) == {g \in S : Smaller(g, f)}
Place(S, f) == Cardinality(Below(S, f))

LEMMA PlaceFacts ==
  ASSUME NEW S, AreGens(S)
  PROVE  /\ \A f \in S : Place(S, f) \in 0 .. Cardinality(S) - 1
         /\ \A f, g \in S : Smaller(f, g) <=> Place(S, f) < Place(S, g)
         /\ \A f, g \in S : Place(S, f) = Place(S, g) => f = g
         /\ \A k \in 0 .. Cardinality(S) - 1 : \E f \in S : Place(S, f) = k
<1>1. IsFiniteSet(S) /\ \A f \in S : IsGen(f)
  BY DEF AreGens
<1>2. Cardinality(S) \in Nat
  BY <1>1, FS_CardinalityType
<1>3. \A f \in S : IsFiniteSet(Below(S, f)) /\ Place(S, f) \in Nat
  <2> SUFFICES ASSUME NEW f \in S
               PROVE  IsFiniteSet(Below(S, f)) /\ Place(S, f) \in Nat
    OBVIOUS
  <2>1. Below(S, f) \in SUBSET S
    BY DEF Below
  <2>2. IsFiniteSet(Below(S, f))
    BY <1>1, <2>1, FS_Subset
  <2> QED
    BY <2>2, FS_CardinalityType DEF Place
<1>4. ASSUME NEW f \in S
      PROVE  Place(S, f) \in 0 .. Cardinality(S) - 1
  <2>1. IsFiniteSet(S \ {f}) /\ Cardinality(S \ {f}) = Cardinality(S) - 1
    BY <1>1, Without
  <2>2. Below(S, f) \in SUBSET (S \ {f})
    BY <1>1, SmallerIsIrreflexive DEF Below
  <2>3. Cardinality(Below(S, f)) <= Cardinality(S \ {f})
    BY <2>1, <2>2, FS_Subset
  <2> QED
    BY <1>2, <1>3, <2>1, <2>3 DEF Place
<1>5. ASSUME NEW f \in S, NEW g \in S, Smaller(f, g)
      PROVE  Place(S, f) < Place(S, g)
  <2>1. Below(S, f) \in SUBSET Below(S, g)
    BY <1>1, <1>5, SmallerIsTransitive DEF Below
  <2>2. f \in Below(S, g) /\ f \notin Below(S, f)
    BY <1>1, <1>5, SmallerIsIrreflexive DEF Below
  <2>3. Cardinality(Below(S, f)) <= Cardinality(Below(S, g))
    BY <1>3, <2>1, FS_Subset
  <2>4. Cardinality(Below(S, f)) # Cardinality(Below(S, g))
    BY <1>3, <2>1, <2>2, FS_Subset
  <2> QED
    BY <1>3, <2>3, <2>4 DEF Place
<1>6. ASSUME NEW f \in S, NEW g \in S, Place(S, f) < Place(S, g)
      PROVE  Smaller(f, g)
  <2>1. Place(S, f) \in Nat /\ Place(S, g) \in Nat
    BY <1>3
  <2>2. ~Smaller(g, f) /\ f # g
    BY <1>5, <1>6, <2>1
  <2> QED
    BY <1>1, <2>2, SmallerIsConnex
<1>7. ASSUME NEW f \in S, NEW g \in S, Place(S, f) = Place(S, g)
      PROVE  f = g
  <2>1. ~Smaller(f, g) /\ ~Smaller(g, f)
    BY <1>3, <1>5, <1>7
  <2> QED
    BY <1>1, <2>1, SmallerIsConnex
<1>8. ASSUME NEW k \in 0 .. Cardinality(S) - 1
      PROVE  \E f \in S : Place(S, f) = k
  <2> DEFINE T == 0 .. Cardinality(S) - 1
             h == [f \in S |-> Place(S, f)]
  <2>1. h \in [S -> T]
    BY <1>4
  <2>2. \A f, g \in S : h[f] = h[g] => f = g
    BY <1>7
  <2>3. IsFiniteSet(T) /\ Cardinality(T) = Cardinality(S)
    <3>1. 0 \in Int /\ Cardinality(S) - 1 \in Int
      BY <1>2
    <3> QED
      BY <1>2, <3>1, FS_Interval
  <2> HIDE DEF T
  <2>4. h \in Injection(S, T)
    BY <2>1, <2>2 DEF Injection, IsInjective
  <2> HIDE DEF h
  <2>5. h \in Surjection(S, T)
    BY <2>3, <2>4, FS_Injection
  <2>6. k \in T
    BY DEF T
  <2>7. PICK f \in S : h[f] = k
    BY <2>5, <2>6 DEF Surjection
  <2> QED
    BY <2>7 DEF h
<1> QED
  BY <1>4, <1>5, <1>6, <1>7, <1>8

\* Sorting lists the generators in increasing order.
LEMMA MakeFacts ==
  ASSUME NEW S, AreGens(S)
  PROVE  IsModule(Make(S)) /\ Gens(Make(S)) = S /\ Len(Make(S)) = Cardinality(S)
<1> DEFINE m == Make(S)
           N == Cardinality(S)
<1>1. N \in Nat
  BY FS_CardinalityType DEF AreGens
<1>2. m = [n \in 1 .. N |-> CHOOSE f \in S : Place(S, f) = n - 1]
  BY DEF Make, Place, Below
<1> HIDE DEF m
<1>3. ASSUME NEW n \in 1 .. N
      PROVE  m[n] \in S /\ Place(S, m[n]) = n - 1
  <2>1. n - 1 \in 0 .. N - 1
    BY <1>1
  <2>2. \E f \in S : Place(S, f) = n - 1
    BY <2>1, PlaceFacts
  <2> QED
    BY <1>2, <2>2
<1>4. DOMAIN m = 1 .. N
  BY <1>2
<1>5. Len(m) = N
  <2>1. m = [n \in 1 .. N |-> m[n]]
    BY <1>2
  <2> HIDE DEF N
  <2> QED
    BY <1>1, <1>4, <2>1, LenOfFunction
<1>6. \A f \in S : IsGen(f)
  BY DEF AreGens
<1>7. ASSUME NEW i \in 1 .. N, NEW j \in 1 .. N, i < j
      PROVE  Smaller(m[i], m[j])
  <2>1. Place(S, m[i]) < Place(S, m[j])
    BY <1>1, <1>3, <1>7
  <2> QED
    BY <1>3, <2>1, PlaceFacts
<1>8. IsModule(m)
  <2>1. m = [n \in 1 .. N |-> m[n]]
    BY <1>2
  <2> QED
    BY <1>1, <1>3, <1>4, <1>5, <1>6, <1>7, <2>1 DEF IsModule
<1>9. ASSUME NEW f \in S
      PROVE  f \in Gens(m)
  <2>1. Place(S, f) \in 0 .. N - 1
    BY PlaceFacts
  <2>2. Place(S, f) + 1 \in 1 .. N
    BY <1>1, <2>1
  <2>3. Place(S, m[Place(S, f) + 1]) = Place(S, f)
    BY <1>3, <2>1, <2>2
  <2>4. m[Place(S, f) + 1] = f
    BY <1>3, <2>2, <2>3, PlaceFacts
  <2> QED
    BY <1>4, <2>2, <2>4 DEF Gens, Range
<1>10. Gens(m) = S
  BY <1>3, <1>4, <1>9 DEF Gens, Range
<1> QED
  BY <1>5, <1>8, <1>10 DEF m

LEMMA ModuleFacts ==
  ASSUME NEW m, IsModule(m)
  PROVE  /\ AreGens(Gens(m))
         /\ \A f : f \in Gens(m) <=> \E n \in 1 .. Len(m) : m[n] = f
<1>1. \A f : f \in Gens(m) <=> \E n \in 1 .. Len(m) : m[n] = f
  BY DEF Gens, Range, IsModule
<1>2. IsFiniteSet(Gens(m))
  <2>1. IsFiniteSet(1 .. Len(m))
    <3>1. Len(m) \in Int
      BY DEF IsModule
    <3> QED
      BY <3>1, FS_Interval
  <2>2. m \in Surjection(1 .. Len(m), Gens(m))
    <3>1. m = [n \in 1 .. Len(m) |-> m[n]]
      BY DEF IsModule
    <3> QED
      BY <1>1, <3>1 DEF Surjection, IsModule
  <2> QED
    BY <2>1, <2>2, FS_Surjection
<1>3. \A f \in Gens(m) : IsGen(f)
  BY <1>1 DEF IsModule
<1> QED
  BY <1>1, <1>2, <1>3 DEF AreGens

LEMMA SpanFacts ==
  ASSUME NEW m, IsModule(m), NEW n, IsModule(n)
  PROVE  IsModule(Span(m, n)) /\ Gens(Span(m, n)) = Gens(m) \cup Gens(n)
<1>1. AreGens(Gens(m)) /\ AreGens(Gens(n))
  BY ModuleFacts
<1>2. AreGens(Gens(m) \cup Gens(n))
  BY <1>1, FS_Union DEF AreGens
<1>3. IsModule(Make(Gens(m) \cup Gens(n))) /\ Gens(Make(Gens(m) \cup Gens(n))) = Gens(m) \cup Gens(n)
  BY <1>2, MakeFacts
<1>4. CASE Submodule(n, m)
  BY <1>4 DEF Span, Submodule
<1>5. CASE ~Submodule(n, m) /\ Submodule(m, n)
  BY <1>5 DEF Span, Submodule
<1>6. CASE ~Submodule(n, m) /\ ~Submodule(m, n)
  BY <1>3, <1>6 DEF Span
<1> QED
  BY <1>4, <1>5, <1>6

-----------------------------------------------------------------------------
(* Elements. *)

\* Coefficients: one for each generator.
AreCoefficients(c, m) ==
  /\ Len(c) = Len(m) /\ DOMAIN c = 1 .. Len(m) /\ c = [n \in 1 .. Len(m) |-> c[n]]
  /\ \A n \in 1 .. Len(m) : c[n] \in Int

IsValid(e) ==
  /\ e = Element(e.module, e.coefficients)
  /\ IsModule(e.module)
  /\ AreCoefficients(e.coefficients, e.module)

\* The coefficient of e at the monomial g.
At(e, g) ==
  IF g \in Gens(e.module) THEN e.coefficients[CHOOSE n \in 1 .. Rank(e) : e.module[n] = g] ELSE 0

LEMMA AtFacts ==
  ASSUME NEW e, IsValid(e)
  PROVE  /\ \A n \in 1 .. Rank(e) : At(e, e.module[n]) = e.coefficients[n] /\ e.module[n] \in Gens(e.module)
         /\ \A g : At(e, g) \in Int
         /\ \A g : g \notin Gens(e.module) => At(e, g) = 0
<1>1. IsModule(e.module) /\ AreCoefficients(e.coefficients, e.module) /\ Rank(e) = Len(e.module)
  BY DEF IsValid, Rank
<1>2. ASSUME NEW n \in 1 .. Rank(e)
      PROVE  At(e, e.module[n]) = e.coefficients[n] /\ e.module[n] \in Gens(e.module)
  <2>1. e.module[n] \in Gens(e.module)
    BY <1>1, ModuleFacts
  <2> DEFINE k == CHOOSE k \in 1 .. Rank(e) : e.module[k] = e.module[n]
  <2>2. k \in 1 .. Rank(e) /\ e.module[k] = e.module[n]
    OBVIOUS
  <2>3. k = n
    <3> HIDE DEF k
    <3> QED
      BY <1>1, <2>2, ModuleIsOneToOne
  <2> QED
    BY <2>1, <2>3 DEF At
<1>3. ASSUME NEW g
      PROVE  At(e, g) \in Int
  <2>1. CASE g \notin Gens(e.module)
    BY <2>1 DEF At
  <2>2. CASE g \in Gens(e.module)
    <3>1. PICK n \in 1 .. Len(e.module) : e.module[n] = g
      BY <1>1, <2>2, ModuleFacts
    <3>2. At(e, g) = e.coefficients[n]
      BY <1>1, <1>2, <3>1
    <3> QED
      BY <1>1, <3>2 DEF AreCoefficients
  <2> QED
    BY <2>1, <2>2
<1> QED
  BY <1>2, <1>3 DEF At

\* Elements of a module that have the same coefficients are the same.
LEMMA SameCoefficients ==
  ASSUME NEW m, NEW c, NEW d, IsModule(m), AreCoefficients(c, m), AreCoefficients(d, m)
  PROVE  c = d <=> \A n \in 1 .. Len(m) : c[n] = d[n]
BY DEF AreCoefficients

-----------------------------------------------------------------------------
(* The loop of promote. *)

MergeIf(ours, c, theirs, g, z) ==
  LET i == z[1]
      j == z[2]
  IN  IF j > Len(theirs) THEN <<>>
      ELSE IF i > Len(ours) THEN <<0>> \o g[<<i, j + 1>>]
      ELSE IF ours[i] = theirs[j] THEN <<c[i]>> \o g[<<i + 1, j + 1>>]
      ELSE IF Smaller(ours[i], theirs[j]) THEN g[<<i + 1, j>>]
      ELSE <<0>> \o g[<<i, j + 1>>]

IsMerge(ours, c, theirs, g) ==
  g = [z \in (1 .. Len(ours) + 1) \X (1 .. Len(theirs) + 1) |-> MergeIf(ours, c, theirs, g, z)]

Merging == INSTANCE RecursiveFunctions WITH
  Argument <- LAMBDA q : (1 .. Len(q[1]) + 1) \X (1 .. Len(q[3]) + 1),
  Measure <- LAMBDA q, z : (Len(q[1]) + 1 - z[1]) + (Len(q[3]) + 1 - z[2]),
  Value <- LAMBDA q, g, z : MergeIf(q[1], q[2], q[3], g, z)

LEMMA MergeExists ==
  ASSUME NEW ours, IsModule(ours), NEW theirs, IsModule(theirs), NEW c
  PROVE  \E g : IsMerge(ours, c, theirs, g)
<1> DEFINE q == <<ours, c, theirs>>
           D == (1 .. Len(ours) + 1) \X (1 .. Len(theirs) + 1)
           M(z) == (Len(ours) + 1 - z[1]) + (Len(theirs) + 1 - z[2])
<1>1. Len(ours) \in Nat /\ Len(theirs) \in Nat
  BY DEF IsModule
<1>2. \A z \in D : M(z) \in Nat
  BY <1>1
<1>3. ASSUME NEW z \in D, NEW g, NEW h, \A r \in D : M(r) < M(z) => g[r] = h[r]
      PROVE  MergeIf(ours, c, theirs, g, z) = MergeIf(ours, c, theirs, h, z)
  <2> DEFINE i == z[1]
             j == z[2]
  <2>1. i \in 1 .. Len(ours) + 1 /\ j \in 1 .. Len(theirs) + 1
    OBVIOUS
  <2>2. j <= Len(theirs) => g[<<i, j + 1>>] = h[<<i, j + 1>>]
    <3> SUFFICES ASSUME j <= Len(theirs)
                 PROVE  g[<<i, j + 1>>] = h[<<i, j + 1>>]
      OBVIOUS
    <3>1. <<i, j + 1>> \in D
      BY <1>1, <2>1
    <3>2. M(<<i, j + 1>>) < M(z)
      BY <1>1, <2>1
    <3> QED
      BY <1>3, <3>1, <3>2
  <2>3. i <= Len(ours) => g[<<i + 1, j>>] = h[<<i + 1, j>>]
    <3> SUFFICES ASSUME i <= Len(ours)
                 PROVE  g[<<i + 1, j>>] = h[<<i + 1, j>>]
      OBVIOUS
    <3>1. <<i + 1, j>> \in D
      BY <1>1, <2>1
    <3>2. M(<<i + 1, j>>) < M(z)
      BY <1>1, <2>1
    <3> QED
      BY <1>3, <3>1, <3>2
  <2>4. i <= Len(ours) /\ j <= Len(theirs) => g[<<i + 1, j + 1>>] = h[<<i + 1, j + 1>>]
    <3> SUFFICES ASSUME i <= Len(ours), j <= Len(theirs)
                 PROVE  g[<<i + 1, j + 1>>] = h[<<i + 1, j + 1>>]
      OBVIOUS
    <3>1. <<i + 1, j + 1>> \in D
      BY <1>1, <2>1
    <3>2. M(<<i + 1, j + 1>>) < M(z)
      BY <1>1, <2>1
    <3> QED
      BY <1>3, <3>1, <3>2
  <2>5. i > Len(ours) \/ i <= Len(ours)
    BY <1>1, <2>1
  <2>6. j > Len(theirs) \/ j <= Len(theirs)
    BY <1>1, <2>1
  <2> QED
    BY <2>2, <2>3, <2>4, <2>5, <2>6 DEF MergeIf
<1>4. q[1] = ours /\ q[2] = c /\ q[3] = theirs
  OBVIOUS
<1>5. Merging!Congruent(q)
  <2> HIDE DEF q, D, M
  <2>1. D = (1 .. Len(q[1]) + 1) \X (1 .. Len(q[3]) + 1)
    BY <1>4 DEF D
  <2>2. \A z : M(z) = (Len(q[1]) + 1 - z[1]) + (Len(q[3]) + 1 - z[2])
    BY <1>4 DEF M
  <2>3. \A z \in D : \A g, h :
          (\A r \in D : M(r) < M(z) => g[r] = h[r])
            => MergeIf(q[1], q[2], q[3], g, z) = MergeIf(q[1], q[2], q[3], h, z)
    BY <1>3, <1>4
  <2> QED
    BY <2>1, <2>2, <2>3 DEF Merging!Congruent
<1>6. \A z \in (1 .. Len(q[1]) + 1) \X (1 .. Len(q[3]) + 1) :
        (Len(q[1]) + 1 - z[1]) + (Len(q[3]) + 1 - z[2]) \in Nat
  <2> HIDE DEF q
  <2> SUFFICES ASSUME NEW z \in (1 .. Len(ours) + 1) \X (1 .. Len(theirs) + 1)
               PROVE  (Len(ours) + 1 - z[1]) + (Len(theirs) + 1 - z[2]) \in Nat
    BY <1>4
  <2>1. z[1] \in 1 .. Len(ours) + 1 /\ z[2] \in 1 .. Len(theirs) + 1
    OBVIOUS
  <2> QED
    BY <1>2, <2>1
<1> HIDE DEF q
<1>7. \E g : g = [z \in (1 .. Len(q[1]) + 1) \X (1 .. Len(q[3]) + 1) |-> MergeIf(q[1], q[2], q[3], g, z)]
  BY <1>5, <1>6, Merging!Exists
<1> QED
  BY <1>4, <1>7 DEF IsMerge

\* The list s has, from the j-th of their generators on, the coefficients of our
\* generators from the i-th one on.
Merged(ours, c, theirs, i, j, s) ==
  /\ s \in Seq(Int) /\ Len(s) = Len(theirs) + 1 - j
  /\ \A k \in j .. Len(theirs) :
       /\ \A n \in i .. Len(ours) : ours[n] = theirs[k] => s[k - j + 1] = c[n]
       /\ (\A n \in i .. Len(ours) : ours[n] # theirs[k]) => s[k - j + 1] = 0

LEMMA Cons ==
  ASSUME NEW a \in Int, NEW s \in Seq(Int)
  PROVE  /\ <<a>> \o s \in Seq(Int)
         /\ Len(<<a>> \o s) = Len(s) + 1
         /\ (<<a>> \o s)[1] = a
         /\ \A k \in 1 .. Len(s) : (<<a>> \o s)[k + 1] = s[k]
OBVIOUS

LEMMA MergeMerges ==
  ASSUME NEW ours, IsModule(ours), NEW theirs, IsModule(theirs), NEW c, AreCoefficients(c, ours)
  PROVE  Merged(ours, c, theirs, 1, 1, Merge(ours, c, theirs))
<1> DEFINE f == CHOOSE g : IsMerge(ours, c, theirs, g)
           D == (1 .. Len(ours) + 1) \X (1 .. Len(theirs) + 1)
<1>1. IsMerge(ours, c, theirs, f)
  BY MergeExists
<1>2. Merge(ours, c, theirs) = f[<<1, 1>>]
  BY DEF Merge, IsMerge, MergeIf
<1> HIDE DEF f
<1>3. \A z \in D : f[z] = MergeIf(ours, c, theirs, f, z)
  BY <1>1 DEF IsMerge
<1>4. Len(ours) \in Nat /\ Len(theirs) \in Nat
  BY DEF IsModule
<1>5. ASSUME NEW i \in 1 .. Len(ours) + 1, NEW j \in 1 .. Len(theirs) + 1
      PROVE  f[<<i, j>>] = IF j > Len(theirs) THEN <<>>
                           ELSE IF i > Len(ours) THEN <<0>> \o f[<<i, j + 1>>]
                           ELSE IF ours[i] = theirs[j] THEN <<c[i]>> \o f[<<i + 1, j + 1>>]
                           ELSE IF Smaller(ours[i], theirs[j]) THEN f[<<i + 1, j>>]
                           ELSE <<0>> \o f[<<i, j + 1>>]
  <2>1. <<i, j>> \in D
    OBVIOUS
  <2> QED
    BY <1>3, <2>1 DEF MergeIf
<1> HIDE DEF D
<1> DEFINE S == {n \in Nat : \A i \in 1 .. Len(ours) + 1, j \in 1 .. Len(theirs) + 1 :
                               (Len(ours) + 1 - i) + (Len(theirs) + 1 - j) = n
                                 => Merged(ours, c, theirs, i, j, f[<<i, j>>])}
<1>6. ASSUME NEW n \in Nat, \A m \in Nat : m < n => m \in S
      PROVE  n \in S
  <2> SUFFICES ASSUME NEW i \in 1 .. Len(ours) + 1, NEW j \in 1 .. Len(theirs) + 1,
                      (Len(ours) + 1 - i) + (Len(theirs) + 1 - j) = n
               PROVE  Merged(ours, c, theirs, i, j, f[<<i, j>>])
    OBVIOUS
  <2>1. ASSUME NEW a \in 1 .. Len(ours) + 1, NEW b \in 1 .. Len(theirs) + 1,
               (Len(ours) + 1 - a) + (Len(theirs) + 1 - b) < n
        PROVE  Merged(ours, c, theirs, a, b, f[<<a, b>>])
    <3> DEFINE m == (Len(ours) + 1 - a) + (Len(theirs) + 1 - b)
    <3>1. m \in Nat /\ m < n
      BY <1>4, <2>1
    <3>2. m \in S
      BY <1>6, <3>1
    <3> QED
      BY <3>2
  <2> HIDE DEF S
  <2>7. f[<<i, j>>] = IF j > Len(theirs) THEN <<>>
                      ELSE IF i > Len(ours) THEN <<0>> \o f[<<i, j + 1>>]
                      ELSE IF ours[i] = theirs[j] THEN <<c[i]>> \o f[<<i + 1, j + 1>>]
                      ELSE IF Smaller(ours[i], theirs[j]) THEN f[<<i + 1, j>>]
                      ELSE <<0>> \o f[<<i, j + 1>>]
    BY <1>5
  <2>8. i \in Nat /\ j \in Nat /\ (j <= Len(theirs) => ~ j > Len(theirs)) /\ (i <= Len(ours) => ~ i > Len(ours))
    BY <1>4
  <2>2. CASE j > Len(theirs)
    <3>1. f[<<i, j>>] = <<>> /\ j = Len(theirs) + 1
      BY <1>4, <2>7, <2>2
    <3> QED
      BY <1>4, <3>1 DEF Merged
  <2>3. CASE j <= Len(theirs) /\ i > Len(ours)
    <3> DEFINE s == f[<<i, j + 1>>]
    <3>1. f[<<i, j>>] = <<0>> \o s
      BY <2>7, <2>8, <2>3
    <3>2. Merged(ours, c, theirs, i, j + 1, s)
      <4>1. /\ i \in 1 .. Len(ours) + 1 /\ j + 1 \in 1 .. Len(theirs) + 1
            /\ (Len(ours) + 1 - i) + (Len(theirs) + 1 - (j + 1)) < n
        BY <1>4, <2>3
      <4> QED
        BY <2>1, <4>1
    <3> HIDE DEF s
    <3>3. s \in Seq(Int) /\ Len(s) = Len(theirs) - j
      BY <1>4, <3>2 DEF Merged
    <3>4. /\ <<0>> \o s \in Seq(Int) /\ Len(<<0>> \o s) = Len(theirs) + 1 - j
          /\ (<<0>> \o s)[1] = 0
          /\ \A k \in 1 .. Len(s) : (<<0>> \o s)[k + 1] = s[k]
      BY <1>4, <3>3, Cons
    <3>5. ASSUME NEW k \in j .. Len(theirs)
          PROVE  (<<0>> \o s)[k - j + 1] = 0
      <4>1. CASE k = j
        BY <3>4, <4>1
      <4>2. CASE k > j
        <5>1. k \in j + 1 .. Len(theirs) /\ k - j \in 1 .. Len(s) /\ k - (j + 1) + 1 = k - j
          BY <1>4, <3>3, <4>2
        <5>2. s[k - j] = 0
          BY <1>4, <2>3, <3>2, <5>1 DEF Merged
        <5> QED
          BY <3>4, <5>1, <5>2
      <4>3. k = j \/ k > j
        BY <1>4, <2>8
      <4> QED
        BY <4>1, <4>2, <4>3
    <3> QED
      BY <1>4, <2>3, <3>1, <3>4, <3>5 DEF Merged
  <2>4. CASE j <= Len(theirs) /\ i <= Len(ours) /\ ours[i] = theirs[j]
    <3> DEFINE s == f[<<i + 1, j + 1>>]
               a == c[i]
    <3>1. f[<<i, j>>] = <<a>> \o s
      BY <2>7, <2>8, <2>4
    <3>2. Merged(ours, c, theirs, i + 1, j + 1, s)
      <4>1. /\ i + 1 \in 1 .. Len(ours) + 1 /\ j + 1 \in 1 .. Len(theirs) + 1
            /\ (Len(ours) + 1 - (i + 1)) + (Len(theirs) + 1 - (j + 1)) < n
        BY <1>4, <2>4
      <4> QED
        BY <2>1, <4>1
    <3> HIDE DEF s
    <3>3. s \in Seq(Int) /\ Len(s) = Len(theirs) - j /\ a \in Int
      BY <1>4, <2>4, <3>2 DEF Merged, AreCoefficients
    <3>6. a = c[i]
      OBVIOUS
    <3> HIDE DEF a
    <3>4. /\ <<a>> \o s \in Seq(Int) /\ Len(<<a>> \o s) = Len(theirs) + 1 - j
          /\ (<<a>> \o s)[1] = a
          /\ \A k \in 1 .. Len(s) : (<<a>> \o s)[k + 1] = s[k]
      BY <1>4, <3>3, Cons
    <3>5. ASSUME NEW k \in j .. Len(theirs)
          PROVE  /\ \A p \in i .. Len(ours) : ours[p] = theirs[k] => (<<a>> \o s)[k - j + 1] = c[p]
                 /\ (\A p \in i .. Len(ours) : ours[p] # theirs[k]) => (<<a>> \o s)[k - j + 1] = 0
      <4>1. CASE k = j
        <5>1. \A p \in i .. Len(ours) : ours[p] = ours[i] => p = i
          BY <1>4, <2>4, ModuleIsOneToOne
        <5>2. i \in i .. Len(ours) /\ k - j + 1 = 1
          BY <1>4, <2>4, <4>1
        <5> QED
          BY <2>4, <3>4, <3>6, <4>1, <5>1, <5>2
      <4>2. CASE k > j
        <5>1. k \in j + 1 .. Len(theirs) /\ k - j \in 1 .. Len(s) /\ k - (j + 1) + 1 = k - j
          BY <1>4, <3>3, <4>2
        <5>2. ours[i] # theirs[k]
          BY <1>4, <2>4, <4>2, ModuleIsOneToOne
        <5>3. (<<a>> \o s)[k - j + 1] = s[k - j]
          BY <3>4, <5>1
        <5>4. \A p \in i .. Len(ours) : p = i \/ p \in i + 1 .. Len(ours)
          BY <1>4
        <5>5. \A p \in i + 1 .. Len(ours) : p \in i .. Len(ours)
          BY <1>4
        <5>6. /\ \A p \in i + 1 .. Len(ours) : ours[p] = theirs[k] => s[k - j] = c[p]
              /\ (\A p \in i + 1 .. Len(ours) : ours[p] # theirs[k]) => s[k - j] = 0
          BY <3>2, <5>1 DEF Merged
        <5> QED
          BY <5>2, <5>3, <5>4, <5>5, <5>6
      <4>3. k = j \/ k > j
        BY <1>4, <2>8
      <4> QED
        BY <4>1, <4>2, <4>3
    <3> QED
      BY <1>4, <3>1, <3>4, <3>5 DEF Merged
  <2>5. CASE j <= Len(theirs) /\ i <= Len(ours) /\ ours[i] # theirs[j] /\ Smaller(ours[i], theirs[j])
    <3> DEFINE s == f[<<i + 1, j>>]
    <3>1. f[<<i, j>>] = s
      BY <2>7, <2>8, <2>5
    <3>2. Merged(ours, c, theirs, i + 1, j, s)
      <4>1. /\ i + 1 \in 1 .. Len(ours) + 1 /\ j \in 1 .. Len(theirs) + 1
            /\ (Len(ours) + 1 - (i + 1)) + (Len(theirs) + 1 - j) < n
        BY <1>4, <2>5
      <4> QED
        BY <2>1, <4>1
    <3> HIDE DEF s
    <3>3. ASSUME NEW k \in j .. Len(theirs)
          PROVE  ours[i] # theirs[k]
      <4>1. IsGen(ours[i]) /\ IsGen(theirs[j]) /\ IsGen(theirs[k])
        BY <1>4, <2>5 DEF IsModule
      <4>2. k = j \/ Smaller(theirs[j], theirs[k])
        BY <1>4, <2>5 DEF IsModule
      <4>3. ASSUME ours[i] = theirs[k]
            PROVE  FALSE
        <5>1. Smaller(theirs[j], theirs[k]) /\ Smaller(theirs[k], theirs[j])
          BY <2>5, <4>2, <4>3
        <5>2. Smaller(theirs[j], theirs[j])
          BY <4>1, <5>1, SmallerIsTransitive
        <5> QED
          BY <4>1, <5>2, SmallerIsIrreflexive
      <4> QED
        BY <4>3
    <3>4. \A p \in i .. Len(ours) : p = i \/ p \in i + 1 .. Len(ours)
      BY <1>4
    <3>5. \A p \in i + 1 .. Len(ours) : p \in i .. Len(ours)
      BY <1>4
    <3> QED
      BY <3>1, <3>2, <3>3, <3>4, <3>5 DEF Merged
  <2>6. CASE j <= Len(theirs) /\ i <= Len(ours) /\ ours[i] # theirs[j] /\ ~Smaller(ours[i], theirs[j])
    <3> DEFINE s == f[<<i, j + 1>>]
    <3>1. f[<<i, j>>] = <<0>> \o s
      BY <2>7, <2>8, <2>6
    <3>2. Merged(ours, c, theirs, i, j + 1, s)
      <4>1. /\ i \in 1 .. Len(ours) + 1 /\ j + 1 \in 1 .. Len(theirs) + 1
            /\ (Len(ours) + 1 - i) + (Len(theirs) + 1 - (j + 1)) < n
        BY <1>4, <2>6
      <4> QED
        BY <2>1, <4>1
    <3> HIDE DEF s
    <3>3. s \in Seq(Int) /\ Len(s) = Len(theirs) - j
      BY <1>4, <3>2 DEF Merged
    <3>4. /\ <<0>> \o s \in Seq(Int) /\ Len(<<0>> \o s) = Len(theirs) + 1 - j
          /\ (<<0>> \o s)[1] = 0
          /\ \A k \in 1 .. Len(s) : (<<0>> \o s)[k + 1] = s[k]
      BY <1>4, <3>3, Cons
    <3>5. ASSUME NEW k \in j .. Len(theirs)
          PROVE  /\ \A p \in i .. Len(ours) : ours[p] = theirs[k] => (<<0>> \o s)[k - j + 1] = c[p]
                 /\ (\A p \in i .. Len(ours) : ours[p] # theirs[k]) => (<<0>> \o s)[k - j + 1] = 0
      <4>1. CASE k = j
        <5>1. ASSUME NEW p \in i .. Len(ours), ours[p] = theirs[j]
              PROVE  FALSE
          <6>1. IsGen(ours[i]) /\ IsGen(theirs[j]) /\ p \in 1 .. Len(ours) /\ i \in 1 .. Len(ours)
            BY <1>4, <2>6 DEF IsModule
          <6>2. Smaller(theirs[j], ours[i])
            BY <2>6, <6>1, SmallerIsConnex
          <6>3. p # i
            BY <2>6, <5>1
          <6>4. Smaller(ours[i], ours[p])
            BY <1>4, <6>1, <6>3 DEF IsModule
          <6>5. Smaller(theirs[j], theirs[j])
            BY <5>1, <6>1, <6>2, <6>4, SmallerIsTransitive
          <6> QED
            BY <6>1, <6>5, SmallerIsIrreflexive
        <5>2. k - j + 1 = 1
          BY <4>1
        <5> QED
          BY <3>4, <4>1, <5>1, <5>2
      <4>2. CASE k > j
        <5>1. k \in j + 1 .. Len(theirs) /\ k - j \in 1 .. Len(s) /\ k - (j + 1) + 1 = k - j
          BY <1>4, <3>3, <4>2
        <5>2. (<<0>> \o s)[k - j + 1] = s[k - j]
          BY <3>4, <5>1
        <5> QED
          BY <3>2, <5>1, <5>2 DEF Merged
      <4>3. k = j \/ k > j
        BY <1>4, <2>8
      <4> QED
        BY <4>1, <4>2, <4>3
    <3> QED
      BY <1>4, <3>1, <3>4, <3>5 DEF Merged
  <2>9. (j > Len(theirs) \/ j <= Len(theirs)) /\ (i > Len(ours) \/ i <= Len(ours))
    BY <1>4, <2>8
  <2> QED
    BY <2>2, <2>3, <2>4, <2>5, <2>6, <2>9
<1> HIDE DEF S
<1>7. \A n \in Nat : n \in S
  BY <1>6, Merging!StrongInduct
<1>8. Merged(ours, c, theirs, 1, 1, f[<<1, 1>>])
  <2>1. Len(ours) + Len(theirs) \in S
    BY <1>4, <1>7
  <2>2. 1 \in 1 .. Len(ours) + 1 /\ 1 \in 1 .. Len(theirs) + 1
        /\ (Len(ours) + 1 - 1) + (Len(theirs) + 1 - 1) = Len(ours) + Len(theirs)
    BY <1>4
  <2> QED
    BY <2>1, <2>2 DEF S
<1> QED
  BY <1>2, <1>8

\* An element that is given by a basis and coefficients.
LEMMA ElementFacts ==
  ASSUME NEW m, IsModule(m), NEW c, AreCoefficients(c, m)
  PROVE  /\ IsValid(Element(m, c))
         /\ Element(m, c).module = m /\ Element(m, c).coefficients = c /\ Rank(Element(m, c)) = Len(m)
BY DEF IsValid, Element, Rank

\* Such a list of coefficients.
LEMMA CoefficientFacts ==
  ASSUME NEW m, IsModule(m), NEW c, DOMAIN c = 1 .. Len(m), c = [n \in 1 .. Len(m) |-> c[n]],
         \A n \in 1 .. Len(m) : c[n] \in Int
  PROVE  AreCoefficients(c, m)
<1>1. Len(m) \in Nat
  BY DEF IsModule
<1>2. Len(c) = Len(m)
  BY <1>1, LenOfFunction
<1> QED
  BY <1>2 DEF AreCoefficients

LEMMA ListOfIntegers ==
  ASSUME NEW m, IsModule(m), NEW s, s \in Seq(Int), Len(s) = Len(m)
  PROVE  AreCoefficients(s, m)
<1>1. s \in [1 .. Len(m) -> Int] /\ DOMAIN s = 1 .. Len(m)
  BY LenProperties
<1>2. s = [n \in 1 .. Len(m) |-> s[n]] /\ \A n \in 1 .. Len(m) : s[n] \in Int
  BY <1>1
<1> QED
  BY <1>1, <1>2 DEF AreCoefficients

LEMMA ZeroFacts ==
  ASSUME NEW m, IsModule(m)
  PROVE  IsValid(Zero(m)) /\ Zero(m).module = m /\ \A g : At(Zero(m), g) = 0
<1> DEFINE c == [n \in 1 .. Len(m) |-> 0]
           e == Element(m, c)
<1>1. AreCoefficients(c, m)
  <2>1. DOMAIN c = 1 .. Len(m) /\ c = [n \in 1 .. Len(m) |-> c[n]] /\ \A n \in 1 .. Len(m) : c[n] \in Int
    OBVIOUS
  <2> HIDE DEF c
  <2> QED
    BY <2>1, CoefficientFacts
<1>2. \A n \in 1 .. Len(m) : c[n] = 0
  OBVIOUS
<1>3. Zero(m) = e
  BY DEF Zero
<1> HIDE DEF c
<1>4. IsValid(e) /\ e.module = m /\ e.coefficients = c /\ Rank(e) = Len(m)
  BY <1>1, ElementFacts
<1> HIDE DEF e
<1>5. ASSUME NEW g
      PROVE  At(e, g) = 0
  <2>1. CASE g \notin Gens(m)
    BY <1>4, <2>1, AtFacts
  <2>2. CASE g \in Gens(m)
    <3>1. PICK n \in 1 .. Len(m) : m[n] = g
      BY <2>2, ModuleFacts
    <3> QED
      BY <1>2, <1>4, <3>1, AtFacts
  <2> QED
    BY <2>1, <2>2
<1> QED
  BY <1>3, <1>4, <1>5

LEMMA IsZeroMeans ==
  ASSUME NEW e, IsValid(e)
  PROVE  IsZero(e) <=> \A g : At(e, g) = 0
<1>1. ASSUME IsZero(e), NEW g
      PROVE  At(e, g) = 0
  <2>1. CASE g \notin Gens(e.module)
    BY <2>1, AtFacts
  <2>2. CASE g \in Gens(e.module)
    <3>1. PICK n \in 1 .. Rank(e) : e.module[n] = g
      BY <2>2, ModuleFacts DEF IsValid, Rank
    <3> QED
      BY <1>1, <3>1, AtFacts DEF IsZero
  <2> QED
    BY <2>1, <2>2
<1>2. ASSUME \A g : At(e, g) = 0
      PROVE  IsZero(e)
  BY <1>2, AtFacts DEF IsZero
<1> QED
  BY <1>1, <1>2

\* Promoting keeps the coefficients at the generators of the other module.
LEMMA PromoteFacts ==
  ASSUME NEW e, IsValid(e), NEW m, IsModule(m)
  PROVE  /\ IsValid(Promote(e, m)) /\ Promote(e, m).module = m
         /\ \A g : At(Promote(e, m), g) = IF g \in Gens(m) THEN At(e, g) ELSE 0
<1>1. CASE SameModule(e.module, m)
  BY <1>1, AtFacts DEF Promote, SameModule
<1>2. CASE ~SameModule(e.module, m) /\ IsZero(e)
  <2>1. Promote(e, m) = Zero(m)
    BY <1>2 DEF Promote
  <2>2. \A g : At(e, g) = 0
    BY <1>2, IsZeroMeans
  <2> QED
    BY <2>1, <2>2, ZeroFacts
<1>3. CASE ~SameModule(e.module, m) /\ ~IsZero(e)
  <2> DEFINE ours == e.module
             c == e.coefficients
             s == Merge(ours, c, m)
             f == Element(m, s)
  <2>1. Promote(e, m) = f
    BY <1>3 DEF Promote
  <2>2. IsModule(ours) /\ AreCoefficients(c, ours) /\ Rank(e) = Len(ours)
    BY DEF IsValid, Rank
  <2>3. Merged(ours, c, m, 1, 1, s)
    BY <2>2, MergeMerges
  <2> HIDE DEF s
  <2>4. Len(m) \in Nat /\ Len(ours) \in Nat
    BY <2>2 DEF IsModule
  <2>5. s \in Seq(Int) /\ Len(s) = Len(m)
    BY <2>3, <2>4 DEF Merged
  <2>6. AreCoefficients(s, m)
    BY <2>5, ListOfIntegers
  <2>7. IsValid(f) /\ f.module = m /\ f.coefficients = s /\ Rank(f) = Len(m)
    BY <2>6, ElementFacts
  <2> HIDE DEF f
  <2>8. ASSUME NEW n \in 1 .. Len(m)
        PROVE  s[n] = At(e, m[n])
    <3>1. n - 1 + 1 = n
      BY <2>4
    <3>2. /\ \A p \in 1 .. Len(ours) : ours[p] = m[n] => s[n] = c[p]
          /\ (\A p \in 1 .. Len(ours) : ours[p] # m[n]) => s[n] = 0
      BY <2>3, <3>1 DEF Merged
    <3>3. CASE m[n] \in Gens(ours)
      <4>1. PICK p \in 1 .. Len(ours) : ours[p] = m[n]
        BY <2>2, <3>3, ModuleFacts
      <4> QED
        BY <2>2, <3>2, <4>1, AtFacts
    <3>4. CASE m[n] \notin Gens(ours)
      <4>1. \A p \in 1 .. Len(ours) : ours[p] # m[n]
        BY <2>2, <3>4, ModuleFacts
      <4> QED
        BY <3>2, <3>4, <4>1, AtFacts
    <3> QED
      BY <3>3, <3>4
  <2>9. ASSUME NEW g
        PROVE  At(f, g) = IF g \in Gens(m) THEN At(e, g) ELSE 0
    <3>1. CASE g \notin Gens(m)
      BY <2>7, <3>1, AtFacts
    <3>2. CASE g \in Gens(m)
      <4>1. PICK n \in 1 .. Len(m) : m[n] = g
        BY <3>2, ModuleFacts
      <4> QED
        BY <2>7, <2>8, <3>2, <4>1, AtFacts
    <3> QED
      BY <3>1, <3>2
  <2> QED
    BY <2>1, <2>7, <2>9
<1> QED
  BY <1>1, <1>2, <1>3

\* Promoting to a module with all the generators.
LEMMA PromoteKeeps ==
  ASSUME NEW e, IsValid(e), NEW m, IsModule(m), \A g \in Gens(e.module) : At(e, g) # 0 => g \in Gens(m)
  PROVE  \A g : At(Promote(e, m), g) = At(e, g)
BY PromoteFacts, AtFacts

LEMMA PlusFacts ==
  ASSUME NEW e, IsValid(e), NEW f, IsValid(f)
  PROVE  /\ IsValid(Plus(e, f)) /\ Plus(e, f).module = Span(e.module, f.module)
         /\ \A g : At(Plus(e, f), g) = At(e, g) + At(f, g)
<1> DEFINE m == Span(e.module, f.module)
           a == Promote(e, m)
           b == Promote(f, m)
           c == [n \in 1 .. Len(m) |-> a.coefficients[n] + b.coefficients[n]]
           s == Element(m, c)
<1>1. Plus(e, f) = s
  BY DEF Plus
<1>2. IsModule(e.module) /\ IsModule(f.module)
  BY DEF IsValid
<1>3. IsModule(m) /\ Gens(m) = Gens(e.module) \cup Gens(f.module)
  BY <1>2, SpanFacts
<1> HIDE DEF m
<1>4. IsValid(a) /\ a.module = m /\ \A g : At(a, g) = At(e, g)
  BY <1>3, PromoteFacts, PromoteKeeps
<1>5. IsValid(b) /\ b.module = m /\ \A g : At(b, g) = At(f, g)
  BY <1>3, PromoteFacts, PromoteKeeps
<1> HIDE DEF a, b
<1>6. \A n \in 1 .. Len(m) : a.coefficients[n] = At(e, m[n]) /\ b.coefficients[n] = At(f, m[n])
  BY <1>4, <1>5, AtFacts DEF Rank
<1>7. \A g : At(e, g) \in Int /\ At(f, g) \in Int
  BY AtFacts
<1>8. /\ DOMAIN c = 1 .. Len(m) /\ c = [n \in 1 .. Len(m) |-> c[n]]
      /\ \A n \in 1 .. Len(m) : c[n] = At(e, m[n]) + At(f, m[n])
  BY <1>6
<1> HIDE DEF c
<1>9. \A n \in 1 .. Len(m) : c[n] \in Int
  BY <1>7, <1>8
<1>10. AreCoefficients(c, m)
  BY <1>3, <1>8, <1>9, CoefficientFacts
<1>11. IsValid(s) /\ s.module = m /\ s.coefficients = c /\ Rank(s) = Len(m)
  BY <1>3, <1>10, ElementFacts
<1> HIDE DEF s
<1>12. ASSUME NEW g
       PROVE  At(s, g) = At(e, g) + At(f, g)
  <2>1. CASE g \notin Gens(m)
    <3>1. At(s, g) = 0 /\ At(e, g) = 0 /\ At(f, g) = 0
      BY <1>3, <1>11, <2>1, AtFacts
    <3> QED
      BY <3>1
  <2>2. CASE g \in Gens(m)
    <3>1. PICK n \in 1 .. Len(m) : m[n] = g
      BY <1>3, <2>2, ModuleFacts
    <3> QED
      BY <1>8, <1>11, <3>1, AtFacts
  <2> QED
    BY <2>1, <2>2
<1> QED
  BY <1>1, <1>11, <1>12 DEF m

LEMMA MinusFacts ==
  ASSUME NEW e, IsValid(e)
  PROVE  /\ IsValid(Minus(e)) /\ Minus(e).module = e.module
         /\ \A g : At(Minus(e), g) = - At(e, g)
<1> DEFINE m == e.module
           c == [n \in 1 .. Rank(e) |-> - e.coefficients[n]]
           s == Element(m, c)
<1>1. Minus(e) = s
  BY DEF Minus
<1>2. IsModule(m) /\ Rank(e) = Len(m)
  BY DEF IsValid, Rank
<1>3. \A g : At(e, g) \in Int
  BY AtFacts
<1>4. /\ DOMAIN c = 1 .. Len(m) /\ c = [n \in 1 .. Len(m) |-> c[n]]
      /\ \A n \in 1 .. Len(m) : c[n] = - At(e, m[n])
  BY <1>2, AtFacts
<1> HIDE DEF c
<1>5. \A n \in 1 .. Len(m) : c[n] \in Int
  BY <1>3, <1>4
<1>6. AreCoefficients(c, m)
  BY <1>2, <1>4, <1>5, CoefficientFacts
<1>7. IsValid(s) /\ s.module = m /\ s.coefficients = c /\ Rank(s) = Len(m)
  BY <1>2, <1>6, ElementFacts
<1> HIDE DEF s
<1>8. ASSUME NEW g
      PROVE  At(s, g) = - At(e, g)
  <2>1. CASE g \notin Gens(m)
    <3>1. At(s, g) = 0 /\ At(e, g) = 0
      BY <1>7, <2>1, AtFacts
    <3>2. \A a, b \in Int : a + b = 0 => b = - a
      OBVIOUS
    <3>3. At(e, g) \in Int /\ At(s, g) \in Int /\ At(e, g) + At(s, g) = 0
      BY <3>1
    <3> QED
      BY <3>2, <3>3
  <2>2. CASE g \in Gens(m)
    <3>1. PICK n \in 1 .. Len(m) : m[n] = g
      BY <1>2, <2>2, ModuleFacts
    <3>2. At(s, g) = c[n]
      BY <1>7, <3>1, AtFacts
    <3> QED
      BY <1>4, <3>1, <3>2
  <2> QED
    BY <2>1, <2>2
<1> QED
  BY <1>1, <1>7, <1>8

\* The generators with a coefficient.
Support(e) == {g \in Gens(e.module) : At(e, g) # 0}

LEMMA SupportFacts ==
  ASSUME NEW e, IsValid(e)
  PROVE  /\ AreGens(Support(e))
         /\ \A g : g \in Support(e) <=> At(e, g) # 0
         /\ Support(e) = {e.module[n] : n \in {n \in 1 .. Rank(e) : e.coefficients[n] # 0}}
<1>1. IsModule(e.module) /\ Rank(e) = Len(e.module)
  BY DEF IsValid, Rank
<1>2. AreGens(Support(e))
  <2>1. AreGens(Gens(e.module))
    BY <1>1, ModuleFacts
  <2> QED
    BY <2>1, FS_Subset DEF AreGens, Support
<1>3. \A g : g \in Support(e) <=> At(e, g) # 0
  BY AtFacts DEF Support
<1>4. \A n \in 1 .. Rank(e) : At(e, e.module[n]) = e.coefficients[n]
  BY AtFacts
<1>5. \A g : g \in Gens(e.module) <=> \E n \in 1 .. Rank(e) : e.module[n] = g
  BY <1>1, ModuleFacts
<1>6. Support(e) = {e.module[n] : n \in {n \in 1 .. Rank(e) : e.coefficients[n] # 0}}
  BY <1>4, <1>5 DEF Support
<1> QED
  BY <1>2, <1>3, <1>6

LEMMA SimplifyFacts ==
  ASSUME NEW e, IsValid(e)
  PROVE  /\ IsValid(Simplify(e)) /\ Simplify(e) = Promote(e, Make(Support(e)))
         /\ Simplify(e).module = Make(Support(e))
         /\ \A g : At(Simplify(e), g) = At(e, g)
<1> DEFINE m == Make(Support(e))
<1>1. Simplify(e) = Promote(e, m)
  BY SupportFacts DEF Simplify
<1>2. IsModule(m) /\ Gens(m) = Support(e)
  BY SupportFacts, MakeFacts
<1> HIDE DEF m
<1>3. \A g \in Gens(e.module) : At(e, g) # 0 => g \in Gens(m)
  BY <1>2 DEF Support
<1> QED
  BY <1>1, <1>2, <1>3, PromoteFacts, PromoteKeeps DEF m

\* The element with the coefficients w at the generators of m.
LEMMA ElementWith ==
  ASSUME NEW m, IsModule(m), NEW c, DOMAIN c = 1 .. Len(m), c = [n \in 1 .. Len(m) |-> c[n]],
         NEW w, \A g \in Gens(m) : w[g] \in Int, \A n \in 1 .. Len(m) : c[n] = w[m[n]]
  PROVE  /\ IsValid(Element(m, c)) /\ Element(m, c).module = m
         /\ \A g : At(Element(m, c), g) = IF g \in Gens(m) THEN w[g] ELSE 0
<1> DEFINE s == Element(m, c)
<1>1. \A g : g \in Gens(m) <=> \E n \in 1 .. Len(m) : m[n] = g
  BY ModuleFacts
<1>2. \A n \in 1 .. Len(m) : c[n] \in Int
  BY <1>1
<1>3. AreCoefficients(c, m)
  BY <1>2, CoefficientFacts
<1>4. IsValid(s) /\ s.module = m /\ s.coefficients = c /\ Rank(s) = Len(m)
  BY <1>3, ElementFacts
<1> HIDE DEF s
<1>5. ASSUME NEW g
      PROVE  At(s, g) = IF g \in Gens(m) THEN w[g] ELSE 0
  <2>1. CASE g \notin Gens(m)
    BY <1>4, <2>1, AtFacts
  <2>2. CASE g \in Gens(m)
    <3>1. PICK n \in 1 .. Len(m) : m[n] = g
      BY <1>1, <2>2
    <3>2. At(s, g) = c[n]
      BY <1>4, <3>1, AtFacts
    <3> QED
      BY <2>2, <3>1, <3>2
  <2> QED
    BY <2>1, <2>2
<1> QED
  BY <1>4, <1>5 DEF s

LEMMA GenFacts ==
  ASSUME NEW m, IsModule(m), NEW n \in 1 .. Len(m)
  PROVE  /\ IsValid(Gen(m, n)) /\ Gen(m, n).module = m
         /\ \A g : At(Gen(m, n), g) = IF g = m[n] THEN 1 ELSE 0
<1> DEFINE c == [k \in 1 .. Len(m) |-> IF k = n THEN 1 ELSE 0]
           w == [g \in Gens(m) |-> IF g = m[n] THEN 1 ELSE 0]
<1>1. Gen(m, n) = Element(m, c)
  BY DEF Gen
<1>2. m[n] \in Gens(m) /\ \A k \in 1 .. Len(m) : m[k] \in Gens(m) /\ (m[k] = m[n] => k = n)
  BY ModuleFacts, ModuleIsOneToOne
<1>3. DOMAIN c = 1 .. Len(m) /\ c = [k \in 1 .. Len(m) |-> c[k]] /\ \A k \in 1 .. Len(m) : c[k] = w[m[k]]
  BY <1>2
<1>4. \A g \in Gens(m) : w[g] \in Int /\ w[g] = IF g = m[n] THEN 1 ELSE 0
  OBVIOUS
<1> HIDE DEF c, w
<1>5. /\ IsValid(Element(m, c)) /\ Element(m, c).module = m
      /\ \A g : At(Element(m, c), g) = IF g \in Gens(m) THEN w[g] ELSE 0
  BY <1>3, <1>4, ElementWith
<1> QED
  BY <1>1, <1>2, <1>4, <1>5

LEMMA MultipleFacts ==
  ASSUME NEW c \in Int, NEW g, IsGen(g)
  PROVE  /\ IsValid(Multiple(c, g)) /\ Gens(Multiple(c, g).module) = {g}
         /\ \A h : At(Multiple(c, g), h) = IF h = g THEN c ELSE 0
<1> DEFINE m == Make({g})
           d == <<c>>
           w == [h \in {g} |-> c]
<1>1. Multiple(c, g) = Element(m, d)
  BY DEF Multiple
<1>2. AreGens({g})
  BY FS_Singleton DEF AreGens
<1>3. IsModule(m) /\ Gens(m) = {g} /\ Len(m) = 1
  BY <1>2, MakeFacts, FS_Singleton
<1> HIDE DEF m
<1>4. \A k \in 1 .. 1 : k = 1
  OBVIOUS
<1>5. DOMAIN d = 1 .. 1 /\ d = [k \in 1 .. 1 |-> d[k]] /\ d[1] = c
  OBVIOUS
<1>6. m[1] = g
  <2>1. 1 \in 1 .. Len(m)
    BY <1>3
  <2>2. m[1] \in Gens(m)
    BY <1>3, <2>1, ModuleFacts
  <2> QED
    BY <1>3, <2>2
<1>7. \A k \in 1 .. Len(m) : d[k] = w[m[k]]
  BY <1>3, <1>4, <1>5, <1>6
<1>8. \A h \in Gens(m) : w[h] \in Int /\ w[h] = c
  BY <1>3
<1> HIDE DEF d, w
<1>9. /\ IsValid(Element(m, d)) /\ Element(m, d).module = m
      /\ \A h : At(Element(m, d), h) = IF h \in Gens(m) THEN w[h] ELSE 0
  BY <1>3, <1>5, <1>7, <1>8, ElementWith
<1> QED
  BY <1>1, <1>3, <1>8, <1>9

-----------------------------------------------------------------------------
(* Products. *)

Pairs(S, T, g) == {p \in S \X T : Times(p[1], p[2]) = g}

LEMMA PairsAreFinite ==
  ASSUME NEW S, AreGens(S), NEW T, AreGens(T), NEW g
  PROVE  IsFiniteSet(Pairs(S, T, g)) /\ Pairs(S, T, g) \subseteq S \X T /\ IsFiniteSet(S \X T)
<1>1. IsFiniteSet(S) /\ IsFiniteSet(T)
  BY DEF AreGens
<1>2. IsFiniteSet(S \X T)
  BY <1>1, FS_Product
<1>3. Pairs(S, T, g) \in SUBSET (S \X T)
  BY DEF Pairs
<1> QED
  BY <1>2, <1>3, FS_Subset

LEMMA ProductsAreGens ==
  ASSUME NEW S, AreGens(S), NEW T, AreGens(T)
  PROVE  AreGens({Times(g, h) : g \in S, h \in T})
<1>1. IsFiniteSet(S) /\ IsFiniteSet(T) /\ (\A f \in S : IsGen(f)) /\ (\A f \in T : IsGen(f))
  BY DEF AreGens
<1>2. IsFiniteSet(S \X T)
  BY <1>1, FS_Product
<1> DEFINE U == {Times(g, h) : g \in S, h \in T}
           t == [p \in S \X T |-> Times(p[1], p[2])]
<1>5. \A f \in U : IsGen(f)
  BY <1>1, TimesIsGen
<1>6. \A p \in S \X T : t[p] \in U
  OBVIOUS
<1>7. \A f \in U : \E p \in S \X T : t[p] = f
  <2> SUFFICES ASSUME NEW g \in S, NEW h \in T
               PROVE  \E p \in S \X T : t[p] = Times(g, h)
    OBVIOUS
  <2>1. <<g, h>> \in S \X T /\ t[<<g, h>>] = Times(g, h)
    OBVIOUS
  <2> QED
    BY <2>1
<1>8. t \in [S \X T -> U]
  BY <1>6
<1> HIDE DEF U, t
<1>9. t \in Surjection(S \X T, U)
  BY <1>7, <1>8 DEF Surjection
<1>10. IsFiniteSet(U)
  BY <1>2, <1>9, FS_Surjection
<1> QED
  BY <1>5, <1>10 DEF AreGens, U

\* The sum of v[p[1]] * w[p[2]] for the pairs p in S.
AddingProducts(v, w, S, iter) ==
  iter = [s \in SUBSET S |->
            IF s = {} THEN 0
            ELSE LET z == CHOOSE r \in s : TRUE IN v[z[1]] * w[z[2]] + iter[s \ {z}]]

SumOfProducts(v, w, S) == (CHOOSE iter : AddingProducts(v, w, S, iter))[S]

LEMMA SumOfProductsIsSum ==
  ASSUME NEW S, IsFiniteSet(S), NEW v, NEW w
  PROVE  SumOfProducts(v, w, S) = SumOn([p \in S |-> v[p[1]] * w[p[2]]], S)
<1> DEFINE u == [p \in S |-> v[p[1]] * w[p[2]]]
           f == CHOOSE iter : AddingProducts(v, w, S, iter)
<1>1. \A p \in S : u[p] = v[p[1]] * w[p[2]]
  OBVIOUS
<1> HIDE DEF u
<1>2. ASSUME NEW iter
      PROVE  AddingProducts(v, w, S, iter) <=> AddingUp(u, S, iter)
  <2> DEFINE A == [s \in SUBSET S |->
                     IF s = {} THEN 0
                     ELSE LET z == CHOOSE r \in s : TRUE IN v[z[1]] * w[z[2]] + iter[s \ {z}]]
             B == [s \in SUBSET S |->
                     IF s = {} THEN 0 ELSE LET z == CHOOSE r \in s : TRUE IN u[z] + iter[s \ {z}]]
  <2>1. ASSUME NEW s \in SUBSET S
        PROVE  A[s] = B[s]
    <3> DEFINE z == CHOOSE r \in s : TRUE
    <3>1. CASE s = {}
      BY <3>1
    <3>2. CASE s # {}
      <4>1. z \in S
        BY <3>2
      <4>2. u[z] = v[z[1]] * w[z[2]]
        BY <1>1, <4>1
      <4> QED
        BY <3>2, <4>2
    <3> QED
      BY <3>1, <3>2
  <2>2. A = B
    BY <2>1
  <2> QED
    BY <2>2 DEF AddingProducts, AddingUp
<1>3. \E iter : AddingUp(u, S, iter)
  BY SumExistsOn
<1>4. AddingProducts(v, w, S, f)
  BY <1>2, <1>3
<1>5. AddingUp(u, S, f)
  BY <1>2, <1>4
<1>6. SumOfProducts(v, w, S) = f[S]
  BY DEF SumOfProducts
<1> HIDE DEF f
<1>7. f[S] = SumOn(u, S)
  BY <1>5, SumOfIter
<1> QED
  BY <1>6, <1>7 DEF u

\* The products of coefficients, and what they add up to at g.
ProductsOf(e, f, S, T) == [p \in S \X T |-> At(e, p[1]) * At(f, p[2])]
Conv(e, f, S, T, g) == SumOn(ProductsOf(e, f, S, T), Pairs(S, T, g))

LEMMA ProductsAreIntegers ==
  ASSUME NEW e, IsValid(e), NEW f, IsValid(f), NEW S, NEW T
  PROVE  IntegerOn(ProductsOf(e, f, S, T), S \X T)
<1>1. \A g : At(e, g) \in Int /\ At(f, g) \in Int
  BY AtFacts
<1>2. ASSUME NEW p \in S \X T
      PROVE  ProductsOf(e, f, S, T)[p] \in Int
  <2>1. At(e, p[1]) \in Int /\ At(f, p[2]) \in Int
    BY <1>1
  <2>2. ProductsOf(e, f, S, T)[p] = At(e, p[1]) * At(f, p[2])
    BY DEF ProductsOf
  <2>3. At(e, p[1]) * At(f, p[2]) \in Int
    BY <2>1
  <2> QED
    BY <2>2, <2>3
<1> QED
  BY <1>2 DEF IntegerOn

\* What a sum over the pairs needs.
LEMMA PairsFacts ==
  ASSUME NEW e, IsValid(e), NEW f, IsValid(f), NEW S, AreGens(S), NEW T, AreGens(T), NEW g
  PROVE  /\ IsFiniteSet(Pairs(S, T, g)) /\ IntegerOn(ProductsOf(e, f, S, T), Pairs(S, T, g))
         /\ Conv(e, f, S, T, g) \in Int
<1>1. IsFiniteSet(Pairs(S, T, g)) /\ Pairs(S, T, g) \subseteq S \X T
  BY PairsAreFinite
<1>2. IntegerOn(ProductsOf(e, f, S, T), S \X T)
  BY ProductsAreIntegers
<1>3. IntegerOn(ProductsOf(e, f, S, T), Pairs(S, T, g))
  BY <1>1, <1>2 DEF IntegerOn
<1>4. SumOn(ProductsOf(e, f, S, T), Pairs(S, T, g)) \in Int
  BY <1>1, <1>3, SumIsInteger
<1> QED
  BY <1>1, <1>3, <1>4 DEF Conv

LEMMA CoefficientIsConv ==
  ASSUME NEW e, IsValid(e), NEW f, IsValid(f), NEW g
  PROVE  Coefficient(e, f, g) = Conv(e, f, Gens(e.module), Gens(f.module), g)
<1> DEFINE I == (1 .. Rank(e)) \X (1 .. Rank(f))
           S == Gens(e.module)
           T == Gens(f.module)
           Q == {p \in I : Times(e.module[p[1]], f.module[p[2]]) = g}
           u == [p \in Q |-> e.coefficients[p[1]] * f.coefficients[p[2]]]
           w == ProductsOf(e, f, S, T)
           h == [p \in Q |-> <<e.module[p[1]], f.module[p[2]]>>]
<1>1. IsModule(e.module) /\ IsModule(f.module) /\ Rank(e) = Len(e.module) /\ Rank(f) = Len(f.module)
  BY DEF IsValid, Rank
<1>2. Coefficient(e, f, g) = SumOfProducts(e.coefficients, f.coefficients, Q)
  BY DEF Coefficient, MapThenSumSet, MapThenFoldSet, SumOfProducts, AddingProducts
<1>3. IsFiniteSet(Q)
  <2>1. Rank(e) \in Int /\ Rank(f) \in Int /\ 1 \in Int
    BY <1>1 DEF IsModule
  <2>2. IsFiniteSet(1 .. Rank(e)) /\ IsFiniteSet(1 .. Rank(f))
    BY <2>1, FS_Interval
  <2>3. IsFiniteSet(I)
    BY <2>2, FS_Product
  <2>4. Q \in SUBSET I
    OBVIOUS
  <2> HIDE DEF Q, I
  <2> QED
    BY <2>3, <2>4, FS_Subset
<1>4. Coefficient(e, f, g) = SumOn(u, Q)
  <2> HIDE DEF Q
  <2> QED
    BY <1>2, <1>3, SumOfProductsIsSum
<1>5. AreGens(S) /\ AreGens(T)
  BY <1>1, ModuleFacts
<1>6. /\ \A a : a \in S <=> \E n \in 1 .. Rank(e) : e.module[n] = a
      /\ \A a : a \in T <=> \E n \in 1 .. Rank(f) : f.module[n] = a
  BY <1>1, ModuleFacts
<1>7. /\ \A n \in 1 .. Rank(e) : At(e, e.module[n]) = e.coefficients[n]
      /\ \A n \in 1 .. Rank(f) : At(f, f.module[n]) = f.coefficients[n]
  BY AtFacts
<1>8. ASSUME NEW p \in Q
      PROVE  h[p] \in Pairs(S, T, g) /\ u[p] = w[h[p]]
  <2>1. p[1] \in 1 .. Rank(e) /\ p[2] \in 1 .. Rank(f) /\ Times(e.module[p[1]], f.module[p[2]]) = g
    OBVIOUS
  <2>2. h[p] = <<e.module[p[1]], f.module[p[2]]>>
    OBVIOUS
  <2>3. h[p] \in S \X T /\ h[p][1] = e.module[p[1]] /\ h[p][2] = f.module[p[2]]
    BY <1>6, <2>1, <2>2
  <2>4. u[p] = e.coefficients[p[1]] * f.coefficients[p[2]]
    OBVIOUS
  <2>5. w[h[p]] = At(e, h[p][1]) * At(f, h[p][2])
    BY <2>3 DEF ProductsOf
  <2> QED
    BY <1>7, <2>1, <2>3, <2>4, <2>5 DEF Pairs
<1>9. ASSUME NEW p \in Q, NEW q \in Q, h[p] = h[q]
      PROVE  p = q
  <2>1. /\ p[1] \in 1 .. Rank(e) /\ p[2] \in 1 .. Rank(f) /\ p = <<p[1], p[2]>>
        /\ q[1] \in 1 .. Rank(e) /\ q[2] \in 1 .. Rank(f) /\ q = <<q[1], q[2]>>
    OBVIOUS
  <2>2. e.module[p[1]] = e.module[q[1]] /\ f.module[p[2]] = f.module[q[2]]
    BY <1>9
  <2>3. p[1] = q[1] /\ p[2] = q[2]
    BY <1>1, <2>1, <2>2, ModuleIsOneToOne
  <2> QED
    BY <2>1, <2>3
<1>10. ASSUME NEW q \in Pairs(S, T, g)
       PROVE  \E p \in Q : h[p] = q
  <2>1. q[1] \in S /\ q[2] \in T /\ q = <<q[1], q[2]>> /\ Times(q[1], q[2]) = g
    BY DEF Pairs
  <2>2. PICK i \in 1 .. Rank(e) : e.module[i] = q[1]
    BY <1>6, <2>1
  <2>3. PICK j \in 1 .. Rank(f) : f.module[j] = q[2]
    BY <1>6, <2>1
  <2>4. <<i, j>> \in Q
    BY <2>1, <2>2, <2>3
  <2>5. h[<<i, j>>] = q
    BY <2>1, <2>2, <2>3, <2>4
  <2> QED
    BY <2>4, <2>5
<1> HIDE DEF Q, h, u, S, T, w
<1>11. Reindexes(h, Q, Pairs(S, T, g), u, w)
  BY <1>8, <1>9, <1>10 DEF Reindexes
<1>12. IsFiniteSet(Pairs(S, T, g)) /\ IntegerOn(w, Pairs(S, T, g))
  BY <1>5, PairsFacts DEF w
<1>13. SumOn(u, Q) = SumOn(w, Pairs(S, T, g))
  BY <1>3, <1>11, <1>12, SumReindexed
<1> QED
  BY <1>4, <1>13 DEF Conv, w, S, T

\* The coefficient of the product of e and f at g.
Con(e, f, g) == Conv(e, f, Support(e), Support(f), g)

\* It does not matter where one looks for the coefficients.
LEMMA ConvIsCon ==
  ASSUME NEW e, IsValid(e), NEW f, IsValid(f), NEW S, AreGens(S), NEW T, AreGens(T),
         Support(e) \subseteq S, Support(f) \subseteq T, NEW g
  PROVE  Conv(e, f, S, T, g) = Con(e, f, g)
<1> DEFINE X == Support(e)
           Y == Support(f)
           v == ProductsOf(e, f, S, T)
           w == ProductsOf(e, f, X, Y)
<1>1. AreGens(X) /\ AreGens(Y) /\ (\A a : a \in X <=> At(e, a) # 0) /\ (\A a : a \in Y <=> At(f, a) # 0)
  BY SupportFacts
<1>2. \A a : At(e, a) \in Int /\ At(f, a) \in Int
  BY AtFacts
<1>3. IsFiniteSet(Pairs(S, T, g)) /\ IntegerOn(v, Pairs(S, T, g))
  BY PairsFacts
<1>4. IsFiniteSet(Pairs(X, Y, g))
  BY <1>1, PairsFacts
<1> HIDE DEF X, Y
<1>5. Pairs(X, Y, g) \subseteq Pairs(S, T, g)
  BY DEF Pairs, X, Y
<1>6. ASSUME NEW p \in Pairs(S, T, g), p \notin Pairs(X, Y, g)
      PROVE  v[p] = 0
  <2>1. p \in S \X T /\ p = <<p[1], p[2]>> /\ Times(p[1], p[2]) = g
    BY DEF Pairs
  <2>2. p[1] \notin X \/ p[2] \notin Y
    BY <1>6, <2>1 DEF Pairs
  <2>3. At(e, p[1]) = 0 \/ At(f, p[2]) = 0
    BY <1>1, <2>2
  <2>4. v[p] = At(e, p[1]) * At(f, p[2])
    BY <2>1 DEF ProductsOf
  <2>5. At(e, p[1]) \in Int /\ At(f, p[2]) \in Int
    BY <1>2
  <2> QED
    BY <2>3, <2>4, <2>5
<1>7. \A p \in Pairs(X, Y, g) : v[p] = w[p]
  <2> SUFFICES ASSUME NEW p \in Pairs(X, Y, g)
               PROVE  v[p] = w[p]
    OBVIOUS
  <2>1. p \in X \X Y /\ p \in S \X T
    BY <1>5 DEF Pairs
  <2> QED
    BY <2>1 DEF ProductsOf
<1> HIDE DEF v, w
<1>8. SumOn(v, Pairs(S, T, g)) = SumOn(v, Pairs(X, Y, g))
  BY <1>3, <1>5, <1>6, SumOfSupport
<1>9. SumOn(v, Pairs(X, Y, g)) = SumOn(w, Pairs(X, Y, g))
  BY <1>4, <1>7, SumCongruent
<1> QED
  BY <1>8, <1>9 DEF Con, Conv, v, w, X, Y

LEMMA ConIsInteger ==
  ASSUME NEW e, IsValid(e), NEW f, IsValid(f), NEW g
  PROVE  Con(e, f, g) \in Int
<1>1. AreGens(Support(e)) /\ AreGens(Support(f))
  BY SupportFacts
<1> QED
  BY <1>1, PairsFacts DEF Con

\* Where a product is not zero.
LEMMA ConIsNotZero ==
  ASSUME NEW e, IsValid(e), NEW f, IsValid(f), NEW g, Con(e, f, g) # 0
  PROVE  \E a \in Support(e), b \in Support(f) : Times(a, b) = g
<1> DEFINE X == Support(e)
           Y == Support(f)
           w == ProductsOf(e, f, X, Y)
<1>1. AreGens(X) /\ AreGens(Y)
  BY SupportFacts
<1>2. IsFiniteSet(Pairs(X, Y, g))
  BY <1>1, PairsFacts
<1>3. Pairs(X, Y, g) # {}
  <2> SUFFICES ASSUME Pairs(X, Y, g) = {}
               PROVE  FALSE
    OBVIOUS
  <2>1. SumOn(w, {}) = 0
    BY SumOfEmpty
  <2> QED
    BY <2>1 DEF Con, Conv
<1> QED
  BY <1>3 DEF Pairs

\* *= computes the product.
LEMMA ProductFacts ==
  ASSUME NEW e, IsValid(e), NEW f, IsValid(f)
  PROVE  IsValid(Product(e, f)) /\ \A g : At(Product(e, f), g) = Con(e, f, g)
<1>1. \A a : At(e, a) \in Int /\ At(f, a) \in Int
  BY AtFacts
<1>2. /\ AreGens(Support(e)) /\ \A a : a \in Support(e) <=> At(e, a) # 0
      /\ AreGens(Support(f)) /\ \A a : a \in Support(f) <=> At(f, a) # 0
  BY SupportFacts
<1>3. CASE IsZero(e)
  <2>1. Product(e, f) = e
    BY <1>3 DEF Product
  <2>2. \A a : At(e, a) = 0
    BY <1>3, IsZeroMeans
  <2>3. Support(e) = {}
    BY <1>2, <2>2
  <2>4. \A g : Con(e, f, g) = 0
    BY <2>3, ConIsNotZero
  <2> QED
    BY <2>1, <2>2, <2>4
<1>4. CASE ~IsZero(e) /\ IsZero(f)
  <2>1. Product(e, f) = f
    BY <1>4 DEF Product
  <2>2. \A a : At(f, a) = 0
    BY <1>4, IsZeroMeans
  <2>3. Support(f) = {}
    BY <1>2, <2>2
  <2>4. \A g : Con(e, f, g) = 0
    BY <2>3, ConIsNotZero
  <2> QED
    BY <2>1, <2>2, <2>4
<1>5. CASE ~IsZero(e) /\ ~IsZero(f)
  <2> DEFINE S == Gens(e.module)
             T == Gens(f.module)
             U == {Times(g, h) : g \in S, h \in T}
             m == Make(U)
             c == [n \in 1 .. Len(m) |-> Coefficient(e, f, m[n])]
             w == [g \in U |-> Con(e, f, g)]
  <2>1. Product(e, f) = Element(m, c)
    BY <1>5 DEF Product
  <2>2. AreGens(S) /\ AreGens(T)
    BY ModuleFacts DEF IsValid
  <2>3. AreGens(U)
    BY <2>2, ProductsAreGens
  <2>4. IsModule(m) /\ Gens(m) = U
    <3> HIDE DEF U
    <3> QED
      BY <2>3, MakeFacts
  <2>5. Support(e) \subseteq S /\ Support(f) \subseteq T
    BY DEF Support
  <2>6. \A g : Coefficient(e, f, g) = Con(e, f, g)
    <3> SUFFICES ASSUME NEW g
                 PROVE  Coefficient(e, f, g) = Con(e, f, g)
      OBVIOUS
    <3>1. Coefficient(e, f, g) = Conv(e, f, S, T, g)
      BY CoefficientIsConv
    <3> HIDE DEF S, T
    <3>2. Conv(e, f, S, T, g) = Con(e, f, g)
      BY <2>2, <2>5, ConvIsCon
    <3> QED
      BY <3>1, <3>2
  <2>7. \A g \in U : w[g] \in Int /\ w[g] = Con(e, f, g)
    BY ConIsInteger
  <2>8. ASSUME NEW g, g \notin U
        PROVE  Con(e, f, g) = 0
    <3> SUFFICES ASSUME Con(e, f, g) # 0
                 PROVE  FALSE
      OBVIOUS
    <3>1. PICK a \in Support(e), b \in Support(f) : Times(a, b) = g
      BY ConIsNotZero
    <3> QED
      BY <2>5, <2>8, <3>1
  <2> HIDE DEF U, m, S, T
  <2>9. \A n \in 1 .. Len(m) : m[n] \in U
    BY <2>4, ModuleFacts
  <2>10. DOMAIN c = 1 .. Len(m) /\ c = [n \in 1 .. Len(m) |-> c[n]] /\ \A n \in 1 .. Len(m) : c[n] = w[m[n]]
    BY <2>6, <2>7, <2>9
  <2> HIDE DEF c, w
  <2>11. \A g \in Gens(m) : w[g] \in Int
    BY <2>4, <2>7
  <2>12. IsValid(Element(m, c)) /\ \A g : At(Element(m, c), g) = IF g \in Gens(m) THEN w[g] ELSE 0
    BY <2>4, <2>10, <2>11, ElementWith
  <2> QED
    BY <2>1, <2>4, <2>7, <2>8, <2>12
<1> QED
  BY <1>3, <1>4, <1>5

\* e is the sum of d and f.
SumsTo(e, d, f) == \A g : At(e, g) = At(d, g) + At(f, g)

LEMMA ConIsDistributive ==
  ASSUME NEW d, IsValid(d), NEW e, IsValid(e), NEW s, IsValid(s), SumsTo(s, d, e), NEW f, IsValid(f), NEW g
  PROVE  Con(s, f, g) = Con(d, f, g) + Con(e, f, g)
<1> DEFINE S == Support(d) \cup Support(e)
           T == Support(f)
           U == Pairs(S, T, g)
           a == ProductsOf(d, f, S, T)
           b == ProductsOf(e, f, S, T)
           c == ProductsOf(s, f, S, T)
<1>1. /\ AreGens(Support(d)) /\ \A h : h \in Support(d) <=> At(d, h) # 0
      /\ AreGens(Support(e)) /\ \A h : h \in Support(e) <=> At(e, h) # 0
      /\ AreGens(Support(s)) /\ \A h : h \in Support(s) <=> At(s, h) # 0
      /\ AreGens(T)
  BY SupportFacts
<1>2. \A h : At(d, h) \in Int /\ At(e, h) \in Int /\ At(s, h) \in Int /\ At(f, h) \in Int
  BY AtFacts
<1>3. \A h : At(s, h) = At(d, h) + At(e, h)
  BY DEF SumsTo
<1>4. AreGens(S)
  BY <1>1, FS_Union DEF AreGens
<1>5. Support(d) \subseteq S /\ Support(e) \subseteq S
  OBVIOUS
<1>6. Support(s) \subseteq S
  <2> SUFFICES ASSUME NEW h \in Support(s), At(d, h) = 0, At(e, h) = 0
               PROVE  FALSE
    BY <1>1
  <2>1. At(s, h) = 0
    BY <1>3
  <2> QED
    BY <1>1, <2>1
<1> HIDE DEF S, T
<1>7. IsFiniteSet(U) /\ IntegerOn(a, U)
  BY <1>1, <1>4, PairsFacts
<1>8. IntegerOn(b, U)
  BY <1>1, <1>4, PairsFacts
<1>9. IntegerOn(c, U)
  BY <1>1, <1>4, PairsFacts
<1>10. ASSUME NEW p \in U
       PROVE  c[p] = a[p] + b[p]
  <2>1. p \in S \X T
    BY DEF Pairs
  <2>2. a[p] = At(d, p[1]) * At(f, p[2]) /\ b[p] = At(e, p[1]) * At(f, p[2]) /\ c[p] = At(s, p[1]) * At(f, p[2])
    BY <2>1 DEF ProductsOf
  <2>3. \A i, j, k \in Int : (i + j) * k = (i * k) + (j * k)
    OBVIOUS
  <2> QED
    BY <1>2, <1>3, <2>2, <2>3
<1> HIDE DEF U, a, b, c
<1>11. AddsOn(a, b, c, U)
  BY <1>7, <1>8, <1>9, <1>10 DEF AddsOn
<1>12. SumOn(c, U) = SumOn(a, U) + SumOn(b, U)
  BY <1>7, <1>11, SumAddsOn
<1>13. Con(d, f, g) = SumOn(a, U)
  <2>1. Con(d, f, g) = Conv(d, f, S, T, g)
    BY <1>1, <1>4, <1>5, ConvIsCon DEF T
  <2> QED
    BY <2>1 DEF Conv, U, a
<1>14. Con(e, f, g) = SumOn(b, U)
  <2>1. Con(e, f, g) = Conv(e, f, S, T, g)
    BY <1>1, <1>4, <1>5, ConvIsCon DEF T
  <2> QED
    BY <2>1 DEF Conv, U, b
<1>15. Con(s, f, g) = SumOn(c, U)
  <2>1. Con(s, f, g) = Conv(s, f, S, T, g)
    BY <1>1, <1>4, <1>6, ConvIsCon DEF T
  <2> QED
    BY <2>1 DEF Conv, U, c
<1> QED
  BY <1>12, <1>13, <1>14, <1>15

\* An element that is c times t.
IsTerm(e, c, t) == \A h : At(e, h) = IF h = t THEN c ELSE 0

LEMMA ConOfTerm ==
  ASSUME NEW e, IsValid(e), NEW c \in Int, NEW t, IsGen(t), IsTerm(e, c, t),
         NEW f, IsValid(f), NEW h, IsGen(h)
  PROVE  Con(e, f, Times(t, h)) = c * At(f, h)
<1> DEFINE S == {t}
           T == Support(f) \cup {h}
           g == Times(t, h)
           w == ProductsOf(e, f, S, T)
<1>1. AreGens(Support(f))
  BY SupportFacts
<1>2. AreGens(S) /\ AreGens(T)
  BY <1>1, FS_Singleton, FS_Union DEF AreGens
<1>3. Support(e) \subseteq S
  BY SupportFacts DEF IsTerm
<1>4. Support(f) \subseteq T /\ h \in T
  OBVIOUS
<1>5. \A a \in T : IsGen(a)
  BY <1>2 DEF AreGens
<1> HIDE DEF T
<1>6. ASSUME NEW p \in Pairs(S, T, g)
      PROVE  p = <<t, h>>
  <2>1. p[1] = t /\ p[2] \in T /\ p = <<p[1], p[2]>> /\ Times(p[1], p[2]) = g
    BY DEF Pairs
  <2>2. IsGen(p[2]) /\ Times(p[2], t) = Times(h, t)
    BY <1>5, <2>1, TimesCommutes DEF IsGen
  <2>3. p[2] = h
    BY <2>2, TimesCancels DEF IsGen
  <2> QED
    BY <2>1, <2>3
<1>7. <<t, h>> \in Pairs(S, T, g)
  BY <1>4 DEF Pairs
<1>8. Pairs(S, T, g) = {<<t, h>>}
  BY <1>6, <1>7
<1>9. w[<<t, h>>] = c * At(f, h)
  <2>1. <<t, h>> \in S \X T
    BY <1>4
  <2>2. At(e, t) = c
    BY DEF IsTerm
  <2> QED
    BY <2>1, <2>2 DEF ProductsOf
<1>10. c * At(f, h) \in Int
  <2>1. At(f, h) \in Int
    BY AtFacts
  <2> QED
    BY <2>1
<1>11. SumOn(w, {<<t, h>>}) = c * At(f, h)
  <2> HIDE DEF w
  <2> QED
    BY <1>9, <1>10, SumOfSingle
<1>12. Con(e, f, g) = Conv(e, f, S, T, g)
  <2> HIDE DEF S
  <2> QED
    BY <1>2, <1>3, <1>4, ConvIsCon
<1> QED
  BY <1>8, <1>11, <1>12 DEF Conv

-----------------------------------------------------------------------------
(* Leading terms. *)

\* A largest index.
LEMMA LastExists ==
  ASSUME NEW N \in Nat, NEW S, S \subseteq 1 .. N, S # {}
  PROVE  \E n \in S : \A k \in n + 1 .. N : k \notin S
<1> DEFINE T == {N - n : n \in S}
<1>1. T \in SUBSET Nat /\ T # {}
  <2>1. \A n \in S : N - n \in Nat
    OBVIOUS
  <2>2. PICK n \in S : TRUE
    OBVIOUS
  <2>3. N - n \in T
    OBVIOUS
  <2> QED
    BY <2>1, <2>3
<1>2. PICK d \in T : \A k \in T : d <= k
  BY <1>1, Merging!Least
<1>3. PICK n \in S : d = N - n
  OBVIOUS
<1>4. ASSUME NEW k \in n + 1 .. N, k \in S
      PROVE  FALSE
  <2>1. N - k \in T
    BY <1>4
  <2>2. d <= N - k
    BY <1>2, <2>1
  <2> QED
    BY <1>3, <2>2
<1> QED
  BY <1>4

\* What the leading term is.
LEMMA LeadingFacts ==
  ASSUME NEW e, IsValid(e), ~IsZero(e)
  PROVE  /\ IsGen(LeadingGen(e)) /\ LeadingGen(e) \in Gens(e.module)
         /\ LeadingCoefficient(e) = At(e, LeadingGen(e)) /\ At(e, LeadingGen(e)) # 0
         /\ \A g : At(e, g) # 0 => g = LeadingGen(e) \/ Smaller(g, LeadingGen(e))
<1> DEFINE S == {n \in 1 .. Rank(e) : e.coefficients[n] # 0}
           l == Leading(e)
<1>1. IsModule(e.module) /\ Rank(e) = Len(e.module) /\ Rank(e) \in Nat
  BY DEF IsValid, Rank, IsModule
<1>2. S \subseteq 1 .. Rank(e) /\ S # {}
  BY DEF IsZero
<1>3. PICK n \in S : \A k \in n + 1 .. Rank(e) : k \notin S
  <2> HIDE DEF S
  <2> QED
    BY <1>1, <1>2, LastExists
<1>4. \E n1 \in 1 .. Rank(e) : e.coefficients[n1] # 0 /\ \A k \in n1 + 1 .. Rank(e) : e.coefficients[k] = 0
  <2>1. \A k \in n + 1 .. Rank(e) : e.coefficients[k] = 0
    <3> SUFFICES ASSUME NEW k \in n + 1 .. Rank(e)
                 PROVE  e.coefficients[k] = 0
      OBVIOUS
    <3>1. k \in 1 .. Rank(e) /\ k \notin S
      BY <1>1, <1>3
    <3> QED
      BY <3>1
  <2> QED
    BY <1>3, <2>1
<1>5. l \in 1 .. Rank(e) /\ e.coefficients[l] # 0 /\ \A k \in l + 1 .. Rank(e) : e.coefficients[k] = 0
  BY <1>4 DEF Leading
<1> HIDE DEF l
<1>6. LeadingGen(e) = e.module[l] /\ LeadingCoefficient(e) = e.coefficients[l]
  BY DEF LeadingGen, LeadingCoefficient, l
<1>7. /\ IsGen(LeadingGen(e)) /\ LeadingGen(e) \in Gens(e.module)
      /\ LeadingCoefficient(e) = At(e, LeadingGen(e)) /\ At(e, LeadingGen(e)) # 0
  BY <1>1, <1>5, <1>6, AtFacts DEF IsModule
<1>8. ASSUME NEW g, At(e, g) # 0
      PROVE  g = LeadingGen(e) \/ Smaller(g, LeadingGen(e))
  <2>1. g \in Gens(e.module)
    BY <1>8, AtFacts
  <2>2. PICK k \in 1 .. Rank(e) : e.module[k] = g
    BY <1>1, <2>1, ModuleFacts
  <2>3. e.coefficients[k] # 0
    BY <1>8, <2>2, AtFacts
  <2>4. k \in Int /\ l \in Int
    BY <1>1, <1>5
  <2>5. k <= l
    BY <1>1, <1>5, <2>3, <2>4
  <2>6. k = l \/ k < l
    BY <2>4, <2>5
  <2> QED
    BY <1>1, <1>5, <1>6, <2>2, <2>6 DEF IsModule
<1> QED
  BY <1>7, <1>8

\* The leading term is known from the coefficients.
LEMMA LeadingIs ==
  ASSUME NEW e, IsValid(e), NEW h, IsGen(h), At(e, h) # 0,
         \A g : IsGen(g) /\ At(e, g) # 0 => g = h \/ Smaller(g, h)
  PROVE  ~IsZero(e) /\ LeadingGen(e) = h /\ LeadingCoefficient(e) = At(e, h)
<1>1. ~IsZero(e)
  BY IsZeroMeans
<1>2. /\ IsGen(LeadingGen(e)) /\ At(e, LeadingGen(e)) # 0 /\ LeadingCoefficient(e) = At(e, LeadingGen(e))
      /\ h = LeadingGen(e) \/ Smaller(h, LeadingGen(e))
  BY <1>1, LeadingFacts
<1>3. LeadingGen(e) = h \/ Smaller(LeadingGen(e), h)
  BY <1>2
<1>4. h = LeadingGen(e)
  <2> SUFFICES ASSUME h # LeadingGen(e)
               PROVE  FALSE
    OBVIOUS
  <2> QED
    BY <1>2, <1>3, SmallerIsConnex
<1> QED
  BY <1>1, <1>2, <1>4

\* Products of generators that are not larger.
LEMMA TimesIsMonotone ==
  ASSUME NEW a, IsGen(a), NEW b, IsGen(b), NEW f, IsGen(f), NEW g, IsGen(g),
         a = f \/ Smaller(a, f), b = g \/ Smaller(b, g)
  PROVE  \/ a = f /\ b = g
         \/ Smaller(Times(a, b), Times(f, g))
<1>1. Smaller(a, f) => Smaller(Times(a, b), Times(f, b))
  BY SmallerIsCompatible
<1>2. Smaller(b, g) => Smaller(Times(f, b), Times(f, g))
  <2>1. Times(f, b) = Times(b, f) /\ Times(f, g) = Times(g, f)
    BY TimesCommutes DEF IsGen
  <2> QED
    BY <2>1, SmallerIsCompatible
<1>3. IsGen(Times(a, b)) /\ IsGen(Times(f, b)) /\ IsGen(Times(f, g))
  BY TimesIsGen
<1>4. CASE a = f
  BY <1>2, <1>4
<1>5. CASE Smaller(a, f) /\ b = g
  BY <1>1, <1>5
<1>6. CASE Smaller(a, f) /\ Smaller(b, g)
  BY <1>1, <1>2, <1>3, <1>6, SmallerIsTransitive
<1> QED
  BY <1>4, <1>5, <1>6

\* The leading term of a product is the product of the leading terms.
LEMMA LeadingOfProduct ==
  ASSUME NEW e, IsValid(e), ~IsZero(e), NEW f, IsValid(f), ~IsZero(f)
  PROVE  /\ Con(e, f, Times(LeadingGen(e), LeadingGen(f))) = LeadingCoefficient(e) * LeadingCoefficient(f)
         /\ \A g : Con(e, f, g) # 0 =>
              \/ g = Times(LeadingGen(e), LeadingGen(f))
              \/ Smaller(g, Times(LeadingGen(e), LeadingGen(f)))
<1> DEFINE a == LeadingGen(e)
           b == LeadingGen(f)
           X == Support(e)
           Y == Support(f)
           t == Times(a, b)
           w == ProductsOf(e, f, X, Y)
           c == LeadingCoefficient(e)
           d == LeadingCoefficient(f)
<1>1. IsGen(a) /\ c = At(e, a) /\ At(e, a) # 0 /\ \A g : At(e, g) # 0 => g = a \/ Smaller(g, a)
  BY LeadingFacts
<1>2. IsGen(b) /\ d = At(f, b) /\ At(f, b) # 0 /\ \A g : At(f, g) # 0 => g = b \/ Smaller(g, b)
  BY LeadingFacts
<1>3. /\ AreGens(X) /\ \A g : g \in X <=> At(e, g) # 0
      /\ AreGens(Y) /\ \A g : g \in Y <=> At(f, g) # 0
  BY SupportFacts
<1> HIDE DEF a, b, X, Y, c, d
<1>4. ASSUME NEW g \in X, NEW h \in Y
      PROVE  (g = a /\ h = b) \/ Smaller(Times(g, h), t)
  <2>1. IsGen(g) /\ IsGen(h)
    BY <1>3 DEF AreGens
  <2> QED
    BY <1>1, <1>2, <1>3, <2>1, TimesIsMonotone
<1>5. IsGen(t)
  BY <1>1, <1>2, TimesIsGen
<1>6. ASSUME NEW p \in Pairs(X, Y, t)
      PROVE  p = <<a, b>>
  <2>1. p[1] \in X /\ p[2] \in Y /\ p = <<p[1], p[2]>> /\ Times(p[1], p[2]) = t
    BY DEF Pairs
  <2>2. ~Smaller(t, t)
    BY <1>5, SmallerIsIrreflexive
  <2> QED
    BY <1>4, <2>1, <2>2
<1>7. <<a, b>> \in X \X Y
  BY <1>1, <1>2, <1>3
<1>8. Pairs(X, Y, t) = {<<a, b>>}
  BY <1>6, <1>7 DEF Pairs
<1>9. w[<<a, b>>] = c * d
  BY <1>1, <1>2, <1>7 DEF ProductsOf
<1>10. c * d \in Int
  <2>1. c \in Int /\ d \in Int
    BY <1>1, <1>2, AtFacts
  <2> QED
    BY <2>1
<1>11. SumOn(w, {<<a, b>>}) = c * d
  <2> HIDE DEF w
  <2> QED
    BY <1>9, <1>10, SumOfSingle
<1>12. Con(e, f, t) = c * d
  BY <1>8, <1>11 DEF Con, Conv, X, Y
<1>13. ASSUME NEW g, Con(e, f, g) # 0
       PROVE  g = t \/ Smaller(g, t)
  <2>1. PICK h \in X, k \in Y : Times(h, k) = g
    BY <1>13, ConIsNotZero DEF X, Y
  <2> QED
    BY <1>4, <2>1
<1> QED
  BY <1>12, <1>13 DEF a, b, c, d

-----------------------------------------------------------------------------
(* Elements as polynomials. *)

LEMMA PolynomialIs ==
  ASSUME NEW e, IsValid(e)
  PROVE  /\ Polynomial(e) = [g \in Support(e) |-> At(e, g)]
         /\ DOMAIN Polynomial(e) = Support(e) /\ \A g \in Support(e) : Polynomial(e)[g] = At(e, g)
<1> DEFINE I == {n \in 1 .. Rank(e) : e.coefficients[n] # 0}
           S == {e.module[n] : n \in I}
<1>1. Polynomial(e) = [m \in S |-> e.coefficients[CHOOSE n \in I : e.module[n] = m]]
  BY DEF Polynomial
<1>2. Support(e) = S
  BY SupportFacts
<1>3. ASSUME NEW g \in S
      PROVE  e.coefficients[CHOOSE n \in I : e.module[n] = g] = At(e, g)
  <2>1. \E n \in I : e.module[n] = g
    BY <1>3
  <2> DEFINE k == CHOOSE n \in I : e.module[n] = g
  <2>2. k \in I /\ e.module[k] = g
    BY <2>1
  <2> HIDE DEF k
  <2>3. At(e, g) = e.coefficients[k]
    BY <2>2, AtFacts
  <2> QED
    BY <2>3 DEF k
<1> HIDE DEF I, S
<1>4. Polynomial(e) = [m \in S |-> At(e, m)]
  BY <1>1, <1>3
<1> QED
  BY <1>2, <1>4

LEMMA CoeffIsAt ==
  ASSUME NEW e, IsValid(e)
  PROVE  \A g : P!Coeff(Polynomial(e), g) = At(e, g)
BY PolynomialIs, SupportFacts DEF P!Coeff

\* Elements are equal as polynomials iff they have the same coefficients.
LEMMA SamePolynomial ==
  ASSUME NEW e, IsValid(e), NEW f, IsValid(f)
  PROVE  Polynomial(e) = Polynomial(f) <=> \A g : At(e, g) = At(f, g)
<1>1. ASSUME Polynomial(e) = Polynomial(f)
      PROVE  \A g : At(e, g) = At(f, g)
  <2>1. \A g : P!Coeff(Polynomial(e), g) = At(e, g)
    BY CoeffIsAt
  <2>2. \A g : P!Coeff(Polynomial(f), g) = At(f, g)
    BY CoeffIsAt
  <2> QED
    BY <1>1, <2>1, <2>2
<1>2. ASSUME \A g : At(e, g) = At(f, g)
      PROVE  Polynomial(e) = Polynomial(f)
  <2>1. (\A g : g \in Support(e) <=> At(e, g) # 0) /\ (\A g : g \in Support(f) <=> At(f, g) # 0)
    BY SupportFacts
  <2>2. Support(e) = Support(f)
    BY <1>2, <2>1
  <2>3. Polynomial(e) = [g \in Support(e) |-> At(e, g)] /\ Polynomial(f) = [g \in Support(f) |-> At(f, g)]
    BY PolynomialIs
  <2> QED
    BY <1>2, <2>2, <2>3
<1> QED
  BY <1>1, <1>2

LEMMA ZeroPolynomial ==
  ASSUME NEW e, IsValid(e)
  PROVE  Polynomial(e) = P!O <=> IsZero(e)
<1>1. P!O = [g \in {} |-> 0]
  BY DEF P!O, P!Poly
<1>2. DOMAIN P!O = {}
  BY <1>1
<1>3. Polynomial(e) = [g \in Support(e) |-> At(e, g)] /\ DOMAIN Polynomial(e) = Support(e)
  BY PolynomialIs
<1>4. Support(e) = {} <=> IsZero(e)
  BY SupportFacts, IsZeroMeans
<1>5. Support(e) = {} => [g \in Support(e) |-> At(e, g)] = [g \in {} |-> 0]
  OBVIOUS
<1> QED
  BY <1>1, <1>2, <1>3, <1>4, <1>5

LEMMA AddIsSum ==
  ASSUME NEW d, IsValid(d), NEW e, IsValid(e), NEW s, IsValid(s), SumsTo(s, d, e)
  PROVE  P!Add(Polynomial(d), Polynomial(e)) = Polynomial(s)
<1> DEFINE p == Polynomial(d)
           q == Polynomial(e)
<1>1. (\A g : P!Coeff(p, g) = At(d, g)) /\ DOMAIN p = Support(d)
  BY CoeffIsAt, PolynomialIs
<1>2. (\A g : P!Coeff(q, g) = At(e, g)) /\ DOMAIN q = Support(e)
  BY CoeffIsAt, PolynomialIs
<1>3. /\ \A g : g \in Support(d) <=> At(d, g) # 0
      /\ \A g : g \in Support(e) <=> At(e, g) # 0
      /\ \A g : g \in Support(s) <=> At(s, g) # 0
  BY SupportFacts
<1>4. \A g : At(s, g) = At(d, g) + At(e, g)
  BY DEF SumsTo
<1>5. Polynomial(s) = [g \in Support(s) |-> At(s, g)]
  BY PolynomialIs
<1> HIDE DEF p, q
<1>6. P!Add(p, q) = [g \in {h \in DOMAIN p \cup DOMAIN q : P!Coeff(p, h) + P!Coeff(q, h) # 0} |-> P!Coeff(p, g) + P!Coeff(q, g)]
  BY DEF P!Add, P!Poly
<1>7. P!Add(p, q) = [g \in {h \in Support(d) \cup Support(e) : At(s, h) # 0} |-> At(s, g)]
  BY <1>1, <1>2, <1>4, <1>6
<1>8. {h \in Support(d) \cup Support(e) : At(s, h) # 0} = Support(s)
  <2> SUFFICES ASSUME NEW h, At(s, h) # 0
               PROVE  At(d, h) # 0 \/ At(e, h) # 0
    BY <1>3
  <2> SUFFICES ASSUME At(d, h) = 0, At(e, h) = 0
               PROVE  FALSE
    OBVIOUS
  <2>1. At(s, h) = 0
    BY <1>4
  <2> QED
    BY <2>1
<1> QED
  BY <1>5, <1>7, <1>8 DEF p, q

LEMMA ScaleIsMultiple ==
  ASSUME NEW e, IsValid(e), NEW s, IsValid(s), NEW c \in Int, \A g : At(s, g) = At(e, g) * c
  PROVE  P!Scale(Polynomial(e), c) = Polynomial(s)
<1> DEFINE p == Polynomial(e)
<1>1. DOMAIN p = Support(e) /\ \A g \in Support(e) : p[g] = At(e, g)
  BY PolynomialIs
<1>2. /\ \A g : g \in Support(e) <=> At(e, g) # 0
      /\ \A g : g \in Support(s) <=> At(s, g) # 0
  BY SupportFacts
<1>3. Polynomial(s) = [g \in Support(s) |-> At(s, g)]
  BY PolynomialIs
<1> HIDE DEF p
<1>4. P!Scale(p, c) = [g \in {h \in DOMAIN p : p[h] * c # 0} |-> p[g] * c]
  BY DEF P!Scale, P!Poly
<1>5. P!Scale(p, c) = [g \in {h \in Support(e) : At(s, h) # 0} |-> At(s, g)]
  BY <1>1, <1>4
<1>6. {h \in Support(e) : At(s, h) # 0} = Support(s)
  <2> SUFFICES ASSUME NEW h, At(s, h) # 0, At(e, h) = 0
               PROVE  FALSE
    BY <1>2
  <2>1. 0 * c = 0
    OBVIOUS
  <2> QED
    BY <2>1
<1> QED
  BY <1>3, <1>5, <1>6 DEF p

LEMMA MulIsProduct ==
  ASSUME NEW e, IsValid(e), NEW f, IsValid(f), NEW s, IsValid(s), \A g : At(s, g) = Con(e, f, g)
  PROVE  P!Mul(Polynomial(e), Polynomial(f)) = Polynomial(s)
<1> DEFINE p == Polynomial(e)
           q == Polynomial(f)
           X == Support(e)
           Y == Support(f)
           U == {Times(m, n) : m \in X, n \in Y}
           w == ProductsOf(e, f, X, Y)
<1>1. DOMAIN p = X /\ \A g \in X : p[g] = At(e, g)
  BY PolynomialIs
<1>2. DOMAIN q = Y /\ \A g \in Y : q[g] = At(f, g)
  BY PolynomialIs
<1>3. AreGens(X) /\ AreGens(Y) /\ \A g : g \in Support(s) <=> At(s, g) # 0
  BY SupportFacts
<1>4. Polynomial(s) = [g \in Support(s) |-> At(s, g)]
  BY PolynomialIs
<1> HIDE DEF p, q, X, Y
<1>5. P!Mul(p, q) = [g \in {h \in {Times(m, n) : m \in DOMAIN p, n \in DOMAIN q} :
                              SumOfProducts(p, q, Pairs(DOMAIN p, DOMAIN q, h)) # 0} |->
                       SumOfProducts(p, q, Pairs(DOMAIN p, DOMAIN q, g))]
  BY DEF P!Mul, P!Poly, P!MapThenSumSet, P!MapThenFoldSet, P!Times, P!Exponent, Times, Exponent,
         SumOfProducts, AddingProducts, Pairs
<1>6. ASSUME NEW g
      PROVE  SumOfProducts(p, q, Pairs(X, Y, g)) = At(s, g)
  <2> DEFINE T == Pairs(X, Y, g)
             u == [t \in T |-> p[t[1]] * q[t[2]]]
  <2>1. IsFiniteSet(T)
    BY <1>3, PairsFacts
  <2>2. \A t \in T : u[t] = w[t]
    <3> SUFFICES ASSUME NEW t \in T
                 PROVE  u[t] = w[t]
      OBVIOUS
    <3>1. t \in X \X Y /\ t[1] \in X /\ t[2] \in Y
      BY DEF Pairs
    <3>2. u[t] = p[t[1]] * q[t[2]]
      OBVIOUS
    <3>3. w[t] = At(e, t[1]) * At(f, t[2])
      BY <3>1 DEF ProductsOf
    <3> QED
      BY <1>1, <1>2, <3>1, <3>2, <3>3
  <2>3. SumOfProducts(p, q, T) = SumOn(u, T)
    <3> HIDE DEF T
    <3> QED
      BY <2>1, SumOfProductsIsSum
  <2> HIDE DEF T, u, w
  <2>4. SumOn(u, T) = SumOn(w, T)
    BY <2>1, <2>2, SumCongruent
  <2> QED
    BY <2>3, <2>4 DEF Con, Conv, T, w, X, Y
<1>7. P!Mul(p, q) = [g \in {h \in U : At(s, h) # 0} |-> At(s, g)]
  BY <1>1, <1>2, <1>5, <1>6
<1>8. {h \in U : At(s, h) # 0} = Support(s)
  <2> SUFFICES ASSUME NEW h, Con(e, f, h) # 0
               PROVE  h \in U
    BY <1>3
  <2>1. PICK a \in X, b \in Y : Times(a, b) = h
    BY ConIsNotZero DEF X, Y
  <2> QED
    BY <2>1
<1> QED
  BY <1>4, <1>7, <1>8 DEF p, q

-----------------------------------------------------------------------------
(* What one can ask of elements. *)

LEMMA SameElement ==
  ASSUME NEW e, IsValid(e), NEW f, IsValid(f), e.module = f.module, \A g : At(e, g) = At(f, g)
  PROVE  e = f
<1>1. /\ e = Element(e.module, e.coefficients) /\ f = Element(f.module, f.coefficients)
      /\ IsModule(e.module) /\ AreCoefficients(e.coefficients, e.module)
      /\ AreCoefficients(f.coefficients, e.module)
      /\ Rank(e) = Len(e.module) /\ Rank(f) = Len(e.module)
  BY DEF IsValid, Rank
<1>2. \A n \in 1 .. Rank(e) : At(e, e.module[n]) = e.coefficients[n]
  BY AtFacts
<1>3. \A n \in 1 .. Rank(f) : At(f, f.module[n]) = f.coefficients[n]
  BY AtFacts
<1>4. \A n \in 1 .. Len(e.module) : e.coefficients[n] = f.coefficients[n]
  BY <1>1, <1>2, <1>3
<1>5. e.coefficients = f.coefficients
  BY <1>1, <1>4, SameCoefficients
<1> QED
  BY <1>1, <1>5

LEMMA EqualMeans ==
  ASSUME NEW e, IsValid(e), NEW f, IsValid(f)
  PROVE  Equal(e, f) <=> \A g : At(e, g) = At(f, g)
<1> DEFINE m == Span(e.module, f.module)
           a == Promote(e, m)
           b == Promote(f, m)
<1>1. Equal(e, f) <=> a.coefficients = b.coefficients
  BY DEF Equal
<1>2. IsModule(e.module) /\ IsModule(f.module)
  BY DEF IsValid
<1>3. IsModule(m) /\ Gens(m) = Gens(e.module) \cup Gens(f.module)
  BY <1>2, SpanFacts
<1> HIDE DEF m
<1>4. IsValid(a) /\ a.module = m /\ \A g : At(a, g) = At(e, g)
  BY <1>3, PromoteFacts, PromoteKeeps
<1>5. IsValid(b) /\ b.module = m /\ \A g : At(b, g) = At(f, g)
  BY <1>3, PromoteFacts, PromoteKeeps
<1> HIDE DEF a, b
<1>6. ASSUME a.coefficients = b.coefficients
      PROVE  \A g : At(e, g) = At(f, g)
  <2>1. a = b
    BY <1>4, <1>5, <1>6 DEF IsValid
  <2> QED
    BY <1>4, <1>5, <2>1
<1>7. ASSUME \A g : At(e, g) = At(f, g)
      PROVE  a.coefficients = b.coefficients
  <2>1. a = b
    BY <1>4, <1>5, <1>7, SameElement
  <2> QED
    BY <2>1
<1> QED
  BY <1>1, <1>6, <1>7

LEMMA SimplifyDecides ==
  ASSUME NEW e, IsValid(e), NEW f, IsValid(f)
  PROVE  Simplify(e) = Simplify(f) <=> \A g : At(e, g) = At(f, g)
<1>1. IsValid(Simplify(e)) /\ Simplify(e).module = Make(Support(e)) /\ \A g : At(Simplify(e), g) = At(e, g)
  BY SimplifyFacts
<1>2. IsValid(Simplify(f)) /\ Simplify(f).module = Make(Support(f)) /\ \A g : At(Simplify(f), g) = At(f, g)
  BY SimplifyFacts
<1>3. ASSUME Simplify(e) = Simplify(f)
      PROVE  \A g : At(e, g) = At(f, g)
  BY <1>1, <1>2, <1>3
<1>4. ASSUME \A g : At(e, g) = At(f, g)
      PROVE  Simplify(e) = Simplify(f)
  <2>1. (\A g : g \in Support(e) <=> At(e, g) # 0) /\ (\A g : g \in Support(f) <=> At(f, g) # 0)
    BY SupportFacts
  <2>2. Support(e) = Support(f)
    BY <1>4, <2>1
  <2>3. \A g : At(Simplify(e), g) = At(Simplify(f), g)
    BY <1>1, <1>2, <1>4
  <2> QED
    BY <1>1, <1>2, <2>2, <2>3, SameElement
<1> QED
  BY <1>3, <1>4

\* What is true for all coefficients.
LEMMA ForAllGens ==
  ASSUME NEW e, IsValid(e)
  PROVE  /\ \A g \in Gens(e.module) : \E n \in 1 .. Rank(e) : e.module[n] = g /\ e.coefficients[n] = At(e, g)
         /\ \A n \in 1 .. Rank(e) : e.module[n] \in Gens(e.module) /\ e.coefficients[n] = At(e, e.module[n])
<1>1. IsModule(e.module) /\ Rank(e) = Len(e.module)
  BY DEF IsValid, Rank
<1>2. \A g \in Gens(e.module) : \E n \in 1 .. Rank(e) : e.module[n] = g
  BY <1>1, ModuleFacts
<1>3. \A n \in 1 .. Rank(e) : e.module[n] \in Gens(e.module) /\ e.coefficients[n] = At(e, e.module[n])
  BY AtFacts
<1> QED
  BY <1>2, <1>3

LEMMA EqualNumberMeans ==
  ASSUME NEW e, IsValid(e), NEW g, RelatedTo(e, g)
  PROVE  EqualNumber(e, g) <=> IsTerm(e, 1, g)
<1>1. /\ \A h \in Gens(e.module) : \E n \in 1 .. Rank(e) : e.module[n] = h /\ e.coefficients[n] = At(e, h)
      /\ \A n \in 1 .. Rank(e) : e.module[n] \in Gens(e.module) /\ e.coefficients[n] = At(e, e.module[n])
  BY ForAllGens
<1>2. ASSUME EqualNumber(e, g), NEW h
      PROVE  At(e, h) = IF h = g THEN 1 ELSE 0
  <2>1. g \in Gens(e.module)
    BY <1>2 DEF EqualNumber, RelatedTo
  <2>2. CASE h \in Gens(e.module)
    <3>1. PICK n \in 1 .. Rank(e) : e.module[n] = h /\ e.coefficients[n] = At(e, h)
      BY <1>1, <2>2
    <3> QED
      BY <1>2, <3>1 DEF EqualNumber
  <2>3. CASE h \notin Gens(e.module)
    BY <2>1, <2>3, AtFacts
  <2> QED
    BY <2>2, <2>3
<1>3. ASSUME IsTerm(e, 1, g)
      PROVE  EqualNumber(e, g)
  <2>1. \A h : At(e, h) = IF h = g THEN 1 ELSE 0
    BY <1>3 DEF IsTerm
  <2>2. ~IsZero(e)
    BY <2>1, IsZeroMeans
  <2> QED
    BY <1>1, <2>1, <2>2 DEF EqualNumber
<1> QED
  BY <1>2, <1>3 DEF IsTerm

LEMMA OneIsGen == IsGen(One)
<1>1. DOMAIN One = {} /\ One \in [{} -> Nat \ {0}]
  BY DEF One
<1> QED
  BY <1>1, FS_EmptySet DEF IsGen, MonomialOn

LEMMA RationalOfIsAt ==
  ASSUME NEW e, IsValid(e)
  PROVE  RationalOf(e) = At(e, One)
<1> DEFINE S == {n \in 1 .. Rank(e) : e.module[n] = One}
           c == e.coefficients
<1>1. RationalOf(e) = SumOn(c, S)
  BY DEF RationalOf, MapThenSumSet, MapThenFoldSet, SumOn, AddingUp
<1>2. IsModule(e.module) /\ Rank(e) = Len(e.module)
  BY DEF IsValid, Rank
<1>3. CASE One \in Gens(e.module)
  <2>1. PICK n \in 1 .. Rank(e) : e.module[n] = One /\ c[n] = At(e, One)
    BY <1>3, ForAllGens
  <2>2. S = {n}
    BY <1>2, <2>1, ModuleIsOneToOne
  <2>3. c[n] \in Int
    BY <2>1, AtFacts
  <2> HIDE DEF c
  <2>4. SumOn(c, {n}) = c[n]
    BY <2>3, SumOfSingle
  <2> QED
    BY <1>1, <2>1, <2>2, <2>4
<1>4. CASE One \notin Gens(e.module)
  <2>1. S = {}
    BY <1>4, ForAllGens
  <2>2. At(e, One) = 0
    BY <1>4, AtFacts
  <2> QED
    BY <1>1, <2>1, <2>2, SumOfEmpty
<1> QED
  BY <1>3, <1>4

LEMMA EqualIntegerMeans ==
  ASSUME NEW e, IsValid(e), NEW c \in Int
  PROVE  EqualInteger(e, c) <=> IsTerm(e, c, One)
<1>1. /\ \A h \in Gens(e.module) : \E n \in 1 .. Rank(e) : e.module[n] = h /\ e.coefficients[n] = At(e, h)
      /\ \A n \in 1 .. Rank(e) : e.module[n] \in Gens(e.module) /\ e.coefficients[n] = At(e, e.module[n])
  BY ForAllGens
<1>2. RationalOf(e) = At(e, One)
  BY RationalOfIsAt
<1>3. HasRational(e) <=> \A h : h # One => At(e, h) = 0
  <2>1. ASSUME HasRational(e), NEW h, h # One
        PROVE  At(e, h) = 0
    BY <1>1, <2>1, AtFacts DEF HasRational
  <2>2. ASSUME \A h : h # One => At(e, h) = 0
        PROVE  HasRational(e)
    BY <1>1, <2>2 DEF HasRational
  <2> QED
    BY <2>1, <2>2
<1> QED
  BY <1>2, <1>3 DEF EqualInteger, IsTerm

LEMMA UnitMeans ==
  ASSUME NEW e, IsValid(e)
  PROVE  Unit(e) <=> \E c \in {-1, 1} : EqualInteger(e, c)
<1>1. /\ \A h \in Gens(e.module) : \E n \in 1 .. Rank(e) : e.module[n] = h /\ e.coefficients[n] = At(e, h)
      /\ \A n \in 1 .. Rank(e) : e.module[n] \in Gens(e.module) /\ e.coefficients[n] = At(e, e.module[n])
  BY ForAllGens
<1>2. \A c \in {-1, 1} : EqualInteger(e, c) <=> IsTerm(e, c, One)
  BY EqualIntegerMeans
<1>3. ASSUME Unit(e)
      PROVE  \E c \in {-1, 1} : EqualInteger(e, c)
  <2>1. \A h : At(e, h) # 0 => h = One /\ At(e, h) \in {-1, 1}
    BY <1>1, <1>3, AtFacts DEF Unit, IsUnit
  <2>2. \E h : At(e, h) # 0
    BY <1>3, IsZeroMeans DEF Unit
  <2>3. IsTerm(e, At(e, One), One) /\ At(e, One) \in {-1, 1}
    BY <2>1, <2>2 DEF IsTerm
  <2> QED
    BY <1>2, <2>3
<1>4. ASSUME NEW c \in {-1, 1}, EqualInteger(e, c)
      PROVE  Unit(e)
  <2>1. c # 0
    OBVIOUS
  <2>2. \A h : At(e, h) = IF h = One THEN c ELSE 0
    BY <1>2, <1>4 DEF IsTerm
  <2>3. ~IsZero(e)
    BY <2>1, <2>2, IsZeroMeans
  <2> QED
    BY <1>1, <2>2, <2>3 DEF Unit, IsUnit
<1> QED
  BY <1>3, <1>4

-----------------------------------------------------------------------------
(* Division of integers. *)

LEMMA QuotientOfMultiple ==
  ASSUME NEW n \in Nat, NEW d \in Nat, d > 0
  PROVE  (n * d) \div d = n
<1> DEFINE q == (n * d) \div d
           r == (n * d) % d
<1>1. n * d \in Nat
  OBVIOUS
<1>2. q \in Int /\ r \in Int /\ n * d = d * q + r /\ 0 <= r /\ r < d
  <2> DEFINE a == n * d
  <2> HIDE DEF a
  <2>1. a \in Int => /\ a \div d \in Int /\ a % d \in Int
                     /\ a = d * (a \div d) + (a % d) /\ 0 <= a % d /\ a % d < d
    OBVIOUS
  <2> QED
    BY <1>1, <2>1 DEF a
<1> HIDE DEF q, r
<1>3. d * (n - q) = r
  BY <1>2
<1>4. n - q \in Int
  BY <1>2
<1>5. ASSUME NEW k \in Int, 0 <= d * k, d * k < d
      PROVE  k = 0
  <2>1. ~ k >= 1
    BY <1>5
  <2>2. ~ k <= -1
    BY <1>5
  <2> QED
    BY <2>1, <2>2
<1>6. n - q = 0
  BY <1>2, <1>3, <1>4, <1>5
<1>7. n = q
  BY <1>2, <1>6
<1> QED
  BY <1>7 DEF q

LEMMA TruncatedFacts ==
  ASSUME NEW a \in Int, NEW b \in Int, b # 0
  PROVE  Truncated(a, b) \in Int /\ \A k \in Int : a = k * b => Truncated(a, b) = k
<1> DEFINE sign(c) == IF c < 0 THEN -1 ELSE 1
           abs(c) == sign(c) * c
           q == abs(a) \div abs(b)
<1>1. Truncated(a, b) = sign(a) * sign(b) * q
  BY DEF Truncated
<1>2. \A c \in Int : abs(c) \in Nat /\ sign(c) \in Int /\ (c # 0 => abs(c) > 0)
                     /\ (c < 0 => sign(c) = -1 /\ abs(c) = - c) /\ (c >= 0 => sign(c) = 1 /\ abs(c) = c)
  OBVIOUS
<1> HIDE DEF sign, abs
<1>3. abs(a) \in Nat /\ abs(b) \in Nat /\ abs(b) > 0
  BY <1>2
<1>4. q \in Int
  BY <1>3
<1>5. ASSUME NEW k \in Int, a = k * b
      PROVE  sign(a) * sign(b) * q = k
  <2>1. abs(a) = abs(k) * abs(b)
    <3>1. \A i, j \in Int : (-i) * j = -(i * j) /\ i * (-j) = -(i * j) /\ (-i) * (-j) = i * j
      OBVIOUS
    <3>2. CASE k >= 0 /\ b > 0
      <4>1. k * b >= 0
        BY <3>2
      <4> QED
        BY <1>2, <1>5, <3>2, <4>1
    <3>3. CASE k < 0 /\ b > 0
      <4>1. k * b < 0
        BY <3>3
      <4> QED
        BY <1>2, <1>5, <3>1, <3>3, <4>1
    <3>4. CASE k >= 0 /\ b < 0
      <4>1. k * b <= 0
        BY <3>4
      <4> QED
        BY <1>2, <1>5, <3>1, <3>4, <4>1
    <3>5. CASE k < 0 /\ b < 0
      <4>1. k * b > 0
        BY <3>5
      <4> QED
        BY <1>2, <1>5, <3>1, <3>5, <4>1
    <3> QED
      BY <3>2, <3>3, <3>4, <3>5
  <2>2. abs(k) \in Nat
    BY <1>2
  <2>3. q = abs(k)
    BY <1>3, <2>1, <2>2, QuotientOfMultiple
  <2>4. CASE k = 0
    <3>1. q = 0
      BY <1>2, <2>3, <2>4
    <3> QED
      BY <1>2, <2>4, <3>1
  <2>5. CASE k > 0 /\ b > 0
    <3>1. k * b > 0
      BY <2>5
    <3> QED
      BY <1>2, <1>5, <2>3, <2>5, <3>1
  <2>6. CASE k > 0 /\ b < 0
    <3>1. k * b < 0
      BY <2>6
    <3> QED
      BY <1>2, <1>5, <2>3, <2>6, <3>1
  <2>7. CASE k < 0 /\ b > 0
    <3>1. k * b < 0
      BY <2>7
    <3> QED
      BY <1>2, <1>5, <2>3, <2>7, <3>1
  <2>8. CASE k < 0 /\ b < 0
    <3>1. k * b > 0
      BY <2>8
    <3> QED
      BY <1>2, <1>5, <2>3, <2>8, <3>1
  <2> QED
    BY <2>4, <2>5, <2>6, <2>7, <2>8
<1>6. sign(a) * sign(b) * q \in Int
  BY <1>2, <1>4
<1> QED
  BY <1>1, <1>5, <1>6

LEMMA FactorIsUpTo ==
  ASSUME NEW q \in Int, NEW b \in Int, q * b # 0
  PROVE  q \in UpTo(q * b)
<1>1. b # 0 /\ q # 0
  <2>1. q * 0 = 0 /\ 0 * b = 0
    OBVIOUS
  <2> QED
    BY <2>1
<1>2. CASE q > 0 /\ b > 0
  <2>1. q * b >= q
    BY <1>2
  <2> QED
    BY <1>2, <2>1 DEF UpTo
<1>3. CASE q > 0 /\ b < 0
  <2>1. q * b <= - q
    BY <1>3
  <2> QED
    BY <1>3, <2>1 DEF UpTo
<1>4. CASE q < 0 /\ b > 0
  <2>1. q * b <= q
    BY <1>4
  <2> QED
    BY <1>4, <2>1 DEF UpTo
<1>5. CASE q < 0 /\ b < 0
  <2>1. q * b >= - q
    BY <1>5
  <2> QED
    BY <1>5, <2>1 DEF UpTo
<1> QED
  BY <1>1, <1>2, <1>3, <1>4, <1>5

LEMMA ExactFloorMeans ==
  ASSUME NEW e, IsValid(e), ~IsZero(e), NEW f, IsValid(f), e.module = f.module
  PROVE  \A q : q \in ExactFloor(e, f) <=> q \in Int /\ \A g : At(e, g) = At(f, g) * q
<1> DEFINE m == e.module
           S == {n \in 1 .. Rank(e) : e.coefficients[n] # 0}
           T == {n \in 1 .. Rank(f) : f.coefficients[n] # 0}
<1>1. Rank(f) = Rank(e)
  BY DEF Rank
<1>2. /\ \A h \in Gens(m) : \E n \in 1 .. Rank(e) : m[n] = h
      /\ \A n \in 1 .. Rank(e) : m[n] \in Gens(m) /\ e.coefficients[n] = At(e, m[n])
  BY ForAllGens
<1>3. \A n \in 1 .. Rank(e) : f.coefficients[n] = At(f, m[n])
  BY <1>1, ForAllGens
<1>4. \A g : At(e, g) \in Int /\ At(f, g) \in Int
  BY AtFacts
<1>5. \A g : g \notin Gens(m) => At(e, g) = 0 /\ At(f, g) = 0
  BY AtFacts
<1>6. \A q : q \in ExactFloor(e, f) <=>
               /\ S = T
               /\ \E n \in S : q = Truncated(e.coefficients[n], f.coefficients[n])
               /\ \A n \in S : e.coefficients[n] = q * f.coefficients[n]
  BY DEF ExactFloor
<1>7. ASSUME NEW q \in ExactFloor(e, f)
      PROVE  q \in Int /\ \A g : At(e, g) = At(f, g) * q
  <2>1. PICK n \in S : q = Truncated(e.coefficients[n], f.coefficients[n])
    BY <1>6, <1>7
  <2>2. n \in 1 .. Rank(e) /\ f.coefficients[n] # 0
    BY <1>6, <1>7, <2>1
  <2>3. q \in Int
    BY <1>2, <1>3, <1>4, <2>1, <2>2, TruncatedFacts
  <2>4. ASSUME NEW g
        PROVE  At(e, g) = At(f, g) * q
    <3>1. CASE g \notin Gens(m)
      <4>1. 0 * q = 0
        BY <2>3
      <4> QED
        BY <1>5, <3>1, <4>1
    <3>2. CASE g \in Gens(m)
      <4>1. PICK k \in 1 .. Rank(e) : m[k] = g
        BY <1>2, <3>2
      <4>2. e.coefficients[k] = At(e, g) /\ f.coefficients[k] = At(f, g)
        BY <1>2, <1>3, <4>1
      <4>3. CASE k \in S
        <5>1. At(e, g) = q * At(f, g)
          BY <1>6, <1>7, <4>2, <4>3
        <5>2. q * At(f, g) = At(f, g) * q
          BY <1>4, <2>3
        <5> QED
          BY <5>1, <5>2
      <4>4. CASE k \notin S
        <5>1. k \notin T
          BY <1>6, <1>7, <4>4
        <5>2. At(e, g) = 0 /\ At(f, g) = 0
          BY <1>1, <4>1, <4>2, <4>4, <5>1
        <5>3. 0 * q = 0
          BY <2>3
        <5> QED
          BY <5>2, <5>3
      <4> QED
        BY <4>3, <4>4
    <3> QED
      BY <3>1, <3>2
  <2> QED
    BY <2>3, <2>4
<1>8. ASSUME NEW q \in Int, \A g : At(e, g) = At(f, g) * q
      PROVE  q \in ExactFloor(e, f)
  <2>1. PICK g : At(e, g) # 0
    BY IsZeroMeans
  <2>2. q # 0
    <3>1. At(f, g) * 0 = 0
      BY <1>4
    <3> QED
      BY <1>8, <2>1, <3>1
  <2>3. \A a \in Int : a # 0 <=> a * q # 0
    BY <2>2
  <2>4. S = T
    BY <1>1, <1>2, <1>3, <1>4, <1>8, <2>3
  <2>5. \A n \in S : e.coefficients[n] = q * f.coefficients[n]
    <3> SUFFICES ASSUME NEW n \in S
                 PROVE  e.coefficients[n] = q * f.coefficients[n]
      OBVIOUS
    <3>1. e.coefficients[n] = At(f, m[n]) * q /\ f.coefficients[n] = At(f, m[n])
      BY <1>2, <1>3, <1>8
    <3>2. \A a \in Int : a * q = q * a
      OBVIOUS
    <3> QED
      BY <1>4, <3>1, <3>2
  <2>6. PICK n \in 1 .. Rank(e) : m[n] = g
    <3>1. g \in Gens(m)
      BY <1>5, <2>1
    <3> QED
      BY <1>2, <3>1
  <2>7. n \in S /\ n \in T
    BY <1>2, <2>1, <2>4, <2>6
  <2>8. q = Truncated(e.coefficients[n], f.coefficients[n])
    <3>1. e.coefficients[n] \in Int /\ f.coefficients[n] \in Int /\ f.coefficients[n] # 0
      BY <1>2, <1>3, <1>4, <2>7
    <3> QED
      BY <2>5, <2>7, <3>1, TruncatedFacts
  <2> HIDE DEF S, T
  <2> QED
    BY <1>6, <2>4, <2>5, <2>7, <2>8
<1> QED
  BY <1>7, <1>8

-----------------------------------------------------------------------------
(* The steps of the loops. *)

\* One coefficient changes.
LEMMA OneCoefficient ==
  ASSUME NEW e, IsValid(e), NEW k \in 1 .. Rank(e), NEW a \in Int,
         NEW f, f = [e EXCEPT !.coefficients[k] = a]
  PROVE  /\ IsValid(f) /\ f.module = e.module /\ Rank(f) = Rank(e)
         /\ f.coefficients[k] = a
         /\ \A n \in 1 .. Rank(e) : n # k => f.coefficients[n] = e.coefficients[n]
<1> DEFINE m == e.module
           c == [e.coefficients EXCEPT ![k] = a]
<1>1. /\ e = Element(m, e.coefficients) /\ IsModule(m) /\ Rank(e) = Len(m)
      /\ DOMAIN e.coefficients = 1 .. Len(m)
      /\ \A n \in 1 .. Len(m) : e.coefficients[n] \in Int
  BY DEF IsValid, AreCoefficients, Rank
<1>2. f = Element(m, c)
  BY <1>1 DEF Element
<1>3. /\ DOMAIN c = 1 .. Len(m) /\ c = [n \in 1 .. Len(m) |-> c[n]]
      /\ c[k] = a /\ \A n \in 1 .. Len(m) : n # k => c[n] = e.coefficients[n]
  BY <1>1
<1> HIDE DEF c, m
<1>4. \A n \in 1 .. Len(m) : c[n] \in Int
  BY <1>1, <1>3
<1>5. AreCoefficients(c, m)
  BY <1>1, <1>3, <1>4, CoefficientFacts
<1> DEFINE d == Element(m, c)
<1>6. IsValid(d) /\ d.module = m /\ d.coefficients = c /\ Rank(d) = Len(m)
  BY <1>1, <1>5, ElementFacts
<1> HIDE DEF d
<1>7. f = d
  BY <1>2 DEF d
<1> QED
  BY <1>1, <1>3, <1>6, <1>7 DEF m

\* The next term of a quotient, if there is one.
IsNextTerm(term, c, t, rem, rhs) ==
  /\ IsValid(term) /\ c \in Int /\ IsGen(t) /\ IsTerm(term, c, t)
  /\ Times(t, LeadingGen(rhs)) = LeadingGen(rem)
  /\ c * LeadingCoefficient(rhs) = LeadingCoefficient(rem)

LEMMA NextTerm ==
  ASSUME NEW rem, IsValid(rem), ~IsZero(rem), NEW rhs, IsValid(rhs), ~IsZero(rhs),
         Divides(LeadingGen(rhs), LeadingGen(rem)),
         NEW c, c = Truncated(LeadingCoefficient(rem), LeadingCoefficient(rhs)),
         c * LeadingCoefficient(rhs) = LeadingCoefficient(rem),
         NEW t, t = Quotient(LeadingGen(rem), LeadingGen(rhs))
  PROVE  IsNextTerm(Multiple(c, t), c, t, rem, rhs)
<1>1. IsGen(LeadingGen(rem)) /\ LeadingCoefficient(rem) = At(rem, LeadingGen(rem)) /\ At(rem, LeadingGen(rem)) # 0
  BY LeadingFacts
<1>2. IsGen(LeadingGen(rhs)) /\ LeadingCoefficient(rhs) = At(rhs, LeadingGen(rhs)) /\ At(rhs, LeadingGen(rhs)) # 0
  BY LeadingFacts
<1>3. LeadingCoefficient(rem) \in Int /\ LeadingCoefficient(rhs) \in Int
  BY <1>1, <1>2, AtFacts
<1>4. c \in Int
  BY <1>2, <1>3, TruncatedFacts
<1>5. IsGen(t) /\ Times(t, LeadingGen(rhs)) = LeadingGen(rem)
  BY <1>1, <1>2, QuotientFacts DEF IsGen
<1>6. IsValid(Multiple(c, t)) /\ IsTerm(Multiple(c, t), c, t)
  BY <1>4, <1>5, MultipleFacts DEF IsTerm
<1> QED
  BY <1>4, <1>5, <1>6 DEF IsNextTerm

\* What is left after subtracting the term times the divisor.
LEMMA NextRemainder ==
  ASSUME NEW rem, IsValid(rem), ~IsZero(rem), NEW rhs, IsValid(rhs), ~IsZero(rhs),
         NEW term, NEW c, NEW t, IsNextTerm(term, c, t, rem, rhs),
         NEW r, r = Plus(rem, Minus(Product(term, rhs)))
  PROVE  /\ IsValid(r) /\ \A g : At(r, g) = At(rem, g) - Con(term, rhs, g)
         /\ IsZero(r) \/ Smaller(LeadingGen(r), LeadingGen(rem))
<1> DEFINE p == Product(term, rhs)
           a == LeadingGen(rem)
           b == LeadingGen(rhs)
<1>1. IsValid(term) /\ c \in Int /\ IsGen(t) /\ IsTerm(term, c, t)
  BY DEF IsNextTerm
<1>2. Times(t, b) = a /\ c * LeadingCoefficient(rhs) = LeadingCoefficient(rem)
  BY DEF IsNextTerm
<1>3. IsValid(p) /\ \A g : At(p, g) = Con(term, rhs, g)
  BY <1>1, ProductFacts
<1> HIDE DEF p
<1>4. IsValid(Minus(p)) /\ \A g : At(Minus(p), g) = - At(p, g)
  BY <1>3, MinusFacts
<1>5. r = Plus(rem, Minus(p))
  BY DEF p
<1>6. IsValid(r) /\ \A g : At(r, g) = At(rem, g) + At(Minus(p), g)
  BY <1>4, <1>5, PlusFacts
<1>7. \A g : At(rem, g) \in Int /\ At(p, g) \in Int /\ At(rhs, g) \in Int
  BY <1>3, AtFacts
<1>8. \A g : At(r, g) = At(rem, g) - Con(term, rhs, g)
  BY <1>3, <1>4, <1>6, <1>7
<1>9. IsGen(a) /\ LeadingCoefficient(rem) = At(rem, a) /\ \A g : At(rem, g) # 0 => g = a \/ Smaller(g, a)
  BY LeadingFacts
<1>10. IsGen(b) /\ LeadingCoefficient(rhs) = At(rhs, b) /\ \A g : At(rhs, g) # 0 => g = b \/ Smaller(g, b)
  BY LeadingFacts
<1> HIDE DEF a, b
<1>11. At(r, a) = 0
  <2>1. Con(term, rhs, a) = c * At(rhs, b)
    BY <1>1, <1>2, <1>10, ConOfTerm
  <2> QED
    BY <1>2, <1>7, <1>8, <1>9, <1>10, <2>1
<1>12. ASSUME NEW g, Con(term, rhs, g) # 0
       PROVE  g = a \/ Smaller(g, a)
  <2>1. PICK h \in Support(term), k \in Support(rhs) : Times(h, k) = g
    BY <1>1, <1>12, ConIsNotZero
  <2>2. h = t
    BY <1>1, <2>1, SupportFacts DEF IsTerm
  <2>3. IsGen(k) /\ At(rhs, k) # 0
    BY <2>1, SupportFacts DEF AreGens
  <2>4. k = b \/ Smaller(k, b)
    BY <1>10, <2>3
  <2> QED
    BY <1>1, <1>2, <1>10, <2>1, <2>2, <2>3, <2>4, TimesIsMonotone
<1>13. ASSUME NEW g, At(r, g) # 0
       PROVE  Smaller(g, a)
  <2>1. At(rem, g) # 0 \/ Con(term, rhs, g) # 0
    BY <1>8, <1>13
  <2>2. g # a
    BY <1>11, <1>13
  <2> QED
    BY <1>9, <1>12, <2>1, <2>2
<1>14. ~IsZero(r) => Smaller(LeadingGen(r), a)
  BY <1>6, <1>13, LeadingFacts
<1> QED
  BY <1>6, <1>8, <1>14 DEF a

\* lhs = quotient * rhs + remainder
IsDivision(lhs, rhs, rem, quo) == \A g : At(lhs, g) = Con(quo, rhs, g) + At(rem, g)

LEMMA DivisionStep ==
  ASSUME NEW lhs, IsValid(lhs), NEW rhs, IsValid(rhs), NEW rem, IsValid(rem), NEW quo, IsValid(quo),
         IsDivision(lhs, rhs, rem, quo),
         NEW term, IsValid(term), NEW r, IsValid(r), \A g : At(r, g) = At(rem, g) - Con(term, rhs, g)
  PROVE  IsValid(Plus(quo, term)) /\ IsDivision(lhs, rhs, r, Plus(quo, term))
<1> DEFINE q == Plus(quo, term)
<1>1. IsValid(q) /\ \A g : At(q, g) = At(quo, g) + At(term, g)
  BY PlusFacts
<1> HIDE DEF q
<1>2. ASSUME NEW g
      PROVE  At(lhs, g) = Con(q, rhs, g) + At(r, g)
  <2>1. SumsTo(q, quo, term)
    BY <1>1 DEF SumsTo
  <2>2. Con(q, rhs, g) = Con(quo, rhs, g) + Con(term, rhs, g)
    BY <1>1, <2>1, ConIsDistributive
  <2>3. Con(quo, rhs, g) \in Int /\ Con(term, rhs, g) \in Int /\ At(rem, g) \in Int
    BY ConIsInteger, AtFacts
  <2>4. At(lhs, g) = Con(quo, rhs, g) + At(rem, g) /\ At(r, g) = At(rem, g) - Con(term, rhs, g)
    BY DEF IsDivision
  <2> QED
    BY <2>2, <2>3, <2>4
<1> QED
  BY <1>1, <1>2 DEF IsDivision, q

-----------------------------------------------------------------------------
(* The inductive invariant. *)

\* A number is multiplied with the coefficients, one after the other: the ones
\* before task.at are done.
Scaling ==
  /\ task = [call |-> "scale", ratio |-> task.ratio, at |-> task.at, before |-> task.before]
  /\ task.ratio \in Ratio
  /\ task.at \in 1 .. Rank(x) + 1
  /\ IsValid(task.before) /\ task.before.module = x.module
  /\ task.at > 1 => task.ratio.den # 0
  /\ \A n \in 1 .. Rank(x) :
       n < task.at => x.coefficients[n] * task.ratio.den = task.before.coefficients[n] * task.ratio.num
  /\ \A n \in 1 .. Rank(x) : n >= task.at => x.coefficients[n] = task.before.coefficients[n]

\* y divides what has been subtracted so far.
Dividing ==
  /\ task = [call |-> "truediv", lhs |-> task.lhs, rhs |-> task.rhs,
             remainder |-> task.remainder, quotient |-> task.quotient]
  /\ IsValid(task.lhs) /\ IsValid(task.rhs) /\ IsValid(task.remainder) /\ IsValid(task.quotient)
  /\ ~IsZero(task.rhs)
  /\ \A g : At(task.lhs, g) = At(x, g)
  /\ \A g : At(task.rhs, g) = At(y, g)
  /\ IsDivision(task.lhs, task.rhs, task.remainder, task.quotient)

Inv ==
  /\ IsValid(x) /\ IsValid(y)
  /\ outcome[2] \in {"ok", "nullopt", "throws"}
  /\ task = Idle \/ Scaling \/ Dividing

LEMMA BasisAreGens ==
  ASSUME NEW gens \in Basis
  PROVE  AreGens(gens)
<1>1. IsFiniteSet(gens)
  BY BasisAssumption
<1>2. ASSUME NEW g \in gens
      PROVE  IsGen(g)
  <2>1. DOMAIN g \in SUBSET Atom
    BY BasisAssumption
  <2>2. IsFiniteSet(DOMAIN g)
    BY <2>1, AtomAssumption, FS_Subset
  <2> QED
    BY <2>2, BasisAssumption DEF IsGen, MonomialOn
<1> QED
  BY <1>1, <1>2 DEF AreGens

LEMMA ZeroModule == IsModule(<<>>) /\ IsValid(Zero(<<>>)) /\ \A g : At(Zero(<<>>), g) = 0
<1>1. IsModule(<<>>)
  BY DEF IsModule
<1> QED
  BY <1>1, ZeroFacts

LEMMA InvInit == Init => Inv
BY ZeroModule DEF Init, Inv

LEMMA TakeKeepsInv == Inv /\ Take => Inv'
<1> SUFFICES ASSUME Inv, Take
             PROVE  Inv'
  OBVIOUS
<1>1. IsValid(x') /\ task' = Idle /\ outcome'[2] = "ok"
  BY DEF Inv, Take, Finish
<1>2. IsValid(y')
  <2>1. PICK gens \in Basis :
          \/ y' = Zero(Make(gens))
          \/ \E n \in 1 .. Cardinality(gens) : y' = Gen(Make(gens), n)
    BY DEF Take
  <2>2. IsModule(Make(gens)) /\ Len(Make(gens)) = Cardinality(gens)
    BY BasisAreGens, MakeFacts
  <2>3. CASE y' = Zero(Make(gens))
    BY <2>2, <2>3, ZeroFacts
  <2>4. CASE \E n \in 1 .. Cardinality(gens) : y' = Gen(Make(gens), n)
    BY <2>2, <2>4, GenFacts
  <2> QED
    BY <2>1, <2>3, <2>4
<1> QED
  BY <1>1, <1>2 DEF Inv

LEMMA ComputeKeepsInv ==
  ASSUME Inv, NEW op, NEW e, IsValid(e), Compute(op, e)
  PROVE  Inv'
BY DEF Inv, Compute, Finish

LEMMA ScaleCallKeepsInv == Inv /\ ScaleCall => Inv'
<1> SUFFICES ASSUME Inv, ScaleCall
             PROVE  Inv'
  OBVIOUS
<1>1. PICK r \in Ratio : task' = [call |-> "scale", ratio |-> r, at |-> 1, before |-> x]
  BY DEF ScaleCall
<1>2. x' = x /\ y' = y /\ outcome' = outcome /\ IsValid(x)
  BY DEF ScaleCall, Inv
<1>3. Rank(x) \in Nat
  BY <1>2 DEF IsValid, IsModule, Rank
<1>4. /\ task' = [call |-> "scale", ratio |-> task'.ratio, at |-> task'.at, before |-> task'.before]
      /\ task'.ratio = r /\ task'.at = 1 /\ task'.before = x
  BY <1>1
<1>5. Scaling'
  BY <1>2, <1>3, <1>4 DEF Scaling
<1> QED
  BY <1>2, <1>5 DEF Inv

\* An exact division.
LEMMA MultipleIsTruncated ==
  ASSUME NEW a \in Int, NEW b \in Int, b # 0, IsMultiple(a, b)
  PROVE  Truncated(a, b) \in Int /\ Truncated(a, b) * b = a
<1>1. \A i \in Int, d \in Nat : d > 0 /\ i % d = 0 => i \div d \in Int /\ i = (i \div d) * d
  OBVIOUS
<1>2. PICK k \in Int : a = k * b
  <2>1. CASE b > 0
    <3>1. a % b = 0
      BY <2>1 DEF IsMultiple
    <3>2. a \div b \in Int /\ a = (a \div b) * b
      BY <1>1, <2>1, <3>1
    <3> QED
      BY <3>2
  <2>2. CASE b < 0
    <3> DEFINE q == a \div (- b)
    <3>1. a % (- b) = 0 /\ - b \in Nat /\ - b > 0
      BY <2>2 DEF IsMultiple
    <3>2. q \in Int /\ a = q * (- b)
      BY <1>1, <3>1
    <3> HIDE DEF q
    <3>3. a = (- q) * b /\ - q \in Int
      BY <3>2
    <3> QED
      BY <3>3
  <2> QED
    BY <2>1, <2>2
<1> QED
  BY <1>2, TruncatedFacts

LEMMA ScaleStepKeepsInv == Inv /\ ScaleStep => Inv'
<1> SUFFICES ASSUME Inv, ScaleStep
             PROVE  Inv'
  OBVIOUS
<1> DEFINE k == task.at
           num == task.ratio.num
           den == task.ratio.den
           b == task.before
           a == Truncated(x.coefficients[k] * num, den)
<1>1. IsValid(x) /\ Scaling
  BY DEF Inv, ScaleStep, Idle, Dividing
<1>2. k \in 1 .. Rank(x) /\ den # 0 /\ IsMultiple(x.coefficients[k] * num, den)
  BY <1>1 DEF Scaling, ScaleStep
<1>3. x' = [x EXCEPT !.coefficients[k] = a]
  BY DEF ScaleStep
<1>4. task' = [task EXCEPT !.at = k + 1] /\ y' = y /\ outcome' = outcome
  BY DEF ScaleStep
<1>5. num \in Int /\ den \in Int /\ den # 0
  BY <1>1, <1>2, RatioAssumption DEF Scaling
<1>6. Rank(x) \in Nat /\ \A n \in 1 .. Rank(x) : x.coefficients[n] \in Int
  BY <1>1 DEF IsValid, IsModule, AreCoefficients, Rank
<1>7. a \in Int /\ a * den = x.coefficients[k] * num
  <2> DEFINE p == x.coefficients[k] * num
  <2>1. p \in Int /\ IsMultiple(p, den)
    BY <1>2, <1>5, <1>6
  <2> HIDE DEF p
  <2> QED
    BY <1>5, <2>1, MultipleIsTruncated DEF p
<1>8. /\ task' = [call |-> "scale", ratio |-> task'.ratio, at |-> task'.at, before |-> task'.before]
      /\ task'.ratio = task.ratio /\ task'.at = k + 1 /\ task'.before = b
  BY <1>1, <1>4 DEF Scaling
<1> HIDE DEF a
<1>9. /\ IsValid(x') /\ x'.module = x.module /\ Rank(x') = Rank(x)
      /\ x'.coefficients[k] = a
      /\ \A n \in 1 .. Rank(x) : n # k => x'.coefficients[n] = x.coefficients[n]
  BY <1>1, <1>2, <1>3, <1>7, OneCoefficient
<1>10. \A n \in 1 .. Rank(x) : n < k + 1 => x'.coefficients[n] * den = b.coefficients[n] * num
  <2> SUFFICES ASSUME NEW n \in 1 .. Rank(x), n < k + 1
               PROVE  x'.coefficients[n] * den = b.coefficients[n] * num
    OBVIOUS
  <2>1. n = k \/ n < k
    BY <1>2, <1>6
  <2>2. CASE n = k
    <3>1. x.coefficients[k] = b.coefficients[k]
      BY <1>1, <1>2, <1>6 DEF Scaling
    <3> QED
      BY <1>7, <1>9, <2>2, <3>1
  <2>3. CASE n < k
    <3>1. n # k
      BY <1>2, <1>6, <2>3
    <3>2. x.coefficients[n] * den = b.coefficients[n] * num
      BY <1>1, <2>3 DEF Scaling
    <3> QED
      BY <1>9, <3>1, <3>2
  <2> QED
    BY <2>1, <2>2, <2>3
<1>11. \A n \in 1 .. Rank(x) : n >= k + 1 => x'.coefficients[n] = b.coefficients[n]
  <2> SUFFICES ASSUME NEW n \in 1 .. Rank(x), n >= k + 1
               PROVE  x'.coefficients[n] = b.coefficients[n]
    OBVIOUS
  <2>1. n # k /\ n >= k
    BY <1>2, <1>6
  <2> QED
    BY <1>1, <1>9, <2>1 DEF Scaling
<1>12. task.ratio \in Ratio /\ IsValid(b) /\ b.module = x.module
  BY <1>1 DEF Scaling
<1>13. k + 1 \in 1 .. Rank(x) + 1
  BY <1>2, <1>6
<1> HIDE DEF k, num, den, b
<1>14. Scaling'
  BY <1>2, <1>8, <1>9, <1>10, <1>11, <1>12, <1>13 DEF Scaling, num, den, b
<1> QED
  BY <1>4, <1>9, <1>14 DEF Inv

LEMMA ScaleEndsKeepInv == Inv /\ (ScaleByZero \/ ScaleReturn) => Inv'
BY DEF Inv, ScaleByZero, ScaleReturn, Finish

LEMMA ScaleThrowsKeepsInv == Inv /\ ScaleThrows => Inv'
<1> SUFFICES ASSUME Inv, ScaleThrows
             PROVE  Inv'
  OBVIOUS
<1> DEFINE k == task.at
           a == x.coefficients[k] * task.ratio.num
<1>1. IsValid(x) /\ Scaling
  BY DEF Inv, ScaleThrows, Idle, Dividing
<1>2. k \in 1 .. Rank(x)
  BY <1>1 DEF Scaling, ScaleThrows
<1>3. x' = [x EXCEPT !.coefficients[k] = a] /\ task' = Idle /\ y' = y /\ outcome'[2] = "throws"
  BY DEF ScaleThrows, Finish
<1>4. a \in Int
  <2>1. task.ratio.num \in Int /\ \A n \in 1 .. Rank(x) : x.coefficients[n] \in Int
    BY <1>1, RatioAssumption DEF Scaling, IsValid, AreCoefficients, Rank
  <2> QED
    BY <1>2, <2>1
<1> HIDE DEF a, k
<1>5. IsValid(x')
  BY <1>1, <1>2, <1>3, <1>4, OneCoefficient
<1> QED
  BY <1>3, <1>5 DEF Inv

\* Two elements in a module with the generators of both.
Together(e, f, m) ==
  /\ IsModule(m)
  /\ IsValid(Promote(e, m)) /\ Promote(e, m).module = m /\ \A g : At(Promote(e, m), g) = At(e, g)
  /\ IsValid(Promote(f, m)) /\ Promote(f, m).module = m /\ \A g : At(Promote(f, m), g) = At(f, g)

LEMMA CommonModule ==
  ASSUME NEW e, IsValid(e), NEW f, IsValid(f)
  PROVE  Together(e, f, Span(e.module, f.module))
<1> DEFINE m == Span(e.module, f.module)
<1>1. IsModule(e.module) /\ IsModule(f.module)
  BY DEF IsValid
<1>2. IsModule(m) /\ Gens(m) = Gens(e.module) \cup Gens(f.module)
  BY <1>1, SpanFacts
<1> HIDE DEF m
<1>3. IsValid(Promote(e, m)) /\ Promote(e, m).module = m /\ \A g : At(Promote(e, m), g) = At(e, g)
  BY <1>2, PromoteFacts, PromoteKeeps
<1>4. IsValid(Promote(f, m)) /\ Promote(f, m).module = m /\ \A g : At(Promote(f, m), g) = At(f, g)
  BY <1>2, PromoteFacts, PromoteKeeps
<1>5. Together(e, f, m)
  BY <1>2, <1>3, <1>4 DEF Together
<1> QED
  BY <1>5 DEF m

LEMMA ConOfZero ==
  ASSUME NEW e, IsValid(e), \A g : At(e, g) = 0, NEW f, IsValid(f)
  PROVE  \A g : Con(e, f, g) = 0
<1>1. Support(e) = {}
  BY SupportFacts
<1> QED
  BY <1>1, ConIsNotZero

LEMMA DivideCallKeepsInv == Inv /\ TrueDivideCall => Inv'
<1> SUFFICES ASSUME Inv, TrueDivideCall
             PROVE  Inv'
  OBVIOUS
<1> DEFINE m == Span(x.module, y.module)
           a == Promote(x, m)
           b == Promote(y, m)
           z == Zero(m)
<1>1. IsValid(x) /\ IsValid(y) /\ x' = x /\ y' = y /\ outcome' = outcome /\ ~IsZero(y)
  BY DEF Inv, TrueDivideCall
<1>2. task' = [call |-> "truediv", lhs |-> a, rhs |-> b, remainder |-> a, quotient |-> z]
  BY DEF TrueDivideCall
<1>0. Together(x, y, m)
  BY <1>1, CommonModule
<1> HIDE DEF m
<1>3. IsModule(m) /\ IsValid(a) /\ IsValid(b) /\ (\A g : At(a, g) = At(x, g)) /\ (\A g : At(b, g) = At(y, g))
  BY <1>0 DEF Together
<1>4. IsValid(z) /\ \A g : At(z, g) = 0
  BY <1>3, ZeroFacts
<1> HIDE DEF a, b, z
<1>5. ~IsZero(b)
  BY <1>1, <1>3, IsZeroMeans
<1>6. IsDivision(a, b, a, z)
  <2> SUFFICES ASSUME NEW g
               PROVE  At(a, g) = Con(z, b, g) + At(a, g)
    BY DEF IsDivision
  <2>1. Con(z, b, g) = 0 /\ At(a, g) \in Int
    BY <1>3, <1>4, ConOfZero, AtFacts
  <2> QED
    BY <2>1
<1>7. /\ task' = [call |-> "truediv", lhs |-> task'.lhs, rhs |-> task'.rhs,
                  remainder |-> task'.remainder, quotient |-> task'.quotient]
      /\ task'.lhs = a /\ task'.rhs = b /\ task'.remainder = a /\ task'.quotient = z
  BY <1>2
<1>8. Dividing'
  BY <1>1, <1>3, <1>4, <1>5, <1>6, <1>7 DEF Dividing
<1> QED
  BY <1>1, <1>8 DEF Inv

\* What a step of a division does.
LEMMA DivideStepDoes ==
  ASSUME Inv, TrueDivideStep
  PROVE  /\ Dividing /\ ~IsZero(task.remainder)
         /\ task' = [call |-> "truediv", lhs |-> task.lhs, rhs |-> task.rhs,
                     remainder |-> Plus(task.remainder, Minus(Product(Term, task.rhs))),
                     quotient |-> Plus(task.quotient, Term)]
         /\ IsNextTerm(Term, TermCoefficient, Quotient(LeadingGen(task.remainder), LeadingGen(task.rhs)),
                       task.remainder, task.rhs)
<1>1. Dividing /\ ~IsZero(task.remainder) /\ TermExists
  BY DEF Inv, TrueDivideStep, Idle, Scaling
<1>2. task' = [task EXCEPT !.quotient = Plus(@, Term),
                           !.remainder = Plus(@, Minus(Product(Term, task.rhs)))]
  BY DEF TrueDivideStep
<1> DEFINE r == Plus(task.remainder, Minus(Product(Term, task.rhs)))
           q == Plus(task.quotient, Term)
<1>3. task' = [task EXCEPT !.quotient = q, !.remainder = r]
  BY <1>2
<1> HIDE DEF r, q
<1>4. task' = [call |-> "truediv", lhs |-> task.lhs, rhs |-> task.rhs, remainder |-> r, quotient |-> q]
  <2> DEFINE a == task.lhs
             b == task.rhs
             c == task.remainder
             d == task.quotient
  <2>1. task = [call |-> "truediv", lhs |-> a, rhs |-> b, remainder |-> c, quotient |-> d]
    BY <1>1 DEF Dividing
  <2> HIDE DEF a, b, c, d
  <2>2. task' = [call |-> "truediv", lhs |-> a, rhs |-> b, remainder |-> r, quotient |-> q]
    BY <1>3, <2>1
  <2> QED
    BY <2>2 DEF a, b
<1>5. /\ Divides(LeadingGen(task.rhs), LeadingGen(task.remainder))
      /\ TermCoefficient = Truncated(LeadingCoefficient(task.remainder), LeadingCoefficient(task.rhs))
      /\ TermCoefficient * LeadingCoefficient(task.rhs) = LeadingCoefficient(task.remainder)
  BY <1>1 DEF TermExists, TermCoefficient
<1>6. Term = Multiple(TermCoefficient, Quotient(LeadingGen(task.remainder), LeadingGen(task.rhs)))
  BY DEF Term
<1>7. IsValid(task.remainder) /\ IsValid(task.rhs) /\ ~IsZero(task.rhs)
  BY <1>1 DEF Dividing
<1>8. IsNextTerm(Term, TermCoefficient, Quotient(LeadingGen(task.remainder), LeadingGen(task.rhs)),
                 task.remainder, task.rhs)
  BY <1>1, <1>5, <1>6, <1>7, NextTerm
<1> QED
  BY <1>1, <1>4, <1>8 DEF r, q

LEMMA DivideStepKeepsInv == Inv /\ TrueDivideStep => Inv'
<1> SUFFICES ASSUME Inv, TrueDivideStep
             PROVE  Inv'
  OBVIOUS
<1> DEFINE r == Plus(task.remainder, Minus(Product(Term, task.rhs)))
           q == Plus(task.quotient, Term)
<1>1. Dividing /\ ~IsZero(task.remainder)
  BY DivideStepDoes
<1>2. task' = [call |-> "truediv", lhs |-> task.lhs, rhs |-> task.rhs, remainder |-> r, quotient |-> q]
  BY DivideStepDoes
<1>3. PICK c, t : IsNextTerm(Term, c, t, task.remainder, task.rhs)
  BY DivideStepDoes
<1>4. /\ IsValid(task.lhs) /\ IsValid(task.rhs) /\ IsValid(task.remainder) /\ IsValid(task.quotient)
      /\ ~IsZero(task.rhs) /\ IsDivision(task.lhs, task.rhs, task.remainder, task.quotient)
  BY <1>1 DEF Dividing
<1>5. IsValid(Term)
  BY <1>3 DEF IsNextTerm
<1>6. IsValid(r) /\ \A g : At(r, g) = At(task.remainder, g) - Con(Term, task.rhs, g)
  BY <1>1, <1>3, <1>4, NextRemainder
<1> HIDE DEF r
<1>7. IsValid(q) /\ IsDivision(task.lhs, task.rhs, r, q)
  BY <1>4, <1>5, <1>6, DivisionStep
<1> HIDE DEF q
<1>8. /\ task' = [call |-> "truediv", lhs |-> task'.lhs, rhs |-> task'.rhs,
                  remainder |-> task'.remainder, quotient |-> task'.quotient]
      /\ task'.lhs = task.lhs /\ task'.rhs = task.rhs /\ task'.remainder = r /\ task'.quotient = q
  BY <1>2
<1>9. x' = x /\ y' = y /\ outcome' = outcome
  BY DEF TrueDivideStep
<1>10. (\A g : At(task.lhs, g) = At(x, g)) /\ (\A g : At(task.rhs, g) = At(y, g))
  BY <1>1 DEF Dividing
<1>11. Dividing'
  BY <1>4, <1>6, <1>7, <1>8, <1>9, <1>10 DEF Dividing
<1> QED
  BY <1>9, <1>11 DEF Inv

LEMMA InvNext == Inv /\ [Next]_vars => Inv'
<1> SUFFICES ASSUME Inv, [Next]_vars
             PROVE  Inv'
  OBVIOUS
<1>1. CASE Take
  BY <1>1, TakeKeepsInv
<1>2. CASE TakeThrows \/ TrueDivideThrows \/ TrueDivideByOne
  BY <1>2 DEF Inv, TakeThrows, TrueDivideThrows, TrueDivideByOne, Finish
<1>3. CASE Exchange
  BY <1>3 DEF Inv, Exchange, Finish
<1>4. CASE AddTo
  BY <1>4, PlusFacts, ComputeKeepsInv DEF Inv, AddTo
<1>5. CASE SubtractFrom
  <2>1. IsValid(Minus(y))
    BY MinusFacts DEF Inv
  <2>2. IsValid(Plus(x, Minus(y)))
    BY <2>1, PlusFacts DEF Inv
  <2> QED
    BY <1>5, <2>2, ComputeKeepsInv DEF SubtractFrom
<1>6. CASE MultiplyBy
  BY <1>6, ProductFacts, ComputeKeepsInv DEF Inv, MultiplyBy
<1>7. CASE Negate
  BY <1>7, MinusFacts, ComputeKeepsInv DEF Inv, Negate
<1>8. CASE SimplifyIt
  BY <1>8, SimplifyFacts, ComputeKeepsInv DEF Inv, SimplifyIt
<1>9. CASE PromoteIt
  <2>1. IsValid(Promote(x, Span(x.module, y.module)))
    BY CommonModule DEF Inv, Together
  <2> QED
    BY <1>9, <2>1, ComputeKeepsInv DEF PromoteIt
<1>10. CASE ScaleCall
  BY <1>10, ScaleCallKeepsInv
<1>11. CASE TrueDivideCall
  BY <1>11, DivideCallKeepsInv
<1>12. CASE ScaleStep
  BY <1>12, ScaleStepKeepsInv
<1>13. CASE ScaleByZero \/ ScaleReturn
  BY <1>13, ScaleEndsKeepInv
<1>14. CASE ScaleThrows
  BY <1>14, ScaleThrowsKeepsInv
<1>15. CASE TrueDivideStep
  BY <1>15, DivideStepKeepsInv
<1>16. CASE TrueDivideNone
  BY <1>16 DEF Inv, TrueDivideNone, Finish
<1>17. CASE TrueDivideReturn
  <2>1. Dividing
    BY <1>17 DEF Inv, TrueDivideReturn, Idle, Scaling
  <2> QED
    BY <1>17, <2>1 DEF Inv, Dividing, TrueDivideReturn, Finish
<1>18. CASE UNCHANGED vars
  BY <1>18 DEF Inv, vars, Scaling, Dividing
<1> QED
  BY <1>1, <1>2, <1>3, <1>4, <1>5, <1>6, <1>7, <1>8, <1>9, <1>10, <1>11, <1>12, <1>13, <1>14, <1>15, <1>16,
     <1>17, <1>18 DEF Next, Loop

LEMMA InvAlways == Spec => []Inv
BY InvInit, InvNext, PTL DEF Spec

-----------------------------------------------------------------------------
(* What follows from the invariant. *)

LEMMA ValidIsElement ==
  ASSUME NEW e, IsValid(e)
  PROVE  IsElement(e)
<1>1. IsModule(e.module) /\ AreCoefficients(e.coefficients, e.module) /\ Rank(e) = Len(e.module)
  BY DEF IsValid, Rank
<1>2. Rank(e) \in Nat
  BY <1>1 DEF IsModule
<1>3. ASSUME NEW n \in 2 .. Rank(e)
      PROVE  Smaller(e.module[n - 1], e.module[n])
  <2>1. n - 1 \in 1 .. Rank(e) /\ n \in 1 .. Rank(e) /\ n - 1 < n
    BY <1>2
  <2> QED
    BY <1>1, <2>1 DEF IsModule
<1> QED
  BY <1>1, <1>3 DEF IsElement, AreCoefficients

\* The generators of modules stay sorted and distinct, and elements keep one
\* coefficient for each generator: in all operations, in polynomial division,
\* and when a scaling throws half-way.
THEOREM TypeCorrect == Spec => []TypeOK
<1>1. Inv => TypeOK
  <2> SUFFICES ASSUME Inv
               PROVE  TypeOK
    OBVIOUS
  <2>1. IsElement(x) /\ IsElement(y) /\ outcome[2] \in {"ok", "nullopt", "throws"}
    BY ValidIsElement DEF Inv
  <2>2. task.call \in {"none", "scale", "truediv"}
    <3>1. CASE task = Idle
      BY <3>1 DEF Idle
    <3>2. CASE Scaling
      BY <3>2 DEF Scaling
    <3>3. CASE Dividing
      BY <3>3 DEF Dividing
    <3> QED
      BY <3>1, <3>2, <3>3 DEF Inv
  <2>3. ASSUME task.call = "truediv", NEW e \in {task.lhs, task.rhs, task.remainder, task.quotient}
        PROVE  IsElement(e)
    <3>1. Dividing
      BY <2>3 DEF Inv, Idle, Scaling
    <3>2. IsValid(e)
      BY <2>3, <3>1 DEF Dividing
    <3> QED
      BY <3>2, ValidIsElement
  <2> QED
    BY <2>1, <2>2, <2>3 DEF TypeOK
<1> QED
  BY <1>1, InvAlways, PTL

\* ==, and comparing what simplify makes of them, decide whether two elements
\* are equal as polynomials, whatever modules they come from.
THEOREM EqualityDecided == Spec => []EqualityIsExact
<1>1. Inv => EqualityIsExact
  <2> SUFFICES ASSUME Inv
               PROVE  EqualityIsExact
    OBVIOUS
  <2>1. IsValid(x) /\ IsValid(y)
    BY DEF Inv
  <2>2. Polynomial(x) = Polynomial(y) <=> \A g : At(x, g) = At(y, g)
    BY <2>1, SamePolynomial
  <2>3. Equal(x, y) <=> \A g : At(x, g) = At(y, g)
    BY <2>1, EqualMeans
  <2>4. Simplify(x) = Simplify(y) <=> \A g : At(x, g) = At(y, g)
    BY <2>1, SimplifyDecides
  <2> QED
    BY <2>2, <2>3, <2>4 DEF EqualityIsExact
<1> QED
  BY <1>1, InvAlways, PTL

LEMMA MonomialIsGen ==
  ASSUME NEW g \in Monomial
  PROVE  IsGen(g)
<1>1. PICK A \in SUBSET Atom : g \in [A -> 1 .. MaxDegree]
  BY DEF Monomial
<1>2. IsFiniteSet(A)
  BY AtomAssumption, FS_Subset
<1>3. \A n \in 1 .. MaxDegree : n \in Nat \ {0}
  BY BoundAssumption
<1> QED
  BY <1>1, <1>2, <1>3 DEF IsGen, MonomialOn

LEMMA TermPolynomial ==
  ASSUME NEW e, IsValid(e), NEW c \in Int, NEW g, IsGen(g)
  PROVE  Polynomial(e) = Polynomial(Multiple(c, g)) <=> IsTerm(e, c, g)
<1>1. IsValid(Multiple(c, g)) /\ \A h : At(Multiple(c, g), h) = IF h = g THEN c ELSE 0
  BY MultipleFacts
<1>2. Polynomial(e) = Polynomial(Multiple(c, g)) <=> \A h : At(e, h) = At(Multiple(c, g), h)
  BY <1>1, SamePolynomial
<1> QED
  BY <1>1, <1>2 DEF IsTerm

\* Comparing an element with a generator or an integer, and asking whether it
\* is a unit, is right for every module that it may live in.
THEOREM NumbersDecided == Spec => []NumbersAreRecognised
<1>1. Inv => NumbersAreRecognised
  <2> SUFFICES ASSUME Inv
               PROVE  NumbersAreRecognised
    OBVIOUS
  <2>1. IsValid(x)
    BY DEF Inv
  <2>2. ASSUME NEW g \in Monomial, RelatedTo(x, g)
        PROVE  EqualNumber(x, g) <=> Polynomial(x) = Polynomial(Multiple(1, g))
    <3>1. EqualNumber(x, g) <=> IsTerm(x, 1, g)
      BY <2>1, <2>2, EqualNumberMeans
    <3>2. Polynomial(x) = Polynomial(Multiple(1, g)) <=> IsTerm(x, 1, g)
      BY <2>1, MonomialIsGen, TermPolynomial
    <3> QED
      BY <3>1, <3>2
  <2>3. ASSUME NEW c \in {-1, 0, 1}
        PROVE  EqualInteger(x, c) <=> Polynomial(x) = Polynomial(Multiple(c, One))
    <3>1. c \in Int
      OBVIOUS
    <3>2. EqualInteger(x, c) <=> IsTerm(x, c, One)
      BY <2>1, <3>1, EqualIntegerMeans
    <3>3. Polynomial(x) = Polynomial(Multiple(c, One)) <=> IsTerm(x, c, One)
      BY <2>1, <3>1, OneIsGen, TermPolynomial
    <3> QED
      BY <3>2, <3>3
  <2>4. Unit(x) <=> \E c \in {-1, 1} : EqualInteger(x, c)
    BY <2>1, UnitMeans
  <2> QED
    BY <2>2, <2>3, <2>4 DEF NumbersAreRecognised
<1> QED
  BY <1>1, InvAlways, PTL

LEMMA CoeffOfScale ==
  ASSUME NEW e, IsValid(e), NEW c \in Int
  PROVE  \A g : P!Coeff(P!Scale(Polynomial(e), c), g) = At(e, g) * c
<1> DEFINE p == Polynomial(e)
<1>1. DOMAIN p = Support(e) /\ \A g \in Support(e) : p[g] = At(e, g)
  BY PolynomialIs
<1>2. \A g : g \in Support(e) <=> At(e, g) # 0
  BY SupportFacts
<1> HIDE DEF p
<1>3. P!Scale(p, c) = [g \in {h \in DOMAIN p : p[h] * c # 0} |-> p[g] * c]
  BY DEF P!Scale, P!Poly
<1>4. P!Scale(p, c) = [g \in {h \in Support(e) : At(e, h) * c # 0} |-> At(e, g) * c]
  BY <1>1, <1>3
<1>5. 0 * c = 0
  OBVIOUS
<1>6. \A g : P!Coeff(P!Scale(p, c), g) = At(e, g) * c
  BY <1>2, <1>4, <1>5 DEF P!Coeff
<1> QED
  BY <1>6 DEF p

\* e is c times f.
LEMMA ScaleMeans ==
  ASSUME NEW e, IsValid(e), NEW f, IsValid(f), NEW c \in Int
  PROVE  P!Scale(Polynomial(f), c) = Polynomial(e) <=> \A g : At(e, g) = At(f, g) * c
<1>1. ASSUME P!Scale(Polynomial(f), c) = Polynomial(e)
      PROVE  \A g : At(e, g) = At(f, g) * c
  <2>1. \A g : P!Coeff(Polynomial(e), g) = At(e, g)
    BY CoeffIsAt
  <2>2. \A g : P!Coeff(P!Scale(Polynomial(f), c), g) = At(f, g) * c
    BY CoeffOfScale
  <2> QED
    BY <1>1, <2>1, <2>2
<1>2. ASSUME \A g : At(e, g) = At(f, g) * c
      PROVE  P!Scale(Polynomial(f), c) = Polynomial(e)
  BY <1>2, ScaleIsMultiple
<1> QED
  BY <1>1, <1>2

\* The shortcut of floordiv finds an integer iff x is that integer times y.
THEOREM FloorDecided == Spec => []FloorIsExact
<1>1. Inv => FloorIsExact
  <2> DEFINE m == Span(x.module, y.module)
             a == Promote(x, m)
             b == Promote(y, m)
             C == UNION {UpTo(c) : c \in Range(x.coefficients)}
  <2> SUFFICES ASSUME Inv, ~IsZero(x)
               PROVE  ExactFloor(a, b) = {q \in C : P!Scale(Polynomial(y), q) = Polynomial(x)}
    BY DEF FloorIsExact
  <2>1. IsValid(x) /\ IsValid(y)
    BY DEF Inv
  <2>2. Together(x, y, m)
    BY <2>1, CommonModule
  <2> HIDE DEF m
  <2>3. IsValid(a) /\ IsValid(b) /\ a.module = b.module /\ (\A g : At(a, g) = At(x, g)) /\ (\A g : At(b, g) = At(y, g))
    BY <2>2 DEF Together
  <2> HIDE DEF a, b
  <2>4. ~IsZero(a)
    BY <2>1, <2>3, IsZeroMeans
  <2>5. \A q : q \in ExactFloor(a, b) <=> q \in Int /\ \A g : At(x, g) = At(y, g) * q
    <3>1. \A q : q \in ExactFloor(a, b) <=> q \in Int /\ \A g : At(a, g) = At(b, g) * q
      BY <2>3, <2>4, ExactFloorMeans
    <3> QED
      BY <2>3, <3>1
  <2>6. \A q \in Int : P!Scale(Polynomial(y), q) = Polynomial(x) <=> \A g : At(x, g) = At(y, g) * q
    BY <2>1, ScaleMeans
  <2>7. \A n \in 1 .. Rank(x) : x.coefficients[n] \in Range(x.coefficients) /\ x.coefficients[n] \in Int
    BY <2>1 DEF IsValid, AreCoefficients, Rank, Range
  <2>8. C \subseteq Int
    <3> SUFFICES ASSUME NEW c \in Range(x.coefficients)
                 PROVE  UpTo(c) \subseteq Int
      OBVIOUS
    <3>1. c \in Int
      BY <2>1 DEF IsValid, AreCoefficients, Range
    <3> QED
      BY <3>1 DEF UpTo
  <2>9. ASSUME NEW q \in Int, \A g : At(x, g) = At(y, g) * q
        PROVE  q \in C
    <3>1. PICK n \in 1 .. Rank(x) : x.coefficients[n] # 0
      BY DEF IsZero
    <3>2. x.coefficients[n] = At(x, x.module[n])
      BY <2>1, ForAllGens
    <3> DEFINE d == At(y, x.module[n])
    <3>3. d \in Int /\ x.coefficients[n] = d * q
      BY <2>1, <2>9, <3>2, AtFacts
    <3> HIDE DEF d
    <3>4. q * d = x.coefficients[n] /\ q * d # 0
      BY <3>1, <3>3
    <3>5. q \in UpTo(q * d)
      BY <3>3, <3>4, FactorIsUpTo
    <3> QED
      BY <2>7, <3>4, <3>5
  <2> HIDE DEF C
  <2> QED
    BY <2>5, <2>6, <2>8, <2>9
<1> QED
  BY <1>1, InvAlways, PTL

\* quotient * rhs + remainder, as an element.
LEMMA DivisionMeans ==
  ASSUME NEW lhs, IsValid(lhs), NEW rhs, IsValid(rhs), NEW rem, IsValid(rem), NEW quo, IsValid(quo),
         IsDivision(lhs, rhs, rem, quo)
  PROVE  Polynomial(lhs) = P!Add(P!Mul(Polynomial(quo), Polynomial(rhs)), Polynomial(rem))
<1> DEFINE p == Product(quo, rhs)
<1>1. IsValid(p) /\ \A g : At(p, g) = Con(quo, rhs, g)
  BY ProductFacts
<1> HIDE DEF p
<1>2. P!Mul(Polynomial(quo), Polynomial(rhs)) = Polynomial(p)
  BY <1>1, MulIsProduct
<1>3. SumsTo(lhs, p, rem)
  BY <1>1 DEF SumsTo, IsDivision
<1> QED
  BY <1>1, <1>2, <1>3, AddIsSum

\* In a polynomial division, the quotient and the remainder always account for
\* what is divided.
THEOREM DivisionCorrect == Spec => []DivisionInvariant
<1>1. Inv => DivisionInvariant
  <2> SUFFICES ASSUME Inv, task.call = "truediv"
               PROVE  Polynomial(task.lhs) =
                      P!Add(P!Mul(Polynomial(task.quotient), Polynomial(task.rhs)), Polynomial(task.remainder))
    BY DEF DivisionInvariant
  <2>1. Dividing
    BY DEF Inv, Idle, Scaling
  <2> QED
    BY <2>1, DivisionMeans DEF Dividing
<1> QED
  BY <1>1, InvAlways, PTL

\* Every step of a polynomial division lowers the leading generator of what
\* remains.
THEOREM RemainderDecreases == Spec => LeadingGeneratorDecreases
<1>1. Inv /\ [Next]_vars =>
        [task.call = "truediv" /\ task'.call = "truediv" =>
           \/ IsZero(task'.remainder)
           \/ Smaller(LeadingGen(task'.remainder), LeadingGen(task.remainder))]_vars
  <2> SUFFICES ASSUME Inv, Next, task.call = "truediv", task'.call = "truediv"
               PROVE  \/ IsZero(task'.remainder)
                      \/ Smaller(LeadingGen(task'.remainder), LeadingGen(task.remainder))
    OBVIOUS
  <2>1. TrueDivideStep
    BY DEF Next, Loop, Take, TakeThrows, Exchange, AddTo, SubtractFrom, MultiplyBy, Negate, SimplifyIt, PromoteIt,
           Compute, ScaleCall, TrueDivideThrows, TrueDivideByOne, TrueDivideCall, ScaleStep, ScaleByZero,
           ScaleThrows, ScaleReturn, TrueDivideNone, TrueDivideReturn, Idle
  <2> DEFINE r == Plus(task.remainder, Minus(Product(Term, task.rhs)))
  <2>2. Dividing /\ ~IsZero(task.remainder) /\ task'.remainder = r
    BY <2>1, DivideStepDoes
  <2>3. PICK c, t : IsNextTerm(Term, c, t, task.remainder, task.rhs)
    BY <2>1, DivideStepDoes
  <2>4. IsValid(task.remainder) /\ IsValid(task.rhs) /\ ~IsZero(task.rhs)
    BY <2>2 DEF Dividing
  <2>5. IsZero(r) \/ Smaller(LeadingGen(r), LeadingGen(task.remainder))
    BY <2>2, <2>3, <2>4, NextRemainder
  <2> QED
    BY <2>2, <2>5
<1> QED
  BY <1>1, InvAlways, PTL DEF Spec, LeadingGeneratorDecreases

-----------------------------------------------------------------------------
(* Elements implement polynomials. *)

\* Only the coefficients matter.
LEMMA ConCongruent ==
  ASSUME NEW d, IsValid(d), NEW e, IsValid(e), NEW f, IsValid(f), \A g : At(e, g) = At(f, g), NEW h
  PROVE  Con(d, e, h) = Con(d, f, h)
<1> DEFINE S == Support(d)
           T == Support(e)
           U == Pairs(S, T, h)
           v == ProductsOf(d, e, S, T)
           w == ProductsOf(d, f, S, T)
<1>1. (\A g : g \in T <=> At(e, g) # 0) /\ (\A g : g \in Support(f) <=> At(f, g) # 0) /\ AreGens(S) /\ AreGens(T)
  BY SupportFacts
<1>2. T = Support(f)
  BY <1>1
<1>3. IsFiniteSet(U)
  <2> HIDE DEF S, T
  <2> QED
    BY <1>1, PairsFacts
<1>4. \A p \in U : v[p] = w[p]
  BY DEF Pairs, ProductsOf
<1>5. SumOn(v, U) = SumOn(w, U)
  <2> HIDE DEF U, v, w
  <2> QED
    BY <1>3, <1>4, SumCongruent
<1> QED
  BY <1>2, <1>5 DEF Con, Conv

LEMMA TimesOne ==
  ASSUME NEW g, IsGen(g)
  PROVE  Times(g, One) = g
<1>1. DOMAIN One = {}
  BY DEF One
<1>2. IsGen(Times(g, One)) /\ IsGen(One)
  BY OneIsGen, TimesIsGen
<1>3. \A a : Exponent(One, a) = 0
  BY <1>1 DEF Exponent
<1>4. \A a : Exponent(g, a) \in Nat
  BY ExponentFactsOn DEF IsGen
<1>5. \A a : Exponent(Times(g, One), a) = Exponent(g, a) + Exponent(One, a)
  BY <1>2, ExponentOfTimes DEF IsGen
<1>6. \A a \in Atom : Exponent(Times(g, One), a) = Exponent(g, a)
  BY <1>3, <1>4, <1>5
<1> QED
  BY <1>2, <1>6, SameExponents DEF IsGen

\* Multiplying with 1.
LEMMA ConWithOne ==
  ASSUME NEW e, IsValid(e), NEW f, IsValid(f), IsTerm(f, 1, One), NEW g
  PROVE  Con(e, f, g) = At(e, g)
<1> DEFINE S == Support(e) \cup {g}
           T == {One}
           w == ProductsOf(e, f, S, T)
<1>1. AreGens(Support(e)) /\ (\A h : h \in Support(e) <=> At(e, h) # 0) /\ (\A h : h \in Support(f) <=> At(f, h) # 0)
  BY SupportFacts
<1>2. At(f, One) = 1 /\ \A h : h # One => At(f, h) = 0
  BY DEF IsTerm
<1>3. Support(f) \subseteq T
  BY <1>1, <1>2
<1>4. CASE IsGen(g)
  <2>1. AreGens(S) /\ AreGens(T)
    BY <1>1, <1>4, OneIsGen, FS_Singleton, FS_Union DEF AreGens
  <2>2. Support(e) \subseteq S /\ g \in S /\ \A h \in S : IsGen(h)
    BY <2>1 DEF AreGens
  <2> HIDE DEF S
  <2>3. ASSUME NEW p \in Pairs(S, T, g)
        PROVE  p = <<g, One>>
    <3>1. p[1] \in S /\ p[2] = One /\ p = <<p[1], p[2]>> /\ Times(p[1], p[2]) = g
      BY DEF Pairs
    <3>2. Times(p[1], One) = p[1]
      BY <2>2, <3>1, TimesOne
    <3> QED
      BY <3>1, <3>2
  <2>4. Times(g, One) = g
    BY <1>4, TimesOne
  <2>5. Pairs(S, T, g) = {<<g, One>>}
    BY <2>2, <2>3, <2>4 DEF Pairs
  <2>6. At(e, g) \in Int
    BY AtFacts
  <2>7. w[<<g, One>>] = At(e, g)
    <3>1. <<g, One>> \in S \X T
      BY <2>2
    <3>2. w[<<g, One>>] = At(e, g) * At(f, One)
      BY <3>1 DEF ProductsOf
    <3> QED
      BY <1>2, <2>6, <3>2
  <2>8. SumOn(w, {<<g, One>>}) = At(e, g)
    <3> HIDE DEF w
    <3> QED
      BY <2>6, <2>7, SumOfSingle
  <2>9. Con(e, f, g) = Conv(e, f, S, T, g)
    <3> HIDE DEF T
    <3> QED
      BY <1>3, <2>1, <2>2, ConvIsCon
  <2> QED
    BY <2>5, <2>8, <2>9 DEF Conv
<1>5. CASE ~IsGen(g)
  <2>1. At(e, g) = 0
    BY <1>1, <1>5 DEF AreGens
  <2>2. Con(e, f, g) = 0
    <3> SUFFICES ASSUME Con(e, f, g) # 0
                 PROVE  FALSE
      OBVIOUS
    <3>1. PICK a \in Support(e), b \in Support(f) : Times(a, b) = g
      BY ConIsNotZero
    <3>2. IsGen(a) /\ IsGen(b)
      BY <1>1, <1>3, <3>1, OneIsGen DEF AreGens
    <3> QED
      BY <1>5, <3>1, <3>2, TimesIsGen
  <2> QED
    BY <2>1, <2>2
<1> QED
  BY <1>4, <1>5

\* If the remainder is a multiple of rhs, then there is a next term.
LEMMA MultipleHasTerm ==
  ASSUME NEW rem, IsValid(rem), ~IsZero(rem), NEW rhs, IsValid(rhs), ~IsZero(rhs),
         NEW e, IsValid(e), \A g : At(rem, g) = Con(e, rhs, g)
  PROVE  /\ Divides(LeadingGen(rhs), LeadingGen(rem))
         /\ Truncated(LeadingCoefficient(rem), LeadingCoefficient(rhs)) * LeadingCoefficient(rhs)
              = LeadingCoefficient(rem)
<1> DEFINE a == LeadingGen(e)
           b == LeadingGen(rhs)
           c == LeadingCoefficient(e)
           d == LeadingCoefficient(rhs)
           t == Times(a, b)
<1>1. ~IsZero(e)
  <2> SUFFICES ASSUME IsZero(e)
               PROVE  FALSE
    OBVIOUS
  <2>1. \A g : At(e, g) = 0
    BY IsZeroMeans
  <2>2. \A g : At(rem, g) = 0
    BY <2>1, ConOfZero
  <2> QED
    BY <2>2, IsZeroMeans
<1>2. IsGen(a) /\ c = At(e, a) /\ At(e, a) # 0
  BY <1>1, LeadingFacts
<1>3. IsGen(b) /\ d = At(rhs, b) /\ At(rhs, b) # 0
  BY LeadingFacts
<1>4. Con(e, rhs, t) = c * d /\ \A g : Con(e, rhs, g) # 0 => g = t \/ Smaller(g, t)
  BY <1>1, LeadingOfProduct
<1> HIDE DEF a, b, c, d
<1>5. c \in Int /\ d \in Int /\ c # 0 /\ d # 0
  BY <1>2, <1>3, AtFacts
<1>6. c * d # 0
  <2>1. \A i, j \in Int : i # 0 /\ j # 0 => i * j # 0
    OBVIOUS
  <2> QED
    BY <1>5, <2>1
<1>7. IsGen(t)
  BY <1>2, <1>3, TimesIsGen
<1>8. At(rem, t) = c * d /\ At(rem, t) # 0
  BY <1>4, <1>6
<1>9. \A g : IsGen(g) /\ At(rem, g) # 0 => g = t \/ Smaller(g, t)
  BY <1>4
<1> HIDE DEF t
<1>10. LeadingGen(rem) = t /\ LeadingCoefficient(rem) = c * d
  BY <1>7, <1>8, <1>9, LeadingIs
<1>11. Divides(b, t)
  BY <1>2, <1>3, TimesIsDivisible DEF IsGen, t
<1>12. Truncated(c * d, d) = c
  <2> DEFINE p == c * d
  <2>1. p \in Int /\ p = c * d
    BY <1>5
  <2> HIDE DEF p
  <2>2. Truncated(p, d) = c
    BY <1>5, <2>1, TruncatedFacts
  <2> QED
    BY <2>2 DEF p
<1> QED
  BY <1>10, <1>11, <1>12 DEF b, d

\* If lhs is a multiple of rhs, then so is the remainder.
LEMMA RemainderIsMultiple ==
  ASSUME NEW lhs, IsValid(lhs), NEW rhs, IsValid(rhs), NEW rem, IsValid(rem), NEW quo, IsValid(quo),
         IsDivision(lhs, rhs, rem, quo),
         NEW s, IsValid(s), \A g : At(lhs, g) = Con(s, rhs, g)
  PROVE  \E e : IsValid(e) /\ \A g : At(rem, g) = Con(e, rhs, g)
<1> DEFINE n == Minus(quo)
           e == Plus(s, n)
<1>1. IsValid(n) /\ \A g : At(n, g) = - At(quo, g)
  BY MinusFacts
<1> HIDE DEF n
<1>2. IsValid(e) /\ \A g : At(e, g) = At(s, g) + At(n, g)
  BY <1>1, PlusFacts
<1> HIDE DEF e
<1>3. SumsTo(s, e, quo)
  <2> SUFFICES ASSUME NEW g
               PROVE  At(s, g) = At(e, g) + At(quo, g)
    BY DEF SumsTo
  <2>1. At(s, g) \in Int /\ At(quo, g) \in Int
    BY AtFacts
  <2>2. At(e, g) = At(s, g) + (- At(quo, g))
    BY <1>1, <1>2
  <2> QED
    BY <2>1, <2>2
<1>4. ASSUME NEW g
      PROVE  At(rem, g) = Con(e, rhs, g)
  <2>1. Con(s, rhs, g) = Con(e, rhs, g) + Con(quo, rhs, g)
    BY <1>2, <1>3, ConIsDistributive
  <2>2. Con(e, rhs, g) \in Int /\ Con(quo, rhs, g) \in Int
    BY <1>2, ConIsInteger
  <2>3. At(lhs, g) = Con(quo, rhs, g) + At(rem, g) /\ At(rem, g) \in Int
    BY AtFacts DEF IsDivision
  <2> QED
    BY <2>1, <2>2, <2>3
<1> QED
  BY <1>2, <1>4

\* Every polynomial is an element.
LEMMA PolynomialExists ==
  ASSUME NEW S, AreGens(S), NEW p, p = [g \in S |-> p[g]], \A g \in S : p[g] \in Int /\ p[g] # 0
  PROVE  \E e : IsValid(e) /\ Polynomial(e) = p
<1> DEFINE m == Make(S)
           c == [n \in 1 .. Len(m) |-> p[m[n]]]
           e == Element(m, c)
<1>1. IsModule(m) /\ Gens(m) = S
  BY MakeFacts
<1> HIDE DEF m
<1>2. DOMAIN c = 1 .. Len(m) /\ c = [n \in 1 .. Len(m) |-> c[n]] /\ \A n \in 1 .. Len(m) : c[n] = p[m[n]]
  OBVIOUS
<1> HIDE DEF c
<1>3. \A g \in Gens(m) : p[g] \in Int
  BY <1>1
<1>4. IsValid(e) /\ e.module = m /\ \A g : At(e, g) = IF g \in Gens(m) THEN p[g] ELSE 0
  BY <1>1, <1>2, <1>3, ElementWith
<1> HIDE DEF e
<1>5. Support(e) = S
  BY <1>1, <1>4 DEF Support
<1>6. Polynomial(e) = [g \in Support(e) |-> At(e, g)]
  BY <1>4, PolynomialIs
<1>7. Polynomial(e) = [g \in S |-> p[g]]
  BY <1>1, <1>4, <1>5, <1>6
<1> QED
  BY <1>4, <1>7

\* There are finitely many monomials.
LEMMA MonomialIsFinite == IsFiniteSet(Monomial)
<1> DEFINE T == SUBSET (Atom \X (1 .. MaxDegree))
           M == UNION {[A -> 1 .. MaxDegree] : A \in SUBSET Atom}
           value(s, a) == CHOOSE n \in 1 .. MaxDegree : <<a, n>> \in s
           dom(s) == {a \in Atom : \E n \in 1 .. MaxDegree : <<a, n>> \in s}
           h == [s \in T |-> [a \in dom(s) |-> value(s, a)]]
           graph(m) == {p \in Atom \X (1 .. MaxDegree) : p[1] \in DOMAIN m /\ p[2] = m[p[1]]}
<1>1. IsFiniteSet(T)
  <2>1. IsFiniteSet(1 .. MaxDegree)
    BY BoundAssumption, FS_Interval
  <2>2. IsFiniteSet(Atom \X (1 .. MaxDegree))
    BY <2>1, AtomAssumption, FS_Product
  <2> HIDE DEF T
  <2> QED
    BY <2>2, FS_SUBSET DEF T
<1>2. ASSUME NEW s \in T
      PROVE  h[s] \in M
  <2>1. \A a \in dom(s) : value(s, a) \in 1 .. MaxDegree
    OBVIOUS
  <2>2. dom(s) \in SUBSET Atom
    OBVIOUS
  <2> HIDE DEF value, dom
  <2>3. [a \in dom(s) |-> value(s, a)] \in [dom(s) -> 1 .. MaxDegree]
    BY <2>1
  <2> QED
    BY <2>2, <2>3
<1>3. ASSUME NEW m \in M
      PROVE  \E s \in T : h[s] = m
  <2>1. PICK A \in SUBSET Atom : m \in [A -> 1 .. MaxDegree]
    OBVIOUS
  <2> DEFINE s == graph(m)
  <2>2. s \in T
    OBVIOUS
  <2>3. \A a \in Atom, n \in 1 .. MaxDegree : <<a, n>> \in s <=> a \in A /\ n = m[a]
    BY <2>1
  <2> HIDE DEF s
  <2>4. dom(s) = A
    BY <2>1, <2>3
  <2>5. \A a \in A : value(s, a) = m[a]
    BY <2>1, <2>3
  <2> HIDE DEF dom, value
  <2>6. h[s] = m
    BY <2>1, <2>2, <2>4, <2>5
  <2> QED
    BY <2>2, <2>6
<1>4. h \in [T -> M]
  <2>1. h = [s \in T |-> h[s]]
    OBVIOUS
  <2> HIDE DEF h, T, M
  <2> QED
    BY <1>2, <2>1
<1> HIDE DEF h, T, M
<1>5. h \in Surjection(T, M)
  BY <1>3, <1>4 DEF Surjection
<1>6. IsFiniteSet(M)
  BY <1>1, <1>5, FS_Surjection
<1>7. Monomial \in SUBSET M
  BY DEF Monomial, M
<1> QED
  BY <1>6, <1>7, FS_Subset

-----------------------------------------------------------------------------
\* x, or what it was before its coefficients are being scaled.
Seen == IF task.call = "scale" THEN task.before ELSE x

LEMMA RefineInit == Init => P!Init
<1> SUFFICES ASSUME Init
             PROVE  P!Init
  OBVIOUS
<1>1. task.call # "scale" /\ x = Zero(<<>>) /\ y = Zero(<<>>) /\ outcome = <<"none", "ok">>
  BY DEF Init, Idle
<1>2. Polynomial(Zero(<<>>)) = P!O
  <2> DEFINE z == Zero(<<>>)
  <2>1. IsValid(z) /\ \A g : At(z, g) = 0
    BY ZeroModule
  <2> HIDE DEF z
  <2>2. Polynomial(z) = P!O
    BY <2>1, IsZeroMeans, ZeroPolynomial
  <2> QED
    BY <2>2 DEF z
<1> QED
  BY <1>1, <1>2 DEF P!Init

\* A step that is not part of a scaling.
LEMMA NotScaling ==
  ASSUME task.call # "scale", task' = task
  PROVE  /\ Polynomial(IF task.call = "scale" THEN task.before ELSE x) = Polynomial(x)
         /\ Polynomial(IF task.call = "scale" THEN task.before ELSE x)' = Polynomial(x')
OBVIOUS

LEMMA TakeThrowsRefines == TakeThrows => P!TakeThrows
BY DEF TakeThrows, Finish, P!TakeThrows

LEMMA ExchangeRefines == Exchange => P!Exchange
BY DEF Exchange, Finish, Idle, P!Exchange, P!Done

\* The generators of the client's modules are monomials of the model.
LEMMA BasisAreMonomials ==
  ASSUME NEW gens \in Basis, NEW g \in gens
  PROVE  g \in Monomial
<1> DEFINE A == DOMAIN g
<1>1. A \in SUBSET Atom /\ g \in [A -> Nat \ {0}] /\ TotalDegree(g) <= MaxDegree
  BY BasisAssumption
<1>2. IsFiniteSet(A)
  BY <1>1, AtomAssumption, FS_Subset
<1>3. TotalDegree(g) \in Nat /\ \A a \in A : g[a] <= TotalDegree(g)
  <2>1. \A a \in A : g[a] \in Nat
    BY <1>1
  <2> HIDE DEF A
  <2>2. SumOn(g, A) \in Nat /\ \A a \in A : g[a] <= SumOn(g, A)
    BY <1>2, <2>1, SumOfNaturals
  <2> QED
    BY <2>2, DegreeIsSumOn DEF A
<1>4. g \in [A -> 1 .. MaxDegree]
  <2>1. \A a \in A : g[a] \in 1 .. MaxDegree
    BY <1>1, <1>3, BoundAssumption
  <2> QED
    BY <1>1, <2>1
<1> QED
  BY <1>1, <1>4 DEF Monomial

LEMMA PolynomialOfGen ==
  ASSUME NEW e, IsValid(e), NEW t, \A g : At(e, g) = IF g = t THEN 1 ELSE 0
  PROVE  Polynomial(e) = P!Poly({t}, LAMBDA h : 1)
<1>1. Polynomial(e) = [g \in Support(e) |-> At(e, g)] /\ \A g : g \in Support(e) <=> At(e, g) # 0
  BY PolynomialIs, SupportFacts
<1>2. Support(e) = {t}
  BY <1>1
<1>3. Polynomial(e) = [g \in {t} |-> 1]
  BY <1>1, <1>2
<1>4. P!Poly({t}, LAMBDA h : 1) = [g \in {n \in {t} : 1 # 0} |-> 1]
  BY DEF P!Poly
<1>5. {n \in {t} : 1 # 0} = {t}
  OBVIOUS
<1> QED
  BY <1>3, <1>4, <1>5

\* A generator, or zero.
LEMMA TakeRefines == Inv /\ Take => P!Take
<1> SUFFICES ASSUME Inv, Take
             PROVE  P!Take
  OBVIOUS
<1>1. task.call # "scale" /\ task' = task /\ x' = x /\ outcome' = <<"take", "ok">>
  BY DEF Take, Finish, Idle
<1>2. PICK gens \in Basis :
        \/ y' = Zero(Make(gens))
        \/ \E n \in 1 .. Cardinality(gens) : y' = Gen(Make(gens), n)
  BY DEF Take
<1> DEFINE m == Make(gens)
<1>3. IsModule(m) /\ Gens(m) = gens /\ Len(m) = Cardinality(gens)
  BY BasisAreGens, MakeFacts
<1> HIDE DEF m
<1>4. CASE y' = Zero(m)
  <2>1. IsValid(y') /\ \A g : At(y', g) = 0
    BY <1>3, <1>4, ZeroFacts
  <2> DEFINE e == y'
  <2>2. IsValid(e) /\ IsZero(e)
    BY <2>1, IsZeroMeans
  <2> HIDE DEF e
  <2>3. Polynomial(e) = P!O
    BY <2>2, ZeroPolynomial
  <2> QED
    BY <1>1, <2>3 DEF P!Take, P!Done, e
<1>5. CASE \E n \in 1 .. Cardinality(gens) : y' = Gen(m, n)
  <2>1. PICK n \in 1 .. Len(m) : y' = Gen(m, n)
    BY <1>3, <1>5
  <2> DEFINE e == Gen(m, n)
             t == m[n]
  <2>2. IsValid(e) /\ (\A g : At(e, g) = IF g = t THEN 1 ELSE 0) /\ t \in gens
    BY <1>3, GenFacts, ModuleFacts
  <2> HIDE DEF e, t
  <2>3. t \in Monomial
    BY <1>2, <2>2, BasisAreMonomials
  <2>4. Polynomial(e) = P!Poly({t}, LAMBDA h : 1)
    BY <2>2, PolynomialOfGen
  <2> QED
    BY <1>1, <2>1, <2>3, <2>4 DEF P!Take, P!Done, e
<1> QED
  BY <1>2, <1>4, <1>5 DEF m

LEMMA PlusIsAdd ==
  ASSUME NEW e, IsValid(e), NEW f, IsValid(f)
  PROVE  IsValid(Plus(e, f)) /\ Polynomial(Plus(e, f)) = P!Add(Polynomial(e), Polynomial(f))
<1> DEFINE s == Plus(e, f)
<1>1. IsValid(s) /\ SumsTo(s, e, f)
  BY PlusFacts DEF SumsTo
<1> HIDE DEF s
<1>2. P!Add(Polynomial(e), Polynomial(f)) = Polynomial(s)
  BY <1>1, AddIsSum
<1> QED
  BY <1>1, <1>2 DEF s

LEMMA MinusIsScale ==
  ASSUME NEW e, IsValid(e)
  PROVE  IsValid(Minus(e)) /\ Polynomial(Minus(e)) = P!Scale(Polynomial(e), -1)
<1> DEFINE s == Minus(e)
<1>1. IsValid(s) /\ \A g : At(s, g) = - At(e, g)
  BY MinusFacts
<1> HIDE DEF s
<1>2. \A i \in Int : -i = i * (-1)
  OBVIOUS
<1>3. \A g : At(s, g) = At(e, g) * (-1)
  BY <1>1, <1>2, AtFacts
<1>4. -1 \in Int
  OBVIOUS
<1>5. P!Scale(Polynomial(e), -1) = Polynomial(s)
  BY <1>1, <1>3, <1>4, ScaleIsMultiple
<1> QED
  BY <1>1, <1>5 DEF s

LEMMA ProductIsMul ==
  ASSUME NEW e, IsValid(e), NEW f, IsValid(f)
  PROVE  Polynomial(Product(e, f)) = P!Mul(Polynomial(e), Polynomial(f))
<1> DEFINE s == Product(e, f)
<1>1. IsValid(s) /\ \A g : At(s, g) = Con(e, f, g)
  BY ProductFacts
<1> HIDE DEF s
<1>2. P!Mul(Polynomial(e), Polynomial(f)) = Polynomial(s)
  BY <1>1, MulIsProduct
<1> QED
  BY <1>2 DEF s

\* An operation that has a result for x.
LEMMA ComputeRefines ==
  ASSUME NEW op, NEW e, Compute(op, e)
  PROVE  /\ outcome' = <<op, "ok">> /\ y' = y
         /\ Polynomial(IF task.call = "scale" THEN task.before ELSE x) = Polynomial(x)
         /\ Polynomial(IF task.call = "scale" THEN task.before ELSE x)' = Polynomial(e)
BY DEF Compute, Finish, Idle

LEMMA AddToRefines == Inv /\ AddTo => P!AddTo
<1> SUFFICES ASSUME Inv, AddTo
             PROVE  P!AddTo
  OBVIOUS
<1>1. Polynomial(Plus(x, y)) = P!Add(Polynomial(x), Polynomial(y))
  BY PlusIsAdd DEF Inv
<1>2. Compute("+=", Plus(x, y))
  BY DEF AddTo
<1> QED
  BY <1>1, <1>2, ComputeRefines DEF P!AddTo, P!Done

LEMMA SubtractFromRefines == Inv /\ SubtractFrom => P!SubtractFrom
<1> SUFFICES ASSUME Inv, SubtractFrom
             PROVE  P!SubtractFrom
  OBVIOUS
<1>1. IsValid(Minus(y)) /\ Polynomial(Minus(y)) = P!Scale(Polynomial(y), -1)
  BY MinusIsScale DEF Inv
<1>2. Polynomial(Plus(x, Minus(y))) = P!Add(Polynomial(x), Polynomial(Minus(y)))
  BY <1>1, PlusIsAdd DEF Inv
<1>3. Compute("-=", Plus(x, Minus(y)))
  BY DEF SubtractFrom
<1> QED
  BY <1>1, <1>2, <1>3, ComputeRefines DEF P!SubtractFrom, P!Done

LEMMA MultiplyByRefines == Inv /\ MultiplyBy => P!MultiplyBy
<1> SUFFICES ASSUME Inv, MultiplyBy
             PROVE  P!MultiplyBy
  OBVIOUS
<1>1. Polynomial(Product(x, y)) = P!Mul(Polynomial(x), Polynomial(y))
  BY ProductIsMul DEF Inv
<1>2. Compute("*=", Product(x, y))
  BY DEF MultiplyBy
<1> QED
  BY <1>1, <1>2, ComputeRefines DEF P!MultiplyBy, P!Done

LEMMA NegateRefines == Inv /\ Negate => P!Negate
<1> SUFFICES ASSUME Inv, Negate
             PROVE  P!Negate
  OBVIOUS
<1>1. Polynomial(Minus(x)) = P!Scale(Polynomial(x), -1)
  BY MinusIsScale DEF Inv
<1>2. Compute("-", Minus(x))
  BY DEF Negate
<1> QED
  BY <1>1, <1>2, ComputeRefines DEF P!Negate, P!Done

LEMMA RewriteRefines == Inv /\ (SimplifyIt \/ PromoteIt) => P!Rewrite
<1> SUFFICES ASSUME Inv, SimplifyIt \/ PromoteIt
             PROVE  P!Rewrite
  OBVIOUS
<1>1. PICK e : IsValid(e) /\ (\A g : At(e, g) = At(x, g)) /\ Compute("rewrite", e)
  <2>1. CASE SimplifyIt
    BY <2>1, SimplifyFacts DEF Inv, SimplifyIt
  <2>2. CASE PromoteIt
    <3> DEFINE m == Span(x.module, y.module)
    <3>1. Together(x, y, m)
      BY CommonModule DEF Inv
    <3>2. Compute("rewrite", Promote(x, m))
      BY <2>2 DEF PromoteIt
    <3> HIDE DEF m
    <3> QED
      BY <3>1, <3>2 DEF Together
  <2> QED
    BY <2>1, <2>2
<1>2. Polynomial(e) = Polynomial(x)
  BY <1>1, SamePolynomial DEF Inv
<1>3. outcome' = <<"rewrite", "ok">> /\ y' = y
  BY <1>1, ComputeRefines
<1>4. /\ Polynomial(IF task.call = "scale" THEN task.before ELSE x) = Polynomial(x)
      /\ Polynomial(IF task.call = "scale" THEN task.before ELSE x)' = Polynomial(e)
  BY <1>1, ComputeRefines
<1> QED
  BY <1>2, <1>3, <1>4 DEF P!Rewrite, P!Done

\* A call that begins a loop, or a step of one, is not seen.
LEMMA LoopStutters ==
  Inv /\ (ScaleCall \/ ScaleStep \/ TrueDivideCall \/ TrueDivideStep) =>
    /\ Polynomial(IF task.call = "scale" THEN task.before ELSE x)'
         = Polynomial(IF task.call = "scale" THEN task.before ELSE x)
    /\ Polynomial(y)' = Polynomial(y) /\ outcome' = outcome
<1> SUFFICES ASSUME Inv, ScaleCall \/ ScaleStep \/ TrueDivideCall \/ TrueDivideStep
             PROVE  /\ (IF task.call = "scale" THEN task.before ELSE x)'
                         = IF task.call = "scale" THEN task.before ELSE x
                    /\ y' = y /\ outcome' = outcome
  OBVIOUS
<1>1. CASE ScaleCall
  BY <1>1 DEF ScaleCall, Idle
<1>2. CASE ScaleStep
  <2>1. task.call = "scale" /\ task' = [task EXCEPT !.at = @ + 1] /\ y' = y /\ outcome' = outcome
    BY <1>2 DEF ScaleStep
  <2>2. Scaling
    BY <2>1 DEF Inv, Idle, Dividing
  <2> DEFINE r == task.ratio
             k == task.at
             b == task.before
  <2>3. task = [call |-> "scale", ratio |-> r, at |-> k, before |-> b]
    BY <2>2 DEF Scaling
  <2> HIDE DEF r, k, b
  <2>4. task'.call = "scale" /\ task'.before = b /\ task.before = b
    BY <2>1, <2>3
  <2> QED
    BY <2>1, <2>4
<1>3. CASE TrueDivideCall
  <2>1. task'.call = "truediv" /\ x' = x /\ y' = y /\ outcome' = outcome /\ task.call # "scale"
    BY <1>3 DEF TrueDivideCall, Idle
  <2> QED
    BY <2>1
<1>4. CASE TrueDivideStep
  <2>1. task'.call = "truediv" /\ task.call # "scale"
    BY <1>4, DivideStepDoes DEF TrueDivideStep
  <2> QED
    BY <1>4, <2>1 DEF TrueDivideStep
<1> QED
  BY <1>1, <1>2, <1>3, <1>4

\* Elements of one module, coefficient by coefficient.
LEMMA CoefficientsOrZero ==
  ASSUME NEW e, IsValid(e), NEW f, IsValid(f), f.module = e.module, NEW g
  PROVE  \/ At(e, g) = 0 /\ At(f, g) = 0
         \/ \E n \in 1 .. Rank(e) : At(e, g) = e.coefficients[n] /\ At(f, g) = f.coefficients[n]
<1>1. CASE g \notin Gens(e.module)
  BY <1>1, AtFacts
<1>2. CASE g \in Gens(e.module)
  <2>1. PICK n \in 1 .. Rank(e) : e.module[n] = g
    BY <1>2, ModuleFacts DEF IsValid, Rank
  <2>2. At(e, e.module[n]) = e.coefficients[n]
    BY AtFacts
  <2>3. n \in 1 .. Rank(f)
    BY DEF Rank
  <2>4. At(f, f.module[n]) = f.coefficients[n]
    BY <2>3, AtFacts
  <2> QED
    BY <2>1, <2>2, <2>4
<1> QED
  BY <1>1, <1>2

\* e times c is f times d.
LEMMA ScalesAgree ==
  ASSUME NEW e, IsValid(e), NEW f, IsValid(f), NEW c \in Int, NEW d \in Int,
         \A g : At(e, g) * c = At(f, g) * d
  PROVE  P!Scale(Polynomial(e), c) = P!Scale(Polynomial(f), d)
<1> DEFINE p == Polynomial(e)
           q == Polynomial(f)
<1>1. DOMAIN p = Support(e) /\ \A g \in Support(e) : p[g] = At(e, g)
  BY PolynomialIs
<1>2. DOMAIN q = Support(f) /\ \A g \in Support(f) : q[g] = At(f, g)
  BY PolynomialIs
<1>3. (\A g : g \in Support(e) <=> At(e, g) # 0) /\ (\A g : g \in Support(f) <=> At(f, g) # 0)
  BY SupportFacts
<1> HIDE DEF p, q
<1>4. P!Scale(p, c) = [g \in {h \in DOMAIN p : p[h] * c # 0} |-> p[g] * c]
  BY DEF P!Scale, P!Poly
<1>5. P!Scale(q, d) = [g \in {h \in DOMAIN q : q[h] * d # 0} |-> q[g] * d]
  BY DEF P!Scale, P!Poly
<1>6. P!Scale(p, c) = [g \in {h \in Support(e) : At(e, h) * c # 0} |-> At(e, g) * c]
  BY <1>1, <1>4
<1>7. P!Scale(q, d) = [g \in {h \in Support(f) : At(f, h) * d # 0} |-> At(f, g) * d]
  BY <1>2, <1>5
<1>8. 0 * c = 0 /\ 0 * d = 0
  OBVIOUS
<1>9. {h \in Support(e) : At(e, h) * c # 0} = {h \in Support(f) : At(f, h) * d # 0}
  <2>1. ASSUME NEW h, At(e, h) * c # 0
        PROVE  h \in Support(e) /\ h \in Support(f) /\ At(f, h) * d # 0
    BY <1>3, <1>8, <2>1
  <2>2. ASSUME NEW h, At(f, h) * d # 0
        PROVE  h \in Support(e) /\ h \in Support(f) /\ At(e, h) * c # 0
    BY <1>3, <1>8, <2>2
  <2> QED
    BY <2>1, <2>2
<1>10. [g \in {h \in Support(f) : At(f, h) * d # 0} |-> At(e, g) * c]
         = [g \in {h \in Support(f) : At(f, h) * d # 0} |-> At(f, g) * d]
  OBVIOUS
<1> QED
  BY <1>6, <1>7, <1>9, <1>10 DEF p, q

LEMMA ScaleReturnRefines == Inv /\ ScaleReturn => P!ScaleBy(task.ratio.num, task.ratio.den)
<1> SUFFICES ASSUME Inv, ScaleReturn
             PROVE  P!ScaleBy(task.ratio.num, task.ratio.den)
  OBVIOUS
<1> DEFINE r == task.ratio
           b == task.before
<1>1. IsValid(x) /\ Scaling /\ task.at > Rank(x)
  BY DEF Inv, ScaleReturn, Idle, Dividing
<1>2. /\ task.call = "scale" /\ task'.call # "scale" /\ x' = x /\ y' = y /\ outcome' = <<"scale", "ok">>
  BY DEF ScaleReturn, Finish, Idle
<1>3. /\ r.num \in Int /\ r.den \in Int /\ IsValid(b) /\ b.module = x.module /\ Rank(x) \in Nat
      /\ task.at \in 1 .. Rank(x) + 1
  BY <1>1, RatioAssumption DEF Scaling, IsValid, IsModule, Rank
<1>4. \A n \in 1 .. Rank(x) : x.coefficients[n] * r.den = b.coefficients[n] * r.num
  <2>1. \A n \in 1 .. Rank(x) : n < task.at
    BY <1>1, <1>3
  <2> QED
    BY <1>1, <2>1 DEF Scaling
<1>5. r.den = 0 => Rank(x) = 0
  <2>1. task.at > 1 => r.den # 0
    BY <1>1 DEF Scaling
  <2> QED
    BY <1>1, <1>3, <2>1
<1> HIDE DEF r, b
<1>6. \A g : \/ At(x, g) = 0 /\ At(b, g) = 0
             \/ \E n \in 1 .. Rank(x) : At(x, g) = x.coefficients[n] /\ At(b, g) = b.coefficients[n]
  BY <1>1, <1>3, CoefficientsOrZero
<1>7. \A g : At(x, g) * r.den = At(b, g) * r.num
  <2>1. 0 * r.den = 0 /\ 0 * r.num = 0
    BY <1>3
  <2> QED
    BY <1>4, <1>6, <2>1
<1>8. P!Scale(Polynomial(x), r.den) = P!Scale(Polynomial(b), r.num)
  BY <1>1, <1>3, <1>7, ScalesAgree
<1>9. r.den = 0 => Polynomial(x) = Polynomial(b)
  <2> SUFFICES ASSUME r.den = 0
               PROVE  \A g : At(x, g) = At(b, g)
    BY <1>1, <1>3, SamePolynomial
  <2>1. \A n \in 1 .. Rank(x) : FALSE
    BY <1>5
  <2> QED
    BY <1>6, <2>1
<1>10. /\ Polynomial(IF task.call = "scale" THEN task.before ELSE x) = Polynomial(b)
       /\ Polynomial(IF task.call = "scale" THEN task.before ELSE x)' = Polynomial(x)
  BY <1>2 DEF b
<1> QED
  BY <1>2, <1>8, <1>9, <1>10 DEF P!ScaleBy, P!Done, r

\* The coefficient a of the scaled element where there was b before.
Scaled(a, b, r) == a \in {b, b * r.num} \/ a * r.den = b * r.num

\* A scaling that throws, in terms of the coefficients.
LEMMA ThrowsInCoefficients ==
  ASSUME NEW e, IsValid(e), NEW f, IsValid(f), f.module = e.module, NEW r,
         r.den = 0 \/ \E n \in 1 .. Rank(e) : e.coefficients[n] # 0 /\ ~IsMultiple(e.coefficients[n] * r.num, r.den),
         \A n \in 1 .. Rank(e) : Scaled(f.coefficients[n], e.coefficients[n], r)
  PROVE  /\ r.den = 0 \/ \E m \in DOMAIN Polynomial(e) : ~P!IsMultiple(Polynomial(e)[m] * r.num, r.den)
         /\ \A m : \/ P!Coeff(Polynomial(f), m)
                        \in {P!Coeff(Polynomial(e), m), P!Coeff(Polynomial(e), m) * r.num}
                   \/ P!Coeff(Polynomial(f), m) * r.den = P!Coeff(Polynomial(e), m) * r.num
<1> DEFINE p == Polynomial(e)
           q == Polynomial(f)
<1>1. DOMAIN p = Support(e) /\ (\A g \in Support(e) : p[g] = At(e, g)) /\ (\A g : g \in Support(e) <=> At(e, g) # 0)
  BY PolynomialIs, SupportFacts
<1>2. \A g : P!Coeff(p, g) = At(e, g)
  BY CoeffIsAt
<1>3. \A g : P!Coeff(q, g) = At(f, g)
  BY CoeffIsAt
<1> HIDE DEF p, q
<1>4. r.den = 0 \/ \E m \in DOMAIN p : ~P!IsMultiple(p[m] * r.num, r.den)
  <2> SUFFICES ASSUME NEW n \in 1 .. Rank(e), e.coefficients[n] # 0, ~IsMultiple(e.coefficients[n] * r.num, r.den)
               PROVE  \E m \in DOMAIN p : ~P!IsMultiple(p[m] * r.num, r.den)
    OBVIOUS
  <2> DEFINE m == e.module[n]
  <2>1. At(e, m) = e.coefficients[n]
    BY AtFacts
  <2> HIDE DEF m
  <2>2. m \in DOMAIN p /\ p[m] = e.coefficients[n]
    BY <1>1, <2>1
  <2>3. ~P!IsMultiple(p[m] * r.num, r.den)
    BY <2>2 DEF IsMultiple, P!IsMultiple
  <2> QED
    BY <2>2, <2>3
<1>5. ASSUME NEW m
      PROVE  Scaled(P!Coeff(q, m), P!Coeff(p, m), r)
  <2>1. \/ At(e, m) = 0 /\ At(f, m) = 0
        \/ \E n \in 1 .. Rank(e) : At(e, m) = e.coefficients[n] /\ At(f, m) = f.coefficients[n]
    BY CoefficientsOrZero
  <2>2. Scaled(At(f, m), At(e, m), r)
    <3>1. Scaled(0, 0, r)
      BY DEF Scaled
    <3> QED
      BY <2>1, <3>1
  <2> QED
    BY <1>2, <1>3, <2>2
<1> QED
  BY <1>4, <1>5 DEF p, q, Scaled

LEMMA ScaleByZeroRefines == Inv /\ ScaleByZero => P!ScaleByThrows(task.ratio.num, task.ratio.den)
<1> SUFFICES ASSUME Inv, ScaleByZero
             PROVE  P!ScaleByThrows(task.ratio.num, task.ratio.den)
  OBVIOUS
<1> DEFINE r == task.ratio
           b == task.before
<1>1. IsValid(x) /\ Scaling /\ r.den = 0
  BY DEF Inv, ScaleByZero, Idle, Dividing
<1>2. /\ task.call = "scale" /\ task'.call # "scale" /\ x' = x /\ y' = y /\ outcome' = <<"scale", "throws">>
  BY DEF ScaleByZero, Finish, Idle
<1>3. IsValid(b) /\ b.module = x.module /\ Rank(b) = Rank(x) /\ task.at \in 1 .. Rank(x) + 1 /\ Rank(x) \in Nat
  BY <1>1 DEF Scaling, IsValid, IsModule, Rank
<1>4. \A n \in 1 .. Rank(x) : x.coefficients[n] = b.coefficients[n]
  <2>1. task.at > 1 => r.den # 0
    BY <1>1 DEF Scaling
  <2>2. \A n \in 1 .. Rank(x) : n >= task.at
    BY <1>1, <1>3, <2>1
  <2> QED
    BY <1>1, <2>2 DEF Scaling
<1> HIDE DEF r, b
<1>5. \A n \in 1 .. Rank(b) : Scaled(x.coefficients[n], b.coefficients[n], r)
  BY <1>3, <1>4 DEF Scaled
<1>6. \A m : \/ P!Coeff(Polynomial(x), m)
                  \in {P!Coeff(Polynomial(b), m), P!Coeff(Polynomial(b), m) * r.num}
             \/ P!Coeff(Polynomial(x), m) * r.den = P!Coeff(Polynomial(b), m) * r.num
  BY <1>1, <1>3, <1>5, ThrowsInCoefficients
<1>7. /\ Polynomial(IF task.call = "scale" THEN task.before ELSE x) = Polynomial(b)
      /\ Polynomial(IF task.call = "scale" THEN task.before ELSE x)' = Polynomial(x)
  BY <1>2 DEF b
<1> QED
  BY <1>1, <1>2, <1>6, <1>7 DEF P!ScaleByThrows, r

LEMMA ScaleThrowsRefines == Inv /\ ScaleThrows => P!ScaleByThrows(task.ratio.num, task.ratio.den)
<1> SUFFICES ASSUME Inv, ScaleThrows
             PROVE  P!ScaleByThrows(task.ratio.num, task.ratio.den)
  OBVIOUS
<1> DEFINE r == task.ratio
           b == task.before
           k == task.at
           a == x.coefficients[k] * r.num
           z == x'
<1>1. IsValid(x) /\ Scaling
  BY DEF Inv, ScaleThrows, Idle, Dividing
<1>2. /\ task.call = "scale" /\ task'.call # "scale" /\ y' = y /\ outcome' = <<"scale", "throws">>
  BY DEF ScaleThrows, Finish, Idle
<1>3. /\ IsValid(b) /\ b.module = x.module /\ Rank(b) = Rank(x) /\ k \in 1 .. Rank(x) /\ Rank(x) \in Nat
      /\ r.num \in Int /\ r.den \in Int /\ r.den # 0
  BY <1>1, RatioAssumption DEF Scaling, ScaleThrows, IsValid, IsModule, Rank
<1>4. /\ \A n \in 1 .. Rank(x) : n < k => x.coefficients[n] * r.den = b.coefficients[n] * r.num
      /\ \A n \in 1 .. Rank(x) : n >= k => x.coefficients[n] = b.coefficients[n]
  BY <1>1 DEF Scaling
<1>5. z = [x EXCEPT !.coefficients[k] = a] /\ ~IsMultiple(a, r.den)
  BY DEF ScaleThrows
<1>6. x.coefficients[k] = b.coefficients[k] /\ a = b.coefficients[k] * r.num
  <2>1. k >= k
    BY <1>3
  <2> QED
    BY <1>3, <1>4, <2>1
<1>7. b.coefficients[k] \in Int /\ a \in Int
  <2>1. b.coefficients[k] \in Int
    BY <1>3 DEF IsValid, AreCoefficients, Rank
  <2> QED
    BY <1>3, <1>6, <2>1
<1> HIDE DEF r, b, k, a, z
<1>8. /\ IsValid(z) /\ z.module = x.module /\ z.coefficients[k] = a
      /\ \A n \in 1 .. Rank(x) : n # k => z.coefficients[n] = x.coefficients[n]
  BY <1>1, <1>3, <1>5, <1>7, OneCoefficient
<1>9. b.coefficients[k] # 0 /\ ~IsMultiple(b.coefficients[k] * r.num, r.den)
  <2>1. 0 * r.num = 0
    BY <1>3
  <2>2. IsMultiple(0, r.den)
    BY <1>3 DEF IsMultiple
  <2> QED
    BY <1>5, <1>6, <2>1, <2>2
<1>10. ASSUME NEW n \in 1 .. Rank(b)
       PROVE  Scaled(z.coefficients[n], b.coefficients[n], r)
  <2>1. CASE n = k
    BY <1>6, <1>8, <2>1 DEF Scaled
  <2>2. CASE n # k
    <3>1. n < k \/ n >= k
      BY <1>3
    <3> QED
      BY <1>3, <1>4, <1>8, <2>2, <3>1 DEF Scaled
  <2> QED
    BY <2>1, <2>2
<1>11. k \in 1 .. Rank(b)
  BY <1>3
<1>12. z.module = b.module
  BY <1>3, <1>8
<1>13. r.den = 0 \/ \E n \in 1 .. Rank(b) : b.coefficients[n] # 0 /\ ~IsMultiple(b.coefficients[n] * r.num, r.den)
  BY <1>9, <1>11
<1>14. r.den = 0 \/ \E m \in DOMAIN Polynomial(b) : ~P!IsMultiple(Polynomial(b)[m] * r.num, r.den)
  BY <1>3, <1>8, <1>10, <1>12, <1>13, ThrowsInCoefficients
<1>15. \A m : \/ P!Coeff(Polynomial(z), m)
                   \in {P!Coeff(Polynomial(b), m), P!Coeff(Polynomial(b), m) * r.num}
              \/ P!Coeff(Polynomial(z), m) * r.den = P!Coeff(Polynomial(b), m) * r.num
  BY <1>3, <1>8, <1>10, <1>12, <1>13, ThrowsInCoefficients
<1>16. /\ Polynomial(IF task.call = "scale" THEN task.before ELSE x) = Polynomial(b)
       /\ Polynomial(IF task.call = "scale" THEN task.before ELSE x)' = Polynomial(z)
  BY <1>2 DEF b, z
<1> QED
  BY <1>2, <1>14, <1>15, <1>16 DEF P!ScaleByThrows, r

-----------------------------------------------------------------------------
\* A division that is not running, and one that is over.
LEMMA DivisionIsSeen ==
  ASSUME task.call # "scale", task'.call # "scale"
  PROVE  /\ Polynomial(IF task.call = "scale" THEN task.before ELSE x) = Polynomial(x)
         /\ Polynomial(IF task.call = "scale" THEN task.before ELSE x)' = Polynomial(x')
OBVIOUS

LEMMA TrueDivideThrowsRefines == Inv /\ TrueDivideThrows => P!TrueDivideThrows
<1> SUFFICES ASSUME Inv, TrueDivideThrows
             PROVE  P!TrueDivideThrows
  OBVIOUS
<1>1. /\ task.call # "scale" /\ task'.call # "scale" /\ x' = x /\ y' = y
      /\ outcome' = <<"truediv", "throws">> /\ IsZero(y)
  BY DEF TrueDivideThrows, Finish, Idle
<1>2. Polynomial(y) = P!O
  BY <1>1, ZeroPolynomial DEF Inv
<1> QED
  BY <1>1, <1>2, DivisionIsSeen DEF P!TrueDivideThrows

LEMMA TrueDivideByOneRefines == Inv /\ TrueDivideByOne => P!TrueDivide
<1> SUFFICES ASSUME Inv, TrueDivideByOne
             PROVE  P!TrueDivide
  OBVIOUS
<1>1. /\ task.call # "scale" /\ task'.call # "scale" /\ x' = x /\ y' = y
      /\ outcome' = <<"truediv", "ok">> /\ EqualInteger(y, 1)
  BY DEF TrueDivideByOne, Finish, Idle
<1>2. IsValid(x) /\ IsValid(y)
  BY DEF Inv
<1>3. IsTerm(y, 1, One)
  BY <1>1, <1>2, EqualIntegerMeans
<1>4. Polynomial(y) # P!O
  <2>1. At(y, One) = 1
    BY <1>3 DEF IsTerm
  <2>2. ~IsZero(y)
    BY <1>2, <2>1, IsZeroMeans
  <2> QED
    BY <1>2, <2>2, ZeroPolynomial
<1>5. P!Mul(Polynomial(x), Polynomial(y)) = Polynomial(x)
  <2>1. \A g : At(x, g) = Con(x, y, g)
    BY <1>2, <1>3, ConWithOne
  <2> QED
    BY <1>2, <2>1, MulIsProduct
<1> QED
  BY <1>1, <1>4, <1>5, DivisionIsSeen DEF P!TrueDivide, P!Done

\* What a division works on is what it has been asked for.
LEMMA DividesTheOperands ==
  ASSUME Inv, Dividing
  PROVE  /\ Polynomial(task.lhs) = Polynomial(x) /\ Polynomial(task.rhs) = Polynomial(y)
         /\ Polynomial(y) # P!O
<1>1. /\ IsValid(x) /\ IsValid(y) /\ IsValid(task.lhs) /\ IsValid(task.rhs) /\ ~IsZero(task.rhs)
      /\ (\A g : At(task.lhs, g) = At(x, g)) /\ (\A g : At(task.rhs, g) = At(y, g))
  BY DEF Inv, Dividing
<1>2. Polynomial(task.lhs) = Polynomial(x)
  BY <1>1, SamePolynomial
<1>3. Polynomial(task.rhs) = Polynomial(y)
  BY <1>1, SamePolynomial
<1>4. Polynomial(task.rhs) # P!O
  BY <1>1, ZeroPolynomial
<1> QED
  BY <1>2, <1>3, <1>4

LEMMA TrueDivideReturnRefines == Inv /\ TrueDivideReturn => P!TrueDivide
<1> SUFFICES ASSUME Inv, TrueDivideReturn
             PROVE  P!TrueDivide
  OBVIOUS
<1> DEFINE q == task.quotient
<1>1. /\ task.call # "scale" /\ task'.call # "scale" /\ x' = q /\ y' = y
      /\ outcome' = <<"truediv", "ok">> /\ IsZero(task.remainder)
  BY DEF TrueDivideReturn, Finish, Idle
<1>2. Dividing
  BY DEF Inv, TrueDivideReturn, Idle, Scaling
<1>3. /\ IsValid(task.lhs) /\ IsValid(task.rhs) /\ IsValid(task.remainder) /\ IsValid(q)
      /\ IsDivision(task.lhs, task.rhs, task.remainder, q)
  BY <1>2 DEF Dividing
<1> HIDE DEF q
<1>4. \A g : At(task.lhs, g) = Con(q, task.rhs, g)
  <2> SUFFICES ASSUME NEW g
               PROVE  At(task.lhs, g) = Con(q, task.rhs, g)
    OBVIOUS
  <2>1. At(task.remainder, g) = 0
    BY <1>1, <1>3, IsZeroMeans
  <2>2. Con(q, task.rhs, g) \in Int
    BY <1>3, ConIsInteger
  <2>3. At(task.lhs, g) = Con(q, task.rhs, g) + At(task.remainder, g)
    BY <1>3 DEF IsDivision
  <2> QED
    BY <2>1, <2>2, <2>3
<1>5. P!Mul(Polynomial(q), Polynomial(task.rhs)) = Polynomial(task.lhs)
  BY <1>3, <1>4, MulIsProduct
<1>6. P!Mul(Polynomial(q), Polynomial(y)) = Polynomial(x) /\ Polynomial(y) # P!O
  BY <1>2, <1>5, DividesTheOperands
<1> QED
  BY <1>1, <1>6, DivisionIsSeen DEF P!TrueDivide, P!Done

\* If division finds no next term, then no element times rhs is lhs.
LEMMA NoQuotient ==
  ASSUME Inv, TrueDivideNone, NEW s, IsValid(s)
  PROVE  \E g : At(x, g) # Con(s, y, g)
<1> SUFFICES ASSUME \A g : At(x, g) = Con(s, y, g)
             PROVE  FALSE
  OBVIOUS
<1>1. Dividing /\ ~IsZero(task.remainder) /\ ~TermExists
  BY DEF Inv, TrueDivideNone, Idle, Scaling
<1>2. /\ IsValid(task.lhs) /\ IsValid(task.rhs) /\ IsValid(task.remainder) /\ IsValid(task.quotient)
      /\ ~IsZero(task.rhs) /\ IsDivision(task.lhs, task.rhs, task.remainder, task.quotient)
      /\ IsValid(y)
  BY <1>1 DEF Dividing, Inv
<1>3. (\A g : At(task.lhs, g) = At(x, g)) /\ (\A g : At(task.rhs, g) = At(y, g))
  BY <1>1 DEF Dividing
<1>4. \A g : At(task.lhs, g) = Con(s, task.rhs, g)
  <2> SUFFICES ASSUME NEW g
               PROVE  At(task.lhs, g) = Con(s, task.rhs, g)
    OBVIOUS
  <2>1. Con(s, task.rhs, g) = Con(s, y, g)
    BY <1>2, <1>3, ConCongruent
  <2> QED
    BY <1>3, <2>1
<1>5. PICK e : IsValid(e) /\ \A g : At(task.remainder, g) = Con(e, task.rhs, g)
  BY <1>2, <1>4, RemainderIsMultiple
<1>6. /\ Divides(LeadingGen(task.rhs), LeadingGen(task.remainder))
      /\ Truncated(LeadingCoefficient(task.remainder), LeadingCoefficient(task.rhs)) * LeadingCoefficient(task.rhs)
           = LeadingCoefficient(task.remainder)
  BY <1>1, <1>2, <1>5, MultipleHasTerm
<1> QED
  BY <1>1, <1>6 DEF TermExists, TermCoefficient

LEMMA TrueDivideNoneRefines == Inv /\ TrueDivideNone => P!TrueDivideNone
<1> SUFFICES ASSUME Inv, TrueDivideNone
             PROVE  P!TrueDivideNone
  OBVIOUS
<1>1. /\ task.call # "scale" /\ task'.call # "scale" /\ x' = x /\ y' = y
      /\ outcome' = <<"truediv", "nullopt">>
  BY DEF TrueDivideNone, Finish, Idle
<1>2. Dividing
  BY DEF Inv, TrueDivideNone, Idle, Scaling
<1>3. Polynomial(y) # P!O
  BY <1>2, DividesTheOperands
<1> DEFINE p == Polynomial(x)
           q == Polynomial(y)
           monomials == {m \in Monomial :
                           /\ P!TotalDegree(m) <= P!Degree(p) - P!Degree(q)
                           /\ \A a \in DOMAIN m : m[a] <= P!DegreeIn(p, a) - P!DegreeIn(q, a)}
<1>4. IsValid(x) /\ IsValid(y)
  BY DEF Inv
<1>5. ASSUME NEW r, r \in P!Quotients(p, q)
      PROVE  FALSE
  <2>1. CASE p = P!O
    <3> DEFINE s == Zero(<<>>)
    <3>1. IsValid(s) /\ \A g : At(s, g) = 0
      BY ZeroModule
    <3> HIDE DEF s
    <3>2. \A g : Con(s, y, g) = 0
      BY <1>4, <3>1, ConOfZero
    <3>3. \A g : At(x, g) = 0
      BY <1>4, <2>1, ZeroPolynomial, IsZeroMeans
    <3>4. PICK g : At(x, g) # Con(s, y, g)
      BY <3>1, NoQuotient
    <3> QED
      BY <3>2, <3>3, <3>4
  <2>2. CASE p # P!O
    <3> DEFINE C == [monomials -> -QuotientBound .. QuotientBound]
    <3> HIDE DEF p, q
    <3>1. P!Quotients(p, q) = {t \in {[m \in {n \in monomials : c[n] # 0} |-> c[m]] : c \in C} : P!Mul(t, q) = p}
      BY <2>2 DEF P!Quotients, P!Poly
    <3>2. P!Mul(r, q) = p /\ \E c \in C : r = [m \in {n \in monomials : c[n] # 0} |-> c[m]]
      <4> HIDE DEF monomials, C
      <4> QED
        BY <1>5, <3>1
    <3> HIDE DEF monomials
    <3>3. PICK c \in C : r = [m \in {n \in monomials : c[n] # 0} |-> c[m]]
      BY <3>2
    <3> DEFINE S == {m \in monomials : c[m] # 0}
    <3>4. monomials \in SUBSET Monomial
      BY DEF monomials
    <3>5. S \in SUBSET Monomial
      BY <3>4
    <3>6. AreGens(S)
      BY <3>5, MonomialIsFinite, MonomialIsGen, FS_Subset DEF AreGens
    <3>7. \A m \in S : r[m] \in Int /\ r[m] # 0
      <4>1. \A m \in S : r[m] = c[m] /\ c[m] \in -QuotientBound .. QuotientBound /\ c[m] # 0
        BY <3>1, <3>3
      <4> QED
        BY <4>1, BoundAssumption
    <3>8. r = [m \in S |-> r[m]]
      BY <3>3
    <3> HIDE DEF S
    <3>9. PICK s : IsValid(s) /\ Polynomial(s) = r
      BY <3>6, <3>7, <3>8, PolynomialExists
    <3> DEFINE d == Product(s, y)
    <3>10. IsValid(d) /\ \A g : At(d, g) = Con(s, y, g)
      BY <1>4, <3>9, ProductFacts
    <3>11. Polynomial(d) = Polynomial(x)
      BY <1>4, <3>2, <3>9, ProductIsMul DEF p, q
    <3> HIDE DEF d
    <3>12. \A g : At(d, g) = At(x, g)
      BY <1>4, <3>10, <3>11, SamePolynomial
    <3>13. PICK g : At(x, g) # Con(s, y, g)
      BY <3>9, NoQuotient
    <3> QED
      BY <3>10, <3>12, <3>13
  <2> QED
    BY <2>1, <2>2
<1>6. P!Quotients(p, q) = {}
  <2> HIDE DEF p, q
  <2> QED
    BY <1>5
<1> QED
  BY <1>1, <1>3, <1>6, DivisionIsSeen DEF P!TrueDivideNone

LEMMA ScaledByRatio == Inv /\ (ScaleReturn \/ ScaleByZero \/ ScaleThrows) => task.ratio \in Ratio
BY DEF Inv, Idle, Dividing, Scaling, ScaleReturn, ScaleByZero, ScaleThrows

LEMMA RefineNext ==
  Inv /\ [Next]_vars => [P!Next]_<<Polynomial(IF task.call = "scale" THEN task.before ELSE x), Polynomial(y), outcome>>
<1> DEFINE seen == <<Polynomial(IF task.call = "scale" THEN task.before ELSE x), Polynomial(y), outcome>>
<1> SUFFICES ASSUME Inv, [Next]_vars
             PROVE  P!Next \/ UNCHANGED seen
  OBVIOUS
<1>1. CASE Take
  BY <1>1, TakeRefines DEF P!Next
<1>2. CASE TakeThrows
  BY <1>2, TakeThrowsRefines DEF P!Next
<1>3. CASE Exchange
  BY <1>3, ExchangeRefines DEF P!Next
<1>4. CASE AddTo
  BY <1>4, AddToRefines DEF P!Next
<1>5. CASE SubtractFrom
  BY <1>5, SubtractFromRefines DEF P!Next
<1>6. CASE MultiplyBy
  BY <1>6, MultiplyByRefines DEF P!Next
<1>7. CASE Negate
  BY <1>7, NegateRefines DEF P!Next
<1>8. CASE SimplifyIt \/ PromoteIt
  BY <1>8, RewriteRefines DEF P!Next
<1>9. CASE ScaleCall \/ ScaleStep \/ TrueDivideCall \/ TrueDivideStep
  BY <1>9, LoopStutters
<1>10. CASE ScaleReturn
  BY <1>10, ScaleReturnRefines, ScaledByRatio DEF P!Next
<1>11. CASE ScaleByZero
  BY <1>11, ScaleByZeroRefines, ScaledByRatio DEF P!Next
<1>12. CASE ScaleThrows
  BY <1>12, ScaleThrowsRefines, ScaledByRatio DEF P!Next
<1>13. CASE TrueDivideThrows
  BY <1>13, TrueDivideThrowsRefines DEF P!Next
<1>14. CASE TrueDivideByOne
  BY <1>14, TrueDivideByOneRefines DEF P!Next
<1>15. CASE TrueDivideNone
  BY <1>15, TrueDivideNoneRefines DEF P!Next
<1>16. CASE TrueDivideReturn
  BY <1>16, TrueDivideReturnRefines DEF P!Next
<1>17. CASE UNCHANGED vars
  BY <1>17 DEF vars
<1> QED
  BY <1>1, <1>2, <1>3, <1>4, <1>5, <1>6, <1>7, <1>8, <1>9, <1>10, <1>11, <1>12, <1>13, <1>14, <1>15, <1>16,
     <1>17 DEF Next, Loop

\* Elements, over whatever modules, behave like the polynomials that they stand
\* for: each operation has the result of the operation on polynomials, an exact
\* division finds a quotient whenever there is one, and a scaling that throws
\* half-way leaves coefficients that are old, new, or old times the numerator.
THEOREM ElementsArePolynomials == Spec => ImplementsPolynomials
<1>1. Init => P!Init
  BY RefineInit
<1>2. Inv /\ [Next]_vars => [P!Next]_P!vars
  BY RefineNext DEF P!vars
<1> QED
  BY <1>1, <1>2, InvAlways, PTL DEF Spec, P!Spec, ImplementsPolynomials
=============================================================================
