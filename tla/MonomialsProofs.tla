---------------------------- MODULE MonomialsProofs ----------------------------
(***************************************************************************)
(* Facts about finite sums, and from them about monomials: degrees add up, *)
(* multiplication and division are inverse to each other, and deglex is a  *)
(* strict total order that multiplication respects, whatever the ids that  *)
(* the factors are sorted by.                                              *)
(***************************************************************************)
EXTENDS Monomials, FiniteSetTheorems, TLAPS

-----------------------------------------------------------------------------
(* Sums over finite sets. *)

LEMMA Without ==
  ASSUME NEW T, NEW s \in SUBSET T, IsFiniteSet(s), NEW x \in s
  PROVE  s \ {x} \in SUBSET T /\ IsFiniteSet(s \ {x}) /\ Cardinality(s \ {x}) = Cardinality(s) - 1
<1>1. IsFiniteSet(s \ {x}) /\ Cardinality(s \ {x}) = Cardinality(s) - 1
  BY FS_RemoveElement
<1> QED
  BY <1>1

\* The values of w on the subsets of a set, added up as folds do.
SumIf(w, g, s) == IF s = {} THEN 0 ELSE LET x == CHOOSE y \in s : TRUE IN w[x] + g[s \ {x}]

Summing == INSTANCE RecursiveFunctions WITH
  Argument <- LAMBDA p : SUBSET p[2],
  Measure <- LAMBDA p, s : Cardinality(s),
  Value <- LAMBDA p, g, s : SumIf(p[1], g, s)

LEMMA FiniteInduct ==
  ASSUME NEW T, IsFiniteSet(T), NEW F, {} \in F,
         \A s \in SUBSET T : \A x \in T : s \in F /\ x \notin s => s \cup {x} \in F
  PROVE  T \in F
<1> DEFINE S == {n \in Nat : \A s \in SUBSET T : Cardinality(s) = n => s \in F}
<1>1. \A s \in SUBSET T : IsFiniteSet(s) /\ Cardinality(s) \in Nat /\ (Cardinality(s) = 0 <=> s = {})
  BY FS_Subset, FS_CardinalityType, FS_EmptySet
<1>2. 0 \in S
  BY <1>1
<1>3. ASSUME NEW n \in Nat, n \in S
      PROVE  n + 1 \in S
  <2> SUFFICES ASSUME NEW s \in SUBSET T, Cardinality(s) = n + 1
               PROVE  s \in F
    OBVIOUS
  <2>1. s # {} /\ IsFiniteSet(s)
    BY <1>1
  <2>2. PICK x : x \in s
    BY <2>1
  <2>3. s \ {x} \in SUBSET T /\ Cardinality(s \ {x}) = n
    <3>1. s \ {x} \in SUBSET T /\ Cardinality(s \ {x}) = Cardinality(s) - 1
      BY <2>1, <2>2, Without
    <3> QED
      BY <3>1
  <2>4. s \ {x} \in F
    BY <1>3, <2>3
  <2>5. (s \ {x}) \cup {x} = s /\ x \in T /\ x \notin s \ {x}
    BY <2>2
  <2>6. (s \ {x}) \cup {x} \in F
    BY <2>3, <2>4, <2>5
  <2> QED
    BY <2>5, <2>6
<1> HIDE DEF S
<1>4. \A n \in Nat : n \in S
  BY <1>2, <1>3, Summing!Induct
<1>5. T \in SUBSET T /\ Cardinality(T) \in S
  BY <1>1, <1>4
<1> QED
  BY <1>5 DEF S

\* The recursion of the folds that sum up the values of w on a set.
AddingUp(w, S, iter) ==
  iter = [s \in SUBSET S |->
            IF s = {} THEN 0 ELSE LET x == CHOOSE y \in s : TRUE IN w[x] + iter[s \ {x}]]

SumOn(w, S) == (CHOOSE iter : AddingUp(w, S, iter))[S]

LEMMA SumExistsOn ==
  ASSUME NEW S, IsFiniteSet(S), NEW w
  PROVE  \E iter : AddingUp(w, S, iter)
<1> DEFINE p == <<w, S>>
<1>1. \A s \in SUBSET S : IsFiniteSet(s) /\ Cardinality(s) \in Nat
  BY FS_Subset, FS_CardinalityType
<1>2. ASSUME NEW s \in SUBSET S, NEW g, NEW h, \A t \in SUBSET S : Cardinality(t) < Cardinality(s) => g[t] = h[t]
      PROVE  SumIf(w, g, s) = SumIf(w, h, s)
  <2>1. CASE s = {}
    BY <2>1 DEF SumIf
  <2>2. CASE s # {}
    <3> DEFINE x == CHOOSE y \in s : TRUE
    <3>1. x \in s
      BY <2>2
    <3>2. SumIf(w, g, s) = w[x] + g[s \ {x}] /\ SumIf(w, h, s) = w[x] + h[s \ {x}]
      BY <2>2 DEF SumIf
    <3> HIDE DEF x
    <3>3. s \ {x} \in SUBSET S /\ Cardinality(s \ {x}) = Cardinality(s) - 1
      BY <1>1, <3>1, Without
    <3>4. g[s \ {x}] = h[s \ {x}]
      BY <1>1, <1>2, <3>3
    <3> QED
      BY <3>2, <3>4
  <2> QED
    BY <2>1, <2>2
<1>3. p[1] = w /\ p[2] = S
  OBVIOUS
<1> HIDE DEF p
<1>4. Summing!Congruent(p)
  BY <1>2, <1>3 DEF Summing!Congruent
<1>5. \E f : f = [s \in SUBSET p[2] |-> SumIf(p[1], f, s)]
  BY <1>1, <1>3, <1>4, Summing!Exists
<1>6. \E f : f = [s \in SUBSET S |-> SumIf(w, f, s)]
  BY <1>3, <1>5
<1> QED
  BY <1>6 DEF AddingUp, SumIf

\* The values of w on S are integers.
IntegerOn(w, S) == \A x \in S : w[x] \in Int

\* v and w have the same values on a subset of S and T.
Agreeing(v, w, U, S, T) == U \subseteq S /\ U \subseteq T /\ \A x \in U : v[x] = w[x]

\* Sums do not depend on what they are computed along with.
LEMMA SumIsUnique ==
  ASSUME NEW S, IsFiniteSet(S), NEW T, IsFiniteSet(T), NEW w, NEW v,
         NEW g, AddingUp(w, S, g), NEW h, AddingUp(v, T, h),
         NEW U, Agreeing(w, v, U, S, T)
  PROVE  g[U] = h[U]
<1>0. U \subseteq S /\ U \subseteq T /\ \A x \in U : w[x] = v[x]
  BY DEF Agreeing
<1> DEFINE N == {n \in Nat : \A s \in SUBSET U : Cardinality(s) = n => g[s] = h[s]}
<1>1. \A s \in SUBSET U : IsFiniteSet(s) /\ Cardinality(s) \in Nat /\ (Cardinality(s) = 0 <=> s = {})
  <2>1. IsFiniteSet(U)
    BY <1>0, FS_Subset
  <2> QED
    BY <2>1, FS_Subset, FS_CardinalityType, FS_EmptySet
<1>2. 0 \in N
  <2>1. g[{}] = 0 /\ h[{}] = 0
    BY DEF AddingUp
  <2> QED
    BY <1>1, <2>1
<1>3. ASSUME NEW n \in Nat, n \in N
      PROVE  n + 1 \in N
  <2> SUFFICES ASSUME NEW s \in SUBSET U, Cardinality(s) = n + 1
               PROVE  g[s] = h[s]
    OBVIOUS
  <2>1. s # {} /\ IsFiniteSet(s)
    BY <1>1
  <2> DEFINE x == CHOOSE y \in s : TRUE
  <2>2. x \in s
    BY <2>1
  <2>3. g[s] = w[x] + g[s \ {x}] /\ h[s] = v[x] + h[s \ {x}]
    <3>1. s \in SUBSET S /\ s \in SUBSET T
      BY <1>0
    <3> QED
      BY <2>1, <3>1 DEF AddingUp
  <2> HIDE DEF x
  <2>4. s \ {x} \in SUBSET U /\ Cardinality(s \ {x}) = n
    BY <2>1, <2>2, Without
  <2>5. g[s \ {x}] = h[s \ {x}]
    BY <1>3, <2>4
  <2> QED
    BY <1>0, <2>2, <2>3, <2>5
<1> HIDE DEF N
<1>4. \A n \in Nat : n \in N
  BY <1>2, <1>3, Summing!Induct
<1>5. U \in SUBSET U /\ Cardinality(U) \in N
  BY <1>1, <1>4
<1> QED
  BY <1>5 DEF N

\* Whatever satisfies the recursion has the sum.
LEMMA SumOfIter ==
  ASSUME NEW S, IsFiniteSet(S), NEW w, NEW g, AddingUp(w, S, g), NEW T, T \subseteq S
  PROVE  g[T] = SumOn(w, T)
<1>1. IsFiniteSet(T)
  BY FS_Subset
<1>2. AddingUp(w, T, CHOOSE iter : AddingUp(w, T, iter))
  BY <1>1, SumExistsOn
<1> DEFINE h == CHOOSE iter : AddingUp(w, T, iter)
<1> HIDE DEF h
<1>3. AddingUp(w, T, h)
  BY <1>2 DEF h
<1>4. g[T] = h[T]
  <2>1. Agreeing(w, w, T, S, T)
    BY DEF Agreeing
  <2> QED
    BY <1>1, <1>3, <2>1, SumIsUnique
<1> QED
  BY <1>4 DEF h, SumOn

LEMMA SumCongruent ==
  ASSUME NEW S, IsFiniteSet(S), NEW v, NEW w, \A x \in S : v[x] = w[x]
  PROVE  SumOn(v, S) = SumOn(w, S)
<1>1. PICK g : AddingUp(v, S, g)
  BY SumExistsOn
<1>2. PICK h : AddingUp(w, S, h)
  BY SumExistsOn
<1>3. g[S] = h[S]
  <2>1. Agreeing(v, w, S, S, S)
    BY DEF Agreeing
  <2> QED
    BY <1>1, <1>2, <2>1, SumIsUnique
<1>4. g[S] = SumOn(v, S) /\ h[S] = SumOn(w, S)
  BY <1>1, <1>2, SumOfIter
<1> QED
  BY <1>3, <1>4

LEMMA SumOfEmpty == \A w : SumOn(w, {}) = 0
<1> SUFFICES ASSUME NEW w
             PROVE  SumOn(w, {}) = 0
  OBVIOUS
<1>1. IsFiniteSet({})
  BY FS_EmptySet
<1>2. PICK g : AddingUp(w, {}, g)
  BY <1>1, SumExistsOn
<1>3. g[{}] = 0
  BY <1>2 DEF AddingUp
<1> QED
  BY <1>1, <1>2, <1>3, SumOfIter

\* The element that is chosen comes off.
LEMMA SumOfChosen ==
  ASSUME NEW S, IsFiniteSet(S), S # {}, NEW w
  PROVE  \E x \in S : SumOn(w, S) = w[x] + SumOn(w, S \ {x})
<1> DEFINE x == CHOOSE y \in S : TRUE
<1>1. x \in S
  OBVIOUS
<1>2. PICK g : AddingUp(w, S, g)
  BY SumExistsOn
<1>3. g[S] = w[x] + g[S \ {x}]
  BY <1>2 DEF AddingUp
<1> HIDE DEF x
<1>4. S \ {x} \subseteq S
  OBVIOUS
<1>5. g[S] = SumOn(w, S) /\ g[S \ {x}] = SumOn(w, S \ {x})
  BY <1>2, <1>4, SumOfIter
<1> QED
  BY <1>1, <1>3, <1>5

LEMMA SumIsInteger ==
  ASSUME NEW S, IsFiniteSet(S), NEW w, IntegerOn(w, S)
  PROVE  SumOn(w, S) \in Int
<1> DEFINE N == {n \in Nat : \A s \in SUBSET S : Cardinality(s) = n => SumOn(w, s) \in Int}
<1>1. \A s \in SUBSET S : IsFiniteSet(s) /\ Cardinality(s) \in Nat /\ (Cardinality(s) = 0 <=> s = {})
  BY FS_Subset, FS_CardinalityType, FS_EmptySet
<1>2. 0 \in N
  BY <1>1, SumOfEmpty
<1>3. ASSUME NEW n \in Nat, n \in N
      PROVE  n + 1 \in N
  <2> SUFFICES ASSUME NEW s \in SUBSET S, Cardinality(s) = n + 1
               PROVE  SumOn(w, s) \in Int
    OBVIOUS
  <2>1. s # {} /\ IsFiniteSet(s)
    BY <1>1
  <2>2. PICK x \in s : SumOn(w, s) = w[x] + SumOn(w, s \ {x})
    BY <2>1, SumOfChosen
  <2>3. s \ {x} \in SUBSET S /\ Cardinality(s \ {x}) = n
    <3>1. s \ {x} \in SUBSET S /\ Cardinality(s \ {x}) = Cardinality(s) - 1
      BY <1>1, <2>1, Without
    <3> QED
      BY <3>1
  <2>4. SumOn(w, s \ {x}) \in Int
    BY <1>3, <2>3
  <2>5. w[x] \in Int
    BY DEF IntegerOn
  <2> QED
    BY <2>2, <2>4, <2>5
<1> HIDE DEF N
<1>4. \A n \in Nat : n \in N
  BY <1>2, <1>3, Summing!Induct
<1>5. S \in SUBSET S /\ Cardinality(S) \in N
  BY <1>1, <1>4
<1> QED
  BY <1>5 DEF N

\* Any element comes off: the order does not matter.
LEMMA SumOfRest ==
  ASSUME NEW S, IsFiniteSet(S), NEW w, IntegerOn(w, S)
  PROVE  \A x \in S : SumOn(w, S) = w[x] + SumOn(w, S \ {x})
<1> DEFINE N == {n \in Nat : \A s \in SUBSET S : Cardinality(s) = n =>
                               \A x \in s : SumOn(w, s) = w[x] + SumOn(w, s \ {x})}
<1>1. \A s \in SUBSET S : IsFiniteSet(s) /\ Cardinality(s) \in Nat /\ (Cardinality(s) = 0 <=> s = {})
  BY FS_Subset, FS_CardinalityType, FS_EmptySet
<1>2. 0 \in N
  BY <1>1
<1>3. \A s \in SUBSET S : SumOn(w, s) \in Int
  <2> SUFFICES ASSUME NEW s \in SUBSET S
               PROVE  SumOn(w, s) \in Int
    OBVIOUS
  <2>1. IsFiniteSet(s) /\ IntegerOn(w, s)
    BY <1>1 DEF IntegerOn
  <2> QED
    BY <2>1, SumIsInteger
<1>4. ASSUME NEW n \in Nat, n \in N
      PROVE  n + 1 \in N
  <2> SUFFICES ASSUME NEW s \in SUBSET S, Cardinality(s) = n + 1, NEW x \in s
               PROVE  SumOn(w, s) = w[x] + SumOn(w, s \ {x})
    OBVIOUS
  <2>1. PICK c \in s : SumOn(w, s) = w[c] + SumOn(w, s \ {c})
    BY <1>1, SumOfChosen
  <2>2. CASE x = c
    BY <2>1, <2>2
  <2>3. CASE x # c
    <3> DEFINE r == (s \ {c}) \ {x}
    <3>1. /\ s \ {c} \in SUBSET S /\ Cardinality(s \ {c}) = n /\ x \in s \ {c}
          /\ s \ {x} \in SUBSET S /\ Cardinality(s \ {x}) = n /\ c \in s \ {x}
      <4>1. IsFiniteSet(s) /\ Cardinality(s) = n + 1 /\ s \in SUBSET S /\ c \in s /\ x \in s
        BY <1>1
      <4>2. s \ {c} \in SUBSET S /\ Cardinality(s \ {c}) = Cardinality(s) - 1
        BY <4>1, Without
      <4>3. s \ {x} \in SUBSET S /\ Cardinality(s \ {x}) = Cardinality(s) - 1
        BY <4>1, Without
      <4> QED
        BY <2>3, <4>1, <4>2, <4>3
    <3>2. r = (s \ {x}) \ {c} /\ r \in SUBSET S
      OBVIOUS
    <3>3. SumOn(w, s \ {c}) = w[x] + SumOn(w, r)
      BY <1>4, <3>1
    <3>4. SumOn(w, s \ {x}) = w[c] + SumOn(w, (s \ {x}) \ {c})
      BY <1>4, <3>1
    <3> HIDE DEF r
    <3>5. SumOn(w, r) \in Int /\ w[x] \in Int /\ w[c] \in Int
      BY <1>3, <3>2 DEF IntegerOn
    <3>6. SumOn(w, s \ {x}) = w[c] + SumOn(w, r)
      BY <3>2, <3>4
    <3> QED
      BY <2>1, <3>3, <3>5, <3>6
  <2> QED
    BY <2>2, <2>3
<1> HIDE DEF N
<1>5. \A n \in Nat : n \in N
  BY <1>2, <1>4, Summing!Induct
<1>6. S \in SUBSET S /\ Cardinality(S) \in N
  BY <1>1, <1>5
<1> QED
  BY <1>6 DEF N

LEMMA SumWithOne ==
  ASSUME NEW S, IsFiniteSet(S), NEW x, x \notin S, NEW w, IntegerOn(w, S \cup {x})
  PROVE  SumOn(w, S \cup {x}) = w[x] + SumOn(w, S)
<1>1. IsFiniteSet(S \cup {x}) /\ (S \cup {x}) \ {x} = S /\ x \in S \cup {x}
  BY FS_AddElement
<1>2. SumOn(w, S \cup {x}) = w[x] + SumOn(w, (S \cup {x}) \ {x})
  BY <1>1, SumOfRest
<1> QED
  BY <1>1, <1>2

\* On S, the values of w are sums of those of u and v.
AddsOn(u, v, w, S) ==
  IntegerOn(u, S) /\ IntegerOn(v, S) /\ IntegerOn(w, S) /\ \A x \in S : w[x] = u[x] + v[x]

LEMMA SumAddsOn ==
  ASSUME NEW S, IsFiniteSet(S), NEW u, NEW v, NEW w, AddsOn(u, v, w, S)
  PROVE  SumOn(w, S) = SumOn(u, S) + SumOn(v, S)
<1> DEFINE F == {s \in SUBSET S : SumOn(w, s) = SumOn(u, s) + SumOn(v, s)}
<1>1. {} \in F
  BY SumOfEmpty
<1>2. ASSUME NEW s \in SUBSET S, NEW x \in S, s \in F, x \notin s
      PROVE  s \cup {x} \in F
  <2>1. IsFiniteSet(s) /\ s \cup {x} \in SUBSET S
    BY FS_Subset
  <2>2. /\ IntegerOn(u, s) /\ IntegerOn(v, s) /\ IntegerOn(w, s)
        /\ IntegerOn(u, s \cup {x}) /\ IntegerOn(v, s \cup {x}) /\ IntegerOn(w, s \cup {x})
        /\ w[x] = u[x] + v[x] /\ u[x] \in Int /\ v[x] \in Int
    BY <2>1 DEF AddsOn, IntegerOn
  <2>3. SumOn(u, s \cup {x}) = u[x] + SumOn(u, s)
    BY <1>2, <2>1, <2>2, SumWithOne
  <2>4. SumOn(v, s \cup {x}) = v[x] + SumOn(v, s)
    BY <1>2, <2>1, <2>2, SumWithOne
  <2>5. SumOn(w, s \cup {x}) = w[x] + SumOn(w, s)
    BY <1>2, <2>1, <2>2, SumWithOne
  <2>6. SumOn(u, s) \in Int /\ SumOn(v, s) \in Int
    BY <2>1, <2>2, SumIsInteger
  <2>7. SumOn(w, s) = SumOn(u, s) + SumOn(v, s)
    BY <1>2
  <2>8. SumOn(w, s \cup {x}) = SumOn(u, s \cup {x}) + SumOn(v, s \cup {x})
    BY <2>2, <2>3, <2>4, <2>5, <2>6, <2>7
  <2> QED
    BY <2>1, <2>8
<1> HIDE DEF F
<1>3. S \in F
  BY <1>1, <1>2, FiniteInduct
<1> QED
  BY <1>3 DEF F

LEMMA SumIsZero ==
  ASSUME NEW S, IsFiniteSet(S), NEW w, \A x \in S : w[x] = 0
  PROVE  SumOn(w, S) = 0
<1>1. AddsOn(w, w, w, S) /\ IntegerOn(w, S)
  BY DEF AddsOn, IntegerOn
<1>2. SumOn(w, S) = SumOn(w, S) + SumOn(w, S)
  BY <1>1, SumAddsOn
<1> DEFINE s == SumOn(w, S)
<1>3. s \in Int
  BY <1>1, SumIsInteger
<1>4. s = s + s
  BY <1>2
<1> HIDE DEF s
<1>5. s = 0
  BY <1>3, <1>4
<1> QED
  BY <1>5 DEF s

\* The values of v on S are those of w, times c.
ScaledOn(v, w, c, S) == c \in Int /\ IntegerOn(w, S) /\ \A x \in S : v[x] = c * w[x]

LEMMA SumScales ==
  ASSUME NEW S, IsFiniteSet(S), NEW v, NEW w, NEW c, ScaledOn(v, w, c, S)
  PROVE  SumOn(v, S) = c * SumOn(w, S)
<1> DEFINE F == {s \in SUBSET S : SumOn(v, s) = c * SumOn(w, s)}
<1>0. c \in Int /\ IntegerOn(w, S) /\ IntegerOn(v, S) /\ \A x \in S : v[x] = c * w[x]
  <2>1. \A x \in S : v[x] \in Int
    BY DEF ScaledOn, IntegerOn
  <2> QED
    BY <2>1 DEF ScaledOn, IntegerOn
<1>1. {} \in F
  BY <1>0, SumOfEmpty
<1>2. ASSUME NEW s \in SUBSET S, NEW x \in S, s \in F, x \notin s
      PROVE  s \cup {x} \in F
  <2>1. IsFiniteSet(s) /\ s \cup {x} \in SUBSET S
    BY FS_Subset
  <2>2. /\ IntegerOn(w, s) /\ IntegerOn(w, s \cup {x}) /\ IntegerOn(v, s \cup {x})
        /\ v[x] = c * w[x] /\ w[x] \in Int
    BY <1>0, <2>1 DEF IntegerOn
  <2>3. SumOn(w, s \cup {x}) = w[x] + SumOn(w, s)
    BY <1>2, <2>1, <2>2, SumWithOne
  <2>4. SumOn(v, s \cup {x}) = v[x] + SumOn(v, s)
    BY <1>2, <2>1, <2>2, SumWithOne
  <2>5. SumOn(w, s) \in Int
    BY <2>1, <2>2, SumIsInteger
  <2>6. SumOn(v, s) = c * SumOn(w, s)
    BY <1>2
  <2>7. c * (w[x] + SumOn(w, s)) = c * w[x] + c * SumOn(w, s)
    BY <1>0, <2>2, <2>5
  <2>8. SumOn(v, s \cup {x}) = c * SumOn(w, s \cup {x})
    BY <2>2, <2>3, <2>4, <2>6, <2>7
  <2> QED
    BY <2>1, <2>8
<1> HIDE DEF F
<1>3. S \in F
  BY <1>1, <1>2, FiniteInduct
<1> QED
  BY <1>3 DEF F

\* Zeros do not count.
LEMMA SumOfSupport ==
  ASSUME NEW S, IsFiniteSet(S), NEW w, IntegerOn(w, S), NEW T, T \subseteq S, \A x \in S : x \notin T => w[x] = 0
  PROVE  SumOn(w, S) = SumOn(w, T)
<1> DEFINE F == {s \in SUBSET S : SumOn(w, s) = SumOn(w, s \cap T)}
<1>1. {} \in F
  <2>1. {} \cap T = {}
    OBVIOUS
  <2> QED
    BY <2>1
<1>2. ASSUME NEW s \in SUBSET S, NEW x \in S, s \in F, x \notin s
      PROVE  s \cup {x} \in F
  <2>1. IsFiniteSet(s) /\ s \cup {x} \in SUBSET S /\ IsFiniteSet(s \cap T)
    BY FS_Subset
  <2>2. IntegerOn(w, s \cup {x}) /\ IntegerOn(w, (s \cap T) \cup {x}) /\ IntegerOn(w, s)
    BY <2>1 DEF IntegerOn
  <2>3. SumOn(w, s \cup {x}) = w[x] + SumOn(w, s)
    BY <1>2, <2>1, <2>2, SumWithOne
  <2>4. SumOn(w, s) \in Int
    BY <2>1, <2>2, SumIsInteger
  <2>5. SumOn(w, s) = SumOn(w, s \cap T)
    BY <1>2
  <2>6. CASE x \in T
    <3>1. (s \cup {x}) \cap T = (s \cap T) \cup {x} /\ x \notin s \cap T
      BY <1>2, <2>6
    <3>2. SumOn(w, (s \cap T) \cup {x}) = w[x] + SumOn(w, s \cap T)
      BY <2>1, <2>2, <3>1, SumWithOne
    <3> QED
      BY <2>1, <2>3, <2>5, <3>1, <3>2
  <2>7. CASE x \notin T
    <3>1. (s \cup {x}) \cap T = s \cap T
      BY <2>7
    <3>2. w[x] = 0
      BY <2>7
    <3>3. SumOn(w, s \cup {x}) = SumOn(w, s \cap T)
      BY <2>3, <2>4, <2>5, <3>2
    <3>4. SumOn(w, s \cup {x}) = SumOn(w, (s \cup {x}) \cap T)
      BY <3>1, <3>3
    <3> QED
      BY <2>1, <3>4
  <2> QED
    BY <2>6, <2>7
<1> HIDE DEF F
<1>3. S \in F
  BY <1>1, <1>2, FiniteInduct
<1>4. S \cap T = T
  OBVIOUS
<1> QED
  BY <1>3, <1>4 DEF F

\* h takes S to T, one to one, and the values of v to those of w.
Reindexes(h, S, T, v, w) ==
  /\ \A x \in S : h[x] \in T /\ v[x] = w[h[x]]
  /\ \A x, y \in S : h[x] = h[y] => x = y
  /\ \A y \in T : \E x \in S : h[x] = y

LEMMA SumReindexed ==
  ASSUME NEW S, IsFiniteSet(S), NEW T, IsFiniteSet(T), NEW v, NEW w, IntegerOn(w, T), NEW h, Reindexes(h, S, T, v, w)
  PROVE  SumOn(v, S) = SumOn(w, T)
<1> DEFINE Image(s) == {h[x] : x \in s}
           F == {s \in SUBSET S : SumOn(v, s) = SumOn(w, Image(s))}
<1>1. {} \in F
  <2>1. Image({}) = {}
    OBVIOUS
  <2> QED
    BY <2>1, SumOfEmpty
<1>2. ASSUME NEW s \in SUBSET S, NEW x \in S, s \in F, x \notin s
      PROVE  s \cup {x} \in F
  <2>1. IsFiniteSet(s) /\ s \cup {x} \in SUBSET S
    BY FS_Subset
  <2>2. Image(s) \in SUBSET T /\ Image(s) \cup {h[x]} \in SUBSET T /\ h[x] \notin Image(s) /\ v[x] = w[h[x]]
    BY <1>2 DEF Reindexes
  <2>3. IsFiniteSet(Image(s))
    BY <2>2, FS_Subset
  <2>4. IntegerOn(v, s \cup {x}) /\ IntegerOn(w, Image(s) \cup {h[x]})
    BY <2>1, <2>2 DEF IntegerOn, Reindexes
  <2>5. Image(s \cup {x}) = Image(s) \cup {h[x]}
    OBVIOUS
  <2> HIDE DEF Image
  <2>6. SumOn(v, s \cup {x}) = v[x] + SumOn(v, s)
    BY <1>2, <2>1, <2>4, SumWithOne
  <2>7. SumOn(w, Image(s) \cup {h[x]}) = w[h[x]] + SumOn(w, Image(s))
    BY <2>2, <2>3, <2>4, SumWithOne
  <2>8. SumOn(v, s \cup {x}) = SumOn(w, Image(s \cup {x}))
    BY <1>2, <2>2, <2>5, <2>6, <2>7
  <2> QED
    BY <2>1, <2>8
<1>3. Image(S) = T
  BY DEF Reindexes
<1> HIDE DEF F
<1>4. S \in F
  BY <1>1, <1>2, FiniteInduct
<1> QED
  BY <1>3, <1>4 DEF F

LEMMA SumOfSingle ==
  ASSUME NEW x, NEW w, w[x] \in Int
  PROVE  SumOn(w, {x}) = w[x]
<1>1. IsFiniteSet({}) /\ x \notin {} /\ {} \cup {x} = {x} /\ IntegerOn(w, {} \cup {x})
  BY FS_EmptySet DEF IntegerOn
<1>2. SumOn(w, {} \cup {x}) = w[x] + SumOn(w, {})
  BY <1>1, SumWithOne
<1> QED
  BY <1>1, <1>2, SumOfEmpty

\* A sum of natural numbers is at least as large as each of them.
LEMMA SumOfNaturals ==
  ASSUME NEW S, IsFiniteSet(S), NEW w, \A x \in S : w[x] \in Nat
  PROVE  SumOn(w, S) \in Nat /\ \A x \in S : w[x] <= SumOn(w, S)
<1> DEFINE F == {s \in SUBSET S : SumOn(w, s) \in Nat}
<1>1. {} \in F
  BY SumOfEmpty
<1>2. ASSUME NEW s \in SUBSET S, NEW x \in S, s \in F, x \notin s
      PROVE  s \cup {x} \in F
  <2>1. IsFiniteSet(s) /\ s \cup {x} \in SUBSET S
    BY FS_Subset
  <2>2. IntegerOn(w, s \cup {x}) /\ w[x] \in Nat /\ SumOn(w, s) \in Nat
    BY <1>2 DEF IntegerOn
  <2>3. SumOn(w, s \cup {x}) = w[x] + SumOn(w, s)
    BY <1>2, <2>1, <2>2, SumWithOne
  <2> QED
    BY <2>1, <2>2, <2>3
<1> HIDE DEF F
<1>3. F = {s \in SUBSET S : SumOn(w, s) \in Nat}
  BY DEF F
<1>4. S \in F
  BY <1>1, <1>2, FiniteInduct
<1>5. ASSUME NEW x \in S
      PROVE  w[x] <= SumOn(w, S)
  <2>1. IsFiniteSet(S \ {x}) /\ IntegerOn(w, S)
    BY Without DEF IntegerOn
  <2>2. SumOn(w, S) = w[x] + SumOn(w, S \ {x})
    BY <2>1, SumOfRest
  <2>3. SumOn(w, S \ {x}) \in Nat
    <3> DEFINE G == {s \in SUBSET (S \ {x}) : SumOn(w, s) \in Nat}
    <3>1. {} \in G
      BY SumOfEmpty
    <3>2. ASSUME NEW s \in SUBSET (S \ {x}), NEW y \in S \ {x}, s \in G, y \notin s
          PROVE  s \cup {y} \in G
      <4>1. s \in F /\ s \in SUBSET S /\ y \in S
        BY <1>3, <3>2
      <4>2. s \cup {y} \in F
        BY <1>2, <3>2, <4>1
      <4> QED
        BY <1>3, <4>2
    <3> HIDE DEF G
    <3>3. S \ {x} \in G
      BY <2>1, <3>1, <3>2, FiniteInduct
    <3> QED
      BY <3>3 DEF G
  <2>4. w[x] \in Nat
    OBVIOUS
  <2> QED
    BY <2>2, <2>3, <2>4
<1> QED
  BY <1>3, <1>4, <1>5

-----------------------------------------------------------------------------
(* Monomials. *)

\* A is the set of the factors that monomials are made of.
MonomialOn(f, A) ==
  /\ IsFiniteSet(DOMAIN f)
  /\ DOMAIN f \subseteq A
  /\ f \in [DOMAIN f -> Nat \ {0}]

LEMMA ExponentFactsOn ==
  ASSUME NEW A, NEW f, MonomialOn(f, A)
  PROVE  /\ \A m : Exponent(f, m) \in Nat
         /\ \A m : m \in DOMAIN f <=> Exponent(f, m) > 0
         /\ \A m \in DOMAIN f : Exponent(f, m) = f[m] /\ f[m] \in Nat /\ f[m] > 0 /\ m \in A
         /\ \A m : m \notin DOMAIN f => Exponent(f, m) = 0
<1>1. \A m \in DOMAIN f : f[m] \in Nat /\ f[m] > 0 /\ m \in A
  <2> SUFFICES ASSUME NEW m \in DOMAIN f
               PROVE  f[m] \in Nat /\ f[m] > 0 /\ m \in A
    OBVIOUS
  <2>1. f[m] \in Nat \ {0} /\ m \in A
    BY DEF MonomialOn
  <2> QED
    BY <2>1
<1>2. \A m : Exponent(f, m) \in Nat /\ (m \in DOMAIN f <=> Exponent(f, m) > 0)
  BY <1>1 DEF Exponent
<1> QED
  BY <1>1, <1>2 DEF Exponent

\* The exponents tell monomials apart.
LEMMA SameExponents ==
  ASSUME NEW A, NEW f, MonomialOn(f, A), NEW g, MonomialOn(g, A),
         \A m \in A : Exponent(f, m) = Exponent(g, m)
  PROVE  f = g
<1>1. \A m \in DOMAIN f : m \in A /\ Exponent(f, m) = f[m]
  BY ExponentFactsOn
<1>2. \A m \in DOMAIN g : m \in A /\ Exponent(g, m) = g[m]
  BY ExponentFactsOn
<1>3. DOMAIN f = DOMAIN g
  <2>1. \A m : m \in DOMAIN f => m \in DOMAIN g
    BY <1>1, ExponentFactsOn
  <2>2. \A m : m \in DOMAIN g => m \in DOMAIN f
    BY <1>2, ExponentFactsOn
  <2> QED
    BY <2>1, <2>2
<1>4. \A m \in DOMAIN f : f[m] = g[m]
  BY <1>1, <1>2, <1>3
<1>5. f = [m \in DOMAIN f |-> f[m]] /\ g = [m \in DOMAIN g |-> g[m]]
  BY DEF MonomialOn
<1> QED
  BY <1>3, <1>4, <1>5

\* What a function gives for each factor, as long as it is not 0, is a monomial.
LEMMA IsMonomialOn ==
  ASSUME NEW A, NEW f, NEW D, IsFiniteSet(D), D \subseteq A, DOMAIN f = D, f = [m \in D |-> f[m]],
         \A m \in D : f[m] \in Nat /\ f[m] > 0
  PROVE  MonomialOn(f, A)
<1>1. \A m \in D : f[m] \in Nat \ {0}
  OBVIOUS
<1>2. f \in [D -> Nat \ {0}]
  BY <1>1
<1> QED
  BY <1>2 DEF MonomialOn

\* The exponents of t are the sums of those of f and g.
AddsExponents(t, f, g) == \A m : Exponent(t, m) = Exponent(f, m) + Exponent(g, m)

LEMMA TimesFacts ==
  ASSUME NEW A, NEW f, MonomialOn(f, A), NEW g, MonomialOn(g, A)
  PROVE  MonomialOn(Times(f, g), A) /\ AddsExponents(Times(f, g), f, g)
<1> DEFINE t == Times(f, g)
           D == DOMAIN f \cup DOMAIN g
<1>1. t = [m \in D |-> Exponent(f, m) + Exponent(g, m)]
  BY DEF Times
<1>2. IsFiniteSet(D) /\ D \subseteq A
  BY FS_Union DEF MonomialOn
<1> HIDE DEF t
<1>3. DOMAIN t = D /\ \A m \in D : t[m] = Exponent(f, m) + Exponent(g, m)
  BY <1>1
<1> HIDE DEF D
<1>4. \A m : Exponent(f, m) \in Nat /\ Exponent(g, m) \in Nat
  BY ExponentFactsOn
<1>5. \A m \in D : Exponent(f, m) > 0 \/ Exponent(g, m) > 0
  <2> SUFFICES ASSUME NEW m \in D
               PROVE  Exponent(f, m) > 0 \/ Exponent(g, m) > 0
    OBVIOUS
  <2>1. CASE m \in DOMAIN f
    BY <2>1, ExponentFactsOn
  <2>2. CASE m \in DOMAIN g
    BY <2>2, ExponentFactsOn
  <2> QED
    BY <2>1, <2>2 DEF D
<1>6. \A m \in D : t[m] \in Nat /\ t[m] > 0
  BY <1>3, <1>4, <1>5
<1>7. MonomialOn(t, A)
  <2>1. t = [m \in D |-> t[m]]
    BY <1>1, <1>3
  <2> QED
    BY <1>2, <1>3, <1>6, <2>1, IsMonomialOn
<1>8. \A m : Exponent(t, m) = Exponent(f, m) + Exponent(g, m)
  <2> SUFFICES ASSUME NEW m
               PROVE  Exponent(t, m) = Exponent(f, m) + Exponent(g, m)
    OBVIOUS
  <2>1. CASE m \in D
    BY <1>3, <2>1 DEF Exponent
  <2>2. CASE m \notin D
    <3>1. m \notin DOMAIN f /\ m \notin DOMAIN g /\ m \notin DOMAIN t
      BY <1>3, <2>2 DEF D
    <3>2. Exponent(f, m) = 0 /\ Exponent(g, m) = 0 /\ Exponent(t, m) = 0
      BY <3>1 DEF Exponent
    <3> QED
      BY <3>2
  <2> QED
    BY <2>1, <2>2
<1> QED
  BY <1>7, <1>8 DEF t, AddsExponents

LEMMA TimesIsMonomial ==
  ASSUME NEW A, NEW f, MonomialOn(f, A), NEW g, MonomialOn(g, A)
  PROVE  MonomialOn(Times(f, g), A)
BY TimesFacts

LEMMA ExponentOfTimes ==
  ASSUME NEW A, NEW f, MonomialOn(f, A), NEW g, MonomialOn(g, A)
  PROVE  \A m : Exponent(Times(f, g), m) = Exponent(f, m) + Exponent(g, m)
<1>1. AddsExponents(Times(f, g), f, g)
  BY TimesFacts
<1> QED
  BY <1>1 DEF AddsExponents

LEMMA TimesCommutes ==
  ASSUME NEW A, NEW f, MonomialOn(f, A), NEW g, MonomialOn(g, A)
  PROVE  Times(f, g) = Times(g, f)
<1>1. \A m : Exponent(f, m) \in Nat /\ Exponent(g, m) \in Nat
  BY ExponentFactsOn
<1>2. MonomialOn(Times(f, g), A) /\ \A m : Exponent(Times(f, g), m) = Exponent(f, m) + Exponent(g, m)
  BY TimesIsMonomial, ExponentOfTimes
<1>3. MonomialOn(Times(g, f), A) /\ \A m : Exponent(Times(g, f), m) = Exponent(g, m) + Exponent(f, m)
  BY TimesIsMonomial, ExponentOfTimes
<1>4. \A m \in A : Exponent(Times(f, g), m) = Exponent(Times(g, f), m)
  BY <1>1, <1>2, <1>3
<1> QED
  BY <1>2, <1>3, <1>4, SameExponents

LEMMA TimesCancels ==
  ASSUME NEW A, NEW f, MonomialOn(f, A), NEW g, MonomialOn(g, A), NEW h, MonomialOn(h, A),
         Times(f, h) = Times(g, h)
  PROVE  f = g
<1>1. \A m : Exponent(f, m) \in Nat /\ Exponent(g, m) \in Nat /\ Exponent(h, m) \in Nat
  BY ExponentFactsOn
<1>2. \A m : Exponent(Times(f, h), m) = Exponent(f, m) + Exponent(h, m)
  BY TimesIsMonomial, ExponentOfTimes
<1>3. \A m : Exponent(Times(g, h), m) = Exponent(g, m) + Exponent(h, m)
  BY TimesIsMonomial, ExponentOfTimes
<1>4. \A m \in A : Exponent(f, m) = Exponent(g, m)
  BY <1>1, <1>2, <1>3
<1> QED
  BY <1>4, SameExponents

\* Division undoes multiplication.
LEMMA QuotientFacts ==
  ASSUME NEW A, NEW f, MonomialOn(f, A), NEW g, MonomialOn(g, A), Divides(g, f)
  PROVE  MonomialOn(Quotient(f, g), A) /\ Times(Quotient(f, g), g) = f
<1> DEFINE q == Quotient(f, g)
           D == {n \in DOMAIN f : f[n] > Exponent(g, n)}
<1>1. q = [m \in D |-> f[m] - Exponent(g, m)]
  BY DEF Quotient
<1>2. IsFiniteSet(D) /\ D \subseteq A
  BY FS_Subset DEF MonomialOn
<1> HIDE DEF q
<1>3. DOMAIN q = D /\ \A m \in D : q[m] = f[m] - Exponent(g, m)
  BY <1>1
<1>4. \A m : Exponent(f, m) \in Nat /\ Exponent(g, m) \in Nat
  BY ExponentFactsOn
<1>5. \A m \in DOMAIN f : Exponent(f, m) = f[m]
  BY ExponentFactsOn
<1>6. \A m : Exponent(g, m) <= Exponent(f, m)
  <2> SUFFICES ASSUME NEW m
               PROVE  Exponent(g, m) <= Exponent(f, m)
    OBVIOUS
  <2>1. CASE m \in DOMAIN g
    BY <2>1 DEF Divides, Exponent
  <2>2. CASE m \notin DOMAIN g
    <3>1. Exponent(g, m) = 0
      BY <2>2 DEF Exponent
    <3> QED
      BY <1>4, <3>1
  <2> QED
    BY <2>1, <2>2
<1>7. \A m \in D : q[m] \in Nat /\ q[m] > 0
  BY <1>3, <1>4, <1>5
<1>8. MonomialOn(q, A)
  <2>1. q = [m \in D |-> q[m]]
    BY <1>1, <1>3
  <2> HIDE DEF D
  <2> QED
    BY <1>2, <1>3, <1>7, <2>1, IsMonomialOn
<1>9. \A m : Exponent(q, m) = Exponent(f, m) - Exponent(g, m)
  <2> SUFFICES ASSUME NEW m
               PROVE  Exponent(q, m) = Exponent(f, m) - Exponent(g, m)
    OBVIOUS
  <2>1. CASE m \in D
    BY <1>3, <1>5, <2>1 DEF Exponent
  <2>2. CASE m \notin D
    <3>1. Exponent(q, m) = 0
      BY <1>3, <2>2 DEF Exponent
    <3>2. Exponent(f, m) <= Exponent(g, m)
      <4>1. CASE m \in DOMAIN f
        BY <1>4, <1>5, <2>2, <4>1
      <4>2. CASE m \notin DOMAIN f
        <5>1. Exponent(f, m) = 0
          BY <4>2 DEF Exponent
        <5> QED
          BY <1>4, <5>1
      <4> QED
        BY <4>1, <4>2
    <3>3. Exponent(f, m) = Exponent(g, m)
      BY <1>4, <1>6, <3>2
    <3> QED
      BY <1>4, <3>1, <3>3
  <2> QED
    BY <2>1, <2>2
<1>10. MonomialOn(Times(q, g), A) /\ \A m : Exponent(Times(q, g), m) = Exponent(q, m) + Exponent(g, m)
  BY <1>8, TimesIsMonomial, ExponentOfTimes
<1>11. \A m \in A : Exponent(Times(q, g), m) = Exponent(f, m)
  BY <1>4, <1>9, <1>10
<1>12. Times(q, g) = f
  BY <1>10, <1>11, SameExponents
<1> QED
  BY <1>8, <1>12 DEF q

LEMMA TimesIsDivisible ==
  ASSUME NEW A, NEW f, MonomialOn(f, A), NEW g, MonomialOn(g, A)
  PROVE  Divides(g, Times(f, g))
<1> SUFFICES ASSUME NEW m \in DOMAIN g
             PROVE  g[m] <= Exponent(Times(f, g), m)
  BY DEF Divides
<1>1. Exponent(Times(f, g), m) = Exponent(f, m) + Exponent(g, m)
  BY TimesIsMonomial, ExponentOfTimes
<1>2. Exponent(f, m) \in Nat /\ Exponent(g, m) = g[m] /\ g[m] \in Nat
  BY ExponentFactsOn
<1> QED
  BY <1>1, <1>2

-----------------------------------------------------------------------------
(* Degrees. *)

LEMMA DegreeIsSumOn ==
  ASSUME NEW f
  PROVE  TotalDegree(f) = SumOn(f, DOMAIN f)
BY DEF TotalDegree, FoldFunction, FoldFunctionOnSet, MapThenFoldSet, AddingUp, SumOn

\* The exponents of f at the factors in a larger set.
ExponentsOn(f, S) == [m \in S |-> Exponent(f, m)]

LEMMA DegreeOn ==
  ASSUME NEW A, NEW f, MonomialOn(f, A), NEW S, IsFiniteSet(S), DOMAIN f \subseteq S
  PROVE  /\ TotalDegree(f) = SumOn(ExponentsOn(f, S), S)
         /\ IntegerOn(ExponentsOn(f, S), S)
         /\ TotalDegree(f) \in Nat
<1> DEFINE e == ExponentsOn(f, S)
<1>1. \A m \in S : e[m] = Exponent(f, m) /\ e[m] \in Nat
  BY ExponentFactsOn DEF ExponentsOn
<1>2. \A m \in DOMAIN f : e[m] = f[m]
  BY <1>1, ExponentFactsOn
<1>3. \A m \in S : m \notin DOMAIN f => e[m] = 0
  BY <1>1 DEF Exponent
<1> HIDE DEF e
<1>4. IntegerOn(e, S)
  BY <1>1 DEF IntegerOn
<1>5. SumOn(e, S) = SumOn(e, DOMAIN f)
  BY <1>3, <1>4, SumOfSupport
<1>6. SumOn(e, DOMAIN f) = SumOn(f, DOMAIN f)
  BY <1>2, SumCongruent DEF MonomialOn
<1>7. SumOn(e, S) \in Nat
  BY <1>1, SumOfNaturals
<1> QED
  BY <1>4, <1>5, <1>6, <1>7, DegreeIsSumOn DEF e

LEMMA DegreeOfTimes ==
  ASSUME NEW A, NEW f, MonomialOn(f, A), NEW g, MonomialOn(g, A)
  PROVE  TotalDegree(Times(f, g)) = TotalDegree(f) + TotalDegree(g)
<1> DEFINE S == DOMAIN f \cup DOMAIN g
           t == Times(f, g)
<1>1. IsFiniteSet(S)
  BY FS_Union DEF MonomialOn
<1>2. MonomialOn(t, A) /\ (\A m : Exponent(t, m) = Exponent(f, m) + Exponent(g, m)) /\ DOMAIN t \subseteq S
  BY TimesIsMonomial, ExponentOfTimes DEF Times
<1>3. DOMAIN f \subseteq S /\ DOMAIN g \subseteq S
  OBVIOUS
<1> HIDE DEF S, t
<1>4. TotalDegree(f) = SumOn(ExponentsOn(f, S), S) /\ IntegerOn(ExponentsOn(f, S), S)
  BY <1>1, <1>3, DegreeOn
<1>5. TotalDegree(g) = SumOn(ExponentsOn(g, S), S) /\ IntegerOn(ExponentsOn(g, S), S)
  BY <1>1, <1>3, DegreeOn
<1>6. TotalDegree(t) = SumOn(ExponentsOn(t, S), S) /\ IntegerOn(ExponentsOn(t, S), S)
  BY <1>1, <1>2, DegreeOn
<1>7. \A m \in S : ExponentsOn(t, S)[m] = ExponentsOn(f, S)[m] + ExponentsOn(g, S)[m]
  BY <1>2 DEF ExponentsOn
<1>8. AddsOn(ExponentsOn(f, S), ExponentsOn(g, S), ExponentsOn(t, S), S)
  BY <1>4, <1>5, <1>6, <1>7 DEF AddsOn
<1>9. TotalDegree(t) = TotalDegree(f) + TotalDegree(g)
  BY <1>1, <1>4, <1>5, <1>6, <1>8, SumAddsOn
<1> QED
  BY <1>9 DEF t

-----------------------------------------------------------------------------
(* The order of monomials. *)

\* The ids tell the factors apart.
Orders(id, A) ==
  /\ \A a \in A : id[a] \in Nat
  /\ \A a, b \in A : id[a] = id[b] => a = b

\* The first factor that tells f and g apart.
FirstAt(id, A, f, g, m) ==
  /\ m \in A
  /\ Exponent(f, m) # Exponent(g, m)
  /\ \A n \in A : id[n] < id[m] => Exponent(f, n) = Exponent(g, n)

LEMMA FirstExists ==
  ASSUME NEW A, NEW id, Orders(id, A), NEW f, MonomialOn(f, A), NEW g, MonomialOn(g, A), f # g
  PROVE  \E m : FirstAt(id, A, f, g, m)
<1> DEFINE T == {n \in Nat : \E m \in A : id[m] = n /\ Exponent(f, m) # Exponent(g, m)}
<1>1. T # {}
  <2>1. PICK m \in A : Exponent(f, m) # Exponent(g, m)
    BY SameExponents
  <2>2. id[m] \in T
    BY <2>1 DEF Orders
  <2> QED
    BY <2>2
<1>2. PICK n \in T : \A k \in T : n <= k
  BY <1>1, Summing!Least
<1>3. PICK m \in A : id[m] = n /\ Exponent(f, m) # Exponent(g, m)
  OBVIOUS
<1>4. ASSUME NEW k \in A, id[k] < id[m]
      PROVE  Exponent(f, k) = Exponent(g, k)
  <2>1. id[k] \in Nat /\ id[m] \in Nat /\ ~ n <= id[k]
    BY <1>3, <1>4 DEF Orders
  <2> QED
    BY <1>2, <2>1
<1> QED
  BY <1>3, <1>4 DEF FirstAt

LEMMA FirstIsUnique ==
  ASSUME NEW A, NEW id, Orders(id, A), NEW f, NEW g, NEW m, NEW n, FirstAt(id, A, f, g, m), FirstAt(id, A, f, g, n)
  PROVE  m = n
<1>1. m \in A /\ n \in A /\ ~ id[m] < id[n] /\ ~ id[n] < id[m] /\ id[m] \in Nat /\ id[n] \in Nat
  BY DEF FirstAt, Orders
<1>2. id[m] = id[n]
  BY <1>1
<1> QED
  BY <1>1, <1>2 DEF Orders

\* Which of two monomials of the same degree is smaller.
Precedes(id, A, f, g) == \E m : FirstAt(id, A, f, g, m) /\ Exponent(f, m) > Exponent(g, m)

LEMMA DeglexMeans ==
  ASSUME NEW A, NEW id, Orders(id, A), NEW f, MonomialOn(f, A), NEW g, MonomialOn(g, A)
  PROVE  Deglex(id, f, g) <=>
           \/ TotalDegree(f) < TotalDegree(g)
           \/ TotalDegree(f) = TotalDegree(g) /\ Precedes(id, A, f, g)
<1>1. DOMAIN f \subseteq A /\ DOMAIN g \subseteq A
  BY DEF MonomialOn
<1>2. \A m : Exponent(f, m) \in Nat /\ Exponent(g, m) \in Nat
  BY ExponentFactsOn
<1>3. ASSUME NEW m \in DOMAIN f, f[m] > Exponent(g, m),
             \A n \in DOMAIN f \cup DOMAIN g : id[n] < id[m] => Exponent(f, n) = Exponent(g, n)
      PROVE  FirstAt(id, A, f, g, m) /\ Exponent(f, m) > Exponent(g, m)
  <2>1. m \in A /\ Exponent(f, m) = f[m]
    BY <1>1 DEF Exponent
  <2>2. ASSUME NEW n \in A, id[n] < id[m]
        PROVE  Exponent(f, n) = Exponent(g, n)
    <3>1. CASE n \in DOMAIN f \cup DOMAIN g
      BY <1>3, <2>2, <3>1
    <3>2. CASE n \notin DOMAIN f \cup DOMAIN g
      BY <3>2 DEF Exponent
    <3> QED
      BY <3>1, <3>2
  <2>3. Exponent(f, m) > Exponent(g, m) /\ Exponent(f, m) # Exponent(g, m)
    BY <1>2, <1>3, <2>1
  <2> QED
    BY <2>1, <2>2, <2>3 DEF FirstAt
<1>4. ASSUME NEW m, FirstAt(id, A, f, g, m), Exponent(f, m) > Exponent(g, m)
      PROVE  /\ m \in DOMAIN f /\ f[m] > Exponent(g, m)
             /\ \A n \in DOMAIN f \cup DOMAIN g : id[n] < id[m] => Exponent(f, n) = Exponent(g, n)
  <2>1. m \in DOMAIN f
    <3>1. Exponent(f, m) > 0
      BY <1>2, <1>4
    <3> QED
      BY <3>1, ExponentFactsOn
  <2>2. f[m] = Exponent(f, m)
    BY <2>1 DEF Exponent
  <2>3. \A n \in DOMAIN f \cup DOMAIN g : id[n] < id[m] => Exponent(f, n) = Exponent(g, n)
    BY <1>1, <1>4 DEF FirstAt
  <2> QED
    BY <1>4, <2>1, <2>2, <2>3
<1> QED
  BY <1>3, <1>4 DEF Deglex, Precedes

\* Deglex is a strict total order.
LEMMA DeglexIsConnex ==
  ASSUME NEW A, NEW id, Orders(id, A), NEW f, MonomialOn(f, A), NEW g, MonomialOn(g, A), f # g
  PROVE  Deglex(id, f, g) <=> ~Deglex(id, g, f)
<1>1. TotalDegree(f) \in Nat /\ TotalDegree(g) \in Nat
  <2>1. IsFiniteSet(DOMAIN f) /\ IsFiniteSet(DOMAIN g)
    BY DEF MonomialOn
  <2> QED
    BY <2>1, DegreeOn
<1>2. PICK m : FirstAt(id, A, f, g, m)
  BY FirstExists
<1>3. \A n : FirstAt(id, A, f, g, n) => n = m
  BY <1>2, FirstIsUnique
<1>4. \A n : FirstAt(id, A, g, f, n) <=> FirstAt(id, A, f, g, n)
  BY DEF FirstAt
<1>5. Exponent(f, m) \in Nat /\ Exponent(g, m) \in Nat /\ Exponent(f, m) # Exponent(g, m)
  BY <1>2, ExponentFactsOn DEF FirstAt
<1>6. Precedes(id, A, f, g) <=> Exponent(f, m) > Exponent(g, m)
  BY <1>2, <1>3 DEF Precedes
<1>7. Precedes(id, A, g, f) <=> Exponent(g, m) > Exponent(f, m)
  BY <1>2, <1>3, <1>4 DEF Precedes
<1>8. Deglex(id, f, g) <=>
        \/ TotalDegree(f) < TotalDegree(g)
        \/ TotalDegree(f) = TotalDegree(g) /\ Exponent(f, m) > Exponent(g, m)
  BY <1>6, DeglexMeans
<1>9. Deglex(id, g, f) <=>
        \/ TotalDegree(g) < TotalDegree(f)
        \/ TotalDegree(g) = TotalDegree(f) /\ Exponent(g, m) > Exponent(f, m)
  BY <1>7, DeglexMeans
<1> QED
  BY <1>1, <1>5, <1>8, <1>9

LEMMA DeglexIsIrreflexive ==
  ASSUME NEW A, NEW id, Orders(id, A), NEW f, MonomialOn(f, A)
  PROVE  ~Deglex(id, f, f)
<1>1. TotalDegree(f) \in Nat
  <2>1. IsFiniteSet(DOMAIN f)
    BY DEF MonomialOn
  <2> QED
    BY <2>1, DegreeOn
<1>2. ~Precedes(id, A, f, f)
  BY DEF Precedes, FirstAt
<1> QED
  BY <1>1, <1>2, DeglexMeans

LEMMA PrecedesIsTransitive ==
  ASSUME NEW A, NEW id, Orders(id, A),
         NEW f, MonomialOn(f, A), NEW g, MonomialOn(g, A), NEW h, MonomialOn(h, A),
         Precedes(id, A, f, g), Precedes(id, A, g, h)
  PROVE  Precedes(id, A, f, h)
<1>1. PICK m : FirstAt(id, A, f, g, m) /\ Exponent(f, m) > Exponent(g, m)
  BY DEF Precedes
<1>2. PICK n : FirstAt(id, A, g, h, n) /\ Exponent(g, n) > Exponent(h, n)
  BY DEF Precedes
<1>3. m \in A /\ n \in A /\ id[m] \in Nat /\ id[n] \in Nat /\ \A k \in A : id[k] \in Nat
  BY <1>1, <1>2 DEF FirstAt, Orders
<1>4. /\ \A k \in A : id[k] < id[m] => Exponent(f, k) = Exponent(g, k)
      /\ \A k \in A : id[k] < id[n] => Exponent(g, k) = Exponent(h, k)
  BY <1>1, <1>2 DEF FirstAt
<1>5. \A k : Exponent(f, k) \in Nat /\ Exponent(g, k) \in Nat /\ Exponent(h, k) \in Nat
  BY ExponentFactsOn
<1>6. ASSUME NEW p \in A, Exponent(f, p) > Exponent(h, p), id[p] <= id[m], id[p] <= id[n]
      PROVE  Precedes(id, A, f, h)
  <2>1. \A k \in A : id[k] < id[p] => id[k] < id[m] /\ id[k] < id[n]
    BY <1>3, <1>6
  <2>2. \A k \in A : id[k] < id[p] => Exponent(f, k) = Exponent(h, k)
    BY <1>4, <2>1
  <2>3. Exponent(f, p) # Exponent(h, p)
    BY <1>5, <1>6
  <2>4. FirstAt(id, A, f, h, p)
    BY <2>2, <2>3 DEF FirstAt
  <2> QED
    BY <1>6, <2>4 DEF Precedes
<1>7. CASE id[m] < id[n]
  <2>1. Exponent(g, m) = Exponent(h, m)
    BY <1>3, <1>4, <1>7
  <2> QED
    BY <1>1, <1>3, <1>6, <1>7, <2>1
<1>8. CASE id[n] < id[m]
  <2>1. Exponent(f, n) = Exponent(g, n)
    BY <1>3, <1>4, <1>8
  <2> QED
    BY <1>2, <1>3, <1>6, <1>8, <2>1
<1>9. CASE id[m] = id[n]
  <2>1. m = n
    BY <1>3, <1>9 DEF Orders
  <2>2. Exponent(f, m) > Exponent(h, m)
    BY <1>1, <1>2, <1>5, <2>1
  <2> QED
    BY <1>3, <1>6, <1>9, <2>2
<1> QED
  BY <1>3, <1>7, <1>8, <1>9

LEMMA DeglexIsTransitive ==
  ASSUME NEW A, NEW id, Orders(id, A),
         NEW f, MonomialOn(f, A), NEW g, MonomialOn(g, A), NEW h, MonomialOn(h, A),
         Deglex(id, f, g), Deglex(id, g, h)
  PROVE  Deglex(id, f, h)
<1>1. TotalDegree(f) \in Nat /\ TotalDegree(g) \in Nat /\ TotalDegree(h) \in Nat
  <2>1. IsFiniteSet(DOMAIN f) /\ IsFiniteSet(DOMAIN g) /\ IsFiniteSet(DOMAIN h)
    BY DEF MonomialOn
  <2> QED
    BY <2>1, DegreeOn
<1>2. \/ TotalDegree(f) < TotalDegree(g)
      \/ TotalDegree(f) = TotalDegree(g) /\ Precedes(id, A, f, g)
  BY DeglexMeans
<1>3. \/ TotalDegree(g) < TotalDegree(h)
      \/ TotalDegree(g) = TotalDegree(h) /\ Precedes(id, A, g, h)
  BY DeglexMeans
<1>4. \/ TotalDegree(f) < TotalDegree(h)
      \/ TotalDegree(f) = TotalDegree(h) /\ Precedes(id, A, f, h)
  BY <1>1, <1>2, <1>3, PrecedesIsTransitive
<1> QED
  BY <1>4, DeglexMeans

\* Multiplying both sides by a monomial does not change the order.
LEMMA DeglexIsCompatible ==
  ASSUME NEW A, NEW id, Orders(id, A),
         NEW f, MonomialOn(f, A), NEW g, MonomialOn(g, A), NEW h, MonomialOn(h, A)
  PROVE  Deglex(id, f, g) <=> Deglex(id, Times(f, h), Times(g, h))
<1> DEFINE s == Times(f, h)
           t == Times(g, h)
<1>1. TotalDegree(f) \in Nat /\ TotalDegree(g) \in Nat /\ TotalDegree(h) \in Nat
  <2>1. IsFiniteSet(DOMAIN f) /\ IsFiniteSet(DOMAIN g) /\ IsFiniteSet(DOMAIN h)
    BY DEF MonomialOn
  <2> QED
    BY <2>1, DegreeOn
<1>2. /\ MonomialOn(s, A) /\ TotalDegree(s) = TotalDegree(f) + TotalDegree(h)
      /\ \A n : Exponent(s, n) = Exponent(f, n) + Exponent(h, n)
  BY TimesIsMonomial, ExponentOfTimes, DegreeOfTimes
<1>3. /\ MonomialOn(t, A) /\ TotalDegree(t) = TotalDegree(g) + TotalDegree(h)
      /\ \A n : Exponent(t, n) = Exponent(g, n) + Exponent(h, n)
  BY TimesIsMonomial, ExponentOfTimes, DegreeOfTimes
<1> HIDE DEF s, t
<1>4. ASSUME NEW n
      PROVE  /\ Exponent(s, n) = Exponent(t, n) <=> Exponent(f, n) = Exponent(g, n)
             /\ Exponent(s, n) > Exponent(t, n) <=> Exponent(f, n) > Exponent(g, n)
  <2>1. Exponent(f, n) \in Nat /\ Exponent(g, n) \in Nat /\ Exponent(h, n) \in Nat
    BY ExponentFactsOn
  <2> QED
    BY <1>2, <1>3, <2>1
<1>5. Precedes(id, A, s, t) <=> Precedes(id, A, f, g)
  BY <1>4 DEF FirstAt, Precedes
<1>6. Deglex(id, f, g) <=>
        TotalDegree(f) < TotalDegree(g) \/ (TotalDegree(f) = TotalDegree(g) /\ Precedes(id, A, f, g))
  BY DeglexMeans
<1>7. Deglex(id, s, t) <=>
        TotalDegree(s) < TotalDegree(t) \/ (TotalDegree(s) = TotalDegree(t) /\ Precedes(id, A, s, t))
  BY <1>2, <1>3, DeglexMeans
<1>8. Deglex(id, f, g) <=> Deglex(id, s, t)
  BY <1>1, <1>2, <1>3, <1>5, <1>6, <1>7
<1> QED
  BY <1>8 DEF s, t
=============================================================================
