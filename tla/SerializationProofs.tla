------------------------ MODULE SerializationProofs ------------------------
(***************************************************************************)
(* Archives of any number of elements, of modules of products of atoms,    *)
(* come back as they were saved.                                           *)
(***************************************************************************)
EXTENDS Serialization, MonomialsProofs, SequenceTheorems

-----------------------------------------------------------------------------
(* Lists. *)

IsList(s) == Len(s) \in Nat /\ DOMAIN s = 1 .. Len(s) /\ s = [n \in 1 .. Len(s) |-> s[n]]

LEMMA SeqIsList ==
  ASSUME NEW X, NEW s \in Seq(X)
  PROVE  IsList(s)
BY LenProperties DEF IsList

LEMMA ListIsSeq ==
  ASSUME NEW s, IsList(s)
  PROVE  s \in Seq(ToSet(s))
<1>1. s \in [1 .. Len(s) -> ToSet(s)]
  BY DEF IsList, ToSet
<1> QED
  BY <1>1, SeqDef DEF IsList

LEMMA FunctionIsList ==
  ASSUME NEW n \in Nat, NEW X, NEW s \in [1 .. n -> X]
  PROVE  IsList(s) /\ Len(s) = n
<1>1. s \in Seq(X)
  BY SeqDef
<1>2. IsList(s) /\ DOMAIN s = 1 .. n
  BY <1>1, SeqIsList
<1>3. Len(s) \in Nat /\ 1 .. Len(s) = 1 .. n
  BY <1>2 DEF IsList
<1>4. Len(s) = n
  BY <1>3
<1> QED
  BY <1>2, <1>4

LEMMA AppendFacts ==
  ASSUME NEW s, IsList(s), NEW e
  PROVE  /\ IsList(Append(s, e))
         /\ Len(Append(s, e)) = Len(s) + 1
         /\ \A n \in 1 .. Len(s) : Append(s, e)[n] = s[n]
         /\ Append(s, e)[Len(s) + 1] = e
<1> DEFINE X == ToSet(s) \cup {e}
<1>1. s \in Seq(ToSet(s))
  BY ListIsSeq
<1>2. s \in Seq(X)
  BY <1>1, SeqMonotonic
<1>3. e \in X
  OBVIOUS
<1> HIDE DEF X
<1>4. /\ Append(s, e) \in Seq(X)
      /\ Len(Append(s, e)) = Len(s) + 1
      /\ \A n \in 1 .. Len(s) : Append(s, e)[n] = s[n]
      /\ Append(s, e)[Len(s) + 1] = e
  BY <1>2, <1>3, AppendProperties
<1> QED
  BY <1>4, SeqIsList

LEMMA EmptyIsList == IsList(<<>>) /\ Len(<<>>) = 0
<1>1. <<>> \in Seq({})
  BY EmptySeq
<1> QED
  BY <1>1, EmptySeq, SeqIsList

-----------------------------------------------------------------------------
(* Folding a list from the left. *)

Step(p, w, x) ==
  IF p.kind = "save atom" THEN SaveAtom(w, x)
  ELSE IF p.kind = "save number" THEN SaveNumber(p.address, w, x)
  ELSE IF p.kind = "load atom" THEN LoadAtom(w, x) ELSE LoadNumber(w, x)

FoldValue(p, g, s) == IF s = {} THEN p.base ELSE Step(p, g[s \ {Max(s)}], p.list[Max(s)])

Folding == INSTANCE RecursiveFunctions WITH
  Argument <- LAMBDA p : SUBSET DOMAIN p.list,
  Measure <- LAMBDA p, s : Cardinality(s),
  Value <- LAMBDA p, g, s : FoldValue(p, g, s)

LEMMA MaxFacts ==
  ASSUME NEW n \in Nat, NEW s \in SUBSET (1 .. n)
  PROVE  /\ IsFiniteSet(s) /\ Cardinality(s) \in Nat
         /\ s # {} => Max(s) \in s /\ Cardinality(s \ {Max(s)}) < Cardinality(s)
<1>1. IsFiniteSet(s) /\ Cardinality(s) \in Nat
  <2>1. IsFiniteSet(1 .. n)
    BY FS_Interval
  <2>2. IsFiniteSet(s)
    BY <2>1, FS_Subset
  <2> QED
    BY <2>2, FS_CardinalityType
<1>2. ASSUME s # {}
      PROVE  \E x \in s : \A y \in s : x >= y
  <2> DEFINE T == {n - x : x \in s}
  <2>0. \A x \in s : x \in 1 .. n /\ n - x \in Nat
    <3>1. \A x \in 1 .. n : n - x \in Nat
      OBVIOUS
    <3> QED
      BY <3>1
  <2>1. T \in SUBSET Nat /\ T # {}
    BY <1>2, <2>0
  <2>2. PICK k \in T : \A m \in T : k <= m
    BY <2>1, Folding!Least
  <2>3. PICK x \in s : k = n - x
    OBVIOUS
  <2>4. ASSUME NEW y \in s
        PROVE  x >= y
    <3>1. n - x <= n - y
      BY <2>2, <2>3
    <3>2. x \in 1 .. n /\ y \in 1 .. n
      BY <2>0
    <3> HIDE DEF T
    <3> QED
      BY <3>1, <3>2
  <2> QED
    BY <2>4
<1>3. ASSUME s # {}
      PROVE  Max(s) \in s
  BY <1>2, <1>3 DEF Max
<1>4. ASSUME NEW x \in s
      PROVE  Cardinality(s \ {x}) < Cardinality(s)
  <2>1. Cardinality(s \ {x}) = Cardinality(s) - 1
    BY <1>1, Without
  <2> QED
    BY <1>1, <2>1
<1> QED
  BY <1>1, <1>3, <1>4

LEMMA FoldExists ==
  ASSUME NEW p, IsList(p.list)
  PROVE  \E g : g = [s \in SUBSET DOMAIN p.list |-> FoldValue(p, g, s)]
<1>1. \A s \in SUBSET DOMAIN p.list : Cardinality(s) \in Nat
  BY MaxFacts DEF IsList
<1>2. ASSUME NEW s \in SUBSET DOMAIN p.list, NEW g, NEW h,
             \A t \in SUBSET DOMAIN p.list : Cardinality(t) < Cardinality(s) => g[t] = h[t]
      PROVE  FoldValue(p, g, s) = FoldValue(p, h, s)
  <2>1. CASE s = {}
    BY <2>1 DEF FoldValue
  <2>2. CASE s # {}
    <3>1. Cardinality(s \ {Max(s)}) < Cardinality(s)
      BY <2>2, MaxFacts DEF IsList
    <3>2. g[s \ {Max(s)}] = h[s \ {Max(s)}]
      BY <1>2, <3>1
    <3> QED
      BY <2>2, <3>2 DEF FoldValue
  <2> QED
    BY <2>1, <2>2
<1>3. Folding!Congruent(p)
  BY <1>2 DEF Folding!Congruent
<1> QED
  BY <1>1, <1>3, Folding!Exists

\* at[n] is what has been computed from the first n elements of the list.
Folds(p, at) ==
  at[0] = p.base /\ \A n \in 1 .. Len(p.list) : at[n] = Step(p, at[n - 1], p.list[n])

LEMMA FoldSteps ==
  ASSUME NEW p, IsList(p.list), NEW g, g = [s \in SUBSET DOMAIN p.list |-> FoldValue(p, g, s)]
  PROVE  \E at : Folds(p, at) /\ at[Len(p.list)] = g[DOMAIN p.list]
<1> DEFINE N == Len(p.list)
           at == [n \in 0 .. N |-> g[1 .. n]]
<1>1. N \in Nat /\ DOMAIN p.list = 1 .. N
  BY DEF IsList
<1>2. \A s \in SUBSET (1 .. N) : g[s] = FoldValue(p, g, s)
  BY <1>1
<1> HIDE DEF N
<1>3. at[0] = p.base
  <2>1. {} \in SUBSET (1 .. N) /\ 1 .. 0 = {}
    OBVIOUS
  <2>2. g[{}] = p.base
    BY <1>2, <2>1 DEF FoldValue
  <2> QED
    BY <1>1, <2>1, <2>2
<1>4. ASSUME NEW n \in 1 .. N
      PROVE  at[n] = Step(p, at[n - 1], p.list[n])
  <2>1. 1 .. n \in SUBSET (1 .. N) /\ 1 .. n # {}
    BY <1>1
  <2>2. Max(1 .. n) = n
    <3>1. n \in 1 .. n /\ \A y \in 1 .. n : n >= y
      BY <1>1
    <3>2. \A x \in 1 .. n : (\A y \in 1 .. n : x >= y) => x = n
      BY <1>1
    <3> QED
      BY <3>1, <3>2 DEF Max
  <2>3. (1 .. n) \ {n} = 1 .. (n - 1)
    BY <1>1
  <2>4. g[1 .. n] = Step(p, g[1 .. (n - 1)], p.list[n])
    BY <1>2, <2>1, <2>2, <2>3 DEF FoldValue
  <2> QED
    BY <1>1, <2>4
<1>5. at[N] = g[DOMAIN p.list]
  BY <1>1
<1> HIDE DEF at
<1>6. Folds(p, at)
  BY <1>3, <1>4 DEF Folds, N
<1> QED
  BY <1>5, <1>6 DEF N

\* The recursion of each of the folds.
SavingAtoms(base, list, g) ==
  g = [s \in SUBSET DOMAIN list |->
         IF s = {} THEN base ELSE LET x == Max(s) IN SaveAtom(g[s \ {x}], list[x])]

LEMMA SaveAtoms ==
  ASSUME NEW base, NEW list, IsList(list)
  PROVE  \E at : /\ at[0] = base
                 /\ \A n \in 1 .. Len(list) : at[n] = SaveAtom(at[n - 1], list[n])
                 /\ at[Len(list)] = FoldLeft(SaveAtom, base, list)
<1> DEFINE p == [kind |-> "save atom", base |-> base, list |-> list]
<1>1. p.kind = "save atom" /\ p.base = base /\ p.list = list
  OBVIOUS
<1> HIDE DEF p
<1>2. \A w, x : Step(p, w, x) = SaveAtom(w, x)
  BY <1>1 DEF Step
<1>3. \A g : SavingAtoms(base, list, g) <=> g = [s \in SUBSET DOMAIN p.list |-> FoldValue(p, g, s)]
  <2> SUFFICES ASSUME NEW g
               PROVE  SavingAtoms(base, list, g) <=> g = [s \in SUBSET DOMAIN p.list |-> FoldValue(p, g, s)]
    OBVIOUS
  <2>1. \A s : (IF s = {} THEN base ELSE LET x == Max(s) IN SaveAtom(g[s \ {x}], list[x])) = FoldValue(p, g, s)
    BY <1>1, <1>2 DEF FoldValue
  <2> QED
    BY <1>1, <2>1 DEF SavingAtoms
<1>4. \E g : SavingAtoms(base, list, g)
  BY <1>1, <1>3, FoldExists
<1> DEFINE g == CHOOSE h : SavingAtoms(base, list, h)
<1>5. SavingAtoms(base, list, g)
  BY <1>4
<1>6. FoldLeft(SaveAtom, base, list) = g[DOMAIN list]
  BY DEF FoldLeft, MapThenFoldSet, SavingAtoms
<1> HIDE DEF g
<1>7. g = [s \in SUBSET DOMAIN p.list |-> FoldValue(p, g, s)]
  BY <1>3, <1>5
<1>8. IsList(p.list)
  BY <1>1
<1>9. PICK at : Folds(p, at) /\ at[Len(p.list)] = g[DOMAIN p.list]
  BY <1>7, <1>8, FoldSteps
<1> QED
  BY <1>1, <1>2, <1>6, <1>9 DEF Folds

SavingNumbers(address, base, list, g) ==
  g = [s \in SUBSET DOMAIN list |->
         IF s = {} THEN base ELSE LET x == Max(s) IN SaveNumber(address, g[s \ {x}], list[x])]

LEMMA SaveNumbers ==
  ASSUME NEW address, NEW base, NEW list, IsList(list)
  PROVE  \E at : /\ at[0] = base
                 /\ \A n \in 1 .. Len(list) : at[n] = SaveNumber(address, at[n - 1], list[n])
                 /\ at[Len(list)] = SaveBasis(address, base, list)
<1> DEFINE p == [kind |-> "save number", address |-> address, base |-> base, list |-> list]
<1>1. p.kind = "save number" /\ p.address = address /\ p.base = base /\ p.list = list
  OBVIOUS
<1> HIDE DEF p
<1>2. \A w, x : Step(p, w, x) = SaveNumber(address, w, x)
  BY <1>1 DEF Step
<1>3. \A g : SavingNumbers(address, base, list, g) <=> g = [s \in SUBSET DOMAIN p.list |-> FoldValue(p, g, s)]
  <2> SUFFICES ASSUME NEW g
               PROVE  SavingNumbers(address, base, list, g) <=> g = [s \in SUBSET DOMAIN p.list |-> FoldValue(p, g, s)]
    OBVIOUS
  <2>1. \A s : (IF s = {} THEN base ELSE LET x == Max(s) IN SaveNumber(address, g[s \ {x}], list[x]))
                 = FoldValue(p, g, s)
    BY <1>1, <1>2 DEF FoldValue
  <2> QED
    BY <1>1, <2>1 DEF SavingNumbers
<1>4. \E g : SavingNumbers(address, base, list, g)
  BY <1>1, <1>3, FoldExists
<1> DEFINE g == CHOOSE h : SavingNumbers(address, base, list, h)
<1>5. SavingNumbers(address, base, list, g)
  BY <1>4
<1>6. SaveBasis(address, base, list) = g[DOMAIN list]
  BY DEF SaveBasis, FoldLeft, MapThenFoldSet, SavingNumbers
<1> HIDE DEF g
<1>7. g = [s \in SUBSET DOMAIN p.list |-> FoldValue(p, g, s)]
  BY <1>3, <1>5
<1>8. IsList(p.list)
  BY <1>1
<1>9. PICK at : Folds(p, at) /\ at[Len(p.list)] = g[DOMAIN p.list]
  BY <1>7, <1>8, FoldSteps
<1>10. at[0] = base /\ \A n \in 1 .. Len(list) : at[n] = Step(p, at[n - 1], list[n])
  BY <1>1, <1>9 DEF Folds
<1>11. \A n \in 1 .. Len(list) : at[n] = SaveNumber(address, at[n - 1], list[n])
  BY <1>2, <1>10
<1>12. at[Len(list)] = SaveBasis(address, base, list)
  BY <1>1, <1>6, <1>9
<1> QED
  BY <1>10, <1>11, <1>12
LoadingAtoms(base, list, g) ==
  g = [s \in SUBSET DOMAIN list |->
         IF s = {} THEN base ELSE LET x == Max(s) IN LoadAtom(g[s \ {x}], list[x])]

LEMMA LoadAtoms ==
  ASSUME NEW base, NEW list, IsList(list)
  PROVE  \E at : /\ at[0] = base
                 /\ \A n \in 1 .. Len(list) : at[n] = LoadAtom(at[n - 1], list[n])
                 /\ at[Len(list)] = FoldLeft(LoadAtom, base, list)
<1> DEFINE p == [kind |-> "load atom", base |-> base, list |-> list]
<1>1. p.kind = "load atom" /\ p.base = base /\ p.list = list
  OBVIOUS
<1> HIDE DEF p
<1>2. \A w, x : Step(p, w, x) = LoadAtom(w, x)
  BY <1>1 DEF Step
<1>3. \A g : LoadingAtoms(base, list, g) <=> g = [s \in SUBSET DOMAIN p.list |-> FoldValue(p, g, s)]
  <2> SUFFICES ASSUME NEW g
               PROVE  LoadingAtoms(base, list, g) <=> g = [s \in SUBSET DOMAIN p.list |-> FoldValue(p, g, s)]
    OBVIOUS
  <2>1. \A s : (IF s = {} THEN base ELSE LET x == Max(s) IN LoadAtom(g[s \ {x}], list[x])) = FoldValue(p, g, s)
    BY <1>1, <1>2 DEF FoldValue
  <2> QED
    BY <1>1, <2>1 DEF LoadingAtoms
<1>4. \E g : LoadingAtoms(base, list, g)
  BY <1>1, <1>3, FoldExists
<1> DEFINE g == CHOOSE h : LoadingAtoms(base, list, h)
<1>5. LoadingAtoms(base, list, g)
  BY <1>4
<1>6. FoldLeft(LoadAtom, base, list) = g[DOMAIN list]
  BY DEF FoldLeft, MapThenFoldSet, LoadingAtoms
<1> HIDE DEF g
<1>7. g = [s \in SUBSET DOMAIN p.list |-> FoldValue(p, g, s)]
  BY <1>3, <1>5
<1>8. IsList(p.list)
  BY <1>1
<1>9. PICK at : Folds(p, at) /\ at[Len(p.list)] = g[DOMAIN p.list]
  BY <1>7, <1>8, FoldSteps
<1> QED
  BY <1>1, <1>2, <1>6, <1>9 DEF Folds
LoadingNumbers(base, list, g) ==
  g = [s \in SUBSET DOMAIN list |->
         IF s = {} THEN base ELSE LET x == Max(s) IN LoadNumber(g[s \ {x}], list[x])]

LEMMA LoadNumbers ==
  ASSUME NEW base, NEW list, IsList(list)
  PROVE  \E at : /\ at[0] = base
                 /\ \A n \in 1 .. Len(list) : at[n] = LoadNumber(at[n - 1], list[n])
                 /\ at[Len(list)] = FoldLeft(LoadNumber, base, list)
<1> DEFINE p == [kind |-> "load number", base |-> base, list |-> list]
<1>1. p.kind = "load number" /\ p.base = base /\ p.list = list
  OBVIOUS
<1> HIDE DEF p
<1>2. \A w, x : Step(p, w, x) = LoadNumber(w, x)
  BY <1>1 DEF Step
<1>3. \A g : LoadingNumbers(base, list, g) <=> g = [s \in SUBSET DOMAIN p.list |-> FoldValue(p, g, s)]
  <2> SUFFICES ASSUME NEW g
               PROVE  LoadingNumbers(base, list, g) <=> g = [s \in SUBSET DOMAIN p.list |-> FoldValue(p, g, s)]
    OBVIOUS
  <2>1. \A s : (IF s = {} THEN base ELSE LET x == Max(s) IN LoadNumber(g[s \ {x}], list[x])) = FoldValue(p, g, s)
    BY <1>1, <1>2 DEF FoldValue
  <2> QED
    BY <1>1, <2>1 DEF LoadingNumbers
<1>4. \E g : LoadingNumbers(base, list, g)
  BY <1>1, <1>3, FoldExists
<1> DEFINE g == CHOOSE h : LoadingNumbers(base, list, h)
<1>5. LoadingNumbers(base, list, g)
  BY <1>4
<1>6. FoldLeft(LoadNumber, base, list) = g[DOMAIN list]
  BY DEF FoldLeft, MapThenFoldSet, LoadingNumbers
<1> HIDE DEF g
<1>7. g = [s \in SUBSET DOMAIN p.list |-> FoldValue(p, g, s)]
  BY <1>3, <1>5
<1>8. IsList(p.list)
  BY <1>1
<1>9. PICK at : Folds(p, at) /\ at[Len(p.list)] = g[DOMAIN p.list]
  BY <1>7, <1>8, FoldSteps
<1> QED
  BY <1>1, <1>2, <1>6, <1>9 DEF Folds

-----------------------------------------------------------------------------
(* Sorting. *)

\* The pairs in R order the elements of S.
StrictOrder(S, R) ==
  /\ \A s \in S : <<s, s>> \notin R
  /\ \A s, t \in S : s = t \/ <<s, t>> \in R \/ <<t, s>> \in R
  /\ \A s, t, u \in S : <<s, t>> \in R /\ <<t, u>> \in R => <<s, u>> \in R

Below(S, R, s) == {t \in S : <<t, s>> \in R}
Place(S, R, s) == Cardinality(Below(S, R, s))

\* The elements of S in increasing order.
IsSorting(list, S, R) ==
  /\ list \in [1 .. Cardinality(S) -> S]
  /\ \A m, n \in 1 .. Cardinality(S) : m < n => <<list[m], list[n]>> \in R

LEMMA PlaceFacts ==
  ASSUME NEW S, IsFiniteSet(S), NEW R, StrictOrder(S, R)
  PROVE  /\ \A s \in S : Place(S, R, s) \in 0 .. Cardinality(S) - 1
         /\ \A s, t \in S : Place(S, R, s) < Place(S, R, t) => <<s, t>> \in R
         /\ \A s, t \in S : Place(S, R, s) = Place(S, R, t) => s = t
         /\ \A k \in 0 .. Cardinality(S) - 1 : \E s \in S : Place(S, R, s) = k
<1>1. Cardinality(S) \in Nat
  BY FS_CardinalityType
<1>2. \A s \in S : IsFiniteSet(Below(S, R, s)) /\ Place(S, R, s) \in Nat
  <2> SUFFICES ASSUME NEW s \in S
               PROVE  IsFiniteSet(Below(S, R, s)) /\ Place(S, R, s) \in Nat
    OBVIOUS
  <2>1. Below(S, R, s) \in SUBSET S
    BY DEF Below
  <2>2. IsFiniteSet(Below(S, R, s))
    BY <2>1, FS_Subset
  <2> QED
    BY <2>2, FS_CardinalityType DEF Place
<1>3. ASSUME NEW s \in S
      PROVE  Place(S, R, s) \in 0 .. Cardinality(S) - 1
  <2>1. IsFiniteSet(S \ {s}) /\ Cardinality(S \ {s}) = Cardinality(S) - 1
    BY Without
  <2>2. Below(S, R, s) \in SUBSET (S \ {s})
    BY DEF Below, StrictOrder
  <2>3. Cardinality(Below(S, R, s)) <= Cardinality(S \ {s})
    BY <2>1, <2>2, FS_Subset
  <2> QED
    BY <1>1, <1>2, <2>1, <2>3 DEF Place
<1>4. ASSUME NEW s \in S, NEW t \in S, <<s, t>> \in R
      PROVE  Place(S, R, s) < Place(S, R, t)
  <2>1. Below(S, R, s) \in SUBSET Below(S, R, t)
    BY <1>4 DEF Below, StrictOrder
  <2>2. s \in Below(S, R, t) /\ s \notin Below(S, R, s)
    BY <1>4 DEF Below, StrictOrder
  <2>3. Cardinality(Below(S, R, s)) <= Cardinality(Below(S, R, t))
    BY <1>2, <2>1, FS_Subset
  <2>4. Cardinality(Below(S, R, s)) # Cardinality(Below(S, R, t))
    BY <1>2, <2>1, <2>2, FS_Subset
  <2> QED
    BY <1>2, <2>3, <2>4 DEF Place
<1>5. ASSUME NEW s \in S, NEW t \in S, Place(S, R, s) < Place(S, R, t)
      PROVE  <<s, t>> \in R
  <2>1. Place(S, R, s) \in Nat /\ Place(S, R, t) \in Nat
    BY <1>2
  <2>2. <<t, s>> \notin R /\ s # t
    BY <1>4, <1>5, <2>1
  <2> QED
    BY <2>2 DEF StrictOrder
<1>6. ASSUME NEW s \in S, NEW t \in S, Place(S, R, s) = Place(S, R, t)
      PROVE  s = t
  <2>1. <<s, t>> \notin R /\ <<t, s>> \notin R
    BY <1>2, <1>4, <1>6
  <2> QED
    BY <2>1 DEF StrictOrder
<1>7. ASSUME NEW k \in 0 .. Cardinality(S) - 1
      PROVE  \E s \in S : Place(S, R, s) = k
  <2> DEFINE T == 0 .. Cardinality(S) - 1
             h == [s \in S |-> Place(S, R, s)]
  <2>1. h \in [S -> T]
    BY <1>3
  <2>2. \A s, t \in S : h[s] = h[t] => s = t
    BY <1>6
  <2>3. IsFiniteSet(T) /\ Cardinality(T) = Cardinality(S)
    <3>1. 0 \in Int /\ Cardinality(S) - 1 \in Int
      BY <1>1
    <3> QED
      BY <1>1, <3>1, FS_Interval
  <2> HIDE DEF T
  <2>4. h \in Injection(S, T)
    BY <2>1, <2>2 DEF Injection, IsInjective
  <2> HIDE DEF h
  <2>5. h \in Surjection(S, T)
    BY <2>3, <2>4, FS_Injection
  <2>6. k \in T
    BY DEF T
  <2>7. PICK s \in S : h[s] = k
    BY <2>5, <2>6 DEF Surjection
  <2> QED
    BY <2>7 DEF h
<1> QED
  BY <1>3, <1>5, <1>6, <1>7

LEMMA SortingExists ==
  ASSUME NEW S, IsFiniteSet(S), NEW R, StrictOrder(S, R)
  PROVE  \E list : IsSorting(list, S, R)
<1> DEFINE N == Cardinality(S)
           list == [n \in 1 .. N |-> CHOOSE s \in S : Place(S, R, s) = n - 1]
<1>1. N \in Nat
  BY FS_CardinalityType
<1>2. ASSUME NEW n \in 1 .. N
      PROVE  list[n] \in S /\ Place(S, R, list[n]) = n - 1
  <2>1. n - 1 \in 0 .. N - 1
    BY <1>1
  <2>2. \E s \in S : Place(S, R, s) = n - 1
    BY <2>1, PlaceFacts
  <2> QED
    BY <2>2
<1>3. list = [n \in 1 .. N |-> list[n]]
  OBVIOUS
<1> HIDE DEF list
<1>4. ASSUME NEW m \in 1 .. N, NEW n \in 1 .. N, m < n
      PROVE  <<list[m], list[n]>> \in R
  <2>1. Place(S, R, list[m]) < Place(S, R, list[n])
    BY <1>1, <1>2, <1>4
  <2> QED
    BY <1>2, <2>1, PlaceFacts
<1>5. list \in [1 .. N -> S]
  BY <1>2, <1>3
<1> QED
  BY <1>4, <1>5 DEF IsSorting

LEMMA SortingFacts ==
  ASSUME NEW S, IsFiniteSet(S), NEW R, StrictOrder(S, R), NEW list, IsSorting(list, S, R)
  PROVE  /\ IsList(list) /\ Len(list) = Cardinality(S) /\ ToSet(list) = S
         /\ \A m, n \in 1 .. Len(list) : list[m] = list[n] => m = n
         /\ \A n \in 1 .. Len(list) : Place(S, R, list[n]) = n - 1
<1> DEFINE N == Cardinality(S)
<1>1. N \in Nat
  BY FS_CardinalityType
<1>2. list \in [1 .. N -> S] /\ \A m, n \in 1 .. N : m < n => <<list[m], list[n]>> \in R
  BY DEF IsSorting
<1>3. IsFiniteSet(1 .. N) /\ Cardinality(1 .. N) = N
  BY <1>1, FS_Interval
<1> HIDE DEF N
<1>4. IsList(list) /\ Len(list) = N
  BY <1>1, <1>2, FunctionIsList
<1>5. ASSUME NEW m \in 1 .. N, NEW n \in 1 .. N, list[m] = list[n]
      PROVE  m = n
  <2>1. list[m] \in S /\ <<list[m], list[m]>> \notin R
    BY <1>2 DEF StrictOrder
  <2>2. ~ m < n /\ ~ n < m
    BY <1>2, <1>5, <2>1
  <2> QED
    BY <2>2
<1>6. list \in Surjection(1 .. N, S)
  <2>1. list \in Injection(1 .. N, S)
    BY <1>2, <1>5 DEF Injection, IsInjective
  <2>2. Cardinality(1 .. N) = Cardinality(S)
    BY <1>3 DEF N
  <2> QED
    BY <1>3, <2>1, <2>2, FS_Injection
<1>7. ToSet(list) = S
  BY <1>2, <1>6 DEF Surjection, ToSet
<1>8. ASSUME NEW n \in 1 .. N
      PROVE  Place(S, R, list[n]) = n - 1
  <2> DEFINE T == 1 .. n - 1
             B == Below(S, R, list[n])
             h == [m \in T |-> list[m]]
  <2>1. IsFiniteSet(T) /\ Cardinality(T) = n - 1
    <3>1. 1 \in Int /\ n - 1 \in Int /\ n - 1 >= 0
      BY <1>1
    <3> QED
      BY <1>1, <3>1, FS_Interval
  <2>2. \A m \in T : m \in 1 .. N /\ m < n
    BY <1>1
  <2>3. h \in [T -> B]
    BY <1>2, <2>2 DEF Below
  <2>4. \A k, m \in T : h[k] = h[m] => k = m
    BY <1>5, <2>2
  <2>5. ASSUME NEW t \in B
        PROVE  \E m \in T : h[m] = t
    <3>1. t \in S /\ <<t, list[n]>> \in R
      BY DEF Below
    <3>2. PICK m \in 1 .. N : list[m] = t
      BY <1>6, <3>1 DEF Surjection
    <3>3. ~ n < m /\ m # n
      <4>1. list[n] \in S /\ <<list[n], list[n]>> \notin R
        BY <1>2 DEF StrictOrder
      <4>2. n < m => <<list[n], t>> \in R
        BY <1>2, <3>2
      <4> QED
        BY <3>1, <3>2, <4>1, <4>2 DEF StrictOrder
    <3>4. m \in T
      BY <1>1, <3>3
    <3> QED
      BY <3>2, <3>4
  <2> HIDE DEF T, B
  <2>6. h \in Bijection(T, B)
    BY <2>3, <2>4, <2>5 DEF Bijection, Injection, Surjection, IsInjective
  <2> HIDE DEF h
  <2>7. IsFiniteSet(B) /\ Cardinality(B) = Cardinality(T)
    BY <2>1, <2>6, FS_Bijection DEF ExistsBijection
  <2> QED
    BY <2>1, <2>7 DEF B, Place
<1> QED
  BY <1>4, <1>5, <1>7, <1>8 DEF N

LEMMA SortingIsUnique ==
  ASSUME NEW S, IsFiniteSet(S), NEW R, StrictOrder(S, R),
         NEW list, IsSorting(list, S, R), NEW other, IsSorting(other, S, R)
  PROVE  list = other
<1>1. Len(list) = Cardinality(S) /\ Len(other) = Cardinality(S)
  BY SortingFacts
<1>2. ASSUME NEW n \in 1 .. Cardinality(S)
      PROVE  list[n] = other[n]
  <2>1. list[n] \in S /\ other[n] \in S
    BY DEF IsSorting
  <2>2. Place(S, R, list[n]) = n - 1 /\ Place(S, R, other[n]) = n - 1
    BY <1>1, SortingFacts
  <2> QED
    BY <2>1, <2>2, PlaceFacts
<1>3. list = [n \in 1 .. Cardinality(S) |-> list[n]] /\ other = [n \in 1 .. Cardinality(S) |-> other[n]]
  BY DEF IsSorting
<1> QED
  BY <1>2, <1>3

-----------------------------------------------------------------------------
(* Bases. *)

\* Generators in increasing order.
Ascending(i, b) ==
  /\ IsList(b)
  /\ \A n \in 1 .. Len(b) : MonomialOn(b[n], DOMAIN i)
  /\ \A m, n \in 1 .. Len(b) : m < n => Deglex(i, b[m], b[n])

Increasing(i, S) == {p \in S \X S : Deglex(i, p[1], p[2])}

LEMMA DeglexOrders ==
  ASSUME NEW i, NEW A, Orders(i, A), NEW S, \A f \in S : MonomialOn(f, A)
  PROVE  StrictOrder(S, Increasing(i, S))
<1>1. \A f, g \in S : <<f, g>> \in Increasing(i, S) <=> Deglex(i, f, g)
  BY DEF Increasing
<1>2. \A f \in S : ~Deglex(i, f, f)
  BY DeglexIsIrreflexive
<1>3. \A f, g \in S : f = g \/ Deglex(i, f, g) \/ Deglex(i, g, f)
  BY DeglexIsConnex
<1>4. \A f, g, h \in S : Deglex(i, f, g) /\ Deglex(i, g, h) => Deglex(i, f, h)
  BY DeglexIsTransitive
<1> QED
  BY <1>1, <1>2, <1>3, <1>4 DEF StrictOrder

LEMMA IntervalIsFinite ==
  ASSUME NEW n \in Nat
  PROVE  IsFiniteSet(1 .. n) /\ Cardinality(1 .. n) = n
<1>1. 1 \in Int /\ n \in Int
  OBVIOUS
<1> QED
  BY <1>1, FS_Interval

LEMMA ToSetOfList ==
  ASSUME NEW b, IsList(b)
  PROVE  /\ \A x : x \in ToSet(b) <=> \E n \in 1 .. Len(b) : b[n] = x
         /\ IsFiniteSet(ToSet(b))
<1>1. \A x : x \in ToSet(b) <=> \E n \in 1 .. Len(b) : b[n] = x
  BY DEF ToSet, IsList
<1>2. IsFiniteSet(1 .. Len(b))
  BY IntervalIsFinite DEF IsList
<1>3. b \in Surjection(1 .. Len(b), ToSet(b))
  BY <1>1 DEF Surjection, IsList
<1>4. IsFiniteSet(ToSet(b))
  BY <1>2, <1>3, FS_Surjection
<1> QED
  BY <1>1, <1>4

LEMMA AscendingFacts ==
  ASSUME NEW i, Orders(i, DOMAIN i), NEW b, Ascending(i, b)
  PROVE  /\ StrictOrder(ToSet(b), Increasing(i, ToSet(b)))
         /\ IsSorting(b, ToSet(b), Increasing(i, ToSet(b)))
         /\ IsFiniteSet(ToSet(b)) /\ Len(b) = Cardinality(ToSet(b))
         /\ \A m, n \in 1 .. Len(b) : b[m] = b[n] => m = n
<1> DEFINE S == ToSet(b)
<1>1. IsFiniteSet(S) /\ \A x : x \in S <=> \E n \in 1 .. Len(b) : b[n] = x
  BY ToSetOfList DEF Ascending
<1>2. \A f \in S : MonomialOn(f, DOMAIN i)
  BY <1>1 DEF Ascending
<1> HIDE DEF S
<1>3. StrictOrder(S, Increasing(i, S))
  BY <1>2, DeglexOrders
<1>4. Len(b) \in Nat /\ b = [n \in 1 .. Len(b) |-> b[n]]
  BY DEF Ascending, IsList
<1>5. \A m, n \in 1 .. Len(b) : m < n => <<b[m], b[n]>> \in Increasing(i, S)
  BY <1>1 DEF Ascending, Increasing
<1>6. ASSUME NEW m \in 1 .. Len(b), NEW n \in 1 .. Len(b), b[m] = b[n]
      PROVE  m = n
  <2>1. b[m] \in S
    BY <1>1
  <2>2. <<b[m], b[m]>> \notin Increasing(i, S)
    BY <1>3, <2>1 DEF StrictOrder
  <2>3. ~ m < n /\ ~ n < m
    BY <1>5, <1>6, <2>2
  <2> QED
    BY <1>4, <2>3
<1>7. Cardinality(1 .. Len(b)) = Len(b) /\ IsFiniteSet(1 .. Len(b))
  BY <1>4, IntervalIsFinite
<1>8. b \in Bijection(1 .. Len(b), S)
  BY <1>1, <1>4, <1>6 DEF Bijection, Injection, Surjection, IsInjective
<1>9. Cardinality(S) = Len(b)
  BY <1>7, <1>8, FS_Bijection DEF ExistsBijection
<1>10. b \in [1 .. Len(b) -> S]
  BY <1>1, <1>4
<1>11. IsSorting(b, S, Increasing(i, S))
  BY <1>5, <1>9, <1>10 DEF IsSorting
<1> QED
  BY <1>1, <1>3, <1>6, <1>9, <1>11 DEF S

LEMMA MakeFacts ==
  ASSUME NEW i, Orders(i, DOMAIN i), NEW list, IsFiniteSet(ToSet(list)),
         \A f \in ToSet(list) : MonomialOn(f, DOMAIN i)
  PROVE  /\ Ascending(i, Make(i, list))
         /\ ToSet(Make(i, list)) = ToSet(list)
         /\ Len(Make(i, list)) = Cardinality(ToSet(list))
<1> DEFINE S == ToSet(list)
           R == Increasing(i, S)
           b == Make(i, list)
<1>1. StrictOrder(S, R)
  BY DeglexOrders
<1>2. Cardinality(S) \in Nat
  BY FS_CardinalityType
<1>3. b = CHOOSE s \in [1 .. Cardinality(S) -> S] : \A m, n \in DOMAIN s : m < n => Deglex(i, s[m], s[n])
  BY DEF Make, Sorted
<1>4. \A f, g \in S : <<f, g>> \in R <=> Deglex(i, f, g)
  BY DEF Increasing
<1> HIDE DEF S, R, b
<1>5. PICK s : IsSorting(s, S, R)
  BY <1>1, SortingExists DEF S
<1>6. s \in [1 .. Cardinality(S) -> S] /\ \A m, n \in DOMAIN s : m < n => Deglex(i, s[m], s[n])
  BY <1>4, <1>5 DEF IsSorting
<1>7. b \in [1 .. Cardinality(S) -> S] /\ \A m, n \in DOMAIN b : m < n => Deglex(i, b[m], b[n])
  BY <1>3, <1>6
<1>8. IsSorting(b, S, R)
  BY <1>4, <1>7 DEF IsSorting
<1>9. IsList(b) /\ Len(b) = Cardinality(S) /\ ToSet(b) = S
  <2>1. IsFiniteSet(S)
    BY DEF S
  <2> QED
    BY <1>1, <1>8, <2>1, SortingFacts
<1>10. \A n \in 1 .. Len(b) : MonomialOn(b[n], DOMAIN i)
  <2>1. \A n \in 1 .. Len(b) : b[n] \in S
    BY <1>7, <1>9
  <2> QED
    BY <2>1 DEF S
<1>11. Ascending(i, b)
  BY <1>7, <1>9, <1>10 DEF Ascending
<1> QED
  BY <1>9, <1>11 DEF S, b

\* The ids of the atoms in A are in the same order.
Alike(i, j, A) == \A a, b \in A : i[a] < i[b] <=> j[a] < j[b]

LEMMA DeglexAlike ==
  ASSUME NEW i, NEW j, NEW A, Alike(i, j, A), NEW f, DOMAIN f \subseteq A, NEW g, DOMAIN g \subseteq A
  PROVE  Deglex(i, f, g) <=> Deglex(j, f, g)
<1>1. \A m \in DOMAIN f : \A n \in DOMAIN f \cup DOMAIN g : i[n] < i[m] <=> j[n] < j[m]
  BY DEF Alike
<1> QED
  BY <1>1 DEF Deglex

LEMMA AscendingAlike ==
  ASSUME NEW i, NEW j, NEW b, Ascending(i, b), Factors(ToSet(b)) \subseteq DOMAIN j, Alike(i, j, Factors(ToSet(b)))
  PROVE  Ascending(j, b)
<1>1. \A n \in 1 .. Len(b) : DOMAIN b[n] \subseteq Factors(ToSet(b))
  BY ToSetOfList DEF Ascending, Factors
<1>2. \A m, n \in 1 .. Len(b) : Deglex(i, b[m], b[n]) <=> Deglex(j, b[m], b[n])
  BY <1>1, DeglexAlike
<1>3. \A n \in 1 .. Len(b) : MonomialOn(b[n], DOMAIN j)
  BY <1>1 DEF Ascending, MonomialOn
<1> QED
  BY <1>2, <1>3 DEF Ascending

LEMMA AscendingIsUnique ==
  ASSUME NEW i, Orders(i, DOMAIN i), NEW b, Ascending(i, b), NEW c, Ascending(i, c), ToSet(b) = ToSet(c)
  PROVE  b = c
<1>1. /\ IsSorting(b, ToSet(b), Increasing(i, ToSet(b))) /\ StrictOrder(ToSet(b), Increasing(i, ToSet(b)))
      /\ IsFiniteSet(ToSet(b))
  BY AscendingFacts
<1>2. IsSorting(c, ToSet(b), Increasing(i, ToSet(b)))
  BY AscendingFacts
<1> QED
  BY <1>1, <1>2, SortingIsUnique

-----------------------------------------------------------------------------
(* Ids. *)

\* Ids are below the next id, different atoms have different ids.
AreIds(i, next) ==
  /\ next \in Nat
  /\ i = [a \in DOMAIN i |-> i[a]]
  /\ \A a \in DOMAIN i : i[a] \in Nat /\ i[a] < next
  /\ \A a, b \in DOMAIN i : i[a] = i[b] => a = b

\* In new, there are the atoms in A in addition to those in old.
Grows(old, new, A) ==
  /\ AreIds(new.ids, new.next)
  /\ DOMAIN new.ids = DOMAIN old.ids \cup A
  /\ \A a \in DOMAIN old.ids : new.ids[a] = old.ids[a]

LEMMA IdsOrder ==
  ASSUME NEW i, NEW next, AreIds(i, next)
  PROVE  Orders(i, DOMAIN i)
BY DEF AreIds, Orders

LEMMA RestrictedIds ==
  ASSUME NEW i, NEW next, AreIds(i, next), NEW A
  PROVE  LET j == [a \in DOMAIN i \cap A |-> i[a]]
         IN  AreIds(j, next) /\ DOMAIN j = DOMAIN i \cap A /\ \A a \in DOMAIN j : j[a] = i[a]
BY DEF AreIds

LEMMA GrowsByNothing ==
  ASSUME NEW known, AreIds(known.ids, known.next)
  PROVE  Grows(known, known, {})
BY DEF Grows

LEMMA GrowsTwice ==
  ASSUME NEW u, NEW v, NEW w, NEW A, NEW B, Grows(u, v, A), Grows(v, w, B)
  PROVE  Grows(u, w, A \cup B)
BY DEF Grows

LEMMA ObtainFacts ==
  ASSUME NEW known, AreIds(known.ids, known.next), NEW a
  PROVE  /\ Grows(known, Obtain(known, a), {a})
         /\ a \in DOMAIN known.ids => Obtain(known, a) = known
         /\ a \notin DOMAIN known.ids =>
              Obtain(known, a).next = known.next + 1 /\ Obtain(known, a).ids[a] = known.next
<1>1. CASE a \in DOMAIN known.ids
  <2>1. Obtain(known, a) = known
    BY <1>1 DEF Obtain
  <2> QED
    BY <1>1, <2>1 DEF Grows
<1>2. CASE a \notin DOMAIN known.ids
  <2> DEFINE new == Obtain(known, a)
             D == DOMAIN known.ids \cup {a}
  <2>1. /\ new.ids = [b \in D |-> IF b = a THEN known.next ELSE known.ids[b]]
        /\ new.next = known.next + 1
    BY <1>2 DEF Obtain
  <2> HIDE DEF new
  <2>2. DOMAIN new.ids = D /\ \A b \in D : new.ids[b] = IF b = a THEN known.next ELSE known.ids[b]
    BY <2>1
  <2>3. new.ids[a] = known.next /\ \A b \in DOMAIN known.ids : new.ids[b] = known.ids[b]
    BY <1>2, <2>2
  <2>4. /\ known.next \in Nat
        /\ \A b \in DOMAIN known.ids : known.ids[b] \in Nat /\ known.ids[b] < known.next
        /\ \A b, c \in DOMAIN known.ids : known.ids[b] = known.ids[c] => b = c
    BY DEF AreIds
  <2>5. \A b \in DOMAIN new.ids : new.ids[b] \in Nat /\ new.ids[b] < new.next
    BY <2>1, <2>2, <2>3, <2>4
  <2>6. \A b, c \in DOMAIN new.ids : new.ids[b] = new.ids[c] => b = c
    <3> SUFFICES ASSUME NEW b \in D, NEW c \in D, new.ids[b] = new.ids[c]
                 PROVE  b = c
      BY <2>2
    <3>1. CASE b = a /\ c # a
      BY <2>3, <2>4, <3>1
    <3>2. CASE b # a /\ c = a
      BY <2>3, <2>4, <3>2
    <3>3. CASE b # a /\ c # a
      BY <2>3, <2>4, <3>3
    <3> QED
      BY <3>1, <3>2, <3>3
  <2>7. new.ids = [b \in DOMAIN new.ids |-> new.ids[b]]
    BY <2>1, <2>2
  <2>8. new.next \in Nat
    BY <2>1, <2>4
  <2>9. Grows(known, new, {a})
    BY <2>2, <2>3, <2>5, <2>6, <2>7, <2>8 DEF AreIds, Grows
  <2> QED
    BY <1>2, <2>1, <2>3, <2>9 DEF new
<1> QED
  BY <1>1, <1>2

\* Atoms that have been known before stay in the same order.
LEMMA GrowsAlike ==
  ASSUME NEW old, NEW new, NEW A, Grows(old, new, A), NEW B, B \subseteq DOMAIN old.ids
  PROVE  Alike(old.ids, new.ids, B) /\ B \subseteq DOMAIN new.ids
BY DEF Grows, Alike

LEMMA AscendingGrows ==
  ASSUME NEW old, NEW new, NEW A, Grows(old, new, A), NEW b, Ascending(old.ids, b)
  PROVE  Ascending(new.ids, b)
<1>1. Factors(ToSet(b)) \subseteq DOMAIN old.ids
  BY ToSetOfList DEF Ascending, Factors, MonomialOn
<1>2. Alike(old.ids, new.ids, Factors(ToSet(b))) /\ Factors(ToSet(b)) \subseteq DOMAIN new.ids
  BY <1>1, GrowsAlike
<1> QED
  BY <1>2, AscendingAlike

-----------------------------------------------------------------------------
(* What archives consist of.  S lists the pointers that are registered, in the
   end; up to k of them when a part of the archive begins, and up to l of them
   when it ends. *)

Reference(S, k, pointer, p) == \E n \in 1 .. k : S[n] = p /\ pointer = [shared |-> n]

AtomCode(S, k, l, pointer, a) ==
  \/ Reference(S, k, pointer, Number(Linear(a))) /\ l = k
  \/ /\ l = k + 1 /\ S[l] = Number(Linear(a))
     /\ pointer = [shared |-> l, content |-> [kind |-> "random", seed |-> a]]

\* How many pointers are registered after each of n parts.
Counts(c, n, k, l) == c[0] = k /\ c[n] = l /\ \A m \in 0 .. n : c[m] \in k .. l

AtomsCode(S, k, l, list, order) ==
  /\ IsList(list) /\ Len(list) = Len(order)
  /\ \E c : /\ Counts(c, Len(list), k, l)
            /\ \A n \in 1 .. Len(list) : AtomCode(S, c[n - 1], c[n], list[n], order[n])

\* The order of the elements of A in a list.
Enumerates(order, A) ==
  /\ IsList(order) /\ ToSet(order) = A
  /\ \A m, n \in 1 .. Len(order) : order[m] = order[n] => m = n

ProductContent(list, order, f) ==
  [kind |-> "product", factors |-> list, exponents |-> [n \in DOMAIN order |-> f[order[n]]]]

ProductCode(S, k, l, pointer, f) ==
  \/ Reference(S, k, pointer, Number(f)) /\ l = k
  \/ \E order, list :
       /\ Enumerates(order, DOMAIN f)
       /\ S[k + 1] = Number(f)
       /\ pointer = [shared |-> k + 1, content |-> ProductContent(list, order, f)]
       /\ AtomsCode(S, k + 1, l, list, order)

NumberCode(S, k, l, pointer, f) ==
  \/ \E a \in Atom : f = Linear(a) /\ AtomCode(S, k, l, pointer, a)
  \/ f \notin {Linear(a) : a \in Atom} /\ ProductCode(S, k, l, pointer, f)

NumbersCode(S, k, l, list, b) ==
  /\ IsList(list) /\ Len(list) = Len(b)
  /\ \E c : /\ Counts(c, Len(list), k, l)
            /\ \A n \in 1 .. Len(list) : NumberCode(S, c[n - 1], c[n], list[n], b[n])

ModuleCode(S, k, l, pointer, b) ==
  \/ Reference(S, k, pointer, Module(b)) /\ l = k
  \/ /\ S[k + 1] = Module(b)
     /\ \E list : pointer = [shared |-> k + 1, content |-> list] /\ NumbersCode(S, k + 1, l, list, b)

\* Registering more pointers changes nothing.
Prefix(S, T) == Len(S) <= Len(T) /\ \A n \in 1 .. Len(S) : T[n] = S[n]

LEMMA ReferenceStays ==
  ASSUME NEW S, NEW T, IsList(S), Prefix(S, T), NEW k \in Nat, k <= Len(S), NEW pointer, NEW p,
         Reference(S, k, pointer, p)
  PROVE  Reference(T, k, pointer, p)
<1>1. \A n \in 1 .. k : n \in 1 .. Len(S)
  BY DEF IsList
<1> QED
  BY <1>1 DEF Reference, Prefix

LEMMA AtomCodeStays ==
  ASSUME NEW S, NEW T, IsList(S), Prefix(S, T), NEW k \in Nat, NEW l \in Nat, l <= Len(S), NEW pointer, NEW a,
         AtomCode(S, k, l, pointer, a)
  PROVE  AtomCode(T, k, l, pointer, a)
<1>1. CASE Reference(S, k, pointer, Number(Linear(a))) /\ l = k
  BY <1>1, ReferenceStays DEF AtomCode
<1>2. CASE /\ l = k + 1 /\ S[l] = Number(Linear(a))
           /\ pointer = [shared |-> l, content |-> [kind |-> "random", seed |-> a]]
  <2>1. l \in 1 .. Len(S)
    BY <1>2 DEF IsList
  <2>2. T[l] = S[l]
    BY <2>1 DEF Prefix
  <2> QED
    BY <1>2, <2>2 DEF AtomCode
<1> QED
  BY <1>1, <1>2 DEF AtomCode

LEMMA CountFacts ==
  ASSUME NEW c, NEW n \in Nat, NEW k \in Nat, NEW l \in Nat, Counts(c, n, k, l)
  PROVE  /\ \A m \in 0 .. n : c[m] \in Nat /\ k <= c[m] /\ c[m] <= l
         /\ \A m \in 1 .. n : m - 1 \in 0 .. n /\ m \in 0 .. n
         /\ k <= l
<1>1. \A m \in 0 .. n : c[m] \in k .. l
  BY DEF Counts
<1>2. \A x \in k .. l : x \in Nat /\ k <= x /\ x <= l
  OBVIOUS
<1>3. \A m \in 1 .. n : m - 1 \in 0 .. n /\ m \in 0 .. n
  OBVIOUS
<1>4. 0 \in 0 .. n
  OBVIOUS
<1> QED
  BY <1>1, <1>2, <1>3, <1>4

LEMMA AtomsCodeStays ==
  ASSUME NEW S, NEW T, IsList(S), Prefix(S, T), NEW k \in Nat, NEW l \in Nat, l <= Len(S), NEW list, NEW order,
         AtomsCode(S, k, l, list, order)
  PROVE  AtomsCode(T, k, l, list, order) /\ k <= l
<1>1. PICK c : /\ Counts(c, Len(list), k, l)
               /\ \A n \in 1 .. Len(list) : AtomCode(S, c[n - 1], c[n], list[n], order[n])
  BY DEF AtomsCode
<1>2. Len(list) \in Nat
  BY DEF AtomsCode, IsList
<1>3. ASSUME NEW n \in 1 .. Len(list)
      PROVE  AtomCode(T, c[n - 1], c[n], list[n], order[n])
  <2>1. c[n - 1] \in Nat /\ c[n] \in Nat /\ c[n] <= l
    BY <1>1, <1>2, CountFacts
  <2>2. c[n] <= Len(S)
    BY <2>1 DEF IsList
  <2> QED
    BY <1>1, <2>1, <2>2, AtomCodeStays
<1>4. k <= l
  BY <1>1, <1>2, CountFacts
<1> QED
  BY <1>1, <1>3, <1>4 DEF AtomsCode

LEMMA NumberCodeStays ==
  ASSUME NEW S, NEW T, IsList(S), Prefix(S, T), NEW k \in Nat, NEW l \in Nat, l <= Len(S), NEW pointer, NEW f,
         NumberCode(S, k, l, pointer, f)
  PROVE  NumberCode(T, k, l, pointer, f)
<1>1. CASE \E a \in Atom : f = Linear(a) /\ AtomCode(S, k, l, pointer, a)
  BY <1>1, AtomCodeStays DEF NumberCode
<1>2. CASE f \notin {Linear(a) : a \in Atom} /\ ProductCode(S, k, l, pointer, f)
  <2>1. CASE Reference(S, k, pointer, Number(f)) /\ l = k
    BY <1>2, <2>1, ReferenceStays DEF NumberCode, ProductCode
  <2>2. CASE ~ (Reference(S, k, pointer, Number(f)) /\ l = k)
    <3>1. PICK order, list :
            /\ Enumerates(order, DOMAIN f)
            /\ S[k + 1] = Number(f)
            /\ pointer = [shared |-> k + 1, content |-> ProductContent(list, order, f)]
            /\ AtomsCode(S, k + 1, l, list, order)
      BY <1>2, <2>2 DEF ProductCode
    <3>2. k + 1 \in Nat
      OBVIOUS
    <3>3. AtomsCode(T, k + 1, l, list, order) /\ k + 1 <= l
      BY <3>1, <3>2, AtomsCodeStays
    <3>4. k + 1 \in 1 .. Len(S)
      BY <3>3 DEF IsList
    <3>5. T[k + 1] = Number(f)
      BY <3>1, <3>4 DEF Prefix
    <3> QED
      BY <1>2, <3>1, <3>3, <3>5 DEF NumberCode, ProductCode
  <2> QED
    BY <2>1, <2>2
<1> QED
  BY <1>1, <1>2 DEF NumberCode

LEMMA ModuleCodeStays ==
  ASSUME NEW S, NEW T, IsList(S), Prefix(S, T), NEW k \in Nat, NEW l \in Nat, l <= Len(S), NEW pointer, NEW b,
         ModuleCode(S, k, l, pointer, b)
  PROVE  ModuleCode(T, k, l, pointer, b)
<1>1. CASE Reference(S, k, pointer, Module(b)) /\ l = k
  BY <1>1, ReferenceStays DEF ModuleCode
<1>2. CASE ~ (Reference(S, k, pointer, Module(b)) /\ l = k)
  <2>1. PICK list : pointer = [shared |-> k + 1, content |-> list] /\ NumbersCode(S, k + 1, l, list, b)
    BY <1>2 DEF ModuleCode
  <2>2. PICK c : /\ Counts(c, Len(list), k + 1, l)
                 /\ \A n \in 1 .. Len(list) : NumberCode(S, c[n - 1], c[n], list[n], b[n])
    BY <2>1 DEF NumbersCode
  <2>3. Len(list) \in Nat /\ k + 1 \in Nat
    BY <2>1 DEF NumbersCode, IsList
  <2>4. ASSUME NEW n \in 1 .. Len(list)
        PROVE  NumberCode(T, c[n - 1], c[n], list[n], b[n])
    <3>1. c[n - 1] \in Nat /\ c[n] \in Nat /\ c[n] <= l
      BY <2>2, <2>3, CountFacts
    <3>2. c[n] <= Len(S)
      BY <3>1 DEF IsList
    <3> QED
      BY <2>2, <3>1, <3>2, NumberCodeStays
  <2>5. k + 1 <= l
    BY <2>2, <2>3, CountFacts
  <2>6. k + 1 \in 1 .. Len(S)
    BY <2>3, <2>5 DEF IsList
  <2>7. T[k + 1] = Module(b)
    BY <1>2, <2>6 DEF ModuleCode, Prefix
  <2> QED
    BY <2>1, <2>2, <2>4, <2>7 DEF ModuleCode, NumbersCode
<1> QED
  BY <1>1, <1>2

-----------------------------------------------------------------------------
(* Writing. *)

IsWriter(w) == IsList(w.shared) /\ IsList(w.list)

\* From v to w, m pointers have been written and pointers that hold on to atoms
\* in A have been registered.
Writes(v, w, m, A) ==
  /\ IsWriter(w)
  /\ Prefix(v.shared, w.shared)
  /\ Len(w.list) = Len(v.list) + m
  /\ \A n \in 1 .. Len(v.list) : w.list[n] = v.list[n]
  /\ \A n \in Len(v.shared) + 1 .. Len(w.shared) : AtomsOf(w.shared[n]) \subseteq A

LEMMA WritesNothing ==
  ASSUME NEW w, IsWriter(w), NEW A
  PROVE  Writes(w, w, 0, A)
BY DEF Writes, IsWriter, Prefix, IsList

LEMMA WritesTwice ==
  ASSUME NEW u, IsWriter(u), NEW v, NEW w, NEW m \in Nat, NEW n \in Nat, NEW A,
         Writes(u, v, m, A), Writes(v, w, n, A)
  PROVE  Writes(u, w, m + n, A)
<1>1. /\ Len(u.shared) \in Nat /\ Len(v.shared) \in Nat /\ Len(w.shared) \in Nat
      /\ Len(u.list) \in Nat /\ Len(v.list) \in Nat /\ Len(w.list) \in Nat
  BY DEF Writes, IsWriter, IsList
<1>2. Len(u.shared) <= Len(v.shared) /\ Len(v.shared) <= Len(w.shared)
  BY DEF Writes, Prefix
<1>3. Prefix(u.shared, w.shared)
  <2>1. \A k \in 1 .. Len(u.shared) : k \in 1 .. Len(v.shared)
    BY <1>1, <1>2
  <2> QED
    BY <1>1, <1>2, <2>1 DEF Writes, Prefix
<1>4. Len(w.list) = Len(u.list) + (m + n)
  <2>1. Len(v.list) = Len(u.list) + m /\ Len(w.list) = Len(v.list) + n
    BY DEF Writes
  <2>2. \A x, y, z \in Nat : y = x + m /\ z = y + n => z = x + (m + n)
    OBVIOUS
  <2> QED
    BY <1>1, <2>1, <2>2
<1>5. \A k \in 1 .. Len(u.list) : w.list[k] = u.list[k]
  <2>1. Len(v.list) = Len(u.list) + m
    BY DEF Writes
  <2>2. \A k \in 1 .. Len(u.list) : k \in 1 .. Len(v.list)
    BY <1>1, <2>1
  <2> QED
    BY <2>2 DEF Writes
<1>6. ASSUME NEW k \in Len(u.shared) + 1 .. Len(w.shared)
      PROVE  AtomsOf(w.shared[k]) \subseteq A
  <2>1. CASE k <= Len(v.shared)
    <3>1. k \in Len(u.shared) + 1 .. Len(v.shared) /\ k \in 1 .. Len(v.shared)
      BY <1>1, <2>1
    <3>2. w.shared[k] = v.shared[k]
      BY <3>1 DEF Writes, Prefix
    <3> QED
      BY <3>1, <3>2 DEF Writes
  <2>2. CASE k > Len(v.shared)
    <3>1. k \in Len(v.shared) + 1 .. Len(w.shared)
      BY <1>1, <2>2
    <3> QED
      BY <3>1 DEF Writes
  <2> QED
    BY <1>1, <2>1, <2>2
<1> QED
  BY <1>3, <1>4, <1>5, <1>6 DEF Writes

\* One pointer at a time.
LEMMA WriteChain ==
  ASSUME NEW at, NEW N \in Nat, IsWriter(at[0]), NEW A,
         \A n \in 1 .. N : IsWriter(at[n - 1]) => Writes(at[n - 1], at[n], 1, A)
  PROVE  \A n \in 0 .. N : IsWriter(at[n]) /\ \A m \in 0 .. n : Writes(at[m], at[n], n - m, A)
<1> DEFINE P(n) == IsWriter(at[n]) /\ \A m \in 0 .. n : Writes(at[m], at[n], n - m, A)
           S == {n \in Nat : n <= N => \A k \in 0 .. n : P(k)}
<1>1. 0 \in S
  <2>1. Writes(at[0], at[0], 0, A)
    BY WritesNothing
  <2>2. \A m \in 0 .. 0 : m = 0
    OBVIOUS
  <2>3. 0 - 0 = 0
    OBVIOUS
  <2> QED
    BY <2>1, <2>2, <2>3
<1>2. ASSUME NEW n \in Nat, n \in S
      PROVE  n + 1 \in S
  <2> SUFFICES ASSUME n + 1 <= N
               PROVE  \A k \in 0 .. n + 1 : P(k)
    OBVIOUS
  <2>1. \A k \in 0 .. n : P(k)
    BY <1>2
  <2>2. IsWriter(at[n])
    BY <2>1
  <2>3. Writes(at[n], at[n + 1], 1, A)
    <3>1. n + 1 \in 1 .. N /\ (n + 1) - 1 = n
      OBVIOUS
    <3> QED
      BY <2>2, <3>1
  <2>4. IsWriter(at[n + 1])
    BY <2>3 DEF Writes
  <2>5. ASSUME NEW m \in 0 .. n + 1
        PROVE  Writes(at[m], at[n + 1], (n + 1) - m, A)
    <3>1. CASE m = n + 1
      <4>1. Writes(at[n + 1], at[n + 1], 0, A) /\ (n + 1) - m = 0
        BY <2>4, <3>1, WritesNothing
      <4> QED
        BY <3>1, <4>1
    <3>2. CASE m # n + 1
      <4>1. m \in 0 .. n /\ n - m \in Nat /\ (n + 1) - m = (n - m) + 1 /\ 1 \in Nat
        BY <3>2
      <4>2. Writes(at[m], at[n], n - m, A) /\ IsWriter(at[m])
        BY <2>1, <4>1
      <4>3. Writes(at[m], at[n + 1], (n - m) + 1, A)
        BY <2>3, <4>1, <4>2, WritesTwice
      <4> QED
        BY <4>1, <4>3
    <3> QED
      BY <3>1, <3>2
  <2>6. P(n + 1)
    BY <2>4, <2>5
  <2> HIDE DEF P
  <2>7. \A k \in 0 .. n + 1 : k \in 0 .. n \/ k = n + 1
    OBVIOUS
  <2> QED
    BY <2>1, <2>6, <2>7
<1> HIDE DEF S
<1>3. N \in S
  BY <1>1, <1>2, Folding!Induct
<1> QED
  BY <1>3 DEF S

\* After N pointers have been written.
LEMMA WriteChainFacts ==
  ASSUME NEW at, NEW N \in Nat, IsWriter(at[0]), at[0].list = <<>>, NEW A,
         \A n \in 1 .. N : IsWriter(at[n - 1]) => Writes(at[n - 1], at[n], 1, A)
  PROVE  /\ Writes(at[0], at[N], N, A) /\ Len(at[N].list) = N
         /\ \A n \in 0 .. N : IsWriter(at[n]) /\ Prefix(at[n].shared, at[N].shared) /\ Len(at[n].list) = n
         /\ \A n \in 1 .. N : at[N].list[n] = at[n].list[n]
         /\ Counts([n \in 0 .. N |-> Len(at[n].shared)], N, Len(at[0].shared), Len(at[N].shared))
<1>1. \A n \in 0 .. N : IsWriter(at[n]) /\ \A m \in 0 .. n : Writes(at[m], at[n], n - m, A)
  BY WriteChain
<1>2. N \in 0 .. N /\ 0 \in 0 .. N /\ N - 0 = N
  OBVIOUS
<1>3. ASSUME NEW n \in 0 .. N
      PROVE  /\ IsWriter(at[n]) /\ Prefix(at[n].shared, at[N].shared) /\ Len(at[n].list) = n
             /\ Len(at[n].shared) \in Len(at[0].shared) .. Len(at[N].shared)
  <2>1. Writes(at[n], at[N], N - n, A) /\ Writes(at[0], at[n], n - 0, A) /\ IsWriter(at[n])
    <3>1. 0 \in 0 .. n /\ n \in 0 .. N
      OBVIOUS
    <3> QED
      BY <1>1, <1>2, <3>1
  <2>2. Len(at[0].list) = 0
    BY EmptyIsList
  <2>3. Len(at[n].list) = n
    BY <2>1, <2>2 DEF Writes
  <2>4. Len(at[0].shared) \in Nat /\ Len(at[n].shared) \in Nat /\ Len(at[N].shared) \in Nat
    BY <1>1, <1>2 DEF IsWriter, IsList
  <2>5. Len(at[0].shared) <= Len(at[n].shared) /\ Len(at[n].shared) <= Len(at[N].shared)
    BY <2>1 DEF Writes, Prefix
  <2> QED
    BY <2>1, <2>3, <2>4, <2>5 DEF Writes
<1>4. Writes(at[0], at[N], N, A)
  BY <1>1, <1>2
<1>5. ASSUME NEW n \in 1 .. N
      PROVE  at[N].list[n] = at[n].list[n]
  <2>1. n \in 0 .. N /\ n \in 1 .. n
    OBVIOUS
  <2>2. Writes(at[n], at[N], N - n, A) /\ Len(at[n].list) = n
    BY <1>1, <1>2, <1>3, <2>1
  <2> QED
    BY <2>1, <2>2 DEF Writes
<1>6. Counts([n \in 0 .. N |-> Len(at[n].shared)], N, Len(at[0].shared), Len(at[N].shared))
  BY <1>2, <1>3 DEF Counts
<1> QED
  BY <1>2, <1>3, <1>4, <1>5, <1>6

LEMMA RegisteredFacts ==
  ASSUME NEW S, IsList(S), NEW p
  PROVE  /\ IsList(Registered(S, p)) /\ Prefix(S, Registered(S, p))
         /\ p \in ToSet(S) => Registered(S, p) = S
         /\ p \notin ToSet(S) =>
              Len(Registered(S, p)) = Len(S) + 1 /\ Registered(S, p)[Len(S) + 1] = p
<1>1. Len(S) \in Nat
  BY DEF IsList
<1>2. CASE p \in ToSet(S)
  BY <1>1, <1>2 DEF Registered, Prefix
<1>3. CASE p \notin ToSet(S)
  <2>1. Registered(S, p) = Append(S, p)
    BY <1>3 DEF Registered
  <2> QED
    BY <1>1, <1>3, <2>1, AppendFacts DEF Prefix
<1> QED
  BY <1>2, <1>3

LEMMA PointerFacts ==
  ASSUME NEW S, IsList(S), NEW p, NEW content
  PROVE  /\ p \in ToSet(S) => Reference(S, Len(S), Pointer(S, p, content), p)
         /\ p \notin ToSet(S) => Pointer(S, p, content) = [shared |-> Len(S) + 1, content |-> content]
<1>1. ASSUME p \in ToSet(S)
      PROVE  Reference(S, Len(S), Pointer(S, p, content), p)
  <2>1. \E n \in DOMAIN S : S[n] = p
    BY <1>1 DEF ToSet
  <2> DEFINE n == CHOOSE m \in DOMAIN S : S[m] = p
  <2>2. n \in 1 .. Len(S) /\ S[n] = p
    BY <2>1 DEF IsList
  <2>3. Pointer(S, p, content) = [shared |-> n]
    BY <1>1 DEF Pointer
  <2> HIDE DEF n
  <2> QED
    BY <2>2, <2>3 DEF Reference
<1> QED
  BY <1>1 DEF Pointer

LEMMA SaveAtomFacts ==
  ASSUME NEW w, IsWriter(w), NEW A, NEW a \in A
  PROVE  LET v == SaveAtom(w, a)
         IN  /\ Writes(w, v, 1, A)
             /\ AtomCode(v.shared, Len(w.shared), Len(v.shared), v.list[Len(w.list) + 1], a)
<1> DEFINE v == SaveAtom(w, a)
           p == Number(Linear(a))
           content == [kind |-> "random", seed |-> a]
           pointer == Pointer(w.shared, p, content)
<1>1. v.shared = Registered(w.shared, p) /\ v.list = Append(w.list, pointer)
  BY DEF SaveAtom
<1>2. AtomsOf(p) \subseteq A
  BY DEF AtomsOf, Number, Linear
<1> HIDE DEF v, pointer, content
<1>3. IsList(w.shared) /\ IsList(w.list) /\ Len(w.shared) \in Nat
  BY DEF IsWriter, IsList
<1>4. /\ IsList(v.list) /\ Len(v.list) = Len(w.list) + 1
      /\ \A n \in 1 .. Len(w.list) : v.list[n] = w.list[n]
      /\ v.list[Len(w.list) + 1] = pointer
  BY <1>1, <1>3, AppendFacts
<1>5. IsList(v.shared) /\ Prefix(w.shared, v.shared)
  BY <1>1, <1>3, RegisteredFacts
<1>6. CASE p \in ToSet(w.shared)
  <2>1. v.shared = w.shared
    BY <1>1, <1>3, <1>6, RegisteredFacts
  <2>2. Reference(w.shared, Len(w.shared), pointer, p)
    BY <1>3, <1>6, PointerFacts DEF pointer
  <2>3. AtomCode(v.shared, Len(w.shared), Len(v.shared), pointer, a)
    BY <2>1, <2>2 DEF AtomCode
  <2>4. \A n \in Len(w.shared) + 1 .. Len(v.shared) : FALSE
    BY <1>3, <2>1
  <2> QED
    BY <1>4, <1>5, <2>3, <2>4 DEF v, Writes, IsWriter
<1>7. CASE p \notin ToSet(w.shared)
  <2>1. Len(v.shared) = Len(w.shared) + 1 /\ v.shared[Len(w.shared) + 1] = p
    BY <1>1, <1>3, <1>7, RegisteredFacts
  <2>2. pointer = [shared |-> Len(w.shared) + 1, content |-> content]
    BY <1>3, <1>7, PointerFacts DEF pointer
  <2>3. AtomCode(v.shared, Len(w.shared), Len(v.shared), pointer, a)
    BY <2>1, <2>2 DEF AtomCode, content
  <2>4. \A n \in Len(w.shared) + 1 .. Len(v.shared) : AtomsOf(v.shared[n]) \subseteq A
    BY <1>2, <1>3, <2>1
  <2> QED
    BY <1>4, <1>5, <2>3, <2>4 DEF v, Writes, IsWriter
<1> QED
  BY <1>6, <1>7

LEMMA SaveAtomsFacts ==
  ASSUME NEW base, IsWriter(base), base.list = <<>>, NEW order, IsList(order), NEW A, ToSet(order) \subseteq A
  PROVE  LET w == FoldLeft(SaveAtom, base, order)
         IN  /\ Writes(base, w, Len(order), A)
             /\ AtomsCode(w.shared, Len(base.shared), Len(w.shared), w.list, order)
<1> DEFINE w == FoldLeft(SaveAtom, base, order)
           N == Len(order)
<1>1. N \in Nat /\ \A n \in 1 .. N : order[n] \in A
  BY ToSetOfList DEF IsList
<1>2. PICK at : /\ at[0] = base
                /\ \A n \in 1 .. N : at[n] = SaveAtom(at[n - 1], order[n])
                /\ at[N] = w
  BY SaveAtoms
<1> HIDE DEF w, N
<1>3. \A n \in 1 .. N : IsWriter(at[n - 1]) =>
        /\ Writes(at[n - 1], at[n], 1, A)
        /\ AtomCode(at[n].shared, Len(at[n - 1].shared), Len(at[n].shared), at[n].list[Len(at[n - 1].list) + 1],
                    order[n])
  BY <1>1, <1>2, SaveAtomFacts
<1> DEFINE c == [n \in 0 .. N |-> Len(at[n].shared)]
<1>4. /\ Writes(at[0], at[N], N, A) /\ Len(at[N].list) = N
      /\ \A n \in 0 .. N : IsWriter(at[n]) /\ Prefix(at[n].shared, at[N].shared) /\ Len(at[n].list) = n
      /\ \A n \in 1 .. N : at[N].list[n] = at[n].list[n]
      /\ Counts(c, N, Len(at[0].shared), Len(at[N].shared))
  BY <1>1, <1>2, <1>3, WriteChainFacts
<1>5. \A n \in 0 .. N : c[n] = Len(at[n].shared)
  OBVIOUS
<1> HIDE DEF c
<1>6. ASSUME NEW n \in 1 .. N
      PROVE  AtomCode(at[N].shared, c[n - 1], c[n], at[N].list[n], order[n])
  <2>1. n \in 0 .. N /\ n - 1 \in 0 .. N /\ (n - 1) + 1 = n
    BY <1>1
  <2>2. AtomCode(at[n].shared, c[n - 1], c[n], at[N].list[n], order[n])
    <3>1. IsWriter(at[n - 1]) /\ Len(at[n - 1].list) + 1 = n /\ at[N].list[n] = at[n].list[n]
      BY <1>4, <2>1
    <3>2. AtomCode(at[n].shared, Len(at[n - 1].shared), Len(at[n].shared), at[n].list[Len(at[n - 1].list) + 1],
                   order[n])
      BY <1>3, <3>1
    <3> QED
      BY <1>5, <2>1, <3>1, <3>2
  <2>3. IsList(at[n].shared) /\ Prefix(at[n].shared, at[N].shared) /\ c[n] = Len(at[n].shared) /\ c[n] \in Nat
    BY <1>4, <1>5, <2>1 DEF IsWriter, IsList
  <2>4. IsWriter(at[n - 1]) /\ c[n - 1] = Len(at[n - 1].shared)
    BY <1>4, <1>5, <2>1
  <2>5. c[n - 1] \in Nat
    BY <2>4 DEF IsWriter, IsList
  <2>6. c[n] <= Len(at[n].shared)
    BY <2>3
  <2> QED
    BY <2>2, <2>3, <2>5, <2>6, AtomCodeStays
<1>7. IsList(at[N].list)
  BY <1>1, <1>4 DEF IsWriter
<1>8. AtomsCode(at[N].shared, Len(at[0].shared), Len(at[N].shared), at[N].list, order)
  BY <1>4, <1>6, <1>7 DEF AtomsCode, N
<1> QED
  BY <1>2, <1>4, <1>8 DEF w, N

\* Different atoms have different addresses.
AreAddresses(address) ==
  /\ \A a \in Atom : address[a] \in Nat
  /\ \A a, b \in Atom : address[a] = address[b] => a = b

LEMMA FactorsOfFacts ==
  ASSUME NEW address, AreAddresses(address), NEW f, MonomialOn(f, Atom)
  PROVE  Enumerates(FactorsOf(address, f), DOMAIN f)
<1> DEFINE S == DOMAIN f
           R == {p \in S \X S : address[p[1]] < address[p[2]]}
           order == FactorsOf(address, f)
<1>1. IsFiniteSet(S) /\ S \subseteq Atom
  BY DEF MonomialOn
<1>2. order = CHOOSE s \in [1 .. Cardinality(S) -> S] :
                \A m, n \in DOMAIN s : m < n => address[s[m]] < address[s[n]]
  BY DEF FactorsOf, Sorted
<1>3. \A a, b \in S : <<a, b>> \in R <=> address[a] < address[b]
  OBVIOUS
<1> HIDE DEF S, R, order
<1>4. StrictOrder(S, R)
  <2>1. \A a \in S : address[a] \in Nat
    BY <1>1 DEF AreAddresses
  <2>2. \A a, b \in S : a = b \/ address[a] < address[b] \/ address[b] < address[a]
    BY <1>1, <2>1 DEF AreAddresses
  <2>3. \A a \in S : ~ address[a] < address[a]
    BY <2>1
  <2>4. \A a, b, c \in S : address[a] < address[b] /\ address[b] < address[c] => address[a] < address[c]
    BY <2>1
  <2> QED
    BY <1>3, <2>2, <2>3, <2>4 DEF StrictOrder
<1>5. PICK s : IsSorting(s, S, R)
  BY <1>1, <1>4, SortingExists
<1>6. s \in [1 .. Cardinality(S) -> S] /\ \A m, n \in DOMAIN s : m < n => address[s[m]] < address[s[n]]
  BY <1>3, <1>5 DEF IsSorting
<1>7. order \in [1 .. Cardinality(S) -> S] /\ \A m, n \in DOMAIN order : m < n => address[order[m]] < address[order[n]]
  BY <1>2, <1>6
<1>8. IsSorting(order, S, R)
  BY <1>3, <1>7 DEF IsSorting
<1> QED
  BY <1>1, <1>4, <1>8, SortingFacts DEF S, order, Enumerates

LEMMA SaveProductFacts ==
  ASSUME NEW address, AreAddresses(address), NEW w, IsWriter(w),
         NEW f, MonomialOn(f, Atom), f \notin {Linear(a) : a \in Atom}, NEW A, DOMAIN f \subseteq A
  PROVE  LET v == SaveNumber(address, w, f)
         IN  /\ Writes(w, v, 1, A)
             /\ NumberCode(v.shared, Len(w.shared), Len(v.shared), v.list[Len(w.list) + 1], f)
<1> DEFINE v == SaveNumber(address, w, f)
           p == Number(f)
           order == FactorsOf(address, f)
           base == [shared |-> Registered(w.shared, p), list |-> <<>>]
           factors == FoldLeft(SaveAtom, base, order)
           content == ProductContent(factors.list, order, f)
           pointer == Pointer(w.shared, p, content)
<1>1. /\ v.shared = IF p \in ToSet(w.shared) THEN w.shared ELSE factors.shared
      /\ v.list = Append(w.list, pointer)
  BY DEF SaveNumber, ProductContent
<1>2. Enumerates(order, DOMAIN f)
  BY FactorsOfFacts
<1>3. IsList(w.shared) /\ IsList(w.list) /\ Len(w.shared) \in Nat
  BY DEF IsWriter, IsList
<1>4. base.shared = Registered(w.shared, p) /\ base.list = <<>>
  OBVIOUS
<1> HIDE DEF v, pointer, content, base, order
<1>5. /\ IsList(v.list) /\ Len(v.list) = Len(w.list) + 1
      /\ \A n \in 1 .. Len(w.list) : v.list[n] = w.list[n]
      /\ v.list[Len(w.list) + 1] = pointer
  BY <1>1, <1>3, AppendFacts
<1>6. IsWriter(base) /\ Prefix(w.shared, base.shared)
  BY <1>3, <1>4, RegisteredFacts, EmptyIsList DEF IsWriter
<1>7. /\ Writes(base, factors, Len(order), A)
      /\ AtomsCode(factors.shared, Len(base.shared), Len(factors.shared), factors.list, order)
  BY <1>2, <1>4, <1>6, SaveAtomsFacts DEF Enumerates
<1> HIDE DEF factors
<1>8. CASE p \in ToSet(w.shared)
  <2>1. v.shared = w.shared
    BY <1>1, <1>8
  <2>2. Reference(w.shared, Len(w.shared), pointer, p)
    BY <1>3, <1>8, PointerFacts DEF pointer
  <2>3. NumberCode(v.shared, Len(w.shared), Len(v.shared), pointer, f)
    BY <2>1, <2>2 DEF NumberCode, ProductCode
  <2>4. \A n \in Len(w.shared) + 1 .. Len(v.shared) : FALSE
    BY <1>3, <2>1
  <2>5. IsWriter(v) /\ Prefix(w.shared, v.shared)
    BY <1>3, <1>5, <2>1 DEF IsWriter, Prefix
  <2> QED
    BY <1>5, <2>3, <2>4, <2>5 DEF v, Writes
<1>9. CASE p \notin ToSet(w.shared)
  <2>1. v.shared = factors.shared
    BY <1>1, <1>9
  <2>2. Len(base.shared) = Len(w.shared) + 1 /\ base.shared[Len(w.shared) + 1] = p
    BY <1>3, <1>4, <1>9, RegisteredFacts
  <2>3. /\ IsList(v.shared) /\ Prefix(base.shared, v.shared) /\ Len(v.shared) \in Nat
        /\ \A n \in Len(base.shared) + 1 .. Len(v.shared) : AtomsOf(v.shared[n]) \subseteq A
    BY <1>7, <2>1 DEF Writes, IsWriter, IsList
  <2>4. Len(w.shared) + 1 <= Len(v.shared)
    BY <2>2, <2>3 DEF Prefix
  <2>5. v.shared[Len(w.shared) + 1] = p
    <3>1. Len(w.shared) + 1 \in 1 .. Len(base.shared)
      BY <1>3, <2>2
    <3> QED
      BY <2>2, <2>3, <3>1 DEF Prefix
  <2>6. pointer = [shared |-> Len(w.shared) + 1, content |-> content]
    BY <1>3, <1>9, PointerFacts DEF pointer
  <2>7. AtomsCode(v.shared, Len(w.shared) + 1, Len(v.shared), factors.list, order)
    BY <1>7, <2>1, <2>2
  <2>8. NumberCode(v.shared, Len(w.shared), Len(v.shared), pointer, f)
    BY <1>2, <2>5, <2>6, <2>7 DEF NumberCode, ProductCode, content
  <2>9. Prefix(w.shared, v.shared)
    <3>1. \A n \in 1 .. Len(w.shared) : n \in 1 .. Len(base.shared)
      BY <1>3, <2>2
    <3>2. Len(w.shared) <= Len(v.shared)
      BY <1>3, <2>3, <2>4
    <3> QED
      BY <1>6, <2>3, <3>1, <3>2 DEF Prefix
  <2>10. AtomsOf(p) \subseteq A
    BY DEF AtomsOf, Number
  <2>11. ASSUME NEW n \in Len(w.shared) + 1 .. Len(v.shared)
         PROVE  AtomsOf(v.shared[n]) \subseteq A
    <3>1. n = Len(w.shared) + 1 \/ n \in Len(base.shared) + 1 .. Len(v.shared)
      BY <1>3, <2>2, <2>3
    <3> QED
      BY <2>3, <2>5, <2>10, <3>1
  <2>12. IsWriter(v)
    BY <1>5, <2>3 DEF IsWriter
  <2> QED
    BY <1>5, <2>8, <2>9, <2>11, <2>12 DEF v, Writes
<1> QED
  BY <1>8, <1>9

LEMMA LinearFacts ==
  ASSUME NEW a
  PROVE  DOMAIN Linear(a) = {a} /\ Linear(a)[a] = 1 /\ \A b : Linear(a) = Linear(b) => a = b
<1>1. \A b : DOMAIN Linear(b) = {b}
  BY DEF Linear
<1> QED
  BY <1>1 DEF Linear

LEMMA SaveNumberFacts ==
  ASSUME NEW address, AreAddresses(address), NEW w, IsWriter(w),
         NEW f, MonomialOn(f, Atom), NEW A, DOMAIN f \subseteq A
  PROVE  LET v == SaveNumber(address, w, f)
         IN  /\ Writes(w, v, 1, A)
             /\ NumberCode(v.shared, Len(w.shared), Len(v.shared), v.list[Len(w.list) + 1], f)
<1>1. CASE f \in {Linear(a) : a \in Atom}
  <2>1. PICK a \in Atom : f = Linear(a)
    BY <1>1
  <2>2. DOMAIN f = {a}
    BY <2>1, LinearFacts
  <2>3. (CHOOSE b \in DOMAIN f : TRUE) = a
    BY <2>2
  <2>4. SaveNumber(address, w, f) = SaveAtom(w, a)
    BY <1>1, <2>3 DEF SaveNumber
  <2>5. a \in A
    BY <2>2
  <2> DEFINE v == SaveAtom(w, a)
  <2>6. /\ Writes(w, v, 1, A)
        /\ AtomCode(v.shared, Len(w.shared), Len(v.shared), v.list[Len(w.list) + 1], a)
    BY <2>5, SaveAtomFacts
  <2> HIDE DEF v
  <2>7. NumberCode(v.shared, Len(w.shared), Len(v.shared), v.list[Len(w.list) + 1], f)
    BY <2>1, <2>6 DEF NumberCode
  <2> QED
    BY <2>4, <2>6, <2>7 DEF v
<1>2. CASE f \notin {Linear(a) : a \in Atom}
  BY <1>2, SaveProductFacts
<1> QED
  BY <1>1, <1>2

LEMMA SaveBasisFacts ==
  ASSUME NEW address, AreAddresses(address), NEW base, IsWriter(base), base.list = <<>>,
         NEW b, IsList(b), \A n \in 1 .. Len(b) : MonomialOn(b[n], Atom)
  PROVE  LET w == SaveBasis(address, base, b)
         IN  /\ Writes(base, w, Len(b), Factors(ToSet(b)))
             /\ NumbersCode(w.shared, Len(base.shared), Len(w.shared), w.list, b)
<1> DEFINE w == SaveBasis(address, base, b)
           N == Len(b)
           A == Factors(ToSet(b))
<1>1. N \in Nat /\ \A n \in 1 .. N : DOMAIN b[n] \subseteq A /\ MonomialOn(b[n], Atom)
  BY ToSetOfList DEF IsList, Factors
<1>2. PICK at : /\ at[0] = base
                /\ \A n \in 1 .. N : at[n] = SaveNumber(address, at[n - 1], b[n])
                /\ at[N] = w
  <2>1. IsList(b)
    OBVIOUS
  <2> HIDE DEF w, N
  <2>2. \E at : /\ at[0] = base
                /\ \A n \in 1 .. Len(b) : at[n] = SaveNumber(address, at[n - 1], b[n])
                /\ at[Len(b)] = SaveBasis(address, base, b)
    BY <2>1, SaveNumbers
  <2> QED
    BY <2>2 DEF w, N
<1> HIDE DEF w, N, A
<1>3. \A n \in 1 .. N : IsWriter(at[n - 1]) =>
        /\ Writes(at[n - 1], at[n], 1, A)
        /\ NumberCode(at[n].shared, Len(at[n - 1].shared), Len(at[n].shared), at[n].list[Len(at[n - 1].list) + 1],
                      b[n])
  BY <1>1, <1>2, SaveNumberFacts
<1> DEFINE c == [n \in 0 .. N |-> Len(at[n].shared)]
<1>4. /\ Writes(at[0], at[N], N, A) /\ Len(at[N].list) = N
      /\ \A n \in 0 .. N : IsWriter(at[n]) /\ Prefix(at[n].shared, at[N].shared) /\ Len(at[n].list) = n
      /\ \A n \in 1 .. N : at[N].list[n] = at[n].list[n]
      /\ Counts(c, N, Len(at[0].shared), Len(at[N].shared))
  BY <1>1, <1>2, <1>3, WriteChainFacts
<1>5. \A n \in 0 .. N : c[n] = Len(at[n].shared)
  OBVIOUS
<1> HIDE DEF c
<1>6. ASSUME NEW n \in 1 .. N
      PROVE  NumberCode(at[N].shared, c[n - 1], c[n], at[N].list[n], b[n])
  <2>1. n \in 0 .. N /\ n - 1 \in 0 .. N /\ (n - 1) + 1 = n
    BY <1>1
  <2>2. NumberCode(at[n].shared, c[n - 1], c[n], at[N].list[n], b[n])
    <3>1. IsWriter(at[n - 1]) /\ Len(at[n - 1].list) + 1 = n /\ at[N].list[n] = at[n].list[n]
      BY <1>4, <2>1
    <3>2. NumberCode(at[n].shared, Len(at[n - 1].shared), Len(at[n].shared), at[n].list[Len(at[n - 1].list) + 1],
                     b[n])
      BY <1>3, <3>1
    <3> QED
      BY <1>5, <2>1, <3>1, <3>2
  <2>3. IsList(at[n].shared) /\ Prefix(at[n].shared, at[N].shared) /\ c[n] = Len(at[n].shared) /\ c[n] \in Nat
    BY <1>4, <1>5, <2>1 DEF IsWriter, IsList
  <2>4. IsWriter(at[n - 1]) /\ c[n - 1] = Len(at[n - 1].shared)
    BY <1>4, <1>5, <2>1
  <2>5. c[n - 1] \in Nat
    BY <2>4 DEF IsWriter, IsList
  <2>6. c[n] <= Len(at[n].shared)
    BY <2>3
  <2> QED
    BY <2>2, <2>3, <2>5, <2>6, NumberCodeStays
<1>7. IsList(at[N].list)
  BY <1>1, <1>4 DEF IsWriter
<1>8. NumbersCode(at[N].shared, Len(at[0].shared), Len(at[N].shared), at[N].list, b)
  BY <1>4, <1>6, <1>7 DEF NumbersCode, N
<1> QED
  BY <1>2, <1>4, <1>8 DEF w, N, A

LEMMA SaveModuleFacts ==
  ASSUME NEW address, AreAddresses(address), NEW S, IsList(S),
         NEW b, IsList(b), \A n \in 1 .. Len(b) : MonomialOn(b[n], Atom)
  PROVE  LET v == SaveModule(address, S, b)
         IN  /\ IsList(v.shared) /\ Prefix(S, v.shared)
             /\ ModuleCode(v.shared, Len(S), Len(v.shared), v.pointer, b)
             /\ \A n \in Len(S) + 1 .. Len(v.shared) : AtomsOf(v.shared[n]) \subseteq Factors(ToSet(b))
<1> DEFINE v == SaveModule(address, S, b)
           p == Module(b)
           A == Factors(ToSet(b))
           base == [shared |-> Registered(S, p), list |-> <<>>]
           numbers == SaveBasis(address, base, b)
           pointer == Pointer(S, p, numbers.list)
<1>1. /\ v.shared = IF p \in ToSet(S) THEN S ELSE numbers.shared
      /\ v.pointer = pointer
  BY DEF SaveModule
<1>2. base.shared = Registered(S, p) /\ base.list = <<>> /\ Len(S) \in Nat
  BY DEF IsList
<1> HIDE DEF v, pointer, base
<1>3. IsWriter(base) /\ Prefix(S, base.shared)
  BY <1>2, RegisteredFacts, EmptyIsList DEF IsWriter
<1>4. /\ Writes(base, numbers, Len(b), A)
      /\ NumbersCode(numbers.shared, Len(base.shared), Len(numbers.shared), numbers.list, b)
  BY <1>2, <1>3, SaveBasisFacts
<1> HIDE DEF numbers
<1>5. CASE p \in ToSet(S)
  <2>1. v.shared = S
    BY <1>1, <1>5
  <2>2. Reference(S, Len(S), pointer, p)
    BY <1>5, PointerFacts DEF pointer
  <2>3. ModuleCode(v.shared, Len(S), Len(v.shared), pointer, b)
    BY <2>1, <2>2 DEF ModuleCode
  <2>4. \A n \in Len(S) + 1 .. Len(v.shared) : FALSE
    BY <1>2, <2>1
  <2>5. Prefix(S, v.shared)
    BY <1>2, <2>1 DEF Prefix
  <2> QED
    BY <1>1, <2>1, <2>3, <2>4, <2>5 DEF v
<1>6. CASE p \notin ToSet(S)
  <2>1. v.shared = numbers.shared
    BY <1>1, <1>6
  <2>2. Len(base.shared) = Len(S) + 1 /\ base.shared[Len(S) + 1] = p
    BY <1>2, <1>6, RegisteredFacts
  <2>3. /\ IsList(v.shared) /\ Prefix(base.shared, v.shared) /\ Len(v.shared) \in Nat
        /\ \A n \in Len(base.shared) + 1 .. Len(v.shared) : AtomsOf(v.shared[n]) \subseteq A
    BY <1>4, <2>1 DEF Writes, IsWriter, IsList
  <2>4. v.shared[Len(S) + 1] = p
    <3>1. Len(S) + 1 \in 1 .. Len(base.shared)
      BY <1>2, <2>2
    <3> QED
      BY <2>2, <2>3, <3>1 DEF Prefix
  <2>5. pointer = [shared |-> Len(S) + 1, content |-> numbers.list]
    BY <1>6, PointerFacts DEF pointer
  <2>6. NumbersCode(v.shared, Len(S) + 1, Len(v.shared), numbers.list, b)
    BY <1>4, <2>1, <2>2
  <2>7. ModuleCode(v.shared, Len(S), Len(v.shared), pointer, b)
    BY <2>4, <2>5, <2>6 DEF ModuleCode
  <2>8. Prefix(S, v.shared)
    <3>1. \A n \in 1 .. Len(S) : n \in 1 .. Len(base.shared)
      BY <1>2, <2>2
    <3>2. Len(S) <= Len(v.shared)
      BY <1>2, <2>2, <2>3 DEF Prefix
    <3> QED
      BY <1>3, <2>3, <3>1, <3>2 DEF Prefix
  <2>9. AtomsOf(p) \subseteq A
    <3>1. p[1] # "number" /\ p[2] = b
      BY DEF Module
    <3> QED
      BY <3>1 DEF AtomsOf
  <2>10. ASSUME NEW n \in Len(S) + 1 .. Len(v.shared)
         PROVE  AtomsOf(v.shared[n]) \subseteq A
    <3>1. n = Len(S) + 1 \/ n \in Len(base.shared) + 1 .. Len(v.shared)
      BY <1>2, <2>2, <2>3
    <3> QED
      BY <2>3, <2>4, <2>9, <3>1
  <2> QED
    BY <1>1, <2>3, <2>7, <2>8, <2>10 DEF v
<1> QED
  BY <1>5, <1>6

-----------------------------------------------------------------------------
(* Reading. *)

\* What p, in memory, is for the pointer q that had been written: the same
\* number or a module with the same generators.
Stands(i, p, q) ==
  \/ \E f : p = Number(f) /\ q = Number(f) /\ DOMAIN f \subseteq DOMAIN i
  \/ \E b, c : p = Module(b) /\ q = Module(c) /\ Ascending(i, b) /\ ToSet(b) = ToSet(c)

\* The pointers up to k, except for those in O, have been read.
HasRead(S, k, O, i, pointers) ==
  /\ DOMAIN pointers = (1 .. k) \ O
  /\ \A n \in (1 .. k) \ O : Stands(i, pointers[n], S[n])

IsReader(S, k, O, r) ==
  /\ r = [known |-> r.known, pointers |-> r.pointers, list |-> r.list]
  /\ O \subseteq 1 .. k
  /\ AreIds(r.known.ids, r.known.next)
  /\ IsList(r.list)
  /\ HasRead(S, k, O, r.known.ids, r.pointers)

LEMMA NumberFacts ==
  /\ \A f : Number(f)[1] = "number" /\ Number(f)[2] = f
  /\ \A b : Module(b)[1] = "module" /\ Module(b)[2] = b
  /\ \A f, b : Number(f) # Module(b)
  /\ \A f : AtomsOf(Number(f)) = DOMAIN f
  /\ \A b : AtomsOf(Module(b)) = Factors(ToSet(b))
<1>1. \A f : Number(f)[1] = "number" /\ Number(f)[2] = f
  BY DEF Number
<1>2. \A b : Module(b)[1] = "module" /\ Module(b)[2] = b
  BY DEF Module
<1>3. "number" # "module"
  OBVIOUS
<1> QED
  BY <1>1, <1>2, <1>3 DEF AtomsOf

LEMMA StandsGrows ==
  ASSUME NEW old, NEW new, NEW A, Grows(old, new, A), NEW p, NEW q, Stands(old.ids, p, q)
  PROVE  Stands(new.ids, p, q)
<1>1. DOMAIN old.ids \subseteq DOMAIN new.ids
  BY DEF Grows
<1>2. \A b : Ascending(old.ids, b) => Ascending(new.ids, b)
  BY AscendingGrows
<1> QED
  BY <1>1, <1>2 DEF Stands

\* One more pointer has been read.
LEMMA RememberFacts ==
  ASSUME NEW S, NEW k, NEW l, NEW O, NEW Q, NEW old, NEW new, NEW A, Grows(old, new, A), NEW pointers, NEW n, NEW p,
         HasRead(S, k, O, old.ids, pointers), (1 .. l) \ Q = ((1 .. k) \ O) \cup {n}, Stands(new.ids, p, S[n])
  PROVE  HasRead(S, l, Q, new.ids, Remember(pointers, n, p))
<1> DEFINE D == (1 .. k) \ O
           new_pointers == Remember(pointers, n, p)
<1>1. DOMAIN pointers = D /\ \A m \in D : Stands(new.ids, pointers[m], S[m])
  BY StandsGrows DEF HasRead
<1>2. new_pointers = [m \in D \cup {n} |-> IF m = n THEN p ELSE pointers[m]]
  BY <1>1 DEF Remember
<1>3. (1 .. l) \ Q = D \cup {n}
  OBVIOUS
<1> HIDE DEF D, new_pointers
<1>4. DOMAIN new_pointers = D \cup {n} /\ \A m \in D \cup {n} : new_pointers[m] = IF m = n THEN p ELSE pointers[m]
  BY <1>2
<1>5. \A m \in D \cup {n} : Stands(new.ids, new_pointers[m], S[m])
  BY <1>1, <1>4
<1> QED
  BY <1>3, <1>4, <1>5 DEF HasRead, new_pointers

\* p is none of the pointers that are being read.
Apart(S, O, p) == \A n \in O : S[n] # p

LEMMA LoadReferenceFacts ==
  ASSUME NEW S, NEW k \in Nat, NEW O, NEW r, IsReader(S, k, O, r), NEW pointer, NEW f,
         Reference(S, k, pointer, Number(f)), Apart(S, O, Number(f))
  PROVE  /\ ~IsFirst(pointer)
         /\ IsReader(S, k, O, LoadReference(r, pointer))
         /\ LoadReference(r, pointer).list = Append(r.list, f)
         /\ LoadReference(r, pointer).known = r.known
         /\ DOMAIN f \subseteq DOMAIN r.known.ids
<1>1. PICK n \in 1 .. k : S[n] = Number(f) /\ pointer = [shared |-> n]
  BY DEF Reference
<1>2. n \in (1 .. k) \ O
  BY <1>1 DEF Apart
<1>3. Stands(r.known.ids, r.pointers[n], Number(f))
  BY <1>1, <1>2 DEF IsReader, HasRead
<1>4. r.pointers[n] = Number(f) /\ DOMAIN f \subseteq DOMAIN r.known.ids
  BY <1>3, NumberFacts DEF Stands
<1>5. ~IsFirst(pointer) /\ pointer.shared = n
  BY <1>1 DEF IsFirst
<1>6. r = [known |-> r.known, pointers |-> r.pointers, list |-> r.list]
  BY DEF IsReader
<1>7. LoadReference(r, pointer) = [known |-> r.known, pointers |-> r.pointers, list |-> Append(r.list, f)]
  <2>1. r.pointers[pointer.shared][2] = f
    BY <1>4, <1>5, NumberFacts
  <2>2. \A x : [r EXCEPT !.list = x] = [known |-> r.known, pointers |-> r.pointers, list |-> x]
    BY <1>6
  <2>3. LoadReference(r, pointer) = [r EXCEPT !.list = Append(r.list, r.pointers[pointer.shared][2])]
    BY DEF LoadReference
  <2> QED
    BY <2>1, <2>2, <2>3
<1> DEFINE v == LoadReference(r, pointer)
<1>8. v.known = r.known /\ v.pointers = r.pointers /\ v.list = Append(r.list, f)
      /\ v = [known |-> v.known, pointers |-> v.pointers, list |-> v.list]
  BY <1>7
<1> HIDE DEF v
<1>9. IsReader(S, k, O, v)
  BY <1>8, AppendFacts DEF IsReader
<1> QED
  BY <1>4, <1>5, <1>8, <1>9 DEF v

\* r becomes v when f is read.
Reads(S, l, O, r, v, f) ==
  /\ IsReader(S, l, O, v)
  /\ v.list = Append(r.list, f)
  /\ Grows(r.known, v.known, DOMAIN f)
  /\ \A a : f = Linear(a) => v.known = Obtain(r.known, a)

LEMMA LoadAtomFacts ==
  ASSUME NEW S, NEW k \in Nat, NEW l \in Nat, NEW O, NEW r, IsReader(S, k, O, r),
         NEW pointer, NEW a, AtomCode(S, k, l, pointer, a), Apart(S, O, Number(Linear(a)))
  PROVE  Reads(S, l, O, r, LoadAtom(r, pointer), Linear(a))
<1>1. AreIds(r.known.ids, r.known.next)
  BY DEF IsReader
<1> DEFINE Goal == /\ IsReader(S, l, O, LoadAtom(r, pointer))
                   /\ LoadAtom(r, pointer).list = Append(r.list, Linear(a))
                   /\ LoadAtom(r, pointer).known = Obtain(r.known, a)
<1>2. ASSUME Reference(S, k, pointer, Number(Linear(a))) /\ l = k
      PROVE  Goal
  <2>0. Reference(S, k, pointer, Number(Linear(a)))
    BY <1>2
  <2>1. /\ ~IsFirst(pointer)
        /\ IsReader(S, k, O, LoadReference(r, pointer))
        /\ LoadReference(r, pointer).list = Append(r.list, Linear(a))
        /\ LoadReference(r, pointer).known = r.known
        /\ DOMAIN Linear(a) \subseteq DOMAIN r.known.ids
    BY <2>0, LoadReferenceFacts
  <2>2. LoadAtom(r, pointer) = LoadReference(r, pointer)
    BY <2>1 DEF LoadAtom
  <2>3. Obtain(r.known, a) = r.known
    BY <1>1, <2>1, LinearFacts, ObtainFacts
  <2> QED
    BY <1>2, <2>1, <2>2, <2>3
<1>3. ASSUME l = k + 1 /\ S[l] = Number(Linear(a)),
             pointer = [shared |-> l, content |-> [kind |-> "random", seed |-> a]]
      PROVE  Goal
  <2>1. IsFirst(pointer) /\ pointer.content.seed = a /\ pointer.shared = l
    BY <1>3 DEF IsFirst
  <2>2. r = [known |-> r.known, pointers |-> r.pointers, list |-> r.list]
    BY DEF IsReader
  <2> DEFINE v == LoadAtom(r, pointer)
             new == Obtain(r.known, a)
             pointers == Remember(r.pointers, l, Number(Linear(a)))
  <2>3. v = [known |-> new, pointers |-> pointers, list |-> Append(r.list, Linear(a))]
    BY <2>1, <2>2 DEF LoadAtom
  <2>4. Grows(r.known, new, {a})
    BY <1>1, ObtainFacts
  <2> HIDE DEF v, new, pointers
  <2>5. /\ v.known = new /\ v.pointers = pointers /\ v.list = Append(r.list, Linear(a))
        /\ v = [known |-> v.known, pointers |-> v.pointers, list |-> v.list]
    BY <2>3
  <2>6. Stands(new.ids, Number(Linear(a)), S[l])
    <3>1. DOMAIN Linear(a) \subseteq DOMAIN new.ids
      BY <2>4, LinearFacts DEF Grows
    <3> QED
      BY <1>3, <3>1 DEF Stands
  <2>7. (1 .. l) \ O = ((1 .. k) \ O) \cup {l}
    <3>1. l \notin O /\ \A n : n \in 1 .. l <=> n \in 1 .. k \/ n = l
      BY <1>3 DEF IsReader
    <3> QED
      BY <3>1
  <2>8. HasRead(S, k, O, r.known.ids, r.pointers)
    BY DEF IsReader
  <2>9. HasRead(S, l, O, new.ids, pointers)
    BY <2>4, <2>6, <2>7, <2>8, RememberFacts DEF pointers
  <2>10. AreIds(new.ids, new.next)
    BY <2>4 DEF Grows
  <2>11. IsList(v.list)
    BY <2>5, AppendFacts DEF IsReader
  <2>12. O \subseteq 1 .. l
    BY <1>3 DEF IsReader
  <2>13. IsReader(S, l, O, v)
    BY <2>5, <2>9, <2>10, <2>11, <2>12 DEF IsReader
  <2> QED
    BY <2>5, <2>13 DEF v, new
<1>4. Goal
  BY <1>2, <1>3 DEF AtomCode
<1>5. Grows(r.known, Obtain(r.known, a), DOMAIN Linear(a))
  <2>1. Grows(r.known, Obtain(r.known, a), {a})
    BY <1>1, ObtainFacts
  <2>2. DOMAIN Linear(a) = {a}
    BY LinearFacts
  <2> QED
    BY <2>1, <2>2
<1>6. \A b : Linear(a) = Linear(b) => a = b
  BY LinearFacts
<1> QED
  BY <1>4, <1>5, <1>6 DEF Reads

\* The factors of the first n numbers in a list.
Taken(b, n) == UNION {DOMAIN b[m] : m \in 1 .. n}

\* After n numbers in a list have been read.
HasTaken(S, l, O, r, v, b, n) ==
  /\ IsReader(S, l, O, v)
  /\ Len(v.list) = n
  /\ \A m \in 1 .. n : v.list[m] = b[m]
  /\ Grows(r.known, v.known, Taken(b, n))

\* One number at a time.
LEMMA ReadChain ==
  ASSUME NEW S, NEW O, NEW at, NEW c, NEW N \in Nat, NEW b, IsReader(S, c[0], O, at[0]), at[0].list = <<>>,
         \A n \in 1 .. N : IsReader(S, c[n - 1], O, at[n - 1]) => Reads(S, c[n], O, at[n - 1], at[n], b[n])
  PROVE  \A n \in 0 .. N : HasTaken(S, c[n], O, at[0], at[n], b, n)
<1> DEFINE T == {n \in Nat : n <= N => HasTaken(S, c[n], O, at[0], at[n], b, n)}
<1>1. 0 \in T
  <2>1. Len(at[0].list) = 0
    BY EmptyIsList
  <2>2. \A m \in 1 .. 0 : FALSE
    OBVIOUS
  <2>3. Taken(b, 0) = {}
    BY <2>2 DEF Taken
  <2>4. Grows(at[0].known, at[0].known, {})
    BY GrowsByNothing DEF IsReader
  <2> QED
    BY <2>1, <2>2, <2>3, <2>4 DEF HasTaken
<1>2. ASSUME NEW n \in Nat, n \in T
      PROVE  n + 1 \in T
  <2> SUFFICES ASSUME n + 1 <= N
               PROVE  HasTaken(S, c[n + 1], O, at[0], at[n + 1], b, n + 1)
    OBVIOUS
  <2>1. HasTaken(S, c[n], O, at[0], at[n], b, n)
    BY <1>2
  <2>2. n + 1 \in 1 .. N /\ (n + 1) - 1 = n
    OBVIOUS
  <2>3. Reads(S, c[n + 1], O, at[n], at[n + 1], b[n + 1])
    BY <2>1, <2>2 DEF HasTaken
  <2>4. /\ Len(at[n + 1].list) = n + 1
        /\ \A m \in 1 .. n : at[n + 1].list[m] = at[n].list[m]
        /\ at[n + 1].list[n + 1] = b[n + 1]
    <3>1. IsList(at[n].list) /\ Len(at[n].list) = n /\ at[n + 1].list = Append(at[n].list, b[n + 1])
      BY <2>1, <2>3 DEF HasTaken, IsReader, Reads
    <3> QED
      BY <3>1, AppendFacts
  <2>5. \A m \in 1 .. n + 1 : m \in 1 .. n \/ m = n + 1
    OBVIOUS
  <2>6. \A m \in 1 .. n + 1 : at[n + 1].list[m] = b[m]
    BY <2>1, <2>4, <2>5 DEF HasTaken
  <2>7. Taken(b, n + 1) = Taken(b, n) \cup DOMAIN b[n + 1]
    <3>1. n + 1 \in 1 .. n + 1 /\ 1 .. n \subseteq 1 .. n + 1
      OBVIOUS
    <3> QED
      BY <2>5, <3>1 DEF Taken
  <2>8. Grows(at[0].known, at[n + 1].known, Taken(b, n) \cup DOMAIN b[n + 1])
    BY <2>1, <2>3, GrowsTwice DEF HasTaken, Reads
  <2> QED
    BY <2>3, <2>4, <2>6, <2>7, <2>8 DEF HasTaken, Reads
<1> HIDE DEF T
<1>3. \A n \in 0 .. N : n \in T
  BY <1>1, <1>2, Folding!Induct
<1> QED
  BY <1>3 DEF T

\* After all of them have been read.
LEMMA ReadChainFacts ==
  ASSUME NEW S, NEW O, NEW l, NEW r, NEW v, NEW b, IsList(b), HasTaken(S, l, O, r, v, b, Len(b))
  PROVE  IsReader(S, l, O, v) /\ v.list = b /\ Grows(r.known, v.known, Factors(ToSet(b)))
<1>1. IsList(v.list) /\ Len(v.list) = Len(b) /\ \A m \in 1 .. Len(b) : v.list[m] = b[m]
  BY DEF HasTaken, IsReader
<1>2. v.list = b
  BY <1>1 DEF IsList
<1>3. Taken(b, Len(b)) = Factors(ToSet(b))
  BY ToSetOfList DEF Taken, Factors
<1> QED
  BY <1>2, <1>3 DEF HasTaken

\* The numbers that atoms are.
Linears(order) == [n \in 1 .. Len(order) |-> Linear(order[n])]

LEMMA LinearsFacts ==
  ASSUME NEW order, IsList(order)
  PROVE  /\ IsList(Linears(order)) /\ Len(Linears(order)) = Len(order)
         /\ \A n \in 1 .. Len(order) : Linears(order)[n] = Linear(order[n])
         /\ Factors(ToSet(Linears(order))) = ToSet(order)
<1> DEFINE b == Linears(order)
           N == Len(order)
<1>1. N \in Nat /\ b \in [1 .. N -> {Linear(order[n]) : n \in 1 .. N}]
  BY DEF IsList, Linears
<1>2. \A n \in 1 .. N : b[n] = Linear(order[n])
  BY DEF Linears
<1> HIDE DEF b, N
<1>3. IsList(b) /\ Len(b) = N
  BY <1>1, FunctionIsList
<1>4. \A x : x \in Factors(ToSet(b)) <=> \E n \in 1 .. N : x \in DOMAIN b[n]
  BY <1>3, ToSetOfList DEF Factors
<1>5. \A n \in 1 .. N : DOMAIN b[n] = {order[n]}
  BY <1>2, LinearFacts
<1>6. \A x : x \in Factors(ToSet(b)) <=> x \in ToSet(order)
  BY <1>4, <1>5, ToSetOfList DEF N
<1>7. Factors(ToSet(b)) = ToSet(order)
  BY <1>6
<1> QED
  BY <1>2, <1>3, <1>7 DEF b, N

LEMMA LoadAtomsFacts ==
  ASSUME NEW S, NEW k \in Nat, NEW l \in Nat, NEW O, NEW base, IsReader(S, k, O, base), base.list = <<>>,
         NEW list, NEW order, IsList(order), AtomsCode(S, k, l, list, order), \A a : Apart(S, O, Number(Linear(a)))
  PROVE  LET v == FoldLeft(LoadAtom, base, list)
         IN  IsReader(S, l, O, v) /\ v.list = Linears(order) /\ Grows(base.known, v.known, ToSet(order))
<1> DEFINE v == FoldLeft(LoadAtom, base, list)
           N == Len(list)
           b == Linears(order)
<1>1. IsList(list) /\ Len(order) = N /\ N \in Nat
  BY DEF AtomsCode, IsList
<1>2. PICK c : /\ Counts(c, N, k, l)
               /\ \A n \in 1 .. N : AtomCode(S, c[n - 1], c[n], list[n], order[n])
  BY <1>1 DEF AtomsCode
<1>3. PICK at : /\ at[0] = base
                /\ \A n \in 1 .. N : at[n] = LoadAtom(at[n - 1], list[n])
                /\ at[N] = v
  BY <1>1, LoadAtoms
<1>4. IsList(b) /\ Len(b) = N /\ (\A n \in 1 .. N : b[n] = Linear(order[n])) /\ Factors(ToSet(b)) = ToSet(order)
  BY <1>1, LinearsFacts
<1> HIDE DEF v, N, b
<1>5. ASSUME NEW n \in 1 .. N, IsReader(S, c[n - 1], O, at[n - 1])
      PROVE  Reads(S, c[n], O, at[n - 1], at[n], b[n])
  <2>1. c[n - 1] \in Nat /\ c[n] \in Nat
    BY <1>1, <1>2, CountFacts
  <2>2. AtomCode(S, c[n - 1], c[n], list[n], order[n]) /\ Apart(S, O, Number(Linear(order[n])))
    BY <1>2
  <2>3. Reads(S, c[n], O, at[n - 1], LoadAtom(at[n - 1], list[n]), Linear(order[n]))
    BY <1>5, <2>1, <2>2, LoadAtomFacts
  <2> QED
    BY <1>3, <1>4, <2>3
<1>6. IsReader(S, c[0], O, at[0]) /\ at[0].list = <<>>
  BY <1>2, <1>3 DEF Counts
<1>7. \A n \in 0 .. N : HasTaken(S, c[n], O, at[0], at[n], b, n)
  BY <1>1, <1>5, <1>6, ReadChain
<1>8. HasTaken(S, l, O, base, v, b, N)
  BY <1>1, <1>2, <1>3, <1>7 DEF Counts
<1>9. HasTaken(S, l, O, base, v, b, Len(b)) /\ IsList(b)
  BY <1>4, <1>8
<1>10. IsReader(S, l, O, v) /\ v.list = b /\ Grows(base.known, v.known, Factors(ToSet(b)))
  BY <1>9, ReadChainFacts
<1> QED
  BY <1>4, <1>10 DEF v, b

\* The pointers that are being read are those to modules.
Modules(S, O) == \A n \in O : \E b : S[n] = Module(b)

LEMMA ModulesFacts ==
  ASSUME NEW S, NEW O, Modules(S, O), NEW f
  PROVE  Apart(S, O, Number(f))
BY NumberFacts DEF Modules, Apart

LEMMA ListFacts ==
  ASSUME NEW S, NEW k, NEW O, NEW r, IsReader(S, k, O, r), NEW list, IsList(list)
  PROVE  LET v == [r EXCEPT !.list = list]
         IN  IsReader(S, k, O, v) /\ v.list = list /\ v.known = r.known /\ v.pointers = r.pointers
<1> DEFINE v == [r EXCEPT !.list = list]
<1>1. r = [known |-> r.known, pointers |-> r.pointers, list |-> r.list]
  BY DEF IsReader
<1>2. v = [known |-> r.known, pointers |-> r.pointers, list |-> list]
  BY <1>1
<1>3. v.list = list /\ v.known = r.known /\ v.pointers = r.pointers
      /\ v = [known |-> v.known, pointers |-> v.pointers, list |-> v.list]
  BY <1>2
<1> HIDE DEF v
<1>4. IsReader(S, k, O, v)
  BY <1>3 DEF IsReader
<1> QED
  BY <1>3, <1>4 DEF v

\* The product that is made of what has been read.
Product(content, list) ==
  [a \in Factors(ToSet(list)) |-> content.exponents[CHOOSE n \in DOMAIN list : a \in DOMAIN list[n]]]

LEMMA ProductFacts ==
  ASSUME NEW f, f = [a \in DOMAIN f |-> f[a]], NEW order, Enumerates(order, DOMAIN f), NEW list
  PROVE  Product(ProductContent(list, order, f), Linears(order)) = f
<1> DEFINE content == ProductContent(list, order, f)
           b == Linears(order)
<1>1. /\ IsList(order) /\ IsList(b) /\ Len(b) = Len(order)
      /\ \A n \in 1 .. Len(order) : b[n] = Linear(order[n])
      /\ Factors(ToSet(b)) = DOMAIN f
  BY LinearsFacts DEF Enumerates
<1>2. \A n \in 1 .. Len(order) : content.exponents[n] = f[order[n]]
  BY <1>1 DEF ProductContent, IsList
<1>3. DOMAIN b = 1 .. Len(order)
  BY <1>1 DEF IsList
<1> HIDE DEF content, b
<1>4. ASSUME NEW a \in DOMAIN f
      PROVE  content.exponents[CHOOSE n \in DOMAIN b : a \in DOMAIN b[n]] = f[a]
  <2> DEFINE m == CHOOSE n \in DOMAIN b : a \in DOMAIN b[n]
  <2>1. PICK n \in 1 .. Len(order) : order[n] = a
    BY <1>1, ToSetOfList DEF Enumerates
  <2>2. \A o \in 1 .. Len(order) : DOMAIN b[o] = {order[o]}
    BY <1>1, LinearFacts
  <2>3. m \in DOMAIN b /\ a \in DOMAIN b[m]
    BY <1>3, <2>1, <2>2
  <2> HIDE DEF m
  <2>4. m \in 1 .. Len(order) /\ order[m] = a
    BY <1>3, <2>2, <2>3
  <2>5. content.exponents[m] = f[a]
    BY <1>2, <2>4
  <2> QED
    BY <2>5 DEF m
<1>5. Product(content, b) = [a \in DOMAIN f |-> f[a]]
  BY <1>1, <1>4 DEF Product
<1> QED
  BY <1>5 DEF content, b

LEMMA LoadProductFacts ==
  ASSUME NEW S, NEW k \in Nat, NEW l \in Nat, NEW O, NEW r, IsReader(S, k, O, r), Modules(S, O), NEW pointer,
         NEW f, MonomialOn(f, Atom), \A a : f # Linear(a), S[k + 1] = Number(f),
         NEW order, Enumerates(order, DOMAIN f), NEW list, AtomsCode(S, k + 1, l, list, order),
         pointer = [shared |-> k + 1, content |-> ProductContent(list, order, f)]
  PROVE  Reads(S, l, O, r, LoadProduct(r, pointer), f)
<1> DEFINE base == [r EXCEPT !.list = <<>>]
           read == FoldLeft(LoadAtom, base, list)
           v == LoadProduct(r, pointer)
           Q == O \cup {k + 1}
           pointers == Remember(read.pointers, k + 1, Number(f))
<1>1. IsReader(S, k, O, base) /\ base.list = <<>> /\ base.known = r.known
  BY ListFacts, EmptyIsList
<1>2. k + 1 <= l /\ k + 1 \in Nat
  <2>1. k + 1 \in Nat
    OBVIOUS
  <2>2. PICK c : Counts(c, Len(list), k + 1, l) /\ Len(list) \in Nat
    BY DEF AtomsCode, IsList
  <2> QED
    BY <2>1, <2>2, CountFacts
<1>3. k + 1 \notin O /\ Q \subseteq 1 .. k + 1 /\ (1 .. k + 1) \ Q = (1 .. k) \ O
      /\ (1 .. l) \ O = ((1 .. l) \ Q) \cup {k + 1} /\ O \subseteq 1 .. l
  <2>1. O \subseteq 1 .. k
    BY DEF IsReader
  <2>2. k + 1 \notin 1 .. k /\ 1 .. k + 1 = (1 .. k) \cup {k + 1} /\ 1 .. k \subseteq 1 .. l /\ k + 1 \in 1 .. l
    BY <1>2
  <2> QED
    BY <2>1, <2>2
<1> HIDE DEF base, Q
<1>4. IsReader(S, k + 1, Q, base)
  BY <1>1, <1>3 DEF IsReader, HasRead
<1>5. \A a : Apart(S, Q, Number(Linear(a)))
  <2>1. \A a : Apart(S, O, Number(Linear(a))) /\ S[k + 1] # Number(Linear(a))
    BY ModulesFacts, NumberFacts
  <2> QED
    BY <2>1 DEF Apart, Q
<1>6. IsReader(S, l, Q, read) /\ read.list = Linears(order) /\ Grows(base.known, read.known, DOMAIN f)
  <2>1. IsList(order) /\ ToSet(order) = DOMAIN f
    BY DEF Enumerates
  <2>2. IsReader(S, l, Q, read) /\ read.list = Linears(order) /\ Grows(base.known, read.known, ToSet(order))
    BY <1>1, <1>2, <1>4, <1>5, <2>1, LoadAtomsFacts
  <2> QED
    BY <2>1, <2>2
<1>7. v = [read EXCEPT !.pointers = pointers, !.list = Append(r.list, f)]
  <2>1. pointer.content = ProductContent(list, order, f) /\ pointer.shared = k + 1 /\ pointer.content.factors = list
    BY DEF ProductContent
  <2>2. Product(pointer.content, read.list) = f
    <3>1. f = [a \in DOMAIN f |-> f[a]]
      BY DEF MonomialOn
    <3> QED
      BY <1>6, <2>1, <3>1, ProductFacts
  <2> DEFINE got == FoldLeft(LoadAtom, base, pointer.content.factors)
  <2>3. v = [got EXCEPT !.pointers = Remember(@, pointer.shared, Number(Product(pointer.content, got.list))),
                        !.list = Append(r.list, Product(pointer.content, got.list))]
    BY DEF LoadProduct, Product, base
  <2>4. got = read
    BY <2>1
  <2> HIDE DEF v, read, got
  <2> QED
    BY <2>1, <2>2, <2>3, <2>4
<1> HIDE DEF read, v, pointers
<1>8. /\ v.known = read.known /\ v.pointers = pointers /\ v.list = Append(r.list, f)
      /\ v = [known |-> v.known, pointers |-> v.pointers, list |-> v.list]
  <2>1. read = [known |-> read.known, pointers |-> read.pointers, list |-> read.list]
    BY <1>6 DEF IsReader
  <2>2. v = [known |-> read.known, pointers |-> pointers, list |-> Append(r.list, f)]
    BY <1>7, <2>1
  <2> QED
    BY <2>2
<1>9. Grows(r.known, v.known, DOMAIN f)
  BY <1>1, <1>6, <1>8
<1>10. HasRead(S, l, O, v.known.ids, pointers)
  <2>1. HasRead(S, l, Q, read.known.ids, read.pointers) /\ AreIds(read.known.ids, read.known.next)
    BY <1>6 DEF IsReader
  <2>2. Grows(read.known, v.known, {})
    BY <1>8, <2>1, GrowsByNothing
  <2>3. Stands(v.known.ids, Number(f), S[k + 1])
    BY <1>9 DEF Stands, Grows
  <2> QED
    BY <1>3, <2>1, <2>2, <2>3, RememberFacts DEF pointers
<1>11. IsList(v.list)
  BY <1>8, AppendFacts DEF IsReader
<1>12. IsReader(S, l, O, v)
  BY <1>3, <1>8, <1>9, <1>10, <1>11 DEF IsReader, Grows
<1> QED
  BY <1>8, <1>9, <1>12 DEF Reads, v

LEMMA LoadNumberFacts ==
  ASSUME NEW S, NEW k \in Nat, NEW l \in Nat, NEW O, NEW r, IsReader(S, k, O, r), Modules(S, O), NEW pointer,
         NEW f, MonomialOn(f, Atom), NumberCode(S, k, l, pointer, f)
  PROVE  Reads(S, l, O, r, LoadNumber(r, pointer), f)
<1>1. ASSUME NEW a, f = Linear(a), AtomCode(S, k, l, pointer, a)
      PROVE  Reads(S, l, O, r, LoadNumber(r, pointer), f)
  <2>1. Apart(S, O, Number(Linear(a)))
    BY ModulesFacts
  <2>2. Reads(S, l, O, r, LoadAtom(r, pointer), Linear(a))
    BY <1>1, <2>1, LoadAtomFacts
  <2>3. IsFirst(pointer) => pointer.content.kind = "random"
    BY <1>1 DEF AtomCode, Reference, IsFirst
  <2>4. LoadNumber(r, pointer) = LoadAtom(r, pointer)
    BY <2>3 DEF LoadNumber, LoadAtom
  <2> QED
    BY <1>1, <2>2, <2>4
<1>2. ASSUME f \notin {Linear(a) : a \in Atom}
      PROVE  \A a : f # Linear(a)
  <2>1. DOMAIN f \subseteq Atom
    BY DEF MonomialOn
  <2>2. \A a : f = Linear(a) => a \in DOMAIN f
    BY LinearFacts
  <2> QED
    BY <1>2, <2>1, <2>2
<1>3. ASSUME f \notin {Linear(a) : a \in Atom}, Reference(S, k, pointer, Number(f)), l = k
      PROVE  Reads(S, l, O, r, LoadNumber(r, pointer), f)
  <2> DEFINE v == LoadReference(r, pointer)
  <2>1. Apart(S, O, Number(f))
    BY ModulesFacts
  <2>2. /\ ~IsFirst(pointer) /\ IsReader(S, k, O, v) /\ v.list = Append(r.list, f) /\ v.known = r.known
        /\ DOMAIN f \subseteq DOMAIN r.known.ids
    <3>1. Reference(S, k, pointer, Number(f))
      BY <1>3
    <3>2. /\ ~IsFirst(pointer)
          /\ IsReader(S, k, O, LoadReference(r, pointer))
          /\ LoadReference(r, pointer).list = Append(r.list, f)
          /\ LoadReference(r, pointer).known = r.known
          /\ DOMAIN f \subseteq DOMAIN r.known.ids
      BY <2>1, <3>1, LoadReferenceFacts
    <3> QED
      BY <3>2
  <2>3. LoadNumber(r, pointer) = v
    BY <2>2 DEF LoadNumber
  <2> HIDE DEF v
  <2>4. Grows(r.known, v.known, DOMAIN f)
    <3>1. Grows(r.known, r.known, {})
      BY GrowsByNothing DEF IsReader
    <3>2. DOMAIN r.known.ids \cup {} = DOMAIN r.known.ids \cup DOMAIN f
      BY <2>2
    <3> QED
      BY <2>2, <3>1, <3>2 DEF Grows
  <2> QED
    BY <1>2, <1>3, <2>2, <2>3, <2>4 DEF Reads
<1>4. ASSUME f \notin {Linear(a) : a \in Atom}, S[k + 1] = Number(f),
             NEW order, Enumerates(order, DOMAIN f), NEW list, AtomsCode(S, k + 1, l, list, order),
             pointer = [shared |-> k + 1, content |-> ProductContent(list, order, f)]
      PROVE  Reads(S, l, O, r, LoadNumber(r, pointer), f)
  <2>1. \A a : f # Linear(a)
    BY <1>2, <1>4
  <2>2. Reads(S, l, O, r, LoadProduct(r, pointer), f)
    BY <1>4, <2>1, LoadProductFacts
  <2>3. IsFirst(pointer) /\ pointer.content.kind = "product"
    BY <1>4 DEF IsFirst, ProductContent
  <2>4. LoadNumber(r, pointer) = LoadProduct(r, pointer)
    BY <2>3 DEF LoadNumber
  <2> QED
    BY <2>2, <2>4
<1>5. CASE \E a \in Atom : f = Linear(a) /\ AtomCode(S, k, l, pointer, a)
  BY <1>1, <1>5
<1>6. CASE f \notin {Linear(a) : a \in Atom} /\ ProductCode(S, k, l, pointer, f)
  <2>1. CASE Reference(S, k, pointer, Number(f)) /\ l = k
    BY <1>3, <1>6, <2>1
  <2>2. CASE \E order, list :
               /\ Enumerates(order, DOMAIN f)
               /\ S[k + 1] = Number(f)
               /\ pointer = [shared |-> k + 1, content |-> ProductContent(list, order, f)]
               /\ AtomsCode(S, k + 1, l, list, order)
    BY <1>4, <1>6, <2>2
  <2> QED
    BY <1>6, <2>1, <2>2 DEF ProductCode
<1> QED
  BY <1>5, <1>6 DEF NumberCode

\* Different atoms, none of them known.
AreNew(known, b) ==
  /\ \A n \in 1 .. Len(b) : \E a : b[n] = Linear(a) /\ a \notin DOMAIN known.ids
  /\ \A m, n \in 1 .. Len(b) : b[m] = b[n] => m = n

IsChain(S, O, at, c, b) ==
  /\ \A n \in 0 .. Len(b) : HasTaken(S, c[n], O, at[0], at[n], b, n)
  /\ \A n \in 1 .. Len(b) : Reads(S, c[n], O, at[n - 1], at[n], b[n])

\* New atoms are given ids in the order in which they are read.
LEMMA NewChain ==
  ASSUME NEW S, NEW O, NEW at, NEW c, NEW b, Len(b) \in Nat, AreNew(at[0].known, b),
         AreIds(at[0].known.ids, at[0].known.next), IsChain(S, O, at, c, b)
  PROVE  \A n \in 0 .. Len(b) :
           /\ at[n].known.next = at[0].known.next + n
           /\ \A m \in 1 .. n : \A a : b[m] = Linear(a) => at[n].known.ids[a] = at[0].known.next + (m - 1)
<1> DEFINE N == Len(b)
           next == at[0].known.next
           P(n) == /\ at[n].known.next = next + n
                   /\ \A m \in 1 .. n : \A a : b[m] = Linear(a) => at[n].known.ids[a] = next + (m - 1)
           T == {n \in Nat : n <= N => P(n)}
<1>1. next \in Nat
  BY DEF AreIds
<1>2. 0 \in T
  <2>1. \A m \in 1 .. 0 : FALSE
    OBVIOUS
  <2> QED
    BY <1>1, <2>1
<1>3. ASSUME NEW n \in Nat, n \in T
      PROVE  n + 1 \in T
  <2> SUFFICES ASSUME n + 1 <= N
               PROVE  P(n + 1)
    OBVIOUS
  <2>1. P(n)
    BY <1>3
  <2>2. n + 1 \in 1 .. N /\ (n + 1) - 1 = n /\ n \in 0 .. N
    OBVIOUS
  <2>3. PICK a : b[n + 1] = Linear(a) /\ a \notin DOMAIN at[0].known.ids
    BY <2>2 DEF AreNew
  <2>4. /\ Reads(S, c[n + 1], O, at[n], at[n + 1], b[n + 1])
        /\ HasTaken(S, c[n], O, at[0], at[n], b, n)
    BY <2>2 DEF IsChain
  <2>5. AreIds(at[n].known.ids, at[n].known.next) /\ DOMAIN at[n].known.ids = DOMAIN at[0].known.ids \cup Taken(b, n)
    BY <2>4 DEF HasTaken, Grows
  <2>6. a \notin Taken(b, n)
    <3>1. ASSUME NEW m \in 1 .. n, a \in DOMAIN b[m]
          PROVE  FALSE
      <4>1. m \in 1 .. N /\ m # n + 1
        OBVIOUS
      <4>2. PICK x : b[m] = Linear(x)
        BY <4>1 DEF AreNew
      <4>3. x = a
        BY <3>1, <4>2, LinearFacts
      <4>4. b[m] = b[n + 1]
        BY <2>3, <4>2, <4>3
      <4> QED
        BY <2>2, <4>1, <4>4 DEF AreNew
    <3> QED
      BY <3>1 DEF Taken
  <2>7. at[n + 1].known = Obtain(at[n].known, a)
    BY <2>3, <2>4 DEF Reads
  <2>8. a \notin DOMAIN at[n].known.ids
    BY <2>3, <2>5, <2>6
  <2>9. /\ Obtain(at[n].known, a).next = at[n].known.next + 1
        /\ Obtain(at[n].known, a).ids[a] = at[n].known.next
    BY <2>5, <2>8, ObtainFacts
  <2>10. at[n + 1].known.next = next + (n + 1) /\ at[n + 1].known.ids[a] = next + n
    <3>1. at[n + 1].known.next = at[n].known.next + 1 /\ at[n + 1].known.ids[a] = at[n].known.next
      BY <2>7, <2>9
    <3>2. at[n].known.next = next + n
      BY <2>1
    <3>3. (next + n) + 1 = next + (n + 1)
      BY <1>1
    <3> QED
      BY <3>1, <3>2, <3>3
  <2>11. \A x \in DOMAIN at[n].known.ids : at[n + 1].known.ids[x] = at[n].known.ids[x]
    BY <2>4 DEF Reads, Grows
  <2>12. ASSUME NEW m \in 1 .. n + 1, NEW x, b[m] = Linear(x)
         PROVE  at[n + 1].known.ids[x] = next + (m - 1)
    <3>1. CASE m = n + 1
      <4>1. x = a
        BY <2>3, <2>12, <3>1, LinearFacts
      <4> QED
        BY <2>10, <3>1, <4>1
    <3>2. CASE m # n + 1
      <4>1. m \in 1 .. n
        BY <3>2
      <4>2. x \in Taken(b, n)
        <5>1. x \in DOMAIN b[m]
          BY <2>12, LinearFacts
        <5> QED
          BY <4>1, <5>1 DEF Taken
      <4>3. x \in DOMAIN at[n].known.ids
        BY <2>5, <4>2
      <4> QED
        BY <2>1, <2>11, <2>12, <4>1, <4>3
    <3> QED
      BY <3>1, <3>2
  <2> QED
    BY <2>10, <2>12
<1> HIDE DEF T
<1>4. \A n \in Nat : n \in T
  BY <1>2, <1>3, Folding!Induct
<1>5. \A n \in 0 .. N : n \in Nat /\ n <= N
  OBVIOUS
<1> QED
  BY <1>4, <1>5 DEF T

\* Atoms have ids in the order in which they are in the list.
InOrder(known, b) ==
  \A m, n \in 1 .. Len(b) : \A x, y : m < n /\ b[m] = Linear(x) /\ b[n] = Linear(y) => known.ids[x] < known.ids[y]

\* r becomes v when the numbers in b are read.
ReadsAll(S, l, O, r, v, b) ==
  /\ IsReader(S, l, O, v)
  /\ v.list = b
  /\ Grows(r.known, v.known, Factors(ToSet(b)))
  /\ AreNew(r.known, b) => InOrder(v.known, b)

LEMMA LoadBasisFacts ==
  ASSUME NEW S, NEW k \in Nat, NEW l \in Nat, NEW O, NEW r, IsReader(S, k, O, r), Modules(S, O),
         NEW list, NEW b, IsList(b), \A n \in 1 .. Len(b) : MonomialOn(b[n], Atom), NumbersCode(S, k, l, list, b)
  PROVE  ReadsAll(S, l, O, r, LoadBasis(r, list), b)
<1> DEFINE base == [r EXCEPT !.list = <<>>]
           v == LoadBasis(r, list)
           N == Len(list)
<1>1. IsList(list) /\ Len(b) = N /\ N \in Nat
  BY DEF NumbersCode, IsList
<1>2. PICK c : /\ Counts(c, N, k, l)
               /\ \A n \in 1 .. N : NumberCode(S, c[n - 1], c[n], list[n], b[n])
  BY DEF NumbersCode
<1>3. IsReader(S, k, O, base) /\ base.list = <<>> /\ base.known = r.known
  BY ListFacts, EmptyIsList
<1>4. v = FoldLeft(LoadNumber, base, list)
  BY DEF LoadBasis
<1> HIDE DEF base, v
<1>5. PICK at : /\ at[0] = base
                /\ \A n \in 1 .. N : at[n] = LoadNumber(at[n - 1], list[n])
                /\ at[N] = v
  BY <1>1, <1>4, LoadNumbers
<1> HIDE DEF N
<1>6. ASSUME NEW n \in 1 .. N, IsReader(S, c[n - 1], O, at[n - 1])
      PROVE  Reads(S, c[n], O, at[n - 1], at[n], b[n])
  <2>1. c[n - 1] \in Nat /\ c[n] \in Nat
    BY <1>1, <1>2, CountFacts
  <2>2. NumberCode(S, c[n - 1], c[n], list[n], b[n]) /\ MonomialOn(b[n], Atom)
    BY <1>1, <1>2
  <2>3. Reads(S, c[n], O, at[n - 1], LoadNumber(at[n - 1], list[n]), b[n])
    BY <1>6, <2>1, <2>2, LoadNumberFacts
  <2> QED
    BY <1>5, <2>3
<1>7. IsReader(S, c[0], O, at[0]) /\ at[0].list = <<>>
  BY <1>2, <1>3, <1>5 DEF Counts
<1>8. \A n \in 0 .. N : HasTaken(S, c[n], O, at[0], at[n], b, n)
  BY <1>1, <1>6, <1>7, ReadChain
<1>9. HasTaken(S, l, O, base, v, b, Len(b))
  BY <1>1, <1>2, <1>5, <1>8 DEF Counts
<1>10. IsReader(S, l, O, v) /\ v.list = b /\ Grows(base.known, v.known, Factors(ToSet(b)))
  BY <1>9, ReadChainFacts
<1>11. ASSUME AreNew(r.known, b)
       PROVE  InOrder(v.known, b)
  <2>1. ASSUME NEW n \in 1 .. N
        PROVE  Reads(S, c[n], O, at[n - 1], at[n], b[n])
    <3>1. n - 1 \in 0 .. N
      BY <1>1
    <3> QED
      BY <1>6, <1>8, <3>1 DEF HasTaken
  <2>2. AreNew(at[0].known, b) /\ AreIds(at[0].known.ids, at[0].known.next)
    BY <1>3, <1>5, <1>7, <1>11 DEF IsReader
  <2> DEFINE next == at[0].known.next
  <2>3. Len(b) \in Nat /\ N \in 0 .. N /\ next \in Nat
    BY <1>1, <2>2 DEF AreIds
  <2>4. IsChain(S, O, at, c, b)
    BY <1>1, <1>8, <2>1 DEF IsChain
  <2>5. \A n \in 0 .. Len(b) :
          /\ at[n].known.next = next + n
          /\ \A m \in 1 .. n : \A a : b[m] = Linear(a) => at[n].known.ids[a] = next + (m - 1)
    BY <2>2, <2>3, <2>4, NewChain
  <2> HIDE DEF next
  <2>6. \A m \in 1 .. N : \A a : b[m] = Linear(a) => v.known.ids[a] = next + (m - 1)
    BY <1>1, <1>5, <2>3, <2>5
  <2>7. ASSUME NEW m \in 1 .. N, NEW n \in 1 .. N, NEW x, NEW y, m < n, b[m] = Linear(x), b[n] = Linear(y)
        PROVE  v.known.ids[x] < v.known.ids[y]
    <3>1. v.known.ids[x] = next + (m - 1) /\ v.known.ids[y] = next + (n - 1)
      BY <2>6, <2>7
    <3>2. next + (m - 1) < next + (n - 1)
      BY <1>1, <2>3, <2>7
    <3> QED
      BY <3>1, <3>2
  <2> QED
    BY <1>1, <2>7 DEF InOrder
<1> QED
  BY <1>3, <1>10, <1>11 DEF ReadsAll, v

\* r becomes v when a module with the generators in b is read.
ReadsModule(S, l, r, v, b) ==
  /\ IsReader(S, l, {}, v)
  /\ Ascending(v.known.ids, v.list)
  /\ ToSet(v.list) = ToSet(b)
  /\ Grows(r.known, v.known, Factors(ToSet(b)))
  /\ AreNew(r.known, b) => InOrder(v.known, b)

LEMMA FactorsOfAscending ==
  ASSUME NEW i, NEW b, Ascending(i, b)
  PROVE  Factors(ToSet(b)) \subseteq DOMAIN i
<1>1. \A n \in 1 .. Len(b) : DOMAIN b[n] \subseteq DOMAIN i
  BY DEF Ascending, MonomialOn
<1> QED
  BY <1>1, ToSetOfList DEF Ascending, Factors

LEMMA LoadModuleReference ==
  ASSUME NEW S, NEW k \in Nat, NEW r, IsReader(S, k, {}, r), NEW b, IsList(b),
         NEW n \in 1 .. k, S[n] = Module(b)
  PROVE  ReadsModule(S, k, r, LoadModule(r, [shared |-> n]), b)
<1> DEFINE pointer == [shared |-> n]
           v == LoadModule(r, pointer)
           ids0 == r.known.ids
<1>1. Stands(ids0, r.pointers[n], Module(b))
  BY DEF IsReader, HasRead
<1>2. PICK d : r.pointers[n] = Module(d) /\ Ascending(ids0, d) /\ ToSet(d) = ToSet(b)
  <2>1. \A d, e : Module(d) = Module(e) => d = e
    BY NumberFacts
  <2>2. \A f : Number(f) # Module(b)
    BY NumberFacts
  <2> QED
    BY <1>1, <2>1, <2>2 DEF Stands
<1>3. v = [r EXCEPT !.list = d]
  <2>1. ~IsFirst(pointer) /\ pointer.shared = n
    BY DEF IsFirst
  <2>2. r.pointers[pointer.shared][2] = d
    BY <1>2, <2>1, NumberFacts
  <2>3. v = [r EXCEPT !.list = r.pointers[pointer.shared][2]]
    BY <2>1 DEF LoadModule
  <2> HIDE DEF v
  <2> QED
    BY <2>2, <2>3
<1>4. IsList(d)
  BY <1>2 DEF Ascending
<1> HIDE DEF v
<1>5. IsReader(S, k, {}, v) /\ v.list = d /\ v.known = r.known
  BY <1>3, <1>4, ListFacts
<1>6. Factors(ToSet(b)) \subseteq DOMAIN ids0
  BY <1>2, FactorsOfAscending
<1>7. Grows(r.known, v.known, Factors(ToSet(b)))
  <2>1. Grows(r.known, r.known, {})
    BY GrowsByNothing DEF IsReader
  <2>2. DOMAIN ids0 \cup {} = DOMAIN ids0 \cup Factors(ToSet(b))
    BY <1>6
  <2> QED
    BY <1>5, <2>1, <2>2 DEF Grows
<1>8. ASSUME AreNew(r.known, b)
      PROVE  InOrder(v.known, b)
  <2>1. ASSUME NEW m \in 1 .. Len(b)
        PROVE  FALSE
    <3>1. PICK a : b[m] = Linear(a) /\ a \notin DOMAIN ids0
      BY <1>8 DEF AreNew
    <3>2. a \in DOMAIN b[m]
      BY <3>1, LinearFacts
    <3>3. b[m] \in ToSet(b)
      BY ToSetOfList
    <3>4. a \in Factors(ToSet(b))
      BY <3>2, <3>3 DEF Factors
    <3> QED
      BY <1>6, <3>1, <3>4
  <2> QED
    BY <2>1 DEF InOrder
<1> QED
  BY <1>2, <1>5, <1>7, <1>8 DEF ReadsModule, v

LEMMA LoadModuleContent ==
  ASSUME NEW S, NEW k \in Nat, NEW l \in Nat, NEW r, IsReader(S, k, {}, r),
         NEW b, IsList(b), \A n \in 1 .. Len(b) : MonomialOn(b[n], Atom), S[k + 1] = Module(b),
         NEW list, NumbersCode(S, k + 1, l, list, b)
  PROVE  ReadsModule(S, l, r, LoadModule(r, [shared |-> k + 1, content |-> list]), b)
<1> DEFINE pointer == [shared |-> k + 1, content |-> list]
           v == LoadModule(r, pointer)
           read == LoadBasis(r, list)
           basis == Make(read.known.ids, read.list)
           pointers == Remember(read.pointers, k + 1, Module(basis))
<1>1. k + 1 \in Nat /\ k + 1 <= l
  <2>1. k + 1 \in Nat
    OBVIOUS
  <2>2. PICK c : Counts(c, Len(list), k + 1, l) /\ Len(list) \in Nat
    BY DEF NumbersCode, IsList
  <2> QED
    BY <2>1, <2>2, CountFacts
<1>2. /\ {k + 1} \subseteq 1 .. k + 1 /\ (1 .. k + 1) \ {k + 1} = (1 .. k) \ {}
      /\ (1 .. l) \ {} = ((1 .. l) \ {k + 1}) \cup {k + 1}
  <2>1. k + 1 \notin 1 .. k /\ 1 .. k + 1 = (1 .. k) \cup {k + 1} /\ k + 1 \in 1 .. l
    BY <1>1
  <2> QED
    BY <2>1
<1>3. IsReader(S, k + 1, {k + 1}, r)
  BY <1>2 DEF IsReader, HasRead
<1>4. Modules(S, {k + 1})
  BY DEF Modules
<1>5. ReadsAll(S, l, {k + 1}, r, read, b)
  BY <1>1, <1>3, <1>4, LoadBasisFacts
<1> HIDE DEF read
<1>6. /\ IsReader(S, l, {k + 1}, read) /\ read.list = b /\ Grows(r.known, read.known, Factors(ToSet(b)))
      /\ AreNew(r.known, b) => InOrder(read.known, b)
  BY <1>5 DEF ReadsAll
<1>7. AreIds(read.known.ids, read.known.next) /\ Factors(ToSet(b)) \subseteq DOMAIN read.known.ids
  BY <1>6 DEF Grows
<1>8. Ascending(read.known.ids, basis) /\ ToSet(basis) = ToSet(b)
  <2>1. Orders(read.known.ids, DOMAIN read.known.ids)
    BY <1>7, IdsOrder
  <2>2. IsFiniteSet(ToSet(b))
    BY ToSetOfList
  <2>3. \A f \in ToSet(b) : MonomialOn(f, Atom) /\ DOMAIN f \subseteq Factors(ToSet(b))
    BY ToSetOfList DEF Factors
  <2>4. \A f \in ToSet(b) : MonomialOn(f, DOMAIN read.known.ids)
    BY <1>7, <2>3 DEF MonomialOn
  <2> QED
    BY <1>6, <2>1, <2>2, <2>4, MakeFacts
<1>9. v = [read EXCEPT !.pointers = pointers, !.list = basis]
  <2>1. IsFirst(pointer) /\ pointer.content = list /\ pointer.shared = k + 1
    BY DEF IsFirst
  <2> DEFINE got == LoadBasis(r, pointer.content)
             made == Make(got.known.ids, got.list)
  <2>2. v = [got EXCEPT !.pointers = Remember(@, pointer.shared, Module(made)), !.list = made]
    BY <2>1 DEF LoadModule
  <2>3. got = read
    BY <2>1 DEF read
  <2>4. made = basis
    BY <2>3
  <2> HIDE DEF v, got, made, basis
  <2> QED
    BY <2>1, <2>2, <2>3, <2>4
<1> HIDE DEF v, basis, pointers
<1>10. /\ v.known = read.known /\ v.pointers = pointers /\ v.list = basis
       /\ v = [known |-> v.known, pointers |-> v.pointers, list |-> v.list]
  <2>1. read = [known |-> read.known, pointers |-> read.pointers, list |-> read.list]
    BY <1>6 DEF IsReader
  <2>2. v = [known |-> read.known, pointers |-> pointers, list |-> basis]
    BY <1>9, <2>1
  <2> QED
    BY <2>2
<1>11. HasRead(S, l, {}, v.known.ids, pointers)
  <2>1. HasRead(S, l, {k + 1}, read.known.ids, read.pointers)
    BY <1>6 DEF IsReader
  <2>2. Grows(read.known, v.known, {})
    BY <1>7, <1>10, GrowsByNothing
  <2>3. Stands(v.known.ids, Module(basis), S[k + 1])
    BY <1>8, <1>10 DEF Stands
  <2> QED
    BY <1>2, <2>1, <2>2, <2>3, RememberFacts DEF pointers
<1>12. IsReader(S, l, {}, v)
  BY <1>7, <1>8, <1>10, <1>11 DEF IsReader, Ascending
<1> QED
  BY <1>6, <1>8, <1>10, <1>12 DEF ReadsModule, v

LEMMA LoadModuleFacts ==
  ASSUME NEW S, NEW k \in Nat, NEW l \in Nat, NEW r, IsReader(S, k, {}, r),
         NEW b, IsList(b), \A n \in 1 .. Len(b) : MonomialOn(b[n], Atom), NEW pointer, ModuleCode(S, k, l, pointer, b)
  PROVE  ReadsModule(S, l, r, LoadModule(r, pointer), b)
<1>1. CASE Reference(S, k, pointer, Module(b)) /\ l = k
  <2>1. PICK n \in 1 .. k : S[n] = Module(b) /\ pointer = [shared |-> n]
    BY <1>1 DEF Reference
  <2>2. ReadsModule(S, k, r, LoadModule(r, [shared |-> n]), b)
    BY <2>1, LoadModuleReference
  <2> QED
    BY <1>1, <2>1, <2>2
<1>2. CASE /\ S[k + 1] = Module(b)
           /\ \E list : pointer = [shared |-> k + 1, content |-> list] /\ NumbersCode(S, k + 1, l, list, b)
  <2>1. PICK list : pointer = [shared |-> k + 1, content |-> list] /\ NumbersCode(S, k + 1, l, list, b)
    BY <1>2
  <2>2. ReadsModule(S, l, r, LoadModule(r, [shared |-> k + 1, content |-> list]), b)
    BY <1>2, <2>1, LoadModuleContent
  <2> QED
    BY <2>1, <2>2
<1> QED
  BY <1>1, <1>2 DEF ModuleCode

-----------------------------------------------------------------------------
(* Generators of degree one. *)

LEMMA LinearsAreAtoms ==
  ASSUME NEW A, NEW f, MonomialOn(f, A), IsLinear(f)
  PROVE  \E a \in A : f = Linear(a)
<1>1. IsFiniteSet(DOMAIN f) /\ f = [m \in DOMAIN f |-> f[m]] /\ \A m \in DOMAIN f : f[m] \in Nat /\ f[m] > 0 /\ m \in A
  BY DEF MonomialOn
<1>2. SumOn(f, DOMAIN f) = 1
  BY DegreeIsSumOn DEF IsLinear
<1>3. DOMAIN f # {}
  BY <1>2, SumOfEmpty
<1>4. PICK a : a \in DOMAIN f
  BY <1>3
<1>5. f[a] \in Nat /\ f[a] > 0 /\ a \in A
  BY <1>1, <1>4
<1> DEFINE D == DOMAIN f
<1> HIDE DEF D
<1>6. IsFiniteSet(D) /\ SumOn(f, D) = 1 /\ a \in D /\ \A m \in D : f[m] \in Nat /\ f[m] > 0
  BY <1>1, <1>2, <1>4 DEF D
<1>7. f[a] <= 1
  BY <1>6, SumOfNaturals
<1>8. SumOn(f, D) = f[a] + SumOn(f, D \ {a})
  <2>1. IntegerOn(f, D)
    BY <1>6 DEF IntegerOn
  <2> QED
    BY <1>6, <2>1, SumOfRest
<1>9. IsFiniteSet(D \ {a}) /\ \A m \in D \ {a} : f[m] \in Nat
  BY <1>6, FS_RemoveElement
<1>10. SumOn(f, D \ {a}) \in Nat /\ \A m \in D \ {a} : f[m] <= SumOn(f, D \ {a})
  BY <1>9, SumOfNaturals
<1>11. SumOn(f, D \ {a}) = 0 /\ f[a] = 1
  BY <1>5, <1>6, <1>7, <1>8, <1>10
<1>12. \A m \in D : m = a
  BY <1>6, <1>10, <1>11
<1>13. DOMAIN f = {a}
  BY <1>4, <1>12 DEF D
<1> QED
  BY <1>1, <1>5, <1>11, <1>13 DEF Linear

LEMMA LinearsAreOrdered ==
  ASSUME NEW i, NEW x, NEW y, Deglex(i, Linear(x), Linear(y)), i[x] \in Nat, i[y] \in Nat,
         i[x] = i[y] => x = y
  PROVE  i[x] < i[y]
<1> DEFINE f == Linear(x)
           g == Linear(y)
<1>1. DOMAIN f = {x} /\ f[x] = 1 /\ DOMAIN g = {y} /\ g[y] = 1
  BY LinearFacts
<1>2. TotalDegree(f) = 1 /\ TotalDegree(g) = 1
  <2>1. SumOn(f, {x}) = 1 /\ SumOn(g, {y}) = 1
    BY <1>1, SumOfSingle
  <2> QED
    BY <1>1, <2>1, DegreeIsSumOn
<1> HIDE DEF f, g
<1>3. PICK m \in DOMAIN f : /\ f[m] > Exponent(g, m)
                            /\ \A n \in DOMAIN f \cup DOMAIN g : i[n] < i[m] => Exponent(f, n) = Exponent(g, n)
  BY <1>2 DEF Deglex, f, g
<1>4. m = x /\ x # y
  BY <1>1, <1>3 DEF Exponent
<1>5. Exponent(f, y) = 0 /\ Exponent(g, y) = 1
  BY <1>1, <1>4 DEF Exponent
<1>6. ~ i[y] < i[x]
  BY <1>1, <1>3, <1>4, <1>5
<1> QED
  BY <1>4, <1>6

-----------------------------------------------------------------------------
(* What holds in every state. *)

\* An element of the module with the generators b has been saved in e; s is
\* what it had been when it was saved.
Entry(S, k, l, e, b, s) ==
  /\ IsList(b) /\ \A n \in 1 .. Len(b) : MonomialOn(b[n], Atom)
  /\ ModuleCode(S, k, l, e.parent, b)
  /\ Len(e.coefficients) = Len(b)
  /\ s.value = Polynomial([basis |-> b, coefficients |-> e.coefficients])
  /\ Orders(s.ids, DOMAIN s.ids) /\ DOMAIN s.ids = Factors(ToSet(b)) /\ Ascending(s.ids, b)

\* E lists what has been saved.
Records(S, c, B, E, values) ==
  /\ IsList(S) /\ IsList(E) /\ IsList(values) /\ Len(values) = Len(E)
  /\ Counts(c, Len(E), 0, Len(S))
  /\ \A n \in 1 .. Len(E) : Entry(S, c[n - 1], c[n], E[n], B[n], values[n])

IsElement(i, e) == Ascending(i, e.basis) /\ Len(e.coefficients) = Len(e.basis)

IsLiving(i, next, h, k, e, shared) ==
  /\ AreIds(i, next) /\ DOMAIN i \subseteq Atom
  /\ Owned(h, k, e, shared) = DOMAIN i
  /\ e # Nothing => IsElement(i, e)

Living == IsLiving(ids, nextId, held, kept, element, Shared)

Writing ==
  archive = <<>> =>
    /\ reader = NoReader
    /\ writer = [shared |-> writer.shared, elements |-> writer.elements]
    /\ \E c, B : Records(writer.shared, c, B, writer.elements, saved)

Position(S, c, B) ==
  /\ Records(S, c, B, archive, saved)
  /\ reader.next \in 1 .. Len(archive) + 1
  /\ HasRead(S, c[reader.next - 1], {}, ids, reader.pointers)

Reading ==
  archive # <<>> =>
    /\ writer = NoWriter
    /\ reader = [next |-> reader.next, pointers |-> reader.pointers]
    /\ \E S, c, B : Position(S, c, B)

Inv == Living /\ Writing /\ Reading

LEMMA NoRecords ==
  ASSUME NEW c, NEW B, c[0] = 0
  PROVE  Records(<<>>, c, B, <<>>, <<>>)
<1>1. IsList(<<>>) /\ Len(<<>>) = 0
  BY EmptyIsList
<1>2. \A n \in 1 .. 0 : FALSE
  OBVIOUS
<1>3. \A m \in 0 .. 0 : m = 0
  OBVIOUS
<1>4. Counts(c, 0, 0, 0)
  BY <1>3 DEF Counts
<1>5. \A n \in 1 .. Len(<<>>) : Entry(<<>>, c[n - 1], c[n], <<>>[n], B[n], <<>>[n])
  BY <1>1, <1>2
<1> QED
  BY <1>1, <1>4, <1>5 DEF Records

LEMMA NothingRead ==
  ASSUME NEW S, NEW i
  PROVE  HasRead(S, 0, {}, i, <<>>)
<1>1. DOMAIN <<>> = 1 .. 0 /\ (1 .. 0) \ {} = 1 .. 0
  BY EmptyIsList DEF IsList
<1>2. \A n \in 1 .. 0 : FALSE
  OBVIOUS
<1>3. \A n \in (1 .. 0) \ {} : Stands(i, <<>>[n], S[n])
  BY <1>2
<1> QED
  BY <1>1, <1>3 DEF HasRead

\* One more element is saved.
LEMMA RecordsGrow ==
  ASSUME NEW S, NEW T, NEW c, NEW B, NEW E, NEW values, Records(S, c, B, E, values),
         IsList(T), Prefix(S, T), NEW e, NEW b, NEW s, Entry(T, Len(S), Len(T), e, b, s)
  PROVE  \E d, D : Records(T, d, D, Append(E, e), Append(values, s))
<1> DEFINE N == Len(E)
           d == [n \in 0 .. N + 1 |-> IF n <= N THEN c[n] ELSE Len(T)]
           D == [n \in 1 .. N + 1 |-> IF n <= N THEN B[n] ELSE b]
           F == Append(E, e)
           new == Append(values, s)
<1>1. /\ IsList(S) /\ IsList(E) /\ IsList(values) /\ Len(values) = N
      /\ Counts(c, N, 0, Len(S)) /\ N \in Nat /\ Len(S) \in Nat /\ Len(T) \in Nat /\ Len(S) <= Len(T)
      /\ \A n \in 1 .. N : Entry(S, c[n - 1], c[n], E[n], B[n], values[n])
  BY DEF Records, IsList, Prefix
<1>2. /\ IsList(F) /\ Len(F) = N + 1 /\ (\A n \in 1 .. N : F[n] = E[n]) /\ F[N + 1] = e
      /\ IsList(new) /\ Len(new) = N + 1 /\ (\A n \in 1 .. N : new[n] = values[n]) /\ new[N + 1] = s
  BY <1>1, AppendFacts
<1> HIDE DEF F, new, N
<1>3. /\ \A n \in 0 .. N : d[n] = c[n]
      /\ d[N + 1] = Len(T)
      /\ \A n \in 1 .. N : D[n] = B[n]
      /\ D[N + 1] = b
  BY <1>1
<1> HIDE DEF d, D
<1>4. \A n \in 0 .. N : c[n] \in Nat /\ c[n] <= Len(S)
  BY <1>1, CountFacts
<1>5. Counts(d, N + 1, 0, Len(T))
  <2>1. d[0] = 0
    BY <1>1, <1>3 DEF Counts
  <2>2. ASSUME NEW m \in 0 .. N + 1
        PROVE  d[m] \in 0 .. Len(T)
    <3>1. m \in 0 .. N \/ m = N + 1
      BY <1>1
    <3> QED
      BY <1>1, <1>3, <1>4, <3>1
  <2> QED
    BY <1>3, <2>1, <2>2 DEF Counts
<1>6. ASSUME NEW n \in 1 .. N + 1
      PROVE  Entry(T, d[n - 1], d[n], F[n], D[n], new[n])
  <2>1. CASE n = N + 1
    <3>1. n - 1 = N /\ N \in 0 .. N
      BY <1>1, <2>1
    <3>2. d[n - 1] = Len(S) /\ d[n] = Len(T)
      BY <1>1, <1>3, <2>1, <3>1 DEF Counts
    <3> QED
      BY <1>2, <1>3, <2>1, <3>2
  <2>2. CASE n # N + 1
    <3>1. n \in 1 .. N /\ n \in 0 .. N /\ n - 1 \in 0 .. N
      BY <1>1, <2>2
    <3>2. Entry(S, c[n - 1], c[n], E[n], B[n], values[n])
      BY <1>1, <3>1
    <3>3. c[n - 1] \in Nat /\ c[n] \in Nat /\ c[n] <= Len(S)
      BY <1>4, <3>1
    <3>4. ModuleCode(S, c[n - 1], c[n], E[n].parent, B[n])
      BY <3>2 DEF Entry
    <3>5. ModuleCode(T, c[n - 1], c[n], E[n].parent, B[n])
      BY <1>1, <3>3, <3>4, ModuleCodeStays
    <3>6. Entry(T, c[n - 1], c[n], E[n], B[n], values[n])
      BY <3>2, <3>5 DEF Entry
    <3> QED
      BY <1>2, <1>3, <3>1, <3>6
  <2> QED
    BY <2>1, <2>2
<1>7. Records(T, d, D, F, new)
  BY <1>2, <1>5, <1>6 DEF Records
<1> QED
  BY <1>7 DEF F, new

\* What is left of ids when pointers have been given up.
LEMMA AscendingStays ==
  ASSUME NEW i, NEW j, NEW b, Ascending(i, b), Factors(ToSet(b)) \subseteq DOMAIN j,
         \A a \in DOMAIN j : j[a] = i[a]
  PROVE  Ascending(j, b)
<1>1. Alike(i, j, Factors(ToSet(b)))
  BY DEF Alike
<1> QED
  BY <1>1, AscendingAlike

LEMMA StandsStays ==
  ASSUME NEW i, NEW j, NEW p, NEW q, Stands(i, p, q), AtomsOf(p) \subseteq DOMAIN j,
         \A a \in DOMAIN j : j[a] = i[a]
  PROVE  Stands(j, p, q)
<1>1. CASE \E f : p = Number(f) /\ q = Number(f) /\ DOMAIN f \subseteq DOMAIN i
  BY <1>1, NumberFacts DEF Stands
<1>2. CASE \E b, c : p = Module(b) /\ q = Module(c) /\ Ascending(i, b) /\ ToSet(b) = ToSet(c)
  <2>1. PICK b, c : p = Module(b) /\ q = Module(c) /\ Ascending(i, b) /\ ToSet(b) = ToSet(c)
    BY <1>2
  <2>2. Factors(ToSet(b)) \subseteq DOMAIN j
    BY <2>1, NumberFacts
  <2>3. Ascending(j, b)
    BY <2>1, <2>2, AscendingStays
  <2> QED
    BY <2>1, <2>3 DEF Stands
<1> QED
  BY <1>1, <1>2 DEF Stands

LEMMA HasReadStays ==
  ASSUME NEW i, NEW j, NEW S, NEW n, NEW pointers, HasRead(S, n, {}, i, pointers),
         \A m \in DOMAIN pointers : AtomsOf(pointers[m]) \subseteq DOMAIN j,
         \A a \in DOMAIN j : j[a] = i[a]
  PROVE  HasRead(S, n, {}, j, pointers)
BY StandsStays DEF HasRead

LEMMA HasReadGrows ==
  ASSUME NEW old, NEW new, NEW A, Grows(old, new, A), NEW S, NEW n, NEW pointers,
         HasRead(S, n, {}, old.ids, pointers)
  PROVE  HasRead(S, n, {}, new.ids, pointers)
BY StandsGrows DEF HasRead

\* Clients, modules, and open archives have fewer pointers.
Fewer(H, K, E, T, h, k, e, shared) == H \subseteq h /\ K \subseteq k /\ E \in {e, Nothing} /\ T \subseteq shared

\* j is what is left of i.
Swept(i, j, next, h, k, e, shared) ==
  /\ IsLiving(j, next, h, k, e, shared)
  /\ \A a \in DOMAIN j : j[a] = i[a]
  /\ \A p \in shared : AtomsOf(p) \subseteq DOMAIN j

LEMMA SweptFacts ==
  ASSUME NEW i, NEW next, NEW h, NEW k, NEW e, NEW shared, IsLiving(i, next, h, k, e, shared),
         NEW H, NEW K, NEW E, NEW T, Fewer(H, K, E, T, h, k, e, shared)
  PROVE  Swept(i, [a \in DOMAIN i \cap Owned(H, K, E, T) |-> i[a]], next, H, K, E, T)
<1> DEFINE j == [a \in DOMAIN i \cap Owned(H, K, E, T) |-> i[a]]
<1>1. Owned(H, K, E, T) \subseteq Owned(h, k, e, shared)
  BY DEF Owned, Factors, Fewer
<1>2. DOMAIN i \cap Owned(H, K, E, T) = Owned(H, K, E, T)
  BY <1>1 DEF IsLiving
<1>3. AreIds(j, next) /\ DOMAIN j = Owned(H, K, E, T) /\ \A a \in DOMAIN j : j[a] = i[a]
  <2>1. AreIds(i, next)
    BY DEF IsLiving
  <2> QED
    BY <1>2, <2>1, RestrictedIds
<1>4. \A p \in T : AtomsOf(p) \subseteq DOMAIN j
  BY <1>3 DEF Owned
<1>5. ASSUME E # Nothing
      PROVE  IsElement(j, E)
  <2>1. E = e /\ IsElement(i, E)
    BY <1>5 DEF IsLiving, Fewer
  <2>2. Factors(ToSet(E.basis)) \subseteq DOMAIN j
    BY <1>3, <1>5 DEF Owned
  <2> QED
    BY <1>3, <2>1, <2>2, AscendingStays DEF IsElement
<1>6. DOMAIN j \subseteq Atom
  BY <1>1, <1>3 DEF IsLiving
<1> QED
  BY <1>3, <1>4, <1>5, <1>6 DEF IsLiving, Swept

\* What is left when an archive is closed.
LEMMA ClosedFacts ==
  ASSUME NEW i, NEW next, NEW h, NEW k, NEW e, NEW shared, IsLiving(i, next, h, k, e, shared), NEW T \in SUBSET shared
  PROVE  IsLiving([a \in DOMAIN i \cap Owned(h, k, e, T) |-> i[a]], next, h, k, e, T)
<1>1. Fewer(h, k, e, T, h, k, e, shared)
  BY DEF Fewer
<1> QED
  BY <1>1, SweptFacts DEF Swept

\* Nothing is written or read.
LEMMA ArchivesStay ==
  ASSUME Writing, Reading, UNCHANGED <<writer, archive, reader, saved>>,
         \A S, n : HasRead(S, n, {}, ids, reader.pointers) => HasRead(S, n, {}, ids', reader.pointers)
  PROVE  Writing' /\ Reading'
<1>1. Writing'
  BY DEF Writing
<1>2. ASSUME NEW S, NEW c, NEW B, Position(S, c, B)
      PROVE  Position(S, c, B)'
  BY <1>2 DEF Position
<1>3. Reading'
  BY <1>2 DEF Reading
<1> QED
  BY <1>1, <1>3

\* Pointers are given up.
LEMMA SweepStep ==
  ASSUME Inv, UNCHANGED <<nextId, writer, archive, reader, saved>>,
         held' \subseteq held, kept' \subseteq kept, element' \in {element, Nothing},
         ids' = Sweep(held', kept', element', Shared)
  PROVE  Inv'
<1>1. Shared' = Shared
  BY DEF Shared
<1>2. IsLiving(ids, nextId, held, kept, element, Shared)
  BY DEF Inv, Living
<1>3. /\ IsLiving(ids', nextId, held', kept', element', Shared)
      /\ \A a \in DOMAIN ids' : ids'[a] = ids[a]
      /\ \A p \in Shared : AtomsOf(p) \subseteq DOMAIN ids'
  <2>1. Fewer(held', kept', element', Shared, held, kept, element, Shared)
    BY DEF Fewer
  <2>2. Swept(ids, ids', nextId, held', kept', element', Shared)
    BY <1>2, <2>1, SweptFacts DEF Sweep
  <2> QED
    BY <2>2 DEF Swept
<1>4. Living'
  BY <1>1, <1>3 DEF Living
<1>5. \A S, n : HasRead(S, n, {}, ids, reader.pointers) => HasRead(S, n, {}, ids', reader.pointers)
  <2>1. \A m \in DOMAIN reader.pointers : AtomsOf(reader.pointers[m]) \subseteq DOMAIN ids'
    BY <1>3 DEF Shared, SharedBy
  <2> QED
    BY <1>3, <2>1, HasReadStays
<1> QED
  BY <1>4, <1>5, ArchivesStay DEF Inv

LEMMA InitInv == Init => Inv
<1> SUFFICES ASSUME Init
             PROVE  Inv
  OBVIOUS
<1>1. AreIds(ids, nextId) /\ DOMAIN ids = {}
  <2>1. DOMAIN <<>> = {} /\ <<>> = [a \in DOMAIN <<>> |-> <<>>[a]]
    OBVIOUS
  <2> QED
    BY <2>1 DEF Init, AreIds
<1>2. Shared = {}
  <2>1. DOMAIN <<>> = {} /\ ToSet(<<>>) = {}
    BY EmptyIsList, ToSetOfList
  <2> QED
    BY <2>1 DEF Init, Shared, SharedBy, NoWriter, NoReader
<1>3. Owned(held, kept, element, Shared) = {}
  BY <1>2 DEF Init, Owned, Factors
<1>4. Living
  BY <1>1, <1>3 DEF Living, IsLiving, Init
<1>5. Writing
  <2> DEFINE c == [n \in {0} |-> 0]
  <2>1. Records(<<>>, c, c, <<>>, <<>>)
    BY NoRecords
  <2> HIDE DEF c
  <2> QED
    BY <2>1 DEF Writing, Init, NoWriter
<1>6. Reading
  BY DEF Reading, Init
<1> QED
  BY <1>4, <1>5, <1>6 DEF Inv

LEMMA RandomInv ==
  ASSUME Inv, NEW a \in Atom, Random(a)
  PROVE  Inv'
<1> DEFINE old == [ids |-> ids, next |-> nextId]
           new == Obtain(old, a)
<1>1. ids' = new.ids /\ nextId' = new.next /\ old.ids = ids /\ old.next = nextId
  BY DEF Random
<1>2. /\ AreIds(ids, nextId) /\ DOMAIN ids \subseteq Atom /\ Owned(held, kept, element, Shared) = DOMAIN ids
      /\ element # Nothing => IsElement(ids, element)
  BY DEF Inv, Living, IsLiving
<1> HIDE DEF old
<1>3. Grows(old, new, {a})
  BY <1>1, <1>2, ObtainFacts
<1> HIDE DEF new
<1>4. AreIds(ids', nextId') /\ DOMAIN ids' = DOMAIN ids \cup {a}
  BY <1>1, <1>3 DEF Grows
<1>5. Owned(held', kept', element', Shared') = DOMAIN ids'
  <2>1. Shared' = Shared
    BY DEF Shared, Random
  <2>2. Owned(held', kept', element', Shared) = Owned(held, kept, element, Shared) \cup {a}
    BY DEF Owned, Random
  <2> QED
    BY <1>2, <1>4, <2>1, <2>2
<1>6. ASSUME element' # Nothing
      PROVE  IsElement(ids', element')
  BY <1>1, <1>2, <1>3, <1>6, AscendingGrows DEF IsElement, Random
<1>7. Living'
  BY <1>2, <1>4, <1>5, <1>6 DEF Living, IsLiving
<1>8. \A S, n : HasRead(S, n, {}, ids, reader.pointers) => HasRead(S, n, {}, ids', reader.pointers)
  BY <1>1, <1>3, HasReadGrows
<1>9. UNCHANGED <<writer, archive, reader, saved>>
  BY DEF Random
<1> QED
  BY <1>7, <1>8, <1>9, ArchivesStay DEF Inv

LEMMA ReleaseInv ==
  ASSUME Inv, NEW a \in Atom, Release(a)
  PROVE  Inv'
<1>1. /\ UNCHANGED <<nextId, writer, archive, reader, saved>>
      /\ held' \subseteq held /\ kept' = kept /\ element' = element
      /\ ids' = Sweep(held', kept, element, Shared)
  BY DEF Release
<1> QED
  BY <1>1, SweepStep

LEMMA ReleaseElementInv ==
  ASSUME Inv, ReleaseElement
  PROVE  Inv'
<1>1. /\ UNCHANGED <<nextId, writer, archive, reader, saved>>
      /\ held' = held /\ kept' = kept /\ element' = Nothing
      /\ ids' = Sweep(held, kept, element', Shared)
  BY DEF ReleaseElement
<1> QED
  BY <1>1, SweepStep

LEMMA ExpelInv ==
  ASSUME Inv, NEW gens \in Basis, Expel(gens)
  PROVE  Inv'
<1>1. /\ UNCHANGED <<nextId, writer, archive, reader, saved>>
      /\ held' = held /\ kept' \subseteq kept /\ element' = element
      /\ ids' = Sweep(held, kept', element, Shared)
  BY DEF Expel
<1> QED
  BY <1>1, SweepStep

LEMMA MakeElementInv ==
  ASSUME Inv, NEW gens \in Basis, MakeElement(gens)
  PROVE  Inv'
<1>1. PICK basis \in [1 .. Cardinality(gens) -> gens], coefficients \in Coefficients :
        /\ ToSet(basis) = gens
        /\ Len(coefficients) = Cardinality(gens)
        /\ element' = [basis |-> Make(ids, basis), coefficients |-> coefficients]
  BY DEF MakeElement
<1>2. /\ AreIds(ids, nextId) /\ DOMAIN ids \subseteq Atom /\ Owned(held, kept, element, Shared) = DOMAIN ids
      /\ element = Nothing /\ Factors(gens) \subseteq held
      /\ UNCHANGED <<ids, nextId, held, writer, archive, reader, saved>> /\ kept' = kept \cup {gens}
  BY DEF Inv, Living, IsLiving, MakeElement
<1>3. IsFiniteSet(gens) /\ \A f \in gens : MonomialOn(f, DOMAIN ids)
  <2>1. IsFiniteSet(gens)
    BY BasisAssumption
  <2>2. ASSUME NEW f \in gens
        PROVE  MonomialOn(f, DOMAIN ids)
    <3>1. f \in UNION Basis
      OBVIOUS
    <3>2. DOMAIN f \subseteq Atom /\ f \in [DOMAIN f -> Nat \ {0}] /\ IsFiniteSet(Atom)
      BY <3>1, BasisAssumption
    <3>3. IsFiniteSet(DOMAIN f)
      BY <3>2, FS_Subset
    <3>4. DOMAIN f \subseteq DOMAIN ids
      BY <1>2 DEF Owned, Factors
    <3> QED
      BY <3>2, <3>3, <3>4 DEF MonomialOn
  <2> QED
    BY <2>1, <2>2
<1> DEFINE made == Make(ids, basis)
<1>4. Ascending(ids, made) /\ ToSet(made) = gens /\ Len(made) = Cardinality(gens)
  <2>1. Orders(ids, DOMAIN ids)
    BY <1>2, IdsOrder
  <2>2. IsFiniteSet(ToSet(basis)) /\ \A f \in ToSet(basis) : MonomialOn(f, DOMAIN ids)
    BY <1>1, <1>3
  <2>3. Ascending(ids, made) /\ ToSet(made) = ToSet(basis) /\ Len(made) = Cardinality(ToSet(basis))
    BY <2>1, <2>2, MakeFacts
  <2> QED
    BY <1>1, <2>3
<1> HIDE DEF made
<1>5. element'.basis = made /\ Len(element'.coefficients) = Len(made)
  BY <1>1, <1>4 DEF made
<1>6. Owned(held', kept', element', Shared') = DOMAIN ids'
  <2>1. Shared' = Shared
    BY <1>2 DEF Shared
  <2>2. Factors(ToSet(element'.basis)) \subseteq held
    BY <1>2, <1>4, <1>5
  <2>3. Factors(UNION kept') = Factors(UNION kept) \cup Factors(gens)
    BY <1>2 DEF Factors
  <2>4. Owned(held', kept', element', Shared) = Owned(held, kept, element, Shared)
    BY <1>2, <2>2, <2>3 DEF Owned
  <2> QED
    BY <1>2, <2>1, <2>4
<1>7. IsElement(ids', element')
  BY <1>2, <1>4, <1>5 DEF IsElement
<1>8. Living'
  BY <1>2, <1>6, <1>7 DEF Living, IsLiving
<1> QED
  BY <1>2, <1>8, ArchivesStay DEF Inv

LEMMA PrefixFacts ==
  ASSUME NEW S, IsList(S), NEW T, IsList(T), Prefix(S, T), NEW A,
         \A n \in Len(S) + 1 .. Len(T) : AtomsOf(T[n]) \subseteq A
  PROVE  /\ ToSet(S) \subseteq ToSet(T)
         /\ \A p \in ToSet(T) : p \in ToSet(S) \/ AtomsOf(p) \subseteq A
<1>1. Len(S) \in Nat /\ Len(T) \in Nat /\ Len(S) <= Len(T) /\ \A n \in 1 .. Len(S) : T[n] = S[n]
  BY DEF IsList, Prefix
<1>2. ASSUME NEW n \in 1 .. Len(S)
      PROVE  S[n] \in ToSet(T)
  <2>1. n \in 1 .. Len(T)
    BY <1>1
  <2> QED
    BY <1>1, <2>1, ToSetOfList
<1>3. ASSUME NEW n \in 1 .. Len(T)
      PROVE  T[n] \in ToSet(S) \/ AtomsOf(T[n]) \subseteq A
  <2>1. n \in 1 .. Len(S) \/ n \in Len(S) + 1 .. Len(T)
    BY <1>1
  <2> QED
    BY <1>1, <2>1, ToSetOfList
<1> QED
  BY <1>2, <1>3, ToSetOfList

LEMMA SaveInv ==
  ASSUME Inv, Save
  PROVE  Inv'
<1> DEFINE S == writer.shared
           E == writer.elements
           b == element.basis
           s == [value |-> Polynomial(element), ids |-> [a \in Factors(ToSet(b)) |-> ids[a]]]
<1>1. /\ AreIds(ids, nextId) /\ DOMAIN ids \subseteq Atom /\ Owned(held, kept, element, Shared) = DOMAIN ids
      /\ element # Nothing /\ IsElement(ids, element) /\ archive = <<>> /\ reader = NoReader
      /\ UNCHANGED <<ids, nextId, held, kept, element, archive, reader>>
      /\ saved' = Append(saved, s)
  BY DEF Inv, Living, IsLiving, Writing, Save
<1>2. PICK address \in [Atom -> 1 .. Cardinality(Atom)] :
        /\ IsInjective(address)
        /\ LET parent == SaveModule(address, writer.shared, element.basis)
           IN  writer' = [shared |-> parent.shared,
                          elements |-> Append(writer.elements, [parent |-> parent.pointer,
                                                                coefficients |-> element.coefficients])]
  BY DEF Save
<1> DEFINE parent == SaveModule(address, S, b)
           T == parent.shared
           e == [parent |-> parent.pointer, coefficients |-> element.coefficients]
<1>3. writer' = [shared |-> T, elements |-> Append(E, e)]
  BY <1>2
<1>4. PICK c, B : Records(S, c, B, E, saved)
  BY <1>1 DEF Inv, Writing
<1>5. AreAddresses(address)
  <2>1. Cardinality(Atom) \in Nat
    BY BasisAssumption, FS_CardinalityType
  <2> QED
    BY <1>2, <2>1 DEF AreAddresses, IsInjective
<1>6. IsList(b) /\ Ascending(ids, b) /\ (\A n \in 1 .. Len(b) : MonomialOn(b[n], DOMAIN ids))
      /\ Len(element.coefficients) = Len(b)
  BY <1>1 DEF IsElement, Ascending
<1>7. \A n \in 1 .. Len(b) : MonomialOn(b[n], Atom)
  BY <1>1, <1>6 DEF MonomialOn
<1>8. /\ IsList(T) /\ Prefix(S, T)
      /\ ModuleCode(T, Len(S), Len(T), parent.pointer, b)
      /\ \A n \in Len(S) + 1 .. Len(T) : AtomsOf(T[n]) \subseteq Factors(ToSet(b))
  <2>1. IsList(S)
    BY <1>4 DEF Records
  <2> QED
    BY <1>5, <1>6, <1>7, <2>1, SaveModuleFacts
<1>9. e.parent = parent.pointer /\ e.coefficients = element.coefficients
      /\ s.value = Polynomial(element) /\ s.ids = [a \in Factors(ToSet(b)) |-> ids[a]]
  OBVIOUS
<1> HIDE DEF parent, e, s
<1>10. Factors(ToSet(b)) \subseteq DOMAIN ids
  BY <1>6, FactorsOfAscending
<1>11. /\ DOMAIN s.ids = Factors(ToSet(b)) /\ (\A a \in DOMAIN s.ids : s.ids[a] = ids[a])
       /\ Orders(s.ids, DOMAIN s.ids)
  <2>1. DOMAIN s.ids = Factors(ToSet(b)) /\ \A a \in DOMAIN s.ids : s.ids[a] = ids[a]
    BY <1>9
  <2>2. Orders(ids, DOMAIN ids)
    BY <1>1, IdsOrder
  <2> QED
    BY <1>10, <2>1, <2>2 DEF Orders
<1>12. Ascending(s.ids, b)
  BY <1>6, <1>11, AscendingStays
<1>13. s.value = Polynomial([basis |-> b, coefficients |-> e.coefficients])
  BY <1>9 DEF Polynomial
<1>14. Entry(T, Len(S), Len(T), e, b, s)
  BY <1>6, <1>7, <1>8, <1>9, <1>11, <1>12, <1>13 DEF Entry
<1>15. \E d, D : Records(T, d, D, Append(E, e), Append(saved, s))
  BY <1>4, <1>8, <1>14, RecordsGrow
<1>16. Writing'
  <2>1. writer'.shared = T /\ writer'.elements = Append(E, e)
        /\ writer' = [shared |-> writer'.shared, elements |-> writer'.elements]
    BY <1>3
  <2>2. \E d, D : Records(writer'.shared, d, D, writer'.elements, saved')
    BY <1>1, <1>15, <2>1
  <2> QED
    BY <1>1, <2>1, <2>2 DEF Writing
<1>17. Reading'
  BY <1>1 DEF Reading
<1>18. Owned(held', kept', element', Shared') = DOMAIN ids'
  <2>1. writer'.shared = T
    BY <1>3
  <2>2. IsList(S)
    BY <1>4 DEF Records
  <2>3. ToSet(S) \subseteq ToSet(T) /\ \A p \in ToSet(T) : p \in ToSet(S) \/ AtomsOf(p) \subseteq Factors(ToSet(b))
    BY <1>8, <2>2, PrefixFacts
  <2>4. Shared \subseteq Shared' /\ \A p \in Shared' : p \in Shared \/ AtomsOf(p) \subseteq Factors(ToSet(b))
    BY <1>1, <2>1, <2>3 DEF Shared, SharedBy
  <2>5. Owned(held, kept, element, Shared') = Owned(held, kept, element, Shared)
    BY <1>1, <2>4 DEF Owned
  <2> QED
    BY <1>1, <2>5
<1>19. Living'
  BY <1>1, <1>18 DEF Living, IsLiving
<1> QED
  BY <1>16, <1>17, <1>19 DEF Inv

LEMMA CloseInv ==
  ASSUME Inv, Close
  PROVE  Inv'
<1>1. /\ writer # NoWriter /\ writer' = NoWriter /\ archive' = writer.elements
      /\ UNCHANGED <<nextId, held, kept, element, reader, saved>>
      /\ ids' = Sweep(held, kept, element, SharedBy(NoWriter, reader))
  BY DEF Close
<1>2. archive = <<>>
  BY <1>1 DEF Inv, Reading
<1>3. /\ reader = NoReader /\ writer = [shared |-> writer.shared, elements |-> writer.elements]
      /\ \E c, B : Records(writer.shared, c, B, writer.elements, saved)
  BY <1>2 DEF Inv, Writing
<1>4. PICK c, B : Records(writer.shared, c, B, writer.elements, saved)
  BY <1>3
<1>5. archive' # <<>>
  <2> SUFFICES ASSUME writer.elements = <<>>
               PROVE  FALSE
    BY <1>1
  <2>1. IsList(writer.shared) /\ Counts(c, 0, 0, Len(writer.shared))
    BY <1>4, EmptyIsList DEF Records
  <2>2. Len(writer.shared) = 0
    BY <2>1 DEF Counts
  <2>3. writer.shared = <<>>
    <3>1. ToSet(writer.shared) = {} /\ writer.shared \in Seq(ToSet(writer.shared))
      <4>1. \A n \in 1 .. 0 : FALSE
        OBVIOUS
      <4>2. \A x : x \notin ToSet(writer.shared)
        BY <2>1, <2>2, <4>1, ToSetOfList
      <4> QED
        BY <2>1, <4>2, ListIsSeq
    <3> QED
      BY <2>2, <3>1, EmptySeq
  <2> QED
    BY <1>1, <1>3, <2>3 DEF NoWriter
<1>6. Shared' = SharedBy(NoWriter, reader) /\ Shared' \subseteq Shared
  <2>1. ToSet(NoWriter.shared) = {}
    BY EmptyIsList, ToSetOfList DEF NoWriter
  <2> QED
    BY <1>1, <2>1 DEF Shared, SharedBy
<1>7. Living'
  <2>1. IsLiving(ids, nextId, held, kept, element, Shared)
    BY DEF Inv, Living
  <2>2. SharedBy(NoWriter, reader) \in SUBSET Shared
    BY <1>6
  <2>3. IsLiving(Sweep(held, kept, element, SharedBy(NoWriter, reader)),
                 nextId, held, kept, element, SharedBy(NoWriter, reader))
    BY <2>1, <2>2, ClosedFacts DEF Sweep
  <2> QED
    BY <1>1, <1>6, <2>3 DEF Living
<1>8. Writing'
  BY <1>5 DEF Writing
<1>9. Reading'
  <2>1. Records(writer.shared, c, B, archive', saved')
    BY <1>1, <1>4
  <2>2. /\ reader'.next = 1 /\ reader'.pointers = <<>>
        /\ reader' = [next |-> reader'.next, pointers |-> reader'.pointers]
    BY <1>1, <1>3 DEF NoReader
  <2>3. Len(archive') \in Nat /\ c[0] = 0
    BY <2>1 DEF Records, IsList, Counts
  <2>4. reader'.next \in 1 .. Len(archive') + 1 /\ reader'.next - 1 = 0
    BY <2>2, <2>3
  <2>5. HasRead(writer.shared, c[reader'.next - 1], {}, ids', reader'.pointers)
    BY <2>2, <2>3, <2>4, NothingRead
  <2>6. \E S, d, D : /\ Records(S, d, D, archive', saved')
                     /\ reader'.next \in 1 .. Len(archive') + 1
                     /\ HasRead(S, d[reader'.next - 1], {}, ids', reader'.pointers)
    BY <2>1, <2>4, <2>5
  <2> QED
    BY <1>1, <2>2, <2>6 DEF Reading, Position
<1> QED
  BY <1>7, <1>8, <1>9 DEF Inv

\* Whatever is alive, the archive can be read from its beginning.
LEMMA Rewind ==
  ASSUME Inv, archive # <<>>, UNCHANGED <<writer, archive, saved>>, reader' = NoReader
  PROVE  Writing' /\ Reading'
<1>1. writer = NoWriter /\ \E S, c, B : Position(S, c, B)
  BY DEF Inv, Reading
<1>2. PICK S, c, B : Records(S, c, B, archive, saved)
  BY <1>1 DEF Position
<1>3. Len(archive) \in Nat /\ c[0] = 0
  BY <1>2 DEF Records, IsList, Counts
<1>4. /\ reader'.next = 1 /\ reader'.pointers = <<>>
      /\ reader' = [next |-> reader'.next, pointers |-> reader'.pointers]
  BY DEF NoReader
<1>5. reader'.next \in 1 .. Len(archive) + 1 /\ reader'.next - 1 = 0
  BY <1>3, <1>4
<1>6. HasRead(S, c[reader'.next - 1], {}, ids', reader'.pointers)
  BY <1>3, <1>4, <1>5, NothingRead
<1>7. \E T, d, D : /\ Records(T, d, D, archive', saved')
                   /\ reader'.next \in 1 .. Len(archive') + 1
                   /\ HasRead(T, d[reader'.next - 1], {}, ids', reader'.pointers)
  BY <1>2, <1>5, <1>6
<1> QED
  BY <1>1, <1>4, <1>7 DEF Writing, Reading, Position

LEMMA CloseReaderInv ==
  ASSUME Inv, CloseReader
  PROVE  Inv'
<1>1. /\ reader # NoReader /\ reader' = NoReader
      /\ UNCHANGED <<nextId, held, kept, element, writer, archive, saved>>
      /\ ids' = Sweep(held, kept, element, SharedBy(writer, NoReader))
  BY DEF CloseReader
<1>2. archive # <<>>
  BY <1>1 DEF Inv, Writing
<1>3. Shared' = SharedBy(writer, NoReader) /\ Shared' \subseteq Shared
  <2>1. DOMAIN NoReader.pointers = {}
    BY EmptyIsList DEF NoReader, IsList
  <2> QED
    BY <1>1, <2>1 DEF Shared, SharedBy
<1>4. Living'
  <2>1. IsLiving(ids, nextId, held, kept, element, Shared)
    BY DEF Inv, Living
  <2>2. SharedBy(writer, NoReader) \in SUBSET Shared
    BY <1>3
  <2>3. IsLiving(Sweep(held, kept, element, SharedBy(writer, NoReader)),
                 nextId, held, kept, element, SharedBy(writer, NoReader))
    BY <2>1, <2>2, ClosedFacts DEF Sweep
  <2> QED
    BY <1>1, <1>3, <2>3 DEF Living
<1>5. Writing' /\ Reading'
  BY <1>1, <1>2, Rewind
<1> QED
  BY <1>4, <1>5 DEF Inv

LEMMA RestartInv ==
  ASSUME Inv, Restart
  PROVE  Inv'
<1>1. /\ archive # <<>> /\ ids' = <<>> /\ nextId' = 0 /\ held' = {} /\ kept' = {} /\ element' = Nothing
      /\ reader' = NoReader /\ UNCHANGED <<writer, archive, saved>>
  BY DEF Restart
<1>2. AreIds(ids', nextId') /\ DOMAIN ids' = {}
  <2>1. DOMAIN <<>> = {} /\ <<>> = [a \in DOMAIN <<>> |-> <<>>[a]]
    OBVIOUS
  <2> QED
    BY <1>1, <2>1 DEF AreIds
<1>3. Shared' = {}
  <2>1. DOMAIN <<>> = {} /\ ToSet(<<>>) = {}
    BY EmptyIsList, ToSetOfList
  <2>2. writer' = NoWriter
    BY <1>1 DEF Inv, Reading
  <2> QED
    BY <1>1, <2>1, <2>2 DEF Shared, SharedBy, NoWriter, NoReader
<1>4. Owned(held', kept', element', Shared') = {}
  BY <1>1, <1>3 DEF Owned, Factors
<1>5. Living'
  BY <1>1, <1>2, <1>4 DEF Living, IsLiving
<1>6. Writing' /\ Reading'
  BY <1>1, Rewind
<1> QED
  BY <1>5, <1>6 DEF Inv

-----------------------------------------------------------------------------
(* Loading an element. *)

\* What is known when an element is about to be read.
Start == [known |-> [ids |-> ids, next |-> nextId], pointers |-> reader.pointers, list |-> <<>>]

\* The element that is read is the one that has been saved from the module with
\* the generators b.
IsNext(S, k, l, b) ==
  /\ k \in Nat /\ l \in Nat
  /\ Entry(S, k, l, archive[reader.next], b, Original)
  /\ ReadsModule(S, l, Start, LoadModule(Start, archive[reader.next].parent), b)

LEMMA LoadFacts ==
  ASSUME Inv, Load
  PROVE  LET n == reader.next
             v == LoadModule(Start, archive[n].parent)
         IN  /\ archive # <<>> /\ element = Nothing /\ n \in 1 .. Len(archive) /\ Len(archive) \in Nat
             /\ ids' = v.known.ids /\ nextId' = v.known.next
             /\ reader' = [next |-> n + 1, pointers |-> v.pointers]
             /\ element' = [basis |-> v.list, coefficients |-> archive[n].coefficients]
             /\ kept' = kept \cup {ToSet(v.list)}
             /\ UNCHANGED <<held, writer, archive, saved>>
             /\ \E S, c, B : Position(S, c, B) /\ IsNext(S, c[n - 1], c[n], B[n])
<1> DEFINE n == reader.next
           v == LoadModule(Start, archive[n].parent)
<1>1. /\ n <= Len(archive) /\ element = Nothing
      /\ ids' = v.known.ids /\ nextId' = v.known.next
      /\ reader' = [next |-> n + 1, pointers |-> v.pointers]
      /\ element' = [basis |-> v.list, coefficients |-> archive[n].coefficients]
      /\ kept' = kept \cup {ToSet(v.list)}
      /\ UNCHANGED <<held, writer, archive, saved>>
  BY DEF Load, Start
<1> HIDE DEF v
<1>2. archive # <<>>
  <2> SUFFICES ASSUME archive = <<>>
               PROVE  FALSE
    OBVIOUS
  <2>1. n = 1
    BY DEF Inv, Writing, NoReader
  <2>2. Len(archive) = 0
    BY EmptyIsList
  <2> QED
    BY <1>1, <2>1, <2>2
<1>3. PICK S, c, B : Position(S, c, B)
  BY <1>2 DEF Inv, Reading
<1>4. /\ IsList(archive) /\ Len(archive) \in Nat /\ Counts(c, Len(archive), 0, Len(S)) /\ Len(S) \in Nat
      /\ \A m \in 1 .. Len(archive) : Entry(S, c[m - 1], c[m], archive[m], B[m], saved[m])
      /\ n \in 1 .. Len(archive) + 1 /\ HasRead(S, c[n - 1], {}, ids, reader.pointers)
  BY <1>3 DEF Position, Records, IsList
<1>5. n \in 1 .. Len(archive)
  BY <1>1, <1>4
<1>6. c[n - 1] \in Nat /\ c[n] \in Nat
  BY <1>4, <1>5, CountFacts
<1>7. Entry(S, c[n - 1], c[n], archive[n], B[n], Original)
  BY <1>4, <1>5 DEF Original
<1>8. IsReader(S, c[n - 1], {}, Start)
  <2>1. AreIds(ids, nextId) /\ IsList(<<>>)
    BY EmptyIsList DEF Inv, Living, IsLiving
  <2>2. /\ Start.known.ids = ids /\ Start.known.next = nextId /\ Start.pointers = reader.pointers /\ Start.list = <<>>
        /\ Start = [known |-> Start.known, pointers |-> Start.pointers, list |-> Start.list]
    BY DEF Start
  <2> QED
    BY <1>4, <2>1, <2>2 DEF IsReader
<1>9. ReadsModule(S, c[n], Start, v, B[n])
  <2>1. /\ IsList(B[n]) /\ (\A m \in 1 .. Len(B[n]) : MonomialOn(B[n][m], Atom))
        /\ ModuleCode(S, c[n - 1], c[n], archive[n].parent, B[n])
    BY <1>7 DEF Entry
  <2> QED
    BY <1>6, <1>8, <2>1, LoadModuleFacts DEF v
<1>10. IsNext(S, c[n - 1], c[n], B[n])
  BY <1>6, <1>7, <1>9 DEF IsNext, v
<1> QED
  BY <1>1, <1>2, <1>3, <1>4, <1>5, <1>10 DEF v

LEMMA StandsAtoms ==
  ASSUME NEW i, NEW p, NEW q, Stands(i, p, q)
  PROVE  AtomsOf(p) = AtomsOf(q) /\ AtomsOf(p) \subseteq DOMAIN i
<1>1. CASE \E f : p = Number(f) /\ q = Number(f) /\ DOMAIN f \subseteq DOMAIN i
  BY <1>1, NumberFacts
<1>2. CASE \E b, c : p = Module(b) /\ q = Module(c) /\ Ascending(i, b) /\ ToSet(b) = ToSet(c)
  BY <1>2, NumberFacts, FactorsOfAscending
<1> QED
  BY <1>1, <1>2 DEF Stands

\* What the basis that is read and the basis that had been saved have in common.
LEMMA NextFacts ==
  ASSUME NEW S, NEW k, NEW l, NEW b, IsNext(S, k, l, b)
  PROVE  LET v == LoadModule(Start, archive[reader.next].parent)
         IN  /\ AreIds(v.known.ids, v.known.next) /\ Orders(v.known.ids, DOMAIN v.known.ids)
             /\ DOMAIN v.known.ids = DOMAIN ids \cup Factors(ToSet(b))
             /\ \A a \in DOMAIN ids : v.known.ids[a] = ids[a]
             /\ Ascending(v.known.ids, v.list) /\ ToSet(v.list) = ToSet(b) /\ Len(v.list) = Len(b)
             /\ Factors(ToSet(b)) \subseteq Atom
<1> DEFINE v == LoadModule(Start, archive[reader.next].parent)
           s == Original
<1>1. Start.known.ids = ids
  BY DEF Start
<1> HIDE DEF v, s
<1>2. /\ Ascending(v.known.ids, v.list) /\ ToSet(v.list) = ToSet(b)
      /\ Grows(Start.known, v.known, Factors(ToSet(b)))
  BY DEF IsNext, ReadsModule, v
<1>3. AreIds(v.known.ids, v.known.next) /\ Orders(v.known.ids, DOMAIN v.known.ids)
  BY <1>2, IdsOrder DEF Grows
<1>4. IsList(b) /\ (\A n \in 1 .. Len(b) : MonomialOn(b[n], Atom)) /\ Orders(s.ids, DOMAIN s.ids) /\ Ascending(s.ids, b)
  BY DEF IsNext, Entry, s
<1>5. Len(v.list) = Len(b)
  <2>1. Len(v.list) = Cardinality(ToSet(v.list))
    BY <1>2, <1>3, AscendingFacts
  <2>2. Len(b) = Cardinality(ToSet(b))
    BY <1>4, AscendingFacts
  <2> QED
    BY <1>2, <2>1, <2>2
<1>6. Factors(ToSet(b)) \subseteq Atom
  BY <1>4, ToSetOfList DEF Factors, MonomialOn
<1>7. DOMAIN v.known.ids = DOMAIN ids \cup Factors(ToSet(b)) /\ \A a \in DOMAIN ids : v.known.ids[a] = ids[a]
  BY <1>1, <1>2 DEF Grows
<1> QED
  BY <1>2, <1>3, <1>5, <1>6, <1>7 DEF v

LEMMA LoadInv ==
  ASSUME Inv, Load
  PROVE  Inv'
<1> DEFINE n == reader.next
           v == LoadModule(Start, archive[n].parent)
<1>1. /\ archive # <<>> /\ element = Nothing /\ n \in 1 .. Len(archive) /\ Len(archive) \in Nat
      /\ ids' = v.known.ids /\ nextId' = v.known.next
      /\ reader' = [next |-> n + 1, pointers |-> v.pointers]
      /\ element' = [basis |-> v.list, coefficients |-> archive[n].coefficients]
      /\ kept' = kept \cup {ToSet(v.list)}
      /\ UNCHANGED <<held, writer, archive, saved>>
      /\ \E S, c, B : Position(S, c, B) /\ IsNext(S, c[n - 1], c[n], B[n])
  BY LoadFacts
<1>2. PICK S, c, B : Position(S, c, B) /\ IsNext(S, c[n - 1], c[n], B[n])
  BY <1>1
<1> DEFINE b == B[n]
           k == c[n - 1]
           l == c[n]
<1>3. IsNext(S, k, l, b)
  BY <1>2
<1>4. Records(S, c, B, archive, saved) /\ HasRead(S, k, {}, ids, reader.pointers)
  BY <1>2 DEF Position
<1> HIDE DEF b, k
<1>5. /\ AreIds(v.known.ids, v.known.next)
      /\ DOMAIN v.known.ids = DOMAIN ids \cup Factors(ToSet(b))
      /\ Ascending(v.known.ids, v.list) /\ ToSet(v.list) = ToSet(b) /\ Len(v.list) = Len(b)
      /\ Factors(ToSet(b)) \subseteq Atom
  BY <1>3, NextFacts
<1>6. /\ HasRead(S, l, {}, v.known.ids, v.pointers) /\ Len(archive[n].coefficients) = Len(b)
      /\ k \in Nat /\ l \in Nat /\ k <= l
  <2>1. k \in Nat /\ l \in Nat /\ HasRead(S, l, {}, v.known.ids, v.pointers) /\ Len(archive[n].coefficients) = Len(b)
    BY <1>3 DEF IsNext, ReadsModule, IsReader, Entry
  <2>2. k <= l
    <3>1. CASE l = k
      BY <2>1, <3>1
    <3>2. CASE \E list : NumbersCode(S, k + 1, l, list, b)
      <4>1. PICK list : NumbersCode(S, k + 1, l, list, b)
        BY <3>2
      <4>2. PICK d : Counts(d, Len(list), k + 1, l) /\ Len(list) \in Nat
        BY <4>1 DEF NumbersCode, IsList
      <4>3. k + 1 \in Nat
        BY <2>1
      <4>4. k + 1 <= l
        BY <2>1, <4>2, <4>3, CountFacts
      <4> QED
        BY <2>1, <4>4
    <3> QED
      BY <1>3, <3>1, <3>2 DEF IsNext, Entry, ModuleCode
  <2> QED
    BY <2>1, <2>2
<1> HIDE DEF v, l
<1>7. /\ DOMAIN ids \subseteq Atom /\ Owned(held, kept, element, Shared) = DOMAIN ids
  BY DEF Inv, Living, IsLiving
<1>8. writer = NoWriter /\ ToSet(NoWriter.shared) = {}
  BY <1>1, EmptyIsList, ToSetOfList DEF Inv, Reading, NoWriter
<1>9. Owned(held', kept', element', Shared') = DOMAIN ids'
  <2>1. /\ DOMAIN reader.pointers = 1 .. k /\ DOMAIN v.pointers = 1 .. l
        /\ \A m \in 1 .. k : Stands(ids, reader.pointers[m], S[m])
        /\ \A m \in 1 .. l : Stands(v.known.ids, v.pointers[m], S[m])
    BY <1>4, <1>6 DEF HasRead
  <2>2. 1 .. k \subseteq 1 .. l
    BY <1>6
  <2>3. Shared = {reader.pointers[m] : m \in 1 .. k} /\ Shared' = {v.pointers[m] : m \in 1 .. l}
    <3>1. reader'.pointers = v.pointers
      BY <1>1
    <3> QED
      BY <1>1, <1>8, <2>1, <3>1 DEF Shared, SharedBy
  <2>4. \A m \in 1 .. k : AtomsOf(v.pointers[m]) = AtomsOf(reader.pointers[m])
    BY <2>1, <2>2, StandsAtoms
  <2>5. \A m \in 1 .. l : AtomsOf(v.pointers[m]) \subseteq DOMAIN ids'
    BY <1>1, <2>1, StandsAtoms
  <2> DEFINE old == UNION {AtomsOf(p) : p \in Shared}
             new == UNION {AtomsOf(p) : p \in Shared'}
             F == Factors(ToSet(b))
             from == held \cup Factors(UNION kept)
  <2>6. old \subseteq new
    BY <2>2, <2>3, <2>4
  <2>7. new \subseteq DOMAIN ids'
    BY <2>3, <2>5
  <2>8. DOMAIN ids = from \cup old
    BY <1>1, <1>7 DEF Owned
  <2>9. Owned(held', kept', element', Shared') = from \cup F \cup new
    <3>1. Factors(UNION kept') = Factors(UNION kept) \cup F
      BY <1>1, <1>5 DEF Factors
    <3>2. Factors(ToSet(element'.basis)) = F
      BY <1>1, <1>5
    <3> HIDE DEF F
    <3> QED
      BY <1>1, <3>1, <3>2 DEF Owned
  <2>10. DOMAIN ids' = DOMAIN ids \cup F
    BY <1>1, <1>5
  <2> HIDE DEF old, new, F, from
  <2> QED
    BY <2>6, <2>7, <2>8, <2>9, <2>10
<1>10. IsElement(ids', element')
  <2>1. element'.basis = v.list /\ element'.coefficients = archive[n].coefficients
    BY <1>1
  <2> QED
    BY <1>1, <1>5, <1>6, <2>1 DEF IsElement
<1>11. Living'
  <2>1. AreIds(ids', nextId') /\ DOMAIN ids' \subseteq Atom
    BY <1>1, <1>5, <1>7
  <2> QED
    BY <1>9, <1>10, <2>1 DEF Living, IsLiving
<1>12. Writing'
  BY <1>1 DEF Writing
<1>13. Reading'
  <2>1. /\ reader'.next = n + 1 /\ reader'.pointers = v.pointers
        /\ reader' = [next |-> reader'.next, pointers |-> reader'.pointers]
    BY <1>1
  <2>2. n + 1 \in 1 .. Len(archive) + 1 /\ (n + 1) - 1 = n
    BY <1>1
  <2>3. HasRead(S, c[reader'.next - 1], {}, ids', reader'.pointers)
    BY <1>1, <1>6, <2>1, <2>2 DEF l
  <2>4. /\ Records(S, c, B, archive', saved') /\ reader'.next \in 1 .. Len(archive') + 1
        /\ HasRead(S, c[reader'.next - 1], {}, ids', reader'.pointers)
    BY <1>1, <1>4, <2>1, <2>2, <2>3
  <2>5. \E T, d, D : /\ Records(T, d, D, archive', saved')
                     /\ reader'.next \in 1 .. Len(archive') + 1
                     /\ HasRead(T, d[reader'.next - 1], {}, ids', reader'.pointers)
    BY <2>4
  <2> QED
    BY <1>1, <1>8, <2>1, <2>5 DEF Reading, Position
<1> QED
  BY <1>11, <1>12, <1>13 DEF Inv

\* If the generators have been given ids in the same order as before, the basis
\* and the element are what they had been.
LEMMA SameOrder ==
  ASSUME NEW S, NEW k, NEW l, NEW b, IsNext(S, k, l, b),
         NEW v, v = LoadModule(Start, archive[reader.next].parent),
         Alike(Original.ids, v.known.ids, DOMAIN Original.ids)
  PROVE  Polynomial([basis |-> v.list, coefficients |-> archive[reader.next].coefficients]) = Original.value
<1> DEFINE s == Original
           e == archive[reader.next]
<1>1. /\ Orders(v.known.ids, DOMAIN v.known.ids) /\ Ascending(v.known.ids, v.list) /\ ToSet(v.list) = ToSet(b)
      /\ DOMAIN v.known.ids = DOMAIN ids \cup Factors(ToSet(b))
  BY NextFacts
<1>2. /\ DOMAIN s.ids = Factors(ToSet(b)) /\ Ascending(s.ids, b)
      /\ s.value = Polynomial([basis |-> b, coefficients |-> e.coefficients])
  BY DEF IsNext, Entry
<1>3. Ascending(v.known.ids, b)
  <2>1. Factors(ToSet(b)) \subseteq DOMAIN v.known.ids
    BY <1>1
  <2>2. Alike(s.ids, v.known.ids, Factors(ToSet(b)))
    BY <1>2
  <2> HIDE DEF s
  <2> QED
    BY <1>2, <2>1, <2>2, AscendingAlike
<1>4. v.list = b
  BY <1>1, <1>3, AscendingIsUnique
<1> QED
  BY <1>2, <1>4

LEMMA LoadRestoresGenerators ==
  ASSUME Inv, Load
  PROVE  ToSet(element'.basis) = DOMAIN Original.value
<1> DEFINE n == reader.next
           v == LoadModule(Start, archive[n].parent)
<1>1. element' = [basis |-> v.list, coefficients |-> archive[n].coefficients]
      /\ \E S, c, B : Position(S, c, B) /\ IsNext(S, c[n - 1], c[n], B[n])
  BY LoadFacts
<1>2. PICK S, k, l, b : IsNext(S, k, l, b)
  BY <1>1
<1>3. ToSet(v.list) = ToSet(b)
  BY <1>2, NextFacts
<1>4. Original.value = Polynomial([basis |-> b, coefficients |-> archive[n].coefficients])
  BY <1>2 DEF IsNext, Entry
<1>5. DOMAIN Original.value = ToSet(b)
  BY <1>4 DEF Polynomial
<1> QED
  BY <1>1, <1>3, <1>5

LEMMA LoadInSameProcess ==
  ASSUME Inv, Load, DOMAIN Original.ids \subseteq DOMAIN ids, OrderedAlike(Original.ids, ids)
  PROVE  Polynomial(element') = Original.value
<1> DEFINE n == reader.next
           v == LoadModule(Start, archive[n].parent)
           i == v.known.ids
           j == Original.ids
<1>1. element' = [basis |-> v.list, coefficients |-> archive[n].coefficients]
      /\ \E S, c, B : Position(S, c, B) /\ IsNext(S, c[n - 1], c[n], B[n])
  BY LoadFacts
<1>2. PICK S, k, l, b : IsNext(S, k, l, b)
  BY <1>1
<1>3. \A a \in DOMAIN ids : i[a] = ids[a]
  BY <1>2, NextFacts
<1>4. Alike(j, i, DOMAIN j)
  BY <1>3 DEF Alike, OrderedAlike
<1> QED
  BY <1>1, <1>2, <1>4, SameOrder

LEMMA LoadInNewProcess ==
  ASSUME Inv, Load, DOMAIN Original.ids \cap DOMAIN ids = {}, \A f \in DOMAIN Original.value : IsLinear(f)
  PROVE  Polynomial(element') = Original.value
<1> DEFINE n == reader.next
           v == LoadModule(Start, archive[n].parent)
           i == v.known.ids
           j == Original.ids
<1>1. element' = [basis |-> v.list, coefficients |-> archive[n].coefficients]
      /\ \E S, c, B : Position(S, c, B) /\ IsNext(S, c[n - 1], c[n], B[n])
  BY LoadFacts
<1>2. PICK S, k, l, b : IsNext(S, k, l, b)
  BY <1>1
<1>3. /\ IsList(b) /\ Len(b) \in Nat /\ (\A m \in 1 .. Len(b) : MonomialOn(b[m], Atom))
      /\ Orders(j, DOMAIN j) /\ DOMAIN j = Factors(ToSet(b)) /\ Ascending(j, b)
      /\ Original.value = Polynomial([basis |-> b, coefficients |-> archive[n].coefficients])
  BY <1>2 DEF IsNext, Entry, IsList
<1>4. DOMAIN Original.value = ToSet(b)
  BY <1>3 DEF Polynomial
<1>5. AreNew(Start.known, b) => InOrder(v.known, b)
  BY <1>2 DEF IsNext, ReadsModule
<1>6. Start.known.ids = ids
  BY DEF Start
<1> HIDE DEF v
<1>7. \A m \in 1 .. Len(b) : \E a : b[m] = Linear(a)
  <2> SUFFICES ASSUME NEW m \in 1 .. Len(b)
               PROVE  \E a : b[m] = Linear(a)
    OBVIOUS
  <2>1. b[m] \in ToSet(b)
    BY <1>3, ToSetOfList
  <2>2. IsLinear(b[m]) /\ MonomialOn(b[m], Atom)
    BY <1>3, <1>4, <2>1
  <2> QED
    BY <2>2, LinearsAreAtoms
<1>8. ASSUME NEW m \in 1 .. Len(b), NEW a, b[m] = Linear(a)
      PROVE  a \in DOMAIN j /\ j[a] \in Nat
  <2>1. b[m] \in ToSet(b) /\ a \in DOMAIN b[m]
    BY <1>3, <1>8, ToSetOfList, LinearFacts
  <2>2. a \in DOMAIN j
    BY <1>3, <2>1 DEF Factors
  <2> QED
    BY <1>3, <2>2 DEF Orders
<1>9. AreNew(Start.known, b)
  <2>1. \A m \in 1 .. Len(b) : \E a : b[m] = Linear(a) /\ a \notin DOMAIN ids
    BY <1>7, <1>8
  <2>2. \A m, o \in 1 .. Len(b) : b[m] = b[o] => m = o
    BY <1>3, AscendingFacts
  <2> QED
    BY <1>6, <2>1, <2>2 DEF AreNew
<1>10. \A m, o \in 1 .. Len(b) : \A x, y : m < o /\ b[m] = Linear(x) /\ b[o] = Linear(y) => i[x] < i[y]
  BY <1>5, <1>9 DEF InOrder
<1>11. \A m, o \in 1 .. Len(b) : \A x, y : m < o /\ b[m] = Linear(x) /\ b[o] = Linear(y) => j[x] < j[y]
  <2> SUFFICES ASSUME NEW m \in 1 .. Len(b), NEW o \in 1 .. Len(b), NEW x, NEW y,
                      m < o, b[m] = Linear(x), b[o] = Linear(y)
               PROVE  j[x] < j[y]
    OBVIOUS
  <2>1. Deglex(j, Linear(x), Linear(y))
    BY <1>3 DEF Ascending
  <2>2. x \in DOMAIN j /\ y \in DOMAIN j /\ j[x] \in Nat /\ j[y] \in Nat
    BY <1>8
  <2>3. j[x] = j[y] => x = y
    BY <1>3, <2>2 DEF Orders
  <2> HIDE DEF j
  <2> QED
    BY <2>1, <2>2, <2>3, LinearsAreOrdered
<1>12. \A x \in DOMAIN j : \E m \in 1 .. Len(b) : b[m] = Linear(x)
  <2> SUFFICES ASSUME NEW x \in DOMAIN j
               PROVE  \E m \in 1 .. Len(b) : b[m] = Linear(x)
    OBVIOUS
  <2>1. PICK m \in 1 .. Len(b) : x \in DOMAIN b[m]
    BY <1>3, ToSetOfList DEF Factors
  <2>2. PICK a : b[m] = Linear(a)
    BY <1>7
  <2>3. a = x
    BY <2>1, <2>2, LinearFacts
  <2> QED
    BY <2>2, <2>3
<1>13. \A x \in DOMAIN j : i[x] \in Nat /\ j[x] \in Nat
  <2>1. Orders(i, DOMAIN i) /\ DOMAIN i = DOMAIN ids \cup Factors(ToSet(b))
    BY <1>2, NextFacts DEF v
  <2> QED
    BY <1>3, <2>1 DEF Orders
<1> HIDE DEF i, j
<1>14. ASSUME NEW x \in DOMAIN j, NEW y \in DOMAIN j
       PROVE  j[x] < j[y] <=> i[x] < i[y]
  <2>1. PICK m \in 1 .. Len(b) : b[m] = Linear(x)
    BY <1>12
  <2>2. PICK o \in 1 .. Len(b) : b[o] = Linear(y)
    BY <1>12
  <2>3. i[x] \in Nat /\ i[y] \in Nat /\ j[x] \in Nat /\ j[y] \in Nat
    BY <1>13
  <2>4. CASE m < o
    BY <1>10, <1>11, <2>1, <2>2, <2>4
  <2>5. CASE o < m
    <3>1. i[y] < i[x] /\ j[y] < j[x]
      BY <1>10, <1>11, <2>1, <2>2, <2>5
    <3> QED
      BY <2>3, <3>1
  <2>6. CASE m = o
    <3>1. x = y
      BY <2>1, <2>2, <2>6, LinearFacts
    <3> QED
      BY <2>3, <3>1
  <2> QED
    BY <1>3, <2>4, <2>5, <2>6
<1>15. Alike(j, i, DOMAIN j)
  BY <1>14 DEF Alike
<1> QED
  BY <1>1, <1>2, <1>15, SameOrder DEF i, j, v

-----------------------------------------------------------------------------
LEMMA NextInv ==
  ASSUME Inv, [Next]_vars
  PROVE  Inv'
<1>1. ASSUME NEW a \in Atom, Random(a) \/ Release(a)
      PROVE  Inv'
  BY <1>1, RandomInv, ReleaseInv
<1>2. ASSUME NEW gens \in Basis, MakeElement(gens) \/ Expel(gens)
      PROVE  Inv'
  BY <1>2, MakeElementInv, ExpelInv
<1>3. CASE ReleaseElement
  BY <1>3, ReleaseElementInv
<1>4. CASE Save
  BY <1>4, SaveInv
<1>5. CASE Close
  BY <1>5, CloseInv
<1>6. CASE Load
  BY <1>6, LoadInv
<1>7. CASE CloseReader
  BY <1>7, CloseReaderInv
<1>8. CASE Restart
  BY <1>8, RestartInv
<1>9. CASE UNCHANGED vars
  BY <1>9 DEF vars, Inv, Living, Writing, Reading, Position, Shared
<1> QED
  BY <1>1, <1>2, <1>3, <1>4, <1>5, <1>6, <1>7, <1>8, <1>9 DEF Next

LEMMA Invariance == Spec => []Inv
<1>1. Init => Inv
  BY InitInv
<1>2. Inv /\ [Next]_vars => Inv'
  BY NextInv
<1> QED
  BY <1>1, <1>2, PTL DEF Spec

\* Real numbers that are alive have ids of their own, and they are the ones that
\* something points to; the generators of an element are in increasing order
\* (Module::make), with one coefficient for each.
THEOREM ElementsAreSorted == Spec => []TypeOK
<1>1. Inv => TypeOK
  <2> SUFFICES ASSUME Inv
               PROVE  TypeOK
    OBVIOUS
  <2>1. /\ AreIds(ids, nextId) /\ Owned(held, kept, element, Shared) = DOMAIN ids
        /\ element # Nothing => IsElement(ids, element)
    BY DEF Inv, Living, IsLiving
  <2>2. IsInjective(ids) /\ \A a \in DOMAIN ids : ids[a] < nextId
    BY <2>1 DEF AreIds, IsInjective
  <2>3. ASSUME element # Nothing
        PROVE  /\ Len(element.coefficients) = Len(element.basis)
               /\ \A m, n \in DOMAIN element.basis : m < n => Deglex(ids, element.basis[m], element.basis[n])
    BY <2>1, <2>3 DEF IsElement, Ascending, IsList
  <2> QED
    BY <2>1, <2>2, <2>3 DEF TypeOK
<1> QED
  BY <1>1, Invariance, PTL

\* Whatever archives share, a reference in an archive is resolved to what it had
\* been written for: elements come back to the modules they are from.
THEOREM ModulesComeBack == Spec => GeneratorsRestored
<1>1. Inv /\ [Next]_vars => [Load => ToSet(element'.basis) = DOMAIN Original.value]_vars
  BY LoadRestoresGenerators
<1> QED
  BY <1>1, Invariance, PTL DEF Spec, GeneratorsRestored

\* Elements come back as they were when their generators are alive with ids in
\* the order that they had when the element was saved.
THEOREM ElementsComeBack == Spec => RestoredInSameProcess
<1>1. Inv /\ [Next]_vars =>
        [Load /\ DOMAIN Original.ids \subseteq DOMAIN ids /\ OrderedAlike(Original.ids, ids)
           => Polynomial(element') = Original.value]_vars
  BY LoadInSameProcess
<1> QED
  BY <1>1, Invariance, PTL DEF Spec, RestoredInSameProcess

\* Elements of modules whose generators are no products come back as they were
\* when none of the generators is alive.
THEOREM ElementsComeBackElsewhere == Spec => RestoredInNewProcess
<1>1. Inv /\ [Next]_vars =>
        [Load /\ DOMAIN Original.ids \cap DOMAIN ids = {} /\ (\A f \in DOMAIN Original.value : IsLinear(f))
           => Polynomial(element') = Original.value]_vars
  BY LoadInNewProcess
<1> QED
  BY <1>1, Invariance, PTL DEF Spec, RestoredInNewProcess
=============================================================================
