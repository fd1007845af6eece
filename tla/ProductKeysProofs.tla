------------------------- MODULE ProductKeysProofs -------------------------
(***************************************************************************)
(* The loops over factors are right for lists of any length, with any ids  *)
(* and exponents: merging gives the product, a key is recognized if and    *)
(* only if it is the product of its two operands, division finds the       *)
(* quotient if and only if there is one.                                   *)
(***************************************************************************)
EXTENDS ProductKeys, SequenceTheorems, FiniteSetTheorems, TLAPS

-----------------------------------------------------------------------------
(* Functions on the natural numbers whose values follow each other. *)

Iterating == INSTANCE RecursiveFunctions WITH
  Argument <- LAMBDA p : Nat,
  Measure <- LAMBDA p, n : n,
  Value <- LAMBDA p, g, n : IF n = 0 THEN p[1] ELSE p[2][<<n - 1, g[n - 1]>>]

\* h gives the next value in T from a number and the value there; g is the
\* function whose values start with c and follow each other by h.
IsStep(h, T) == h \in [Nat \X T -> T]

Follows(g, T, c, h) ==
  /\ g \in [Nat -> T]
  /\ g[0] = c
  /\ \A n \in Nat : g[n + 1] = h[<<n, g[n]>>]

LEMMA Recursion ==
  ASSUME NEW T, NEW c, NEW h, c \in T, IsStep(h, T)
  PROVE  \E g : Follows(g, T, c, h)
<1> DEFINE p == <<c, h>>
<1>1. p[1] = c /\ p[2] = h
  OBVIOUS
<1> HIDE DEF p
<1>2. ASSUME NEW n \in Nat, NEW f, NEW g, \A m \in Nat : m < n => f[m] = g[m]
      PROVE  (IF n = 0 THEN p[1] ELSE p[2][<<n - 1, f[n - 1]>>]) = (IF n = 0 THEN p[1] ELSE p[2][<<n - 1, g[n - 1]>>])
  <2>1. n # 0 => n - 1 \in Nat /\ n - 1 < n
    OBVIOUS
  <2>2. n # 0 => f[n - 1] = g[n - 1]
    BY <1>2, <2>1
  <2> QED
    BY <2>2
<1>3. Iterating!Congruent(p)
  BY <1>2 DEF Iterating!Congruent
<1>4. PICK g : g = [n \in Nat |-> IF n = 0 THEN p[1] ELSE p[2][<<n - 1, g[n - 1]>>]]
  BY <1>3, Iterating!Exists
<1>5. g[0] = c
  BY <1>1, <1>4
<1>6. ASSUME NEW n \in Nat
      PROVE  g[n + 1] = h[<<n, g[n]>>]
  <2>1. n + 1 \in Nat /\ n + 1 # 0 /\ (n + 1) - 1 = n
    OBVIOUS
  <2>2. g[n + 1] = p[2][<<(n + 1) - 1, g[(n + 1) - 1]>>]
    BY <1>4, <2>1
  <2> QED
    BY <1>1, <2>1, <2>2
<1>7. \A n \in Nat : g[n] \in T
  <2> DEFINE S == {n \in Nat : g[n] \in T}
  <2>1. 0 \in S
    BY <1>5
  <2>2. ASSUME NEW n \in Nat, n \in S
        PROVE  n + 1 \in S
    <3>1. <<n, g[n]>> \in Nat \X T
      BY <2>2
    <3>2. h[<<n, g[n]>>] \in T
      BY <3>1 DEF IsStep
    <3> QED
      BY <1>6, <3>2
  <2> HIDE DEF S
  <2>3. \A n \in Nat : n \in S
    BY <2>1, <2>2, Iterating!Induct
  <2> QED
    BY <2>3 DEF S
<1>8. g \in [Nat -> T]
  BY <1>4, <1>7
<1> QED
  BY <1>5, <1>6, <1>8 DEF Follows

-----------------------------------------------------------------------------
(* Sums of the values of a function from Nat to Nat. *)

IsSum(w, g) ==
  /\ g \in [Nat -> Nat]
  /\ g[0] = 0
  /\ \A n \in Nat : g[n + 1] = g[n] + w[n]

\* Sum(w)[n] is the sum of the values at 0 .. n - 1.
Sum(w) == CHOOSE g : IsSum(w, g)

LEMMA SumExists ==
  ASSUME NEW w, w \in [Nat -> Nat]
  PROVE  IsSum(w, Sum(w))
<1> DEFINE h == [x \in Nat \X Nat |-> x[2] + w[x[1]]]
<1>1. IsStep(h, Nat)
  <2> SUFFICES ASSUME NEW x \in Nat \X Nat
               PROVE  x[2] + w[x[1]] \in Nat
    BY DEF IsStep
  <2>1. x[1] \in Nat /\ x[2] \in Nat
    OBVIOUS
  <2>2. w[x[1]] \in Nat
    BY <2>1
  <2> QED
    BY <2>1, <2>2
<1>2. \A n, v \in Nat : h[<<n, v>>] = v + w[n]
  OBVIOUS
<1> HIDE DEF h
<1>3. PICK g : Follows(g, Nat, 0, h)
  BY <1>1, Recursion
<1>4. IsSum(w, g)
  BY <1>2, <1>3 DEF IsSum, Follows
<1> QED
  BY <1>4 DEF Sum

\* Below b, w is the sum of u and v.
Adds(u, v, w, b) ==
  /\ u \in [Nat -> Nat] /\ v \in [Nat -> Nat] /\ w \in [Nat -> Nat] /\ b \in Nat
  /\ \A n \in Nat : n < b => w[n] = u[n] + v[n]

LEMMA SumAdds ==
  ASSUME NEW u, NEW v, NEW w, NEW b, Adds(u, v, w, b)
  PROVE  Sum(w)[b] = Sum(u)[b] + Sum(v)[b]
<1> DEFINE S == {n \in Nat : n <= b => Sum(w)[n] = Sum(u)[n] + Sum(v)[n]}
<1>0. /\ u \in [Nat -> Nat] /\ v \in [Nat -> Nat] /\ w \in [Nat -> Nat] /\ b \in Nat
      /\ \A n \in Nat : n < b => w[n] = u[n] + v[n]
  BY DEF Adds
<1>1. IsSum(u, Sum(u)) /\ IsSum(v, Sum(v)) /\ IsSum(w, Sum(w))
  BY <1>0, SumExists
<1>2. 0 \in S
  BY <1>0, <1>1 DEF IsSum
<1>3. ASSUME NEW n \in Nat, n \in S
      PROVE  n + 1 \in S
  <2> SUFFICES ASSUME n + 1 <= b
               PROVE  Sum(w)[n + 1] = Sum(u)[n + 1] + Sum(v)[n + 1]
    OBVIOUS
  <2>1. Sum(w)[n] = Sum(u)[n] + Sum(v)[n] /\ w[n] = u[n] + v[n]
    BY <1>0, <1>3
  <2>2. Sum(u)[n] \in Nat /\ Sum(v)[n] \in Nat /\ u[n] \in Nat /\ v[n] \in Nat
    BY <1>0, <1>1 DEF IsSum
  <2>3. /\ Sum(w)[n + 1] = Sum(w)[n] + w[n]
        /\ Sum(u)[n + 1] = Sum(u)[n] + u[n]
        /\ Sum(v)[n + 1] = Sum(v)[n] + v[n]
    BY <1>1 DEF IsSum
  <2> QED
    BY <2>1, <2>2, <2>3
<1> HIDE DEF S
<1>4. \A n \in Nat : n \in S
  BY <1>2, <1>3, Iterating!Induct
<1> QED
  BY <1>0, <1>4 DEF S

\* The sum of the function that has its only value at x.
LEMMA SumOfOne ==
  ASSUME NEW u, u \in [Nat -> Nat], NEW x \in Nat, \A n \in Nat : n # x => u[n] = 0
  PROVE  \A n \in Nat : (n <= x => Sum(u)[n] = 0) /\ (n > x => Sum(u)[n] = u[x])
<1> DEFINE S == {n \in Nat : (n <= x => Sum(u)[n] = 0) /\ (n > x => Sum(u)[n] = u[x])}
<1>1. IsSum(u, Sum(u))
  BY SumExists
<1>2. 0 \in S
  BY <1>1 DEF IsSum
<1>3. ASSUME NEW n \in Nat, n \in S
      PROVE  n + 1 \in S
  <2>1. Sum(u)[n + 1] = Sum(u)[n] + u[n] /\ u[x] \in Nat /\ u[n] \in Nat
    BY <1>1 DEF IsSum
  <2>2. (n <= x => Sum(u)[n] = 0) /\ (n > x => Sum(u)[n] = u[x])
    BY <1>3
  <2>3. CASE n = x
    BY <2>1, <2>2, <2>3
  <2>4. CASE n # x
    BY <2>1, <2>2, <2>4
  <2> QED
    BY <2>3, <2>4
<1> HIDE DEF S
<1>4. \A n \in Nat : n \in S
  BY <1>2, <1>3, Iterating!Induct
<1> QED
  BY <1>4 DEF S

LEMMA SumOfNone ==
  ASSUME NEW u, u \in [Nat -> Nat], NEW b \in Nat, \A n \in Nat : n < b => u[n] = 0
  PROVE  Sum(u)[b] = 0
<1>1. IsSum(u, Sum(u))
  BY SumExists
<1>2. Sum(u)[b] = Sum(u)[b] + Sum(u)[b]
  <2>1. Adds(u, u, u, b)
    BY DEF Adds
  <2> QED
    BY <2>1, SumAdds
<1> DEFINE s == Sum(u)[b]
<1>3. s \in Nat
  BY <1>1 DEF IsSum
<1>4. s = s + s
  BY <1>2
<1> HIDE DEF s
<1>5. s = 0
  BY <1>3, <1>4
<1> QED
  BY <1>5 DEF s

-----------------------------------------------------------------------------
(* Factors. *)

Factor == [id : Id, exp : Nat \ {0}]
IsList(l) == l \in Seq(Factor) /\ Sorted(l)

Ids(l) == {l[n].id : n \in DOMAIN l}

\* The exponent of an id in a list.
Exp(l, m) == Exponent(Monomial(l), m)

-----------------------------------------------------------------------------
(* Lists of factors and monomials. *)

LEMMA ListFacts ==
  ASSUME NEW l, IsList(l)
  PROVE  /\ Len(l) \in Nat
         /\ DOMAIN l = 1 .. Len(l)
         /\ \A n \in DOMAIN l : l[n] \in Factor /\ l[n].id \in Nat /\ l[n].exp \in Nat /\ l[n].exp > 0
         /\ \A n, m \in DOMAIN l : n < m => l[n].id < l[m].id
<1>1. l \in Seq(Factor) /\ Len(l) \in Nat /\ DOMAIN l = 1 .. Len(l)
  BY LenProperties DEF IsList
<1>2. \A n \in DOMAIN l : l[n] \in Factor
  BY <1>1, ElementOfSeq
<1>3. \A n, m \in DOMAIN l : n < m => l[n].id < l[m].id
  BY DEF IsList, Sorted
<1>4. \A f \in Factor : f.id \in Nat /\ f.exp \in Nat /\ f.exp > 0
  <2> SUFFICES ASSUME NEW f \in Factor
               PROVE  f.id \in Nat /\ f.exp \in Nat /\ f.exp > 0
    OBVIOUS
  <2>1. f.id \in Id /\ f.exp \in Nat /\ f.exp # 0
    BY DEF Factor
  <2>2. f.id \in Nat
    BY <2>1, KeyAssumption
  <2> QED
    BY <2>1, <2>2
<1>5. \A n \in DOMAIN l : l[n].id \in Nat /\ l[n].exp \in Nat /\ l[n].exp > 0
  BY <1>2, <1>4
<1> QED
  BY <1>1, <1>2, <1>3, <1>5

LEMMA Distinct ==
  ASSUME NEW l, IsList(l), NEW n \in DOMAIN l, NEW m \in DOMAIN l, l[n].id = l[m].id
  PROVE  n = m
<1>1. n \in Int /\ m \in Int /\ l[n].id \in Int /\ l[m].id \in Int
  BY ListFacts
<1>2. ~ n < m /\ ~ m < n
  BY <1>1, ListFacts
<1> QED
  BY <1>1, <1>2

LEMMA MonomialOf ==
  ASSUME NEW l, IsList(l)
  PROVE  /\ DOMAIN Monomial(l) = Ids(l)
         /\ \A n \in DOMAIN l : Monomial(l)[l[n].id] = l[n].exp
         /\ \A n \in DOMAIN l : Exp(l, l[n].id) = l[n].exp
         /\ \A m : m \notin Ids(l) => Exp(l, m) = 0
         /\ \A m \in Ids(l) : Exp(l, m) \in Nat /\ Exp(l, m) > 0 /\ Exp(l, m) = Monomial(l)[m]
         /\ \A m : Exp(l, m) \in Nat
<1>1. DOMAIN Monomial(l) = Ids(l)
  BY DEF Monomial, Ids
<1>2. ASSUME NEW n \in DOMAIN l
      PROVE  Monomial(l)[l[n].id] = l[n].exp
  <2> DEFINE c == CHOOSE m \in DOMAIN l : l[m].id = l[n].id
  <2>1. c \in DOMAIN l /\ l[c].id = l[n].id
    OBVIOUS
  <2>2. c = n
    BY <2>1, Distinct
  <2>3. Monomial(l)[l[n].id] = l[c].exp
    BY DEF Monomial
  <2> QED
    BY <2>2, <2>3
<1>3. \A n \in DOMAIN l : Exp(l, l[n].id) = l[n].exp
  BY <1>1, <1>2 DEF Exp, Exponent, Ids
<1>4. \A m : m \notin Ids(l) => Exp(l, m) = 0
  BY <1>1 DEF Exp, Exponent
<1>5. \A m \in Ids(l) : Exp(l, m) \in Nat /\ Exp(l, m) > 0 /\ Exp(l, m) = Monomial(l)[m]
  BY <1>1, <1>2, <1>3, ListFacts DEF Ids
<1> QED
  BY <1>1, <1>2, <1>3, <1>4, <1>5

\* Two lists stand for the same monomial if all exponents agree.
LEMMA TimesOf ==
  ASSUME NEW l, NEW r, NEW p, IsList(l), IsList(r), IsList(p)
  PROVE  Monomial(p) = Times(Monomial(l), Monomial(r))
         <=> /\ Ids(p) = Ids(l) \cup Ids(r)
             /\ \A m \in Ids(p) : Exp(p, m) = Exp(l, m) + Exp(r, m)
<1> DEFINE t == Times(Monomial(l), Monomial(r))
<1>1. DOMAIN t = Ids(l) \cup Ids(r)
  BY MonomialOf DEF Times
<1>2. \A m \in Ids(l) \cup Ids(r) : t[m] = Exp(l, m) + Exp(r, m)
  BY MonomialOf DEF Times, Exp
<1>3. DOMAIN Monomial(p) = Ids(p) /\ \A m \in Ids(p) : Monomial(p)[m] = Exp(p, m)
  BY MonomialOf
<1>4. Monomial(p) = [m \in DOMAIN Monomial(p) |-> Monomial(p)[m]]
  BY DEF Monomial
<1>5. t = [m \in DOMAIN t |-> t[m]]
  BY DEF Times
<1> HIDE DEF t
<1>6. Monomial(p) = t => Ids(p) = Ids(l) \cup Ids(r) /\ \A m \in Ids(p) : Exp(p, m) = Exp(l, m) + Exp(r, m)
  BY <1>1, <1>2, <1>3
<1>7. ASSUME Ids(p) = Ids(l) \cup Ids(r), \A m \in Ids(p) : Exp(p, m) = Exp(l, m) + Exp(r, m)
      PROVE  Monomial(p) = t
  BY <1>1, <1>2, <1>3, <1>4, <1>5, <1>7
<1> QED
  BY <1>6, <1>7 DEF t

LEMMA DividesOf ==
  ASSUME NEW l, NEW r, IsList(l), IsList(r)
  PROVE  Divides(Monomial(r), Monomial(l)) <=> \A m \in Ids(r) : Exp(r, m) <= Exp(l, m)
BY MonomialOf DEF Divides, Exp

LEMMA QuotientOf ==
  ASSUME NEW l, NEW r, NEW q, IsList(l), IsList(r), IsList(q),
         Ids(q) = {m \in Ids(l) : Exp(l, m) > Exp(r, m)},
         \A m \in Ids(q) : Exp(q, m) = Exp(l, m) - Exp(r, m)
  PROVE  Monomial(q) = Quotient(Monomial(l), Monomial(r))
<1> DEFINE t == Quotient(Monomial(l), Monomial(r))
<1>1. DOMAIN t = {m \in Ids(l) : Exp(l, m) > Exp(r, m)}
  BY MonomialOf DEF Quotient, Exp, Exponent
<1>2. \A m \in DOMAIN t : t[m] = Exp(l, m) - Exp(r, m)
  BY MonomialOf DEF Quotient, Exp, Exponent
<1>3. DOMAIN Monomial(q) = Ids(q) /\ \A m \in Ids(q) : Monomial(q)[m] = Exp(q, m)
  BY MonomialOf
<1>4. Monomial(q) = [m \in DOMAIN Monomial(q) |-> Monomial(q)[m]]
  BY DEF Monomial
<1>5. t = [m \in DOMAIN t |-> t[m]]
  BY DEF Quotient
<1> HIDE DEF t
<1>6. Monomial(q) = t
  BY <1>1, <1>2, <1>3, <1>4, <1>5
<1> QED
  BY <1>6 DEF t

\* The factors that a loop appends keep the list sorted.
LEMMA Appended ==
  ASSUME NEW l, IsList(l), NEW f \in Factor, \A n \in DOMAIN l : l[n].id < f.id
  PROVE  /\ IsList(Append(l, f))
         /\ Len(Append(l, f)) = Len(l) + 1
         /\ DOMAIN Append(l, f) = 1 .. Len(l) + 1
         /\ \A n \in DOMAIN l : Append(l, f)[n] = l[n]
         /\ Append(l, f)[Len(l) + 1] = f
         /\ Ids(Append(l, f)) = Ids(l) \cup {f.id}
<1> DEFINE a == Append(l, f)
<1>1. l \in Seq(Factor) /\ Len(l) \in Nat /\ DOMAIN l = 1 .. Len(l)
  BY ListFacts DEF IsList
<1>2. /\ a \in Seq(Factor) /\ Len(a) = Len(l) + 1
      /\ \A n \in 1 .. Len(l) : a[n] = l[n]
      /\ a[Len(l) + 1] = f
  BY <1>1, AppendProperties
<1>3. DOMAIN a = 1 .. Len(l) + 1
  BY <1>1, <1>2
<1> HIDE DEF a
<1>4. Sorted(a)
  <2>1. \A n, p \in DOMAIN l : n < p => l[n].id < l[p].id
    BY ListFacts
  <2>2. \A n \in DOMAIN a : n \in DOMAIN l \/ n = Len(l) + 1
    BY <1>1, <1>3
  <2> QED
    BY <1>1, <1>2, <1>3, <2>1, <2>2 DEF Sorted
<1>5. Ids(a) = Ids(l) \cup {f.id}
  <2>1. DOMAIN a = DOMAIN l \cup {Len(l) + 1}
    BY <1>1, <1>3
  <2> QED
    BY <2>1, <1>1, <1>2 DEF Ids
<1>6. IsList(a)
  BY <1>2, <1>4 DEF IsList
<1> QED
  BY <1>1, <1>2, <1>3, <1>5, <1>6 DEF a

\* Operands have factors, and these are sorted.
LEMMA FactorLists ==
  ASSUME NEW max \in Nat, NEW l \in Factors(max)
  PROVE  IsList(l)
<1>1. PICK n \in 0 .. Cardinality(Id) : l \in [1 .. n -> [id : Id, exp : 1 .. max]]
  BY DEF Factors
<1>2. n \in Nat
  BY <1>1
<1>3. \A e \in [id : Id, exp : 1 .. max] : e \in Factor
  BY DEF Factor
<1>4. l \in [1 .. n -> Factor]
  BY <1>1, <1>3
<1>5. l \in Seq(Factor)
  BY <1>2, <1>4, SeqDef
<1> QED
  BY <1>5 DEF Factors, IsList

LEMMA OperandLists ==
  ASSUME NEW x \in Operands
  PROVE  IsList(OperandFactors(x)) /\ OperandFactors(x) # <<>>
<1>1. CASE x \in {Atom(id) : id \in Id}
  <2>1. PICK id \in Id : x = Atom(id)
    BY <1>1
  <2>2. x.kind # "product" /\ x.id = id
    BY <2>1 DEF Atom
  <2> DEFINE l == <<[id |-> id, exp |-> 1]>>
  <2>3. OperandFactors(x) = l
    BY <2>2 DEF OperandFactors
  <2>4. l \in Seq(Factor) /\ Len(l) = 1 /\ DOMAIN l = 1 .. 1
    BY DEF Factor
  <2>5. Sorted(l)
    BY <2>4 DEF Sorted
  <2> QED
    BY <2>3, <2>4, <2>5 DEF IsList
<1>2. CASE x \in {Product(list) : list \in Products(MaxExponent)}
  <2>1. PICK l \in Products(MaxExponent) : x = Product(l)
    BY <1>2
  <2>2. OperandFactors(x) = l
    BY <2>1 DEF OperandFactors, Product
  <2>3. l \in Factors(MaxExponent) /\ l # <<>>
    BY <2>1 DEF Products, IsProduct, IsOne
  <2> QED
    BY <2>2, <2>3, FactorLists, KeyAssumption DEF KeyAssumption
<1> QED
  BY <1>1, <1>2 DEF Operands

-----------------------------------------------------------------------------
(* The inductive invariant. *)

Types ==
  /\ call \in {"none", "persist", "equal", "divide", "deglex"}
  /\ IsList(lhs) /\ IsList(rhs) /\ IsList(cached) /\ IsList(out)
  /\ i \in 1 .. Len(lhs) + 1
  /\ j \in 1 .. Len(rhs) + 1
  /\ k \in 1 .. Len(IF call = "divide" THEN lhs ELSE cached) + 1
  /\ quotient \in Seq(Nat)
  /\ Len(result) <= 1

\* Between two calls.
AtRest == call = "none" => i = 1 /\ j = 1 /\ k = 1 /\ out = <<>> /\ result = <<>>

\* persist: what has been merged is smaller than what is still to be merged.
PersistInv ==
  Running("persist") =>
    /\ lhs # <<>> /\ rhs # <<>>
    /\ \A n \in DOMAIN out :
         /\ out[n].id \in Ids(lhs) \cup Ids(rhs)
         /\ out[n].exp = Exp(lhs, out[n].id) + Exp(rhs, out[n].id)
         /\ i <= Len(lhs) => out[n].id < lhs[i].id
         /\ j <= Len(rhs) => out[n].id < rhs[j].id
    /\ \A p \in DOMAIN lhs : p < i => lhs[p].id \in Ids(out)
    /\ \A q \in DOMAIN rhs : q < j => rhs[q].id \in Ids(out)

\* Key==: the part of the key that has been looked at is the product of the
\* parts of the operands that have been looked at, the rest of which is larger.
EqualInv ==
  Running("equal") =>
    /\ \A n \in DOMAIN cached : n < k =>
         /\ cached[n].id \in Ids(lhs) \cup Ids(rhs)
         /\ cached[n].exp = Exp(lhs, cached[n].id) + Exp(rhs, cached[n].id)
         /\ i <= Len(lhs) => cached[n].id < lhs[i].id
         /\ j <= Len(rhs) => cached[n].id < rhs[j].id
    /\ \A p \in DOMAIN lhs : p < i => \E n \in DOMAIN cached : n < k /\ lhs[p].id = cached[n].id
    /\ \A q \in DOMAIN rhs : q < j => \E n \in DOMAIN cached : n < k /\ rhs[q].id = cached[n].id

\* operator/: the factors of rhs that have been found are the ones that have been
\* subtracted; the others are not in the part of lhs that has been searched.
Subtracted(id) == \E q \in DOMAIN rhs : q < j /\ rhs[q].id = id

DivideInv ==
  Running("divide") =>
    /\ Len(quotient) = Len(lhs)
    /\ \A p \in DOMAIN lhs :
         /\ Subtracted(lhs[p].id) => quotient[p] = lhs[p].exp - Exp(rhs, lhs[p].id)
         /\ ~Subtracted(lhs[p].id) => quotient[p] = lhs[p].exp
         /\ p >= i /\ j <= Len(rhs) => ~Subtracted(lhs[p].id)
    /\ \A q \in DOMAIN rhs : q < j => rhs[q].id \in Ids(lhs) /\ rhs[q].exp <= Exp(lhs, rhs[q].id)
    /\ \A p \in DOMAIN lhs, q \in DOMAIN rhs : p < i /\ q >= j => lhs[p].id # rhs[q].id
    /\ k > 1 => j > Len(rhs)
    /\ \A n \in DOMAIN out : \E p \in DOMAIN lhs :
         p < k /\ quotient[p] # 0 /\ out[n].id = lhs[p].id /\ out[n].exp = quotient[p]
    /\ \A p \in DOMAIN lhs : p < k /\ quotient[p] # 0 => lhs[p].id \in Ids(out)

\* The properties alone are not inductive: they say nothing about a loop that
\* is running.
IInv ==
  /\ Types /\ AtRest
  /\ PersistInv /\ EqualInv /\ DivideInv
  /\ Merges /\ Recognizes /\ DivideIsQuotient

\* While one function runs, nothing is claimed about the others.
LEMMA OnlyPersist ==
  ASSUME call' = "persist"
  PROVE  AtRest' /\ EqualInv' /\ DivideInv' /\ Recognizes' /\ DivideIsQuotient'
BY DEF AtRest, EqualInv, DivideInv, Recognizes, DivideIsQuotient, Running, Returned

LEMMA OnlyEqual ==
  ASSUME call' = "equal"
  PROVE  AtRest' /\ PersistInv' /\ DivideInv' /\ Merges' /\ DivideIsQuotient'
BY DEF AtRest, PersistInv, DivideInv, Merges, DivideIsQuotient, Running, Returned

LEMMA OnlyDivide ==
  ASSUME call' = "divide"
  PROVE  AtRest' /\ PersistInv' /\ EqualInv' /\ Merges' /\ Recognizes'
BY DEF AtRest, PersistInv, EqualInv, Merges, Recognizes, Running, Returned

-----------------------------------------------------------------------------
(* persist. *)

\* One iteration, whichever branch it takes.
LEMMA Pushed ==
  ASSUME IInv, Running("persist"), NEW f \in Factor,
         Push(f), UNCHANGED <<operands, k, quotient, result>>,
         f.id \in Ids(lhs) \cup Ids(rhs),
         f.exp = Exp(lhs, f.id) + Exp(rhs, f.id),
         \A n \in DOMAIN out : out[n].id < f.id,
         \/ i' = i
         \/ i' = i + 1 /\ i <= Len(lhs) /\ lhs[i].id = f.id,
         \/ j' = j
         \/ j' = j + 1 /\ j <= Len(rhs) /\ rhs[j].id = f.id,
         i' <= Len(lhs) => f.id < lhs[i'].id,
         j' <= Len(rhs) => f.id < rhs[j'].id
  PROVE  IInv'
<1>1. /\ call = "persist" /\ result = <<>> /\ call' = "persist" /\ result' = <<>>
      /\ lhs' = lhs /\ rhs' = rhs /\ cached' = cached /\ k' = k /\ quotient' = quotient
      /\ out' = Append(out, f)
  BY DEF Running, operands, Push
<1>2. IsList(lhs) /\ IsList(rhs) /\ IsList(out) /\ i \in 1 .. Len(lhs) + 1 /\ j \in 1 .. Len(rhs) + 1
  BY DEF IInv, Types
<1>3. /\ IsList(out') /\ Ids(out') = Ids(out) \cup {f.id}
      /\ DOMAIN out' = 1 .. Len(out) + 1
      /\ \A n \in DOMAIN out : out'[n] = out[n]
      /\ out'[Len(out) + 1] = f
  BY <1>1, <1>2, Appended
<1>4. DOMAIN out = 1 .. Len(out) /\ Len(out) \in Nat /\ DOMAIN lhs = 1 .. Len(lhs) /\ Len(lhs) \in Nat
      /\ DOMAIN rhs = 1 .. Len(rhs) /\ Len(rhs) \in Nat
  BY <1>2, ListFacts
<1>5. i' \in 1 .. Len(lhs) + 1 /\ j' \in 1 .. Len(rhs) + 1
  BY <1>2, <1>4
<1>6. Types'
  BY <1>1, <1>3, <1>5 DEF IInv, Types
<1>7. PersistInv'
  <2>1. lhs' # <<>> /\ rhs' # <<>>
    BY <1>1 DEF IInv, PersistInv, Running
  <2>2. ASSUME NEW n \in DOMAIN out'
        PROVE  /\ out'[n].id \in Ids(lhs) \cup Ids(rhs)
               /\ out'[n].exp = Exp(lhs, out'[n].id) + Exp(rhs, out'[n].id)
               /\ i' <= Len(lhs) => out'[n].id < lhs[i'].id
               /\ j' <= Len(rhs) => out'[n].id < rhs[j'].id
    <3>1. CASE n = Len(out) + 1
      BY <3>1, <1>3
    <3>2. CASE n \in DOMAIN out
      <4>1. out'[n] = out[n] /\ out[n].id < f.id /\ out[n].id \in Nat /\ f.id \in Nat
        BY <3>2, <1>2, <1>3, ListFacts, KeyAssumption DEF Factor
      <4>2. /\ out[n].id \in Ids(lhs) \cup Ids(rhs)
            /\ out[n].exp = Exp(lhs, out[n].id) + Exp(rhs, out[n].id)
        BY <3>2, <1>1 DEF IInv, PersistInv, Running
      <4>3. i' <= Len(lhs) => i' \in DOMAIN lhs /\ lhs[i'].id \in Nat
        BY <1>2, <1>4, <1>5, ListFacts
      <4>4. j' <= Len(rhs) => j' \in DOMAIN rhs /\ rhs[j'].id \in Nat
        BY <1>2, <1>4, <1>5, ListFacts
      <4>5. i' <= Len(lhs) => out[n].id < lhs[i'].id
        BY <4>1, <4>3
      <4>6. j' <= Len(rhs) => out[n].id < rhs[j'].id
        BY <4>1, <4>4
      <4> QED
        BY <4>1, <4>2, <4>5, <4>6
    <3> QED
      BY <3>1, <3>2, <1>3, <1>4
  <2>3. ASSUME NEW p \in DOMAIN lhs, p < i'
        PROVE  lhs[p].id \in Ids(out')
    <3>1. p < i \/ (p = i /\ lhs[i].id = f.id)
      BY <2>3, <1>2, <1>4
    <3>2. p < i => lhs[p].id \in Ids(out)
      BY <1>1 DEF IInv, PersistInv, Running
    <3> QED
      BY <3>1, <3>2, <1>3
  <2>4. ASSUME NEW q \in DOMAIN rhs, q < j'
        PROVE  rhs[q].id \in Ids(out')
    <3>1. q < j \/ (q = j /\ rhs[j].id = f.id)
      BY <2>4, <1>2, <1>4
    <3>2. q < j => rhs[q].id \in Ids(out)
      BY <1>1 DEF IInv, PersistInv, Running
    <3> QED
      BY <3>1, <3>2, <1>3
  <2> QED
    BY <1>1, <2>1, <2>2, <2>3, <2>4 DEF PersistInv
<1>8. Merges'
  BY <1>1 DEF Merges, Returned
<1> QED
  BY <1>1, <1>6, <1>7, <1>8, OnlyPersist DEF IInv

\* What is not in the part that has been merged, and before all of the rest, is
\* not in the list at all.
LEMMA AbsentFrom ==
  ASSUME NEW l, IsList(l), NEW n \in 1 .. Len(l) + 1, NEW m \in Nat,
         \A p \in DOMAIN l : p < n => l[p].id # m,
         n <= Len(l) => m < l[n].id
  PROVE  m \notin Ids(l)
<1> SUFFICES ASSUME NEW p \in DOMAIN l, l[p].id = m
             PROVE  FALSE
  BY DEF Ids
<1>1. p \in Int /\ p <= Len(l) /\ Len(l) \in Nat /\ n \in Nat
  BY ListFacts
<1>2. p >= n /\ n \in DOMAIN l
  BY <1>1, ListFacts
<1>3. m < l[n].id
  BY <1>1, <1>2
<1>4. p = n \/ l[n].id < l[p].id
  BY <1>1, <1>2, ListFacts
<1>5. l[n].id \in Nat
  BY <1>2, ListFacts
<1> QED
  BY <1>3, <1>4, <1>5

\* The next entry is larger.
LEMMA Following ==
  ASSUME NEW l, IsList(l), NEW n \in 1 .. Len(l) + 1, n <= Len(l)
  PROVE  /\ n \in DOMAIN l /\ l[n] \in Factor /\ l[n].id \in Nat /\ l[n].id \in Ids(l)
         /\ n + 1 \in 1 .. Len(l) + 1
         /\ n + 1 <= Len(l) => l[n].id < l[n + 1].id
<1>1. Len(l) \in Nat /\ DOMAIN l = 1 .. Len(l) /\ n \in DOMAIN l
  BY ListFacts
<1>2. l[n].id \in Ids(l)
  BY <1>1 DEF Ids
<1>3. n + 1 <= Len(l) => n + 1 \in DOMAIN l /\ n < n + 1
  BY <1>1
<1> QED
  BY <1>1, <1>2, <1>3, ListFacts

LEMMA PersistStepSound ==
  ASSUME IInv, PersistStep
  PROVE  IInv'
<1>1. Running("persist") /\ UNCHANGED <<operands, k, quotient, result>>
  BY DEF PersistStep
<1>2. IsList(lhs) /\ IsList(rhs) /\ IsList(out) /\ i \in 1 .. Len(lhs) + 1 /\ j \in 1 .. Len(rhs) + 1
  BY DEF IInv, Types
<1>3. \A n \in DOMAIN out :
        /\ i <= Len(lhs) => out[n].id < lhs[i].id
        /\ j <= Len(rhs) => out[n].id < rhs[j].id
  BY <1>1 DEF IInv, PersistInv
<1>4. Len(lhs) \in Nat /\ Len(rhs) \in Nat
  BY <1>2, ListFacts
<1>5. ASSUME NEW m \in Nat, \A n \in DOMAIN out : out[n].id < m
      PROVE  /\ \A p \in DOMAIN lhs : p < i => lhs[p].id # m
             /\ \A q \in DOMAIN rhs : q < j => rhs[q].id # m
  <2>1. m \notin Ids(out)
    <3> SUFFICES ASSUME NEW n \in DOMAIN out, out[n].id = m
                 PROVE  FALSE
      BY DEF Ids
    <3> QED
      BY <1>5
  <2> QED
    BY <1>1, <2>1 DEF IInv, PersistInv
<1>6. CASE PersistLeft
  <2>1. i <= Len(lhs) /\ (j <= Len(rhs) => lhs[i].id < rhs[j].id) /\ Push(lhs[i]) /\ i' = i + 1 /\ j' = j
    BY <1>6 DEF PersistLeft
  <2>2. /\ i \in DOMAIN lhs /\ lhs[i] \in Factor /\ lhs[i].id \in Nat /\ lhs[i].id \in Ids(lhs)
        /\ i' <= Len(lhs) => lhs[i].id < lhs[i'].id
    BY <1>2, <2>1, Following
  <2>3. \A n \in DOMAIN out : out[n].id < lhs[i].id
    BY <1>3, <2>1
  <2>4. lhs[i].id \notin Ids(rhs)
    BY <1>2, <1>5, <2>1, <2>2, <2>3, AbsentFrom
  <2>5. lhs[i].exp = Exp(lhs, lhs[i].id) + Exp(rhs, lhs[i].id)
    BY <1>2, <2>2, <2>4, MonomialOf, ListFacts
  <2> QED
    BY <1>1, <2>1, <2>2, <2>3, <2>5, Pushed
<1>7. CASE PersistBoth
  <2> DEFINE f == [id |-> lhs[i].id, exp |-> lhs[i].exp + rhs[j].exp]
  <2>1. /\ i <= Len(lhs) /\ j <= Len(rhs) /\ lhs[i].id = rhs[j].id
        /\ Push(f) /\ i' = i + 1 /\ j' = j + 1
    BY <1>7 DEF PersistBoth
  <2>2. /\ i \in DOMAIN lhs /\ lhs[i] \in Factor /\ lhs[i].id \in Nat /\ lhs[i].id \in Ids(lhs)
        /\ i' <= Len(lhs) => lhs[i].id < lhs[i'].id
    BY <1>2, <2>1, Following
  <2>3. /\ j \in DOMAIN rhs /\ rhs[j] \in Factor
        /\ j' <= Len(rhs) => rhs[j].id < rhs[j'].id
    BY <1>2, <2>1, Following
  <2>4. f \in Factor /\ f.id = lhs[i].id
    BY <2>2, <2>3 DEF Factor
  <2>5. f.exp = Exp(lhs, f.id) + Exp(rhs, f.id)
    BY <1>2, <2>1, <2>2, <2>3, MonomialOf
  <2>6. \A n \in DOMAIN out : out[n].id < f.id
    BY <1>3, <2>1
  <2>7. f.id \in Ids(lhs) \cup Ids(rhs) /\ (i' <= Len(lhs) => f.id < lhs[i'].id)
        /\ (j' <= Len(rhs) => f.id < rhs[j'].id) /\ lhs[i].id = f.id /\ rhs[j].id = f.id
    BY <2>1, <2>2, <2>3
  <2> HIDE DEF f
  <2> QED
    BY <1>1, <2>1, <2>4, <2>5, <2>6, <2>7, Pushed
<1>8. CASE PersistRight
  <2>1. j <= Len(rhs) /\ (i <= Len(lhs) => rhs[j].id < lhs[i].id) /\ Push(rhs[j]) /\ j' = j + 1 /\ i' = i
    BY <1>8 DEF PersistRight
  <2>2. /\ j \in DOMAIN rhs /\ rhs[j] \in Factor /\ rhs[j].id \in Nat /\ rhs[j].id \in Ids(rhs)
        /\ j' <= Len(rhs) => rhs[j].id < rhs[j'].id
    BY <1>2, <2>1, Following
  <2>3. \A n \in DOMAIN out : out[n].id < rhs[j].id
    BY <1>3, <2>1
  <2>4. rhs[j].id \notin Ids(lhs)
    BY <1>2, <1>5, <2>1, <2>2, <2>3, AbsentFrom
  <2>5. rhs[j].exp = Exp(lhs, rhs[j].id) + Exp(rhs, rhs[j].id)
    BY <1>2, <2>2, <2>4, MonomialOf, ListFacts
  <2> QED
    BY <1>1, <2>1, <2>2, <2>3, <2>5, Pushed
<1> QED
  BY <1>6, <1>7, <1>8 DEF PersistStep

\* Neither operand is one, so their product is neither one nor just one factor.
LEMMA ProductOfTwo ==
  ASSUME NEW l, NEW r, NEW p, IsList(l), IsList(r), IsList(p), l # <<>>, r # <<>>,
         Ids(p) = Ids(l) \cup Ids(r),
         \A m \in Ids(p) : Exp(p, m) = Exp(l, m) + Exp(r, m)
  PROVE  IsProduct(p)
<1>1. Len(l) \in Nat /\ Len(r) \in Nat /\ Len(p) \in Nat
      /\ DOMAIN l = 1 .. Len(l) /\ DOMAIN r = 1 .. Len(r) /\ DOMAIN p = 1 .. Len(p)
  BY ListFacts
<1>2. Len(l) # 0 /\ Len(r) # 0
  BY EmptySeq DEF IsList
<1>3. 1 \in DOMAIN l /\ 1 \in DOMAIN r
  BY <1>1, <1>2
<1>4. l[1].id \in Ids(p) /\ r[1].id \in Ids(p)
  BY <1>3 DEF Ids
<1>5. p # <<>>
  BY <1>4 DEF Ids
<1>6. ASSUME Len(p) = 1, p[1].exp = 1
      PROVE  FALSE
  <2>1. DOMAIN p = {1}
    BY <1>1, <1>6
  <2>2. l[1].id = p[1].id /\ r[1].id = p[1].id
    BY <1>4, <2>1 DEF Ids
  <2>3. Exp(p, p[1].id) = 1
    BY <1>6, <2>1, MonomialOf
  <2>4. Exp(l, p[1].id) \in Nat /\ Exp(l, p[1].id) > 0 /\ Exp(r, p[1].id) \in Nat /\ Exp(r, p[1].id) > 0
    BY <1>3, <2>2, MonomialOf DEF Ids
  <2> QED
    BY <1>4, <2>2, <2>3, <2>4
<1> QED
  BY <1>5, <1>6 DEF IsProduct, IsOne, IsAtom

LEMMA PersistReturnSound ==
  ASSUME IInv, PersistReturn
  PROVE  IInv'
<1>1. /\ call = "persist" /\ result = <<>> /\ call' = "persist" /\ result' = <<HashOfOperands(lhs, rhs)>>
      /\ lhs' = lhs /\ rhs' = rhs /\ cached' = cached /\ i' = i /\ j' = j /\ k' = k
      /\ quotient' = quotient /\ out' = out
      /\ i > Len(lhs) /\ j > Len(rhs)
  BY DEF PersistReturn, Running, Return, operands
<1>2. IsList(lhs) /\ IsList(rhs) /\ IsList(out)
  BY DEF IInv, Types
<1>3. Types' /\ PersistInv'
  BY <1>1 DEF IInv, Types, PersistInv, Running
<1>4. /\ lhs # <<>> /\ rhs # <<>>
      /\ \A n \in DOMAIN out :
           /\ out[n].id \in Ids(lhs) \cup Ids(rhs)
           /\ out[n].exp = Exp(lhs, out[n].id) + Exp(rhs, out[n].id)
      /\ \A p \in DOMAIN lhs : p < i => lhs[p].id \in Ids(out)
      /\ \A q \in DOMAIN rhs : q < j => rhs[q].id \in Ids(out)
  BY <1>1 DEF IInv, PersistInv, Running
<1>5. (\A p \in DOMAIN lhs : p < i) /\ (\A q \in DOMAIN rhs : q < j)
  BY <1>1, <1>2, ListFacts DEF IInv, Types
<1>6. Ids(out) = Ids(lhs) \cup Ids(rhs)
  BY <1>4, <1>5 DEF Ids
<1>7. \A m \in Ids(out) : Exp(out, m) = Exp(lhs, m) + Exp(rhs, m)
  <2> TAKE m \in Ids(out)
  <2>1. PICK n \in DOMAIN out : out[n].id = m
    BY DEF Ids
  <2>2. Exp(out, m) = out[n].exp
    BY <1>2, <2>1, MonomialOf
  <2> QED
    BY <1>4, <2>1, <2>2
<1>8. Monomial(out) = Times(Monomial(lhs), Monomial(rhs)) /\ IsProduct(out)
  BY <1>2, <1>4, <1>6, <1>7, TimesOf, ProductOfTwo
<1>9. Merges'
  BY <1>1, <1>8 DEF Merges
<1> QED
  BY <1>1, <1>3, <1>9, OnlyPersist DEF IInv

LEMMA PersistSquareSound ==
  ASSUME IInv, PersistSquare
  PROVE  IInv'
<1> DEFINE square == [n \in DOMAIN lhs |-> [lhs[n] EXCEPT !.exp = 2 * @]]
<1>1. /\ call = "persist" /\ result = <<>> /\ call' = "persist" /\ result' = <<HashOfOperands(lhs, rhs)>>
      /\ lhs' = lhs /\ rhs' = rhs /\ cached' = cached /\ i' = i /\ j' = j /\ k' = k
      /\ quotient' = quotient /\ out' = square /\ rhs = lhs
  BY DEF PersistSquare, Running, Return, operands
<1>2. IsList(lhs) /\ lhs # <<>>
  BY <1>1 DEF IInv, Types, PersistInv, Running
<1>3. Len(lhs) \in Nat /\ DOMAIN lhs = 1 .. Len(lhs) /\ \A n \in DOMAIN lhs : lhs[n] \in Factor
  BY <1>2, ListFacts
<1>4. DOMAIN square = DOMAIN lhs
  OBVIOUS
<1>5. ASSUME NEW n \in DOMAIN lhs
      PROVE  square[n] \in Factor /\ square[n].id = lhs[n].id /\ square[n].exp = lhs[n].exp + lhs[n].exp
  <2>1. lhs[n] \in Factor /\ square[n] = [lhs[n] EXCEPT !.exp = 2 * @]
    BY <1>3
  <2> HIDE DEF square
  <2> QED
    BY <2>1 DEF Factor
<1>6. square \in [1 .. Len(lhs) -> Factor]
  BY <1>3, <1>5
<1> HIDE DEF square
<1>7. square \in Seq(Factor)
  BY <1>3, <1>6, SeqDef
<1>8. Sorted(square)
  BY <1>2, <1>4, <1>5, ListFacts DEF Sorted
<1>9. IsList(square)
  BY <1>7, <1>8 DEF IsList
<1>10. Ids(square) = Ids(lhs)
  BY <1>4, <1>5 DEF Ids
<1>11. \A m \in Ids(square) : Exp(square, m) = Exp(lhs, m) + Exp(lhs, m)
  <2> TAKE m \in Ids(square)
  <2>1. PICK n \in DOMAIN lhs : lhs[n].id = m
    BY <1>10 DEF Ids
  <2>2. Exp(square, m) = square[n].exp
    BY <1>4, <1>5, <1>9, <2>1, MonomialOf
  <2>3. Exp(lhs, m) = lhs[n].exp
    BY <1>2, <2>1, MonomialOf
  <2> QED
    BY <1>5, <2>2, <2>3
<1>12. Monomial(square) = Times(Monomial(lhs), Monomial(lhs)) /\ IsProduct(square)
  BY <1>2, <1>9, <1>10, <1>11, TimesOf, ProductOfTwo
<1>13. Merges'
  BY <1>1, <1>12 DEF Merges
<1>14. Types' /\ PersistInv'
  BY <1>1, <1>9 DEF IInv, Types, PersistInv, Running
<1> QED
  BY <1>1, <1>13, <1>14, OnlyPersist DEF IInv

-----------------------------------------------------------------------------
(* Key==. *)

\* What one operand contributes to an entry of the key.
LEMMA Contributes ==
  ASSUME NEW l, IsList(l), NEW n \in 1 .. Len(l) + 1, NEW id \in Nat,
         \A p \in DOMAIN l : p < n => l[p].id < id,
         ~Behind(l, n, id),
         NEW next,
         At(l, n, id) => next = n + 1,
         ~At(l, n, id) => next = n
  PROVE  /\ id \in Ids(l) <=> At(l, n, id)
         /\ Exp(l, id) = IF At(l, n, id) THEN l[n].exp ELSE 0
         /\ next \in 1 .. Len(l) + 1
         /\ next <= Len(l) => id < l[next].id
         /\ \A p \in DOMAIN l : p < next => p < n \/ l[p].id = id
<1>1. Len(l) \in Nat /\ DOMAIN l = 1 .. Len(l)
  BY ListFacts
<1>2. CASE At(l, n, id)
  <2>1. n <= Len(l) /\ l[n].id = id /\ next = n + 1
    BY <1>2 DEF At
  <2>2. n \in DOMAIN l /\ id \in Ids(l) /\ next \in 1 .. Len(l) + 1 /\ (next <= Len(l) => id < l[next].id)
    BY <2>1, Following
  <2>3. Exp(l, id) = l[n].exp
    BY <2>1, <2>2, MonomialOf
  <2>4. \A p \in DOMAIN l : p < next => p < n \/ p = n
    BY <1>1, <2>1
  <2> QED
    BY <1>2, <2>1, <2>2, <2>3, <2>4
<1>3. CASE ~At(l, n, id)
  <2>1. next = n
    BY <1>3
  <2>2. ASSUME n <= Len(l)
        PROVE  id < l[n].id
    <3>1. l[n].id \in Nat
      BY <2>2, Following
    <3>2. ~(l[n].id < id) /\ l[n].id # id
      BY <1>3, <2>2 DEF At, Behind
    <3> QED
      BY <3>1, <3>2
  <2>3. \A p \in DOMAIN l : p < n => l[p].id # id
    BY ListFacts
  <2>4. id \notin Ids(l)
    BY <2>2, <2>3, AbsentFrom
  <2> QED
    BY <1>3, <2>1, <2>2, <2>4, MonomialOf
<1> QED
  BY <1>2, <1>3

\* The situation when the next entry of the key is looked at.
LEMMA EqualFacts ==
  ASSUME IInv, Running("equal"), k <= Len(cached)
  PROVE  /\ IsList(lhs) /\ IsList(rhs) /\ IsList(cached)
         /\ i \in 1 .. Len(lhs) + 1 /\ j \in 1 .. Len(rhs) + 1 /\ k \in 1 .. Len(cached) + 1
         /\ k \in DOMAIN cached /\ cached[k].id \in Nat /\ cached[k].exp \in Nat /\ cached[k].exp > 0
         /\ \A n \in DOMAIN cached : n < k => cached[n].id < cached[k].id
         /\ \A p \in DOMAIN lhs : p < i => lhs[p].id < cached[k].id
         /\ \A q \in DOMAIN rhs : q < j => rhs[q].id < cached[k].id
<1>1. /\ IsList(lhs) /\ IsList(rhs) /\ IsList(cached)
      /\ i \in 1 .. Len(lhs) + 1 /\ j \in 1 .. Len(rhs) + 1 /\ k \in 1 .. Len(cached) + 1
  BY DEF IInv, Types, Running
<1>2. k \in DOMAIN cached /\ cached[k].id \in Nat /\ cached[k].exp \in Nat /\ cached[k].exp > 0
  BY <1>1, ListFacts
<1>3. \A n \in DOMAIN cached : n < k => cached[n].id < cached[k].id
  BY <1>1, <1>2, ListFacts
<1>4. (\A p \in DOMAIN lhs : p < i => lhs[p].id < cached[k].id)
      /\ (\A q \in DOMAIN rhs : q < j => rhs[q].id < cached[k].id)
  BY <1>3 DEF IInv, EqualInv
<1> QED
  BY <1>1, <1>2, <1>3, <1>4

LEMMA EqualStepSound ==
  ASSUME IInv, EqualStep
  PROVE  IInv'
<1> DEFINE c == cached[k]
<1>1. Running("equal") /\ k <= Len(cached) /\ EqualMatch
  BY DEF EqualStep
<1>2. /\ call = "equal" /\ result = <<>> /\ call' = "equal" /\ result' = <<>> /\ k' = k + 1
      /\ lhs' = lhs /\ rhs' = rhs /\ cached' = cached /\ quotient' = quotient /\ out' = out
  BY DEF EqualStep, Running, operands
<1>3. /\ IsList(lhs) /\ IsList(rhs) /\ IsList(cached)
      /\ i \in 1 .. Len(lhs) + 1 /\ j \in 1 .. Len(rhs) + 1 /\ k \in 1 .. Len(cached) + 1
      /\ k \in DOMAIN cached /\ c.id \in Nat
      /\ \A n \in DOMAIN cached : n < k => cached[n].id < c.id
      /\ \A p \in DOMAIN lhs : p < i => lhs[p].id < c.id
      /\ \A q \in DOMAIN rhs : q < j => rhs[q].id < c.id
  BY <1>1, EqualFacts
<1>4. /\ ~Behind(lhs, i, c.id) /\ ~Behind(rhs, j, c.id)
      /\ At(lhs, i, c.id) \/ At(rhs, j, c.id)
      /\ c.exp = (IF At(lhs, i, c.id) THEN lhs[i].exp ELSE 0) + (IF At(rhs, j, c.id) THEN rhs[j].exp ELSE 0)
      /\ (At(lhs, i, c.id) => i' = i + 1) /\ (~At(lhs, i, c.id) => i' = i)
      /\ (At(rhs, j, c.id) => j' = j + 1) /\ (~At(rhs, j, c.id) => j' = j)
  BY <1>1 DEF EqualMatch
<1> HIDE DEF c
<1>5. /\ c.id \in Ids(lhs) <=> At(lhs, i, c.id)
      /\ Exp(lhs, c.id) = IF At(lhs, i, c.id) THEN lhs[i].exp ELSE 0
      /\ i' \in 1 .. Len(lhs) + 1
      /\ i' <= Len(lhs) => c.id < lhs[i'].id
      /\ \A p \in DOMAIN lhs : p < i' => p < i \/ lhs[p].id = c.id
  BY <1>3, <1>4, Contributes
<1>6. /\ c.id \in Ids(rhs) <=> At(rhs, j, c.id)
      /\ Exp(rhs, c.id) = IF At(rhs, j, c.id) THEN rhs[j].exp ELSE 0
      /\ j' \in 1 .. Len(rhs) + 1
      /\ j' <= Len(rhs) => c.id < rhs[j'].id
      /\ \A q \in DOMAIN rhs : q < j' => q < j \/ rhs[q].id = c.id
  BY <1>3, <1>4, Contributes
<1>7. c.id \in Ids(lhs) \cup Ids(rhs) /\ c.exp = Exp(lhs, c.id) + Exp(rhs, c.id)
  BY <1>4, <1>5, <1>6
<1>8. Len(cached) \in Nat /\ DOMAIN cached = 1 .. Len(cached)
  BY <1>3, ListFacts
<1>9. Types'
  <2>1. Types /\ k' \in 1 .. Len(cached) + 1
    BY <1>1, <1>2, <1>3, <1>8 DEF IInv
  <2> QED
    BY <1>2, <1>3, <1>5, <1>6, <2>1 DEF Types
<1>10. EqualInv'
  <2>1. ASSUME NEW n \in DOMAIN cached, n < k'
        PROVE  /\ cached[n].id \in Ids(lhs) \cup Ids(rhs)
               /\ cached[n].exp = Exp(lhs, cached[n].id) + Exp(rhs, cached[n].id)
               /\ i' <= Len(lhs) => cached[n].id < lhs[i'].id
               /\ j' <= Len(rhs) => cached[n].id < rhs[j'].id
    <3>1. CASE n = k
      BY <3>1, <1>5, <1>6, <1>7 DEF c
    <3>2. CASE n < k
      <4>1. cached[n].id < c.id /\ cached[n].id \in Nat
        BY <3>2, <1>3, ListFacts
      <4>2. i' <= Len(lhs) => i' \in DOMAIN lhs /\ lhs[i'].id \in Nat
        BY <1>3, <1>5, ListFacts
      <4>3. j' <= Len(rhs) => j' \in DOMAIN rhs /\ rhs[j'].id \in Nat
        BY <1>3, <1>6, ListFacts
      <4>4. i' <= Len(lhs) => cached[n].id < lhs[i'].id
        BY <1>3, <1>5, <4>1, <4>2
      <4>5. j' <= Len(rhs) => cached[n].id < rhs[j'].id
        BY <1>3, <1>6, <4>1, <4>3
      <4>6. /\ cached[n].id \in Ids(lhs) \cup Ids(rhs)
            /\ cached[n].exp = Exp(lhs, cached[n].id) + Exp(rhs, cached[n].id)
        BY <3>2, <1>1 DEF IInv, EqualInv
      <4> QED
        BY <4>4, <4>5, <4>6
    <3> QED
      BY <2>1, <3>1, <3>2, <1>2, <1>3, <1>8
  <2>2. ASSUME NEW p \in DOMAIN lhs, p < i'
        PROVE  \E n \in DOMAIN cached : n < k' /\ lhs[p].id = cached[n].id
    <3>1. CASE lhs[p].id = c.id
      BY <3>1, <1>2, <1>3 DEF c
    <3>2. CASE p < i
      <4>1. PICK n \in DOMAIN cached : n < k /\ lhs[p].id = cached[n].id
        BY <3>2, <1>1 DEF IInv, EqualInv
      <4>2. n < k'
        BY <4>1, <1>2, <1>3, <1>8
      <4> QED
        BY <4>1, <4>2
    <3> QED
      BY <2>2, <3>1, <3>2, <1>5
  <2>3. ASSUME NEW q \in DOMAIN rhs, q < j'
        PROVE  \E n \in DOMAIN cached : n < k' /\ rhs[q].id = cached[n].id
    <3>1. CASE rhs[q].id = c.id
      BY <3>1, <1>2, <1>3 DEF c
    <3>2. CASE q < j
      <4>1. PICK n \in DOMAIN cached : n < k /\ rhs[q].id = cached[n].id
        BY <3>2, <1>1 DEF IInv, EqualInv
      <4>2. n < k'
        BY <4>1, <1>2, <1>3, <1>8
      <4> QED
        BY <4>1, <4>2
    <3> QED
      BY <2>3, <3>1, <3>2, <1>6
  <2> QED
    BY <1>2, <2>1, <2>2, <2>3 DEF EqualInv
<1>11. Recognizes'
  BY <1>2 DEF Recognizes, Returned
<1> QED
  BY <1>2, <1>9, <1>10, <1>11, OnlyEqual DEF IInv

\* A key that has been rejected differs from the product at some factor.
LEMMA EqualMismatchSound ==
  ASSUME IInv, EqualMismatch
  PROVE  IInv'
<1> DEFINE c == cached[k]
<1>1. Running("equal") /\ k <= Len(cached)
  BY DEF EqualMismatch
<1>2. /\ call = "equal" /\ result = <<>> /\ call' = "equal" /\ result' = <<FALSE>> /\ i' = i /\ j' = j /\ k' = k
      /\ lhs' = lhs /\ rhs' = rhs /\ cached' = cached /\ quotient' = quotient /\ out' = out
  BY DEF EqualMismatch, Running, Return, operands
<1>3. /\ IsList(lhs) /\ IsList(rhs) /\ IsList(cached)
      /\ i \in 1 .. Len(lhs) + 1 /\ j \in 1 .. Len(rhs) + 1 /\ k \in 1 .. Len(cached) + 1
      /\ k \in DOMAIN cached /\ c.id \in Nat /\ c.exp \in Nat /\ c.exp > 0
      /\ \A p \in DOMAIN lhs : p < i => lhs[p].id < c.id
      /\ \A q \in DOMAIN rhs : q < j => rhs[q].id < c.id
  BY <1>1, EqualFacts
<1>4. \A n \in DOMAIN cached : n < k =>
        /\ i <= Len(lhs) => cached[n].id < lhs[i].id
        /\ j <= Len(rhs) => cached[n].id < rhs[j].id
  BY <1>1 DEF IInv, EqualInv
<1>5. ASSUME Monomial(cached) = Times(Monomial(lhs), Monomial(rhs))
      PROVE  FALSE
  <2>1. /\ Ids(cached) = Ids(lhs) \cup Ids(rhs)
        /\ \A m \in Ids(cached) : Exp(cached, m) = Exp(lhs, m) + Exp(rhs, m)
    BY <1>3, <1>5, TimesOf
  <2>2. CASE Behind(lhs, i, c.id)
    <3>1. i <= Len(lhs) /\ lhs[i].id < c.id
      BY <2>2 DEF Behind
    <3>2. lhs[i].id \in Ids(lhs) /\ lhs[i].id \in Nat
      BY <1>3, <3>1, Following
    <3>3. \A n \in DOMAIN cached : n < k => cached[n].id # lhs[i].id
      BY <1>3, <1>4, <3>1, <3>2, ListFacts
    <3>4. lhs[i].id \notin Ids(cached)
      BY <1>3, <3>1, <3>2, <3>3, AbsentFrom
    <3> QED
      BY <2>1, <3>2, <3>4
  <2>3. CASE Behind(rhs, j, c.id)
    <3>1. j <= Len(rhs) /\ rhs[j].id < c.id
      BY <2>3 DEF Behind
    <3>2. rhs[j].id \in Ids(rhs) /\ rhs[j].id \in Nat
      BY <1>3, <3>1, Following
    <3>3. \A n \in DOMAIN cached : n < k => cached[n].id # rhs[j].id
      BY <1>3, <1>4, <3>1, <3>2, ListFacts
    <3>4. rhs[j].id \notin Ids(cached)
      BY <1>3, <3>1, <3>2, <3>3, AbsentFrom
    <3> QED
      BY <2>1, <3>2, <3>4
  <2>4. CASE ~Behind(lhs, i, c.id) /\ ~Behind(rhs, j, c.id)
    <3>1. Exp(lhs, c.id) = IF At(lhs, i, c.id) THEN lhs[i].exp ELSE 0
      BY <1>3, <2>4, Contributes
    <3>2. Exp(rhs, c.id) = IF At(rhs, j, c.id) THEN rhs[j].exp ELSE 0
      BY <1>3, <2>4, Contributes
    <3>3. Exp(cached, c.id) = c.exp /\ c.id \in Ids(cached)
      BY <1>3, MonomialOf DEF Ids
    <3>4. \/ ~At(lhs, i, c.id) /\ ~At(rhs, j, c.id)
          \/ At(lhs, i, c.id) /\ At(rhs, j, c.id) /\ lhs[i].exp + rhs[j].exp # c.exp
          \/ At(lhs, i, c.id) /\ ~At(rhs, j, c.id) /\ lhs[i].exp # c.exp
          \/ At(rhs, j, c.id) /\ ~At(lhs, i, c.id) /\ rhs[j].exp # c.exp
      BY <2>4 DEF EqualMismatch
    <3>5. Exp(lhs, c.id) \in Nat /\ Exp(rhs, c.id) \in Nat
      BY <1>3, MonomialOf
    <3>6. c.exp = Exp(lhs, c.id) + Exp(rhs, c.id)
      BY <2>1, <3>3
    <3> HIDE DEF c
    <3> QED
      BY <1>3, <3>1, <3>2, <3>4, <3>5, <3>6
  <2> QED
    BY <2>2, <2>3, <2>4
<1>6. Recognizes'
  BY <1>2, <1>5 DEF Recognizes, Value
<1>7. Types' /\ EqualInv'
  BY <1>2 DEF IInv, Types, EqualInv, Running
<1> QED
  BY <1>2, <1>6, <1>7, OnlyEqual DEF IInv

LEMMA EqualReturnSound ==
  ASSUME IInv, EqualReturn
  PROVE  IInv'
<1>1. /\ call = "equal" /\ result = <<>> /\ call' = "equal" /\ i' = i /\ j' = j /\ k' = k
      /\ result' = <<i > Len(lhs) /\ j > Len(rhs)>> /\ k > Len(cached)
      /\ lhs' = lhs /\ rhs' = rhs /\ cached' = cached /\ quotient' = quotient /\ out' = out
  BY DEF EqualReturn, Running, Return, operands
<1>2. /\ IsList(lhs) /\ IsList(rhs) /\ IsList(cached)
      /\ i \in 1 .. Len(lhs) + 1 /\ j \in 1 .. Len(rhs) + 1 /\ k \in 1 .. Len(cached) + 1
  BY <1>1 DEF IInv, Types
<1>3. /\ \A n \in DOMAIN cached : n < k /\ cached[n].id \in Nat
      /\ i > Len(lhs) => \A p \in DOMAIN lhs : p < i
      /\ j > Len(rhs) => \A q \in DOMAIN rhs : q < j
  BY <1>1, <1>2, ListFacts
<1>4. /\ \A n \in DOMAIN cached :
           /\ cached[n].id \in Ids(lhs) \cup Ids(rhs)
           /\ cached[n].exp = Exp(lhs, cached[n].id) + Exp(rhs, cached[n].id)
           /\ i <= Len(lhs) => cached[n].id < lhs[i].id
           /\ j <= Len(rhs) => cached[n].id < rhs[j].id
      /\ \A p \in DOMAIN lhs : p < i => lhs[p].id \in Ids(cached)
      /\ \A q \in DOMAIN rhs : q < j => rhs[q].id \in Ids(cached)
  BY <1>1, <1>3 DEF IInv, EqualInv, Running, Ids
<1>5. ASSUME i > Len(lhs), j > Len(rhs)
      PROVE  Monomial(cached) = Times(Monomial(lhs), Monomial(rhs))
  <2>1. Ids(cached) = Ids(lhs) \cup Ids(rhs)
    BY <1>3, <1>4, <1>5 DEF Ids
  <2>2. ASSUME NEW m \in Ids(cached)
        PROVE  Exp(cached, m) = Exp(lhs, m) + Exp(rhs, m)
    <3>1. PICK n \in DOMAIN cached : cached[n].id = m
      BY DEF Ids
    <3>2. Exp(cached, m) = cached[n].exp
      BY <1>2, <3>1, MonomialOf
    <3> QED
      BY <1>4, <3>1, <3>2
  <2> QED
    BY <1>2, <2>1, <2>2, TimesOf
<1>6. ASSUME Monomial(cached) = Times(Monomial(lhs), Monomial(rhs))
      PROVE  i > Len(lhs) /\ j > Len(rhs)
  <2>1. Ids(cached) = Ids(lhs) \cup Ids(rhs)
    BY <1>2, <1>6, TimesOf
  <2>2. ASSUME i <= Len(lhs)
        PROVE  FALSE
    <3>1. lhs[i].id \in Ids(cached) /\ lhs[i].id \in Nat
      BY <1>2, <2>1, <2>2, Following
    <3>2. PICK n \in DOMAIN cached : cached[n].id = lhs[i].id
      BY <3>1 DEF Ids
    <3> QED
      BY <1>4, <2>2, <3>1, <3>2
  <2>3. ASSUME j <= Len(rhs)
        PROVE  FALSE
    <3>1. rhs[j].id \in Ids(cached) /\ rhs[j].id \in Nat
      BY <1>2, <2>1, <2>3, Following
    <3>2. PICK n \in DOMAIN cached : cached[n].id = rhs[j].id
      BY <3>1 DEF Ids
    <3> QED
      BY <1>4, <2>3, <3>1, <3>2
  <2> QED
    BY <1>2, <2>2, <2>3, ListFacts
<1>7. Recognizes'
  BY <1>1, <1>5, <1>6 DEF Recognizes, Value
<1>8. Types' /\ EqualInv'
  BY <1>1 DEF IInv, Types, EqualInv, Running
<1> QED
  BY <1>1, <1>7, <1>8, OnlyEqual DEF IInv

-----------------------------------------------------------------------------
(* operator/. *)

LEMMA DivideFacts ==
  ASSUME IInv, Running("divide")
  PROVE  /\ IsList(lhs) /\ IsList(rhs) /\ IsList(out)
         /\ Len(lhs) \in Nat /\ DOMAIN lhs = 1 .. Len(lhs) /\ Len(rhs) \in Nat /\ DOMAIN rhs = 1 .. Len(rhs)
         /\ i \in 1 .. Len(lhs) + 1 /\ j \in 1 .. Len(rhs) + 1 /\ k \in 1 .. Len(lhs) + 1
         /\ quotient \in Seq(Nat) /\ Len(quotient) = Len(lhs)
         /\ DOMAIN quotient = 1 .. Len(lhs) /\ \A p \in DOMAIN lhs : quotient[p] \in Nat
<1>1. /\ IsList(lhs) /\ IsList(rhs) /\ IsList(out) /\ quotient \in Seq(Nat)
      /\ i \in 1 .. Len(lhs) + 1 /\ j \in 1 .. Len(rhs) + 1 /\ k \in 1 .. Len(lhs) + 1
      /\ Len(quotient) = Len(lhs)
  BY DEF IInv, Types, DivideInv, Running
<1>2. DOMAIN quotient = 1 .. Len(lhs) /\ \A p \in 1 .. Len(lhs) : quotient[p] \in Nat
  BY <1>1, LenProperties, ElementOfSeq
<1> QED
  BY <1>1, <1>2, ListFacts

LEMMA DivideByOneSound ==
  ASSUME IInv, DivideByOne
  PROVE  IInv'
<1>1. /\ call = "divide" /\ result = <<>> /\ call' = "divide" /\ result' = <<TRUE>> /\ i' = i /\ j' = j /\ k' = k
      /\ lhs' = lhs /\ rhs' = rhs /\ cached' = cached /\ quotient' = quotient /\ out' = lhs /\ rhs = <<>>
  BY DEF DivideByOne, Running, Return, operands, IsOne
<1>2. IsList(lhs) /\ IsList(rhs)
  BY <1>1, DivideFacts DEF Running
<1>3. Ids(rhs) = {} /\ \A m : Exp(rhs, m) = 0
  <2>1. Ids(rhs) = {}
    BY <1>1 DEF Ids
  <2> QED
    BY <2>1, <1>2, MonomialOf
<1>4. Divides(Monomial(rhs), Monomial(lhs))
  BY <1>2, <1>3, DividesOf
<1>5. Monomial(lhs) = Quotient(Monomial(lhs), Monomial(rhs))
  <2>1. \A m \in Ids(lhs) : Exp(lhs, m) \in Nat /\ Exp(lhs, m) > 0
    BY <1>2, MonomialOf
  <2> QED
    BY <1>2, <1>3, <2>1, QuotientOf
<1>6. DivideIsQuotient'
  BY <1>1, <1>4, <1>5 DEF DivideIsQuotient, Value
<1>7. Types' /\ DivideInv'
  BY <1>1, <1>2 DEF IInv, Types, DivideInv, Running
<1> QED
  BY <1>1, <1>6, <1>7, OnlyDivide DEF IInv

\* Moving on in lhs.
LEMMA Skipped ==
  ASSUME IInv, Running("divide"), i <= Len(lhs), i' = i + 1,
         UNCHANGED <<operands, j, k, quotient, out, result>>,
         \A q \in DOMAIN rhs : q >= j => lhs[i].id # rhs[q].id
  PROVE  IInv'
<1>1. /\ call = "divide" /\ result = <<>> /\ call' = "divide" /\ result' = <<>>
      /\ lhs' = lhs /\ rhs' = rhs /\ cached' = cached /\ j' = j /\ k' = k /\ quotient' = quotient /\ out' = out
  BY DEF Running, operands
<1>2. Len(lhs) \in Nat /\ i \in Nat /\ i' \in 1 .. Len(lhs) + 1 /\ DOMAIN lhs = 1 .. Len(lhs)
  BY DivideFacts
<1>3. Types'
  BY <1>1, <1>2 DEF IInv, Types
<1>4. /\ \A p \in DOMAIN lhs : p >= i' => p >= i
      /\ \A p \in DOMAIN lhs : p < i' => p < i \/ p = i
  BY <1>2
<1>5. \A id : Subtracted(id)' <=> Subtracted(id)
  BY <1>1 DEF Subtracted
<1>6. \A p \in DOMAIN lhs, q \in DOMAIN rhs : p < i' /\ q >= j => lhs[p].id # rhs[q].id
  BY <1>1, <1>4 DEF IInv, DivideInv, Running
<1>7. \A p \in DOMAIN lhs : p >= i' /\ j <= Len(rhs) => ~Subtracted(lhs[p].id)
  BY <1>1, <1>4 DEF IInv, DivideInv, Running
<1>8. DivideInv'
  BY <1>1, <1>5, <1>6, <1>7 DEF IInv, DivideInv, Running, Subtracted
<1>9. DivideIsQuotient'
  BY <1>1 DEF DivideIsQuotient, Returned
<1> QED
  BY <1>1, <1>3, <1>8, <1>9, OnlyDivide DEF IInv

\* A factor of rhs has been found.
LEMMA FoundFactor ==
  ASSUME IInv, Running("divide"), i <= Len(lhs), j <= Len(rhs),
         lhs[i].id = rhs[j].id, rhs[j].exp <= quotient[i],
         quotient' = [quotient EXCEPT ![i] = @ - rhs[j].exp],
         j' = j + 1, i' = i + 1 \/ (i' = i /\ j = Len(rhs)),
         UNCHANGED <<operands, k, out, result>>
  PROVE  IInv'
<1>1. /\ call = "divide" /\ result = <<>> /\ call' = "divide" /\ result' = <<>>
      /\ lhs' = lhs /\ rhs' = rhs /\ cached' = cached /\ k' = k /\ out' = out
  BY DEF Running, operands
<1>2. /\ IsList(lhs) /\ IsList(rhs)
      /\ Len(lhs) \in Nat /\ DOMAIN lhs = 1 .. Len(lhs) /\ Len(rhs) \in Nat /\ DOMAIN rhs = 1 .. Len(rhs)
      /\ i \in DOMAIN lhs /\ j \in DOMAIN rhs /\ k \in Nat
      /\ i' \in 1 .. Len(lhs) + 1 /\ j' \in 1 .. Len(rhs) + 1
      /\ quotient \in Seq(Nat) /\ Len(quotient) = Len(lhs) /\ DOMAIN quotient = 1 .. Len(lhs)
      /\ \A p \in DOMAIN lhs : quotient[p] \in Nat
  BY DivideFacts
<1>3. rhs[j].exp \in Nat /\ rhs[j].id \in Nat /\ Exp(rhs, rhs[j].id) = rhs[j].exp
      /\ lhs[i].exp \in Nat /\ Exp(lhs, lhs[i].id) = lhs[i].exp
  BY <1>2, ListFacts, MonomialOf
<1>4. quotient[i] - rhs[j].exp \in Nat
  <2>1. quotient[i] \in Nat /\ rhs[j].exp \in Nat /\ rhs[j].exp <= quotient[i]
    BY <1>2, <1>3
  <2> QED
    BY <2>1
<1>5. /\ quotient' \in Seq(Nat) /\ Len(quotient') = Len(lhs)
      /\ quotient'[i] = quotient[i] - rhs[j].exp
      /\ \A p \in DOMAIN lhs : p # i => quotient'[p] = quotient[p]
  BY <1>2, <1>4, ExceptSeq
<1>6. Types'
  BY <1>1, <1>2, <1>5 DEF IInv, Types
<1>7. /\ \A p \in DOMAIN lhs :
           /\ Subtracted(lhs[p].id) => quotient[p] = lhs[p].exp - Exp(rhs, lhs[p].id)
           /\ ~Subtracted(lhs[p].id) => quotient[p] = lhs[p].exp
           /\ p >= i => ~Subtracted(lhs[p].id)
      /\ \A q \in DOMAIN rhs : q < j => rhs[q].id \in Ids(lhs) /\ rhs[q].exp <= Exp(lhs, rhs[q].id)
      /\ \A p \in DOMAIN lhs, q \in DOMAIN rhs : p < i /\ q >= j => lhs[p].id # rhs[q].id
      /\ k <= 1
      /\ \A n \in DOMAIN out : \E p \in DOMAIN lhs : p < k
  BY <1>1, <1>2 DEF IInv, DivideInv, Running
<1>8. \A id : Subtracted(id)' <=> Subtracted(id) \/ id = rhs[j].id
  <2> TAKE id
  <2>1. \A q \in DOMAIN rhs : q < j + 1 <=> q < j \/ q = j
    BY <1>2
  <2> QED
    BY <1>1, <1>2, <2>1 DEF Subtracted
<1>9. ASSUME NEW p \in DOMAIN lhs
      PROVE  /\ Subtracted(lhs[p].id)' => quotient'[p] = lhs[p].exp - Exp(rhs, lhs[p].id)
             /\ ~Subtracted(lhs[p].id)' => quotient'[p] = lhs[p].exp
             /\ p >= i' /\ j' <= Len(rhs) => ~Subtracted(lhs[p].id)'
  <2>1. Subtracted(lhs[p].id)' <=> Subtracted(lhs[p].id) \/ lhs[p].id = rhs[j].id
    BY <1>1, <1>8 DEF Subtracted
  <2>2. lhs[p].id = rhs[j].id <=> p = i
    BY <1>2, Distinct
  <2>3. CASE p = i
    <3>1. i >= i
      BY <1>2
    <3>2. quotient[i] = lhs[i].exp
      BY <1>7, <1>2, <3>1
    <3>3. p >= i' => j' > Len(rhs)
      BY <1>2, <2>3
    <3> QED
      BY <1>2, <1>3, <1>5, <2>1, <2>2, <2>3, <3>2, <3>3
  <2>4. CASE p # i
    <3>1. quotient'[p] = quotient[p] /\ (Subtracted(lhs[p].id)' <=> Subtracted(lhs[p].id))
      BY <1>5, <2>1, <2>2, <2>4
    <3>2. p >= i' => p >= i
      BY <1>2
    <3> QED
      BY <1>7, <3>1, <3>2
  <2> QED
    BY <2>3, <2>4
<1>10. ASSUME NEW q \in DOMAIN rhs, q < j'
       PROVE  rhs[q].id \in Ids(lhs) /\ rhs[q].exp <= Exp(lhs, rhs[q].id)
  <2>1. q < j \/ q = j
    BY <1>2, <1>10
  <2>2. rhs[j].id \in Ids(lhs)
    BY <1>2 DEF Ids
  <2>3. rhs[j].exp <= Exp(lhs, rhs[j].id)
    <3>1. i >= i
      BY <1>2
    <3> QED
      BY <1>2, <1>3, <1>7, <3>1
  <2> QED
    BY <1>7, <2>1, <2>2, <2>3
<1>11. ASSUME NEW p \in DOMAIN lhs, NEW q \in DOMAIN rhs, p < i', q >= j'
       PROVE  lhs[p].id # rhs[q].id
  <2>1. q >= j /\ j < q
    <3>1. q \in Nat /\ j \in Nat
      BY <1>2
    <3> QED
      BY <1>11, <3>1
  <2>2. p < i \/ p = i
    <3>1. p \in Nat /\ i \in Nat /\ i' <= i + 1
      BY <1>2
    <3> QED
      BY <1>11, <3>1
  <2>3. rhs[j].id # rhs[q].id
    <3>1. rhs[j].id = rhs[q].id => j = q
      BY <1>2, Distinct
    <3>2. j # q
      BY <1>2, <2>1
    <3> QED
      BY <3>1, <3>2
  <2> QED
    BY <1>7, <2>1, <2>2, <2>3
<1>12. k <= 1 /\ ~ \E p \in DOMAIN lhs : p < k
  BY <1>2, <1>7
<1>13. DivideInv'
  <2>1. DOMAIN out = {}
    BY <1>7, <1>12
  <2>2. ~(k > 1)
    BY <1>2, <1>12
  <2> QED
    BY <1>1, <1>5, <1>9, <1>10, <1>11, <1>12, <2>1, <2>2 DEF DivideInv
<1>14. DivideIsQuotient'
  BY <1>1 DEF DivideIsQuotient, Returned
<1> QED
  BY <1>1, <1>6, <1>13, <1>14, OnlyDivide DEF IInv

LEMMA DivideStepSound ==
  ASSUME IInv, DivideStep
  PROVE  IInv'
<1>1. Running("divide") /\ UNCHANGED <<operands, k, out, result>>
  BY DEF DivideStep
<1>2. /\ IsList(lhs) /\ IsList(rhs)
      /\ i \in 1 .. Len(lhs) + 1 /\ j \in 1 .. Len(rhs) + 1
      /\ Len(rhs) \in Nat /\ DOMAIN rhs = 1 .. Len(rhs)
  BY <1>1, DivideFacts
<1>3. CASE DivideSkip
  <2>1. i <= Len(lhs) /\ j <= Len(rhs) /\ lhs[i].id < rhs[j].id /\ i' = i + 1 /\ j' = j /\ quotient' = quotient
    BY <1>3 DEF DivideSkip
  <2>2. ASSUME NEW q \in DOMAIN rhs, q >= j
        PROVE  lhs[i].id # rhs[q].id
    <3>1. j \in DOMAIN rhs /\ lhs[i].id \in Nat /\ rhs[j].id \in Nat
      BY <1>2, <2>1, Following
    <3>2. rhs[q].id \in Nat /\ (q = j \/ rhs[j].id < rhs[q].id)
      <4>1. q \in Int /\ j \in Int
        BY <1>2
      <4>2. rhs[q].id \in Nat /\ (j < q => rhs[j].id < rhs[q].id)
        BY <1>2, <3>1, ListFacts
      <4>3. q = j \/ j < q
        BY <2>2, <4>1
      <4> QED
        BY <4>2, <4>3
    <3> QED
      BY <2>1, <3>1, <3>2
  <2> QED
    BY <1>1, <2>1, <2>2, Skipped
<1>4. CASE DivideFactor
  <2>1. /\ i <= Len(lhs) /\ j <= Len(rhs) /\ lhs[i].id = rhs[j].id /\ rhs[j].exp <= quotient[i]
        /\ quotient' = [quotient EXCEPT ![i] = @ - rhs[j].exp]
        /\ i' = i + 1 /\ j' = j + 1
    BY <1>4 DEF DivideFactor
  <2> QED
    BY <1>1, <2>1, FoundFactor
<1> QED
  BY <1>3, <1>4 DEF DivideStep

LEMMA DivideSearchSound ==
  ASSUME IInv, DivideSearch
  PROVE  IInv'
<1>1. Running("divide") /\ UNCHANGED <<operands, k, out, result>> /\ i <= Len(lhs) /\ j <= Len(rhs)
      /\ Len(rhs) = 1 /\ rhs[1].exp = 1
  BY DEF DivideSearch, IsAtom
<1>2. /\ IsList(lhs) /\ IsList(rhs) /\ i \in DOMAIN lhs /\ j = 1 /\ DOMAIN rhs = {1}
      /\ quotient[i] \in Nat /\ i \in Nat
  BY <1>1, DivideFacts
<1>3. CASE lhs[i].id = rhs[j].id
  <2>1. quotient' = [quotient EXCEPT ![i] = @ - 1] /\ j' = j + 1 /\ i' = i
    BY <1>3 DEF DivideSearch
  <2>2. quotient' = [quotient EXCEPT ![i] = @ - rhs[j].exp]
    BY <1>1, <1>2, <2>1
  <2>3. quotient[i] = lhs[i].exp
    <3>1. i >= i /\ j <= Len(rhs)
      BY <1>1, <1>2
    <3>2. ~Subtracted(lhs[i].id)
      BY <1>1, <1>2, <3>1 DEF IInv, DivideInv
    <3> QED
      BY <1>1, <1>2, <3>2 DEF IInv, DivideInv
  <2>4. rhs[j].exp <= quotient[i]
    BY <1>1, <1>2, <2>3, ListFacts
  <2>5. i' = i /\ j = Len(rhs)
    BY <1>1, <1>2, <2>1
  <2> QED
    BY <1>1, <1>3, <2>1, <2>2, <2>4, <2>5, FoundFactor
<1>4. CASE lhs[i].id # rhs[j].id
  <2>1. i' = i + 1 /\ quotient' = quotient /\ j' = j
    BY <1>4 DEF DivideSearch
  <2>2. \A q \in DOMAIN rhs : q >= j => lhs[i].id # rhs[q].id
    BY <1>2, <1>4
  <2> QED
    BY <1>1, <2>1, <2>2, Skipped
<1> QED
  BY <1>3, <1>4

\* There is no quotient if some factor of rhs is not in lhs, or with a smaller
\* exponent.
LEMMA DivideFailSound ==
  ASSUME IInv, DivideFail
  PROVE  IInv'
<1>1. /\ call = "divide" /\ result = <<>> /\ call' = "divide" /\ result' = <<FALSE>> /\ i' = i /\ j' = j /\ k' = k
      /\ lhs' = lhs /\ rhs' = rhs /\ cached' = cached /\ quotient' = quotient /\ out' = out
      /\ j <= Len(rhs)
  BY DEF DivideFail, Running, Return, operands
<1>2. Running("divide")
  BY <1>1 DEF Running
<1>3. /\ IsList(lhs) /\ IsList(rhs) /\ Len(lhs) \in Nat /\ DOMAIN lhs = 1 .. Len(lhs)
      /\ i \in 1 .. Len(lhs) + 1 /\ j \in 1 .. Len(rhs) + 1
  BY <1>2, DivideFacts
<1>4. j \in DOMAIN rhs /\ rhs[j].id \in Nat /\ rhs[j].id \in Ids(rhs) /\ rhs[j].exp \in Nat /\ rhs[j].exp > 0
      /\ Exp(rhs, rhs[j].id) = rhs[j].exp /\ Exp(lhs, rhs[j].id) \in Nat
  BY <1>1, <1>3, Following, ListFacts, MonomialOf
<1>5. Exp(lhs, rhs[j].id) < rhs[j].exp
  <2>1. \A p \in DOMAIN lhs : p < i => lhs[p].id # rhs[j].id
    <3>1. j >= j
      BY <1>3
    <3> QED
      BY <1>2, <1>4, <3>1 DEF IInv, DivideInv
  <2>2. CASE i <= Len(lhs) => rhs[j].id < lhs[i].id
    <3>1. rhs[j].id \notin Ids(lhs)
      BY <1>3, <1>4, <2>1, <2>2, AbsentFrom
    <3> QED
      BY <1>3, <1>4, <3>1, MonomialOf
  <2>3. CASE i <= Len(lhs) /\ lhs[i].id = rhs[j].id /\ rhs[j].exp > quotient[i]
    <3>1. i \in DOMAIN lhs /\ i >= i
      BY <1>3, <2>3
    <3>2. quotient[i] = lhs[i].exp
      <4>1. ~Subtracted(lhs[i].id)
        BY <1>1, <1>2, <3>1 DEF IInv, DivideInv
      <4> QED
        BY <1>2, <3>1, <4>1 DEF IInv, DivideInv
    <3>3. Exp(lhs, rhs[j].id) = lhs[i].exp /\ lhs[i].exp \in Nat
      BY <1>3, <2>3, <3>1, MonomialOf, ListFacts
    <3> QED
      BY <1>4, <2>3, <3>2, <3>3
  <2>4. \/ i > Len(lhs)
        \/ i <= Len(lhs) /\ lhs[i].id > rhs[j].id
        \/ i <= Len(lhs) /\ lhs[i].id = rhs[j].id /\ rhs[j].exp > quotient[i]
    BY DEF DivideFail
  <2>5. i > Len(lhs) => ~(i <= Len(lhs))
    BY <1>3
  <2>6. i <= Len(lhs) /\ lhs[i].id > rhs[j].id => rhs[j].id < lhs[i].id
    BY <1>3, <1>4, Following
  <2> QED
    BY <2>2, <2>3, <2>4, <2>5, <2>6
<1>6. ~Divides(Monomial(rhs), Monomial(lhs))
  <2>1. ~(Exp(rhs, rhs[j].id) <= Exp(lhs, rhs[j].id))
    BY <1>4, <1>5
  <2> QED
    BY <1>3, <1>4, <2>1, DividesOf
<1>7. DivideIsQuotient'
  BY <1>1, <1>6 DEF DivideIsQuotient, Value
<1>8. Types' /\ DivideInv'
  BY <1>1 DEF IInv, Types, DivideInv, Running
<1> QED
  BY <1>1, <1>7, <1>8, OnlyDivide DEF IInv

LEMMA DivideCollectSound ==
  ASSUME IInv, DivideCollect
  PROVE  IInv'
<1>1. /\ call = "divide" /\ result = <<>> /\ call' = "divide" /\ result' = <<>> /\ i' = i /\ j' = j /\ k' = k + 1
      /\ lhs' = lhs /\ rhs' = rhs /\ cached' = cached /\ quotient' = quotient
      /\ j > Len(rhs) /\ k <= Len(lhs)
  BY DEF DivideCollect, Collecting, Running, operands
<1>2. Running("divide")
  BY <1>1 DEF Running
<1>3. /\ IsList(lhs) /\ IsList(out) /\ Len(lhs) \in Nat /\ DOMAIN lhs = 1 .. Len(lhs)
      /\ k \in 1 .. Len(lhs) + 1 /\ k \in DOMAIN lhs /\ quotient[k] \in Nat
  BY <1>1, <1>2, DivideFacts
<1>4. /\ \A n \in DOMAIN out : \E p \in DOMAIN lhs :
           p < k /\ quotient[p] # 0 /\ out[n].id = lhs[p].id /\ out[n].exp = quotient[p]
      /\ \A p \in DOMAIN lhs : p < k /\ quotient[p] # 0 => lhs[p].id \in Ids(out)
  BY <1>2 DEF IInv, DivideInv
<1>5. /\ IsList(out')
      /\ \A n \in DOMAIN out' : \E p \in DOMAIN lhs :
           p < k' /\ quotient[p] # 0 /\ out'[n].id = lhs[p].id /\ out'[n].exp = quotient[p]
      /\ \A p \in DOMAIN lhs : p < k' /\ quotient[p] # 0 => lhs[p].id \in Ids(out')
  <2>1. CASE quotient[k] = 0
    <3>1. out' = out
      BY <2>1 DEF DivideCollect
    <3>2. \A p \in DOMAIN lhs : p < k' /\ quotient[p] # 0 <=> p < k /\ quotient[p] # 0
      BY <1>1, <1>3, <2>1
    <3> QED
      BY <1>3, <1>4, <3>1, <3>2
  <2>2. CASE quotient[k] # 0
    <3> DEFINE f == [id |-> lhs[k].id, exp |-> quotient[k]]
    <3>1. out' = Append(out, f)
      BY <2>2 DEF DivideCollect, Push
    <3>2. f \in Factor /\ f.id = lhs[k].id /\ f.exp = quotient[k]
      <4>1. lhs[k] \in Factor
        BY <1>3, ListFacts
      <4> QED
        BY <1>3, <2>2, <4>1 DEF Factor
    <3> HIDE DEF f
    <3>3. \A n \in DOMAIN out : out[n].id < f.id
      BY <1>3, <1>4, <3>2, ListFacts
    <3>4. /\ IsList(out') /\ DOMAIN out' = 1 .. Len(out) + 1
          /\ \A n \in DOMAIN out : out'[n] = out[n]
          /\ out'[Len(out) + 1] = f
          /\ Ids(out') = Ids(out) \cup {f.id}
      BY <1>3, <3>1, <3>2, <3>3, Appended
    <3>5. \A p \in DOMAIN lhs : p < k' <=> p < k \/ p = k
      BY <1>1, <1>3
    <3>6. ASSUME NEW n \in DOMAIN out'
          PROVE  \E p \in DOMAIN lhs :
                   p < k' /\ quotient[p] # 0 /\ out'[n].id = lhs[p].id /\ out'[n].exp = quotient[p]
      <4>1. n \in DOMAIN out \/ n = Len(out) + 1
        BY <1>3, <3>4, ListFacts
      <4>2. CASE n = Len(out) + 1
        BY <1>3, <2>2, <3>2, <3>4, <3>5, <4>2
      <4>3. CASE n \in DOMAIN out
        <5>1. PICK p \in DOMAIN lhs :
                p < k /\ quotient[p] # 0 /\ out[n].id = lhs[p].id /\ out[n].exp = quotient[p]
          BY <1>4, <4>3
        <5> QED
          BY <3>4, <3>5, <4>3, <5>1
      <4> QED
        BY <4>1, <4>2, <4>3
    <3> QED
      BY <1>4, <3>2, <3>4, <3>5, <3>6
  <2> QED
    BY <2>1, <2>2
<1>6. Types'
  <2>1. Types
    BY DEF IInv
  <2> QED
    BY <1>1, <1>3, <1>5, <2>1 DEF Types
<1>7. DivideInv'
  BY <1>1, <1>2, <1>5 DEF IInv, DivideInv, Subtracted, Running
<1>8. DivideIsQuotient'
  BY <1>1 DEF DivideIsQuotient, Returned
<1> QED
  BY <1>1, <1>6, <1>7, <1>8, OnlyDivide DEF IInv

LEMMA DivideReturnSound ==
  ASSUME IInv, DivideReturn
  PROVE  IInv'
<1>1. /\ call = "divide" /\ result = <<>> /\ call' = "divide" /\ result' = <<TRUE>> /\ i' = i /\ j' = j /\ k' = k
      /\ lhs' = lhs /\ rhs' = rhs /\ cached' = cached /\ quotient' = quotient /\ out' = out
      /\ j > Len(rhs) /\ k > Len(lhs)
  BY DEF DivideReturn, Collecting, Running, Return, operands
<1>2. Running("divide")
  BY <1>1 DEF Running
<1>3. /\ IsList(lhs) /\ IsList(rhs) /\ IsList(out)
      /\ \A q \in DOMAIN rhs : q < j
      /\ \A p \in DOMAIN lhs : p < k /\ quotient[p] \in Nat
  BY <1>1, <1>2, DivideFacts
<1>4. ASSUME NEW p \in DOMAIN lhs
      PROVE  quotient[p] = lhs[p].exp - Exp(rhs, lhs[p].id)
  <2>1. lhs[p].id \in Ids(rhs) <=> Subtracted(lhs[p].id)
    BY <1>3 DEF Ids, Subtracted
  <2>2. /\ Subtracted(lhs[p].id) => quotient[p] = lhs[p].exp - Exp(rhs, lhs[p].id)
        /\ ~Subtracted(lhs[p].id) => quotient[p] = lhs[p].exp
    BY <1>2 DEF IInv, DivideInv
  <2>3. lhs[p].exp \in Nat
    BY <1>3, ListFacts
  <2>4. lhs[p].id \notin Ids(rhs) => Exp(rhs, lhs[p].id) = 0
    BY <1>3, MonomialOf
  <2> QED
    BY <2>1, <2>2, <2>3, <2>4
<1>5. Divides(Monomial(rhs), Monomial(lhs))
  <2>1. ASSUME NEW m \in Ids(rhs)
        PROVE  Exp(rhs, m) <= Exp(lhs, m)
    <3>1. PICK q \in DOMAIN rhs : rhs[q].id = m
      BY DEF Ids
    <3>2. rhs[q].exp <= Exp(lhs, rhs[q].id)
      BY <1>2, <1>3 DEF IInv, DivideInv
    <3>3. Exp(rhs, m) = rhs[q].exp
      BY <1>3, <3>1, MonomialOf
    <3> QED
      BY <3>1, <3>2, <3>3
  <2> QED
    BY <1>3, <2>1, DividesOf
<1>6. \A p \in DOMAIN lhs : Exp(lhs, lhs[p].id) = lhs[p].exp /\ lhs[p].exp \in Nat /\ Exp(rhs, lhs[p].id) \in Nat
  BY <1>3, MonomialOf, ListFacts
<1>7. \A p \in DOMAIN lhs : quotient[p] # 0 <=> Exp(lhs, lhs[p].id) > Exp(rhs, lhs[p].id)
  BY <1>3, <1>4, <1>6
<1>8. \A n \in DOMAIN out : \E p \in DOMAIN lhs :
        quotient[p] # 0 /\ out[n].id = lhs[p].id /\ out[n].exp = quotient[p]
  BY <1>2 DEF IInv, DivideInv
<1>9. \A p \in DOMAIN lhs : quotient[p] # 0 => lhs[p].id \in Ids(out)
  BY <1>2, <1>3 DEF IInv, DivideInv
<1>10. Ids(out) = {m \in Ids(lhs) : Exp(lhs, m) > Exp(rhs, m)}
  <2>1. ASSUME NEW m \in Ids(out)
        PROVE  m \in Ids(lhs) /\ Exp(lhs, m) > Exp(rhs, m)
    <3>1. PICK n \in DOMAIN out : out[n].id = m
      BY DEF Ids
    <3>2. PICK p \in DOMAIN lhs : quotient[p] # 0 /\ m = lhs[p].id
      BY <1>8, <3>1
    <3>3. m \in Ids(lhs)
      BY <3>2 DEF Ids
    <3> QED
      BY <1>7, <3>2, <3>3
  <2>2. ASSUME NEW m \in Ids(lhs), Exp(lhs, m) > Exp(rhs, m)
        PROVE  m \in Ids(out)
    <3>1. PICK p \in DOMAIN lhs : lhs[p].id = m
      BY DEF Ids
    <3> QED
      BY <1>7, <1>9, <2>2, <3>1
  <2> QED
    BY <2>1, <2>2
<1>11. ASSUME NEW m \in Ids(out)
       PROVE  Exp(out, m) = Exp(lhs, m) - Exp(rhs, m)
  <2>1. PICK n \in DOMAIN out : out[n].id = m
    BY DEF Ids
  <2>2. PICK p \in DOMAIN lhs : m = lhs[p].id /\ out[n].exp = quotient[p]
    BY <1>8, <2>1
  <2>3. Exp(out, m) = out[n].exp
    BY <1>3, <2>1, MonomialOf
  <2> QED
    BY <1>4, <1>6, <2>2, <2>3
<1>12. Monomial(out) = Quotient(Monomial(lhs), Monomial(rhs))
  BY <1>3, <1>10, <1>11, QuotientOf
<1>13. DivideIsQuotient'
  BY <1>1, <1>5, <1>12 DEF DivideIsQuotient, Value
<1>14. Types' /\ DivideInv'
  BY <1>1 DEF IInv, Types, DivideInv, Running
<1> QED
  BY <1>1, <1>13, <1>14, OnlyDivide DEF IInv

-----------------------------------------------------------------------------
(* All steps. *)

\* What deglex returns is proved at the end of this module; here its indices
\* stay in range.
LEMMA DeglexSound ==
  ASSUME IInv, DeglexAtoms \/ DeglexSame \/ DeglexDegree \/ DeglexStep \/ DeglexReturn
  PROVE  IInv'
<1>1. /\ call = "deglex" /\ result = <<>> /\ call' = "deglex" /\ k' = k
      /\ lhs' = lhs /\ rhs' = rhs /\ cached' = cached /\ quotient' = quotient /\ out' = out
  BY DEF DeglexAtoms, DeglexSame, DeglexDegree, DeglexStep, DeglexReturn, ComparingFactors, Running, Return, operands
<1>2. Len(lhs) \in Nat /\ Len(rhs) \in Nat /\ i \in 1 .. Len(lhs) + 1 /\ j \in 1 .. Len(rhs) + 1
  BY ListFacts DEF IInv, Types
<1>3. i' \in 1 .. Len(lhs) + 1 /\ j' \in 1 .. Len(rhs) + 1 /\ Len(result') <= 1
  <2>1. CASE DeglexStep
    BY <1>1, <1>2, <2>1 DEF DeglexStep
  <2>2. CASE DeglexAtoms \/ DeglexSame \/ DeglexDegree \/ DeglexReturn
    <3>1. i' = i /\ j' = j /\ \E v : result' = <<v>>
      BY <2>2 DEF DeglexAtoms, DeglexSame, DeglexDegree, DeglexReturn, Return
    <3> QED
      BY <1>2, <3>1
  <2> QED
    BY <2>1, <2>2
<1>4. Types'
  BY <1>1, <1>3 DEF IInv, Types
<1> QED
  BY <1>1, <1>4
  DEF IInv, AtRest, PersistInv, EqualInv, DivideInv, Merges, Recognizes, DivideIsQuotient, Running, Returned

LEMMA EmptyList ==
  /\ IsList(<<>>)
  /\ Len(<<>>) = 0
BY DEF IsList, Sorted

\* A call with sorted lists of factors.
LEMMA CallSound ==
  ASSUME IInv, NEW name \in {"persist", "equal", "divide", "deglex"}, NEW l, NEW r, NEW c,
         IsList(l), IsList(r), IsList(c), name = "persist" => l # <<>> /\ r # <<>>,
         Call(name, l, r, c)
  PROVE  IInv'
<1>1. /\ call' = name /\ lhs' = l /\ rhs' = r /\ cached' = c
      /\ i' = 1 /\ j' = 1 /\ k' = 1 /\ out' = <<>> /\ result' = <<>>
      /\ quotient' = IF name = "divide" THEN [n \in DOMAIN l |-> l[n].exp] ELSE <<>>
  BY DEF Call, IInv, AtRest
<1>2. /\ Len(l) \in Nat /\ DOMAIN l = 1 .. Len(l) /\ Len(r) \in Nat /\ DOMAIN r = 1 .. Len(r) /\ Len(c) \in Nat
      /\ \A n \in DOMAIN l : l[n].exp \in Nat
      /\ DOMAIN c = 1 .. Len(c)
  BY ListFacts
<1>3. [n \in DOMAIN l |-> l[n].exp] \in Seq(Nat) /\ Len([n \in DOMAIN l |-> l[n].exp]) = Len(l)
  BY <1>2
<1>4. quotient' \in Seq(Nat)
  BY <1>1, <1>3
<1>5. Types'
  <2>1. Len(IF name = "divide" THEN l ELSE c) \in Nat
    BY <1>2
  <2>2. 1 \in 1 .. Len(l) + 1 /\ 1 \in 1 .. Len(r) + 1 /\ 1 \in 1 .. Len(IF name = "divide" THEN l ELSE c) + 1
    BY <1>2, <2>1
  <2> QED
    BY <1>1, <1>4, <2>2, EmptyList DEF Types
<1>6. DOMAIN out' = {} /\ (\A p \in DOMAIN l : ~(p < 1)) /\ (\A q \in DOMAIN r : ~(q < 1))
      /\ \A n \in DOMAIN c : ~(n < 1)
  BY <1>1, <1>2
<1>7. PersistInv'
  BY <1>1, <1>6 DEF PersistInv, Running
<1>8. EqualInv'
  BY <1>1, <1>6 DEF EqualInv, Running
<1>9. DivideInv'
  <2> SUFFICES ASSUME name = "divide" PROVE DivideInv'
    BY <1>1 DEF DivideInv, Running
  <2>1. \A p \in DOMAIN l : quotient'[p] = l[p].exp
    BY <1>1
  <2>2. Len(quotient') = Len(l)
    BY <1>1, <1>3
  <2>3. \A id : ~Subtracted(id)'
    BY <1>1, <1>6 DEF Subtracted
  <2>4. ~(k' > 1)
    BY <1>1
  <2> QED
    BY <1>1, <1>6, <2>1, <2>2, <2>3, <2>4 DEF DivideInv
<1>10. AtRest' /\ Merges' /\ Recognizes' /\ DivideIsQuotient'
  BY <1>1 DEF AtRest, Merges, Recognizes, DivideIsQuotient, Returned
<1> QED
  BY <1>5, <1>7, <1>8, <1>9, <1>10 DEF IInv

LEMMA StartSound ==
  ASSUME IInv, Start
  PROVE  IInv'
<1>1. MaxExponent \in Nat /\ MaxExponent + 1 \in Nat
  BY KeyAssumption
<1>2. \A x \in Operands : IsList(OperandFactors(x)) /\ OperandFactors(x) # <<>>
  BY OperandLists
<1>3. /\ \A l \in Factors(MaxExponent) : IsList(l)
      /\ \A l \in Products(MaxExponent) : IsList(l)
      /\ \A c \in CachedKeys : IsList(c)
  BY <1>1, FactorLists DEF Products, CachedKeys
<1>4. CASE PersistCall
  <2>1. PICK l \in Operands, r \in Operands : Call("persist", OperandFactors(l), OperandFactors(r), <<>>)
    BY <1>4 DEF PersistCall
  <2> QED
    BY <1>2, <2>1, CallSound, EmptyList
<1>5. CASE EqualCall
  <2>1. PICK l \in Operands, r \in Operands, c \in CachedKeys :
          Call("equal", OperandFactors(l), OperandFactors(r), c)
    BY <1>5 DEF EqualCall
  <2> QED
    BY <1>2, <1>3, <2>1, CallSound
<1>6. CASE DivideCall
  <2>1. PICK l \in Products(MaxExponent) :
          \/ Call("divide", l, <<>>, <<>>)
          \/ \E r \in Operands : Call("divide", l, OperandFactors(r), <<>>)
    BY <1>6 DEF DivideCall
  <2>2. CASE Call("divide", l, <<>>, <<>>)
    BY <1>3, <2>1, <2>2, CallSound, EmptyList
  <2>3. CASE \E r \in Operands : Call("divide", l, OperandFactors(r), <<>>)
    BY <1>2, <1>3, <2>1, <2>3, CallSound, EmptyList
  <2> QED
    BY <2>1, <2>2, <2>3
<1>7. CASE DeglexCall
  <2>1. PICK l \in Factors(MaxExponent), r \in Factors(MaxExponent) : Call("deglex", l, r, <<>>)
    BY <1>7 DEF DeglexCall
  <2> QED
    BY <1>3, <2>1, CallSound, EmptyList
<1> QED
  BY <1>4, <1>5, <1>6, <1>7 DEF Start

LEMMA DoneSound ==
  ASSUME IInv, Done
  PROVE  IInv'
<1>1. /\ call' = "none" /\ lhs' = <<>> /\ rhs' = <<>> /\ cached' = <<>>
      /\ i' = 1 /\ j' = 1 /\ k' = 1 /\ quotient' = <<>> /\ out' = <<>> /\ result' = <<>>
  BY DEF Done
<1>2. Types'
  BY <1>1, EmptyList DEF Types
<1> QED
  BY <1>1, <1>2
  DEF IInv, AtRest, PersistInv, EqualInv, DivideInv, Merges, Recognizes, DivideIsQuotient, Running, Returned

LEMMA Inductive ==
  Spec => []IInv
<1>1. Init => IInv
  <2> SUFFICES ASSUME Init PROVE IInv
    OBVIOUS
  <2>1. Types
    BY EmptyList DEF Init, Types
  <2> QED
    BY <2>1
    DEF Init, IInv, AtRest, PersistInv, EqualInv, DivideInv, Merges, Recognizes, DivideIsQuotient, Running, Returned
<1>2. IInv /\ [Next]_vars => IInv'
  <2> SUFFICES ASSUME IInv, [Next]_vars PROVE IInv'
    OBVIOUS
  <2>1. CASE Start
    BY <2>1, StartSound
  <2>2. CASE PersistStep \/ PersistReturn \/ PersistSquare
    BY <2>2, PersistStepSound, PersistReturnSound, PersistSquareSound
  <2>3. CASE EqualStep \/ EqualMismatch \/ EqualReturn
    BY <2>3, EqualStepSound, EqualMismatchSound, EqualReturnSound
  <2>4. CASE DivideByOne \/ DivideStep \/ DivideSearch \/ DivideFail \/ DivideCollect \/ DivideReturn
    BY <2>4, DivideByOneSound, DivideStepSound, DivideSearchSound, DivideFailSound, DivideCollectSound,
       DivideReturnSound
  <2>5. CASE DeglexAtoms \/ DeglexSame \/ DeglexDegree \/ DeglexStep \/ DeglexReturn
    BY <2>5, DeglexSound
  <2>6. CASE Done
    BY <2>6, DoneSound
  <2>7. CASE UNCHANGED vars
    BY <2>7
    DEF vars, IInv, Types, AtRest, PersistInv, EqualInv, DivideInv, Merges, Recognizes, DivideIsQuotient,
        Running, Returned, Value, Subtracted
  <2> QED
    BY <2>1, <2>2, <2>3, <2>4, <2>5, <2>6, <2>7 DEF Next, Step
<1> QED
  BY <1>1, <1>2, PTL DEF Spec

\* The indices of all loops over factors stay in range, and all lists are sorted
\* by id, for operands with any number of factors.
THEOREM TypeCorrect ==
  Spec => []TypeOK
<1>1. IInv => TypeOK
  <2> SUFFICES ASSUME IInv PROVE TypeOK
    OBVIOUS
  <2>1. ASSUME NEW l, IsList(l)
        PROVE  AreFactors(l) /\ Sorted(l)
    <3>1. \A n \in DOMAIN l : l[n] \in Factor
      BY <2>1, ListFacts
    <3> QED
      BY <2>1, <3>1 DEF AreFactors, IsList, Factor
  <2> QED
    BY <2>1 DEF IInv, Types, TypeOK
<1> QED
  BY <1>1, Inductive, PTL

\* Key::persist merges the factors of its operands into those of their product.
THEOREM MergeIsProduct ==
  Spec => []Merges
BY Inductive, PTL DEF IInv

\* Key== recognizes the key of the product of two operands, and no other.
THEOREM KeyIsRecognized ==
  Spec => []Recognizes
BY Inductive, PTL DEF IInv

\* operator/ finds the quotient of two products if and only if there is one.
THEOREM QuotientIsFound ==
  Spec => []DivideIsQuotient
BY Inductive, PTL DEF IInv

-----------------------------------------------------------------------------
(***************************************************************************)
(* What the loops over factors compute with numbers: the hash of a product *)
(* in the arithmetic of size_t, and its total degree.  The hash that is    *)
(* computed from the hashes of two operands is the one that is computed    *)
(* from the factors of their product, and deglex is a monomial order, for  *)
(* lists of factors of any length and for words of any size.               *)
(***************************************************************************)

\* The values of a size_t, their multiplication and its neutral element.
Word == 0 .. WordSize - 1
Mul(a, b) == (a * b) % WordSize
One == 1 % WordSize

-----------------------------------------------------------------------------
(* Arithmetic modulo the size of a word. *)

LEMMA Division ==
  ASSUME NEW w \in Nat, w > 0, NEW a \in Nat
  PROVE  a % w \in 0 .. w - 1 /\ a \div w \in Nat /\ a = w * (a \div w) + (a % w)
<1>1. a % w \in 0 .. w - 1
  OBVIOUS
<1>2. a \div w \in Int
  OBVIOUS
<1>3. a = w * (a \div w) + (a % w)
  OBVIOUS
<1>4. a \div w >= 0
  <2> SUFFICES ASSUME a \div w <= -1
               PROVE  FALSE
    BY <1>2
  <2>1. w * (a \div w) <= -w
    BY <1>2
  <2> QED
    BY <1>1, <1>2, <1>3, <2>1
<1> QED
  BY <1>1, <1>2, <1>3, <1>4

LEMMA Residue ==
  ASSUME NEW w \in Nat, w > 0, NEW q \in Nat, NEW r \in 0 .. w - 1
  PROVE  (w * q + r) % w = r
OBVIOUS

\* A factor may be reduced before it is multiplied.
LEMMA Reduced ==
  ASSUME NEW w \in Nat, w > 0, NEW a \in Nat, NEW b \in Nat
  PROVE  (a * (b % w)) % w = (a * b) % w
<1> DEFINE q == b \div w
           r == b % w
<1>1. q \in Nat /\ r \in Nat /\ b = w * q + r
  BY Division
<1> HIDE DEF q, r
<1>2. a * b = w * (a * q) + a * r
  BY <1>1
<1>3. a * r \in Nat /\ a * q \in Nat
  BY <1>1
<1> DEFINE s == (a * r) \div w
           t == (a * r) % w
<1>4. s \in Nat /\ t \in 0 .. w - 1 /\ a * r = w * s + t
  BY <1>3, Division
<1> HIDE DEF s, t
<1>5. a * b = w * (a * q + s) + t
  BY <1>2, <1>3, <1>4
<1>6. a * q + s \in Nat
  BY <1>3, <1>4
<1>7. (a * b) % w = t
  BY <1>4, <1>5, <1>6, Residue
<1> QED
  BY <1>7 DEF t, r

LEMMA WordFacts == WordSize \in Nat /\ WordSize > 0
BY KeyAssumption

LEMMA Multiplication ==
  /\ One \in Word
  /\ \A a \in Nat : a % WordSize \in Word
  /\ \A a \in Word : a \in Nat /\ a % WordSize = a /\ Mul(One, a) = a
  /\ \A a, b \in Nat : Mul(a, b) \in Word /\ Mul(a, b) = Mul(b, a)
  /\ \A a, b \in Nat : Mul(a, b % WordSize) = Mul(a, b)
  /\ \A a, b, c \in Nat : Mul(a, Mul(b, c)) = Mul(Mul(a, b), c)
<1>1. WordSize \in Nat /\ WordSize > 0
  BY WordFacts
<1>2. \A a \in Nat : a % WordSize \in Word
  BY <1>1 DEF Word
<1>3. \A a, b \in Nat : Mul(a, b % WordSize) = Mul(a, b)
  BY <1>1, Reduced DEF Mul
<1>4. \A a, b \in Nat : a * b \in Nat /\ a * b = b * a
  OBVIOUS
<1>5. \A a, b \in Nat : Mul(a, b) \in Word /\ Mul(a, b) = Mul(b, a)
  BY <1>2, <1>4 DEF Mul
<1>6. ASSUME NEW a \in Word
      PROVE  a \in Nat /\ a % WordSize = a /\ Mul(One, a) = a
  <2>1. a \in Nat
    BY DEF Word
  <2>2. a % WordSize = a
    BY <1>1 DEF Word
  <2>3. Mul(One, a) = Mul(a, 1 % WordSize)
    BY <1>2, <1>5, <2>1 DEF One, Word
  <2>4. Mul(a, 1 % WordSize) = a % WordSize
    <3>1. Mul(a, 1 % WordSize) = Mul(a, 1)
      BY <1>3, <2>1
    <3>2. a * 1 = a
      BY <2>1
    <3> QED
      BY <3>1, <3>2 DEF Mul
  <2> QED
    BY <2>1, <2>2, <2>3, <2>4
<1>7. ASSUME NEW a \in Nat, NEW b \in Nat, NEW c \in Nat
      PROVE  Mul(a, Mul(b, c)) = Mul(Mul(a, b), c)
  <2>1. a * b \in Nat /\ b * c \in Nat
    BY <1>4
  <2>2. Mul(a, Mul(b, c)) = (a * (b * c)) % WordSize
    BY <1>3, <2>1 DEF Mul
  <2>3. Mul(Mul(a, b), c) = (c * (a * b)) % WordSize
    <3>1. Mul(a, b) \in Nat
      BY <1>5 DEF Word
    <3>2. Mul(Mul(a, b), c) = Mul(c, Mul(a, b))
      BY <1>5, <3>1
    <3> QED
      BY <1>3, <2>1, <3>2 DEF Mul
  <2>4. a * (b * c) = c * (a * b)
    OBVIOUS
  <2> QED
    BY <2>2, <2>3, <2>4
<1>8. One \in Word
  BY <1>2 DEF One
<1> QED
  BY <1>2, <1>3, <1>5, <1>6, <1>7, <1>8

LEMMA Exchange ==
  ASSUME NEW a \in Nat, NEW b \in Nat, NEW c \in Nat, NEW d \in Nat
  PROVE  Mul(Mul(a, b), Mul(c, d)) = Mul(Mul(a, c), Mul(b, d))
<1>1. \A x, y \in Nat : Mul(x, y) \in Nat /\ Mul(x, y) = Mul(y, x)
  BY Multiplication
<1>2. \A x, y, z \in Nat : Mul(x, Mul(y, z)) = Mul(Mul(x, y), z)
  BY Multiplication
<1>3. Mul(Mul(a, b), Mul(c, d)) = Mul(a, Mul(b, Mul(c, d)))
  BY <1>1, <1>2
<1>4. Mul(b, Mul(c, d)) = Mul(c, Mul(b, d))
  BY <1>1, <1>2
<1>5. Mul(a, Mul(c, Mul(b, d))) = Mul(Mul(a, c), Mul(b, d))
  BY <1>1, <1>2
<1> QED
  BY <1>3, <1>4, <1>5

-----------------------------------------------------------------------------
(* Powers, multiplied up one by one. *)

IsPowers(b, g) ==
  /\ g \in [Nat -> Word]
  /\ g[0] = One
  /\ \A n \in Nat : g[n + 1] = Mul(b, g[n])

Powers(b) == CHOOSE g : IsPowers(b, g)

LEMMA PowersExist ==
  ASSUME NEW b \in Nat
  PROVE  IsPowers(b, Powers(b))
<1> DEFINE h == [x \in Nat \X Word |-> Mul(b, x[2])]
<1>1. IsStep(h, Word)
  BY Multiplication DEF IsStep
<1>2. \A n \in Nat, v \in Word : h[<<n, v>>] = Mul(b, v)
  OBVIOUS
<1> HIDE DEF h
<1>3. PICK g : Follows(g, Word, One, h)
  <2>1. One \in Word
    BY Multiplication
  <2> QED
    BY <1>1, <2>1, Recursion
<1>4. IsPowers(b, g)
  BY <1>2, <1>3 DEF IsPowers, Follows
<1> QED
  BY <1>4 DEF Powers

LEMMA PowersAdd ==
  ASSUME NEW b \in Nat, NEW e \in Nat
  PROVE  \A f \in Nat : Powers(b)[e + f] = Mul(Powers(b)[e], Powers(b)[f])
<1> DEFINE p == Powers(b)
<1>1. p \in [Nat -> Word] /\ p[0] = One /\ \A n \in Nat : p[n + 1] = Mul(b, p[n])
  <2>1. IsPowers(b, p)
    BY PowersExist
  <2> QED
    BY <2>1 DEF IsPowers
<1> HIDE DEF p
<1>2. \A n \in Nat : p[n] \in Word /\ p[n] \in Nat
  BY <1>1, Multiplication
<1> DEFINE S == {f \in Nat : p[e + f] = Mul(p[e], p[f])}
<1>3. 0 \in S
  <2>1. Mul(p[e], One) = p[e]
    BY <1>1, <1>2, Multiplication
  <2> QED
    BY <1>1, <2>1
<1>4. ASSUME NEW f \in Nat, f \in S
      PROVE  f + 1 \in S
  <2>1. p[e + f] = Mul(p[e], p[f])
    BY <1>4
  <2>2. e + f \in Nat /\ e + (f + 1) = (e + f) + 1
    OBVIOUS
  <2>3. p[e + (f + 1)] = Mul(b, Mul(p[e], p[f]))
    BY <1>1, <2>1, <2>2
  <2>4. Mul(p[e], p[f + 1]) = Mul(p[e], Mul(b, p[f]))
    BY <1>1
  <2>5. Mul(b, Mul(p[e], p[f])) = Mul(Mul(b, p[e]), p[f]) /\ Mul(p[e], Mul(b, p[f])) = Mul(Mul(p[e], b), p[f])
    <3> DEFINE x == p[e]
               y == p[f]
    <3>1. x \in Nat /\ y \in Nat /\ b \in Nat
      BY <1>2
    <3> HIDE DEF x, y
    <3>2. Mul(b, Mul(x, y)) = Mul(Mul(b, x), y) /\ Mul(x, Mul(b, y)) = Mul(Mul(x, b), y)
      BY <3>1, Multiplication
    <3> QED
      BY <3>2 DEF x, y
  <2>6. Mul(b, p[e]) = Mul(p[e], b)
    BY <1>2, Multiplication
  <2> QED
    BY <2>3, <2>4, <2>5, <2>6
<1> HIDE DEF S
<1>5. \A f \in Nat : f \in S
  BY <1>3, <1>4, Iterating!Induct
<1> QED
  BY <1>5 DEF S, p

\* Squaring the base halves the exponent.
LEMMA PowersSquare ==
  ASSUME NEW b \in Nat
  PROVE  \A h \in Nat : Powers((b * b) % WordSize)[h] = Powers(b)[2 * h]
<1> DEFINE p == Powers(b)
           c == (b * b) % WordSize
           q == Powers(c)
           S == {h \in Nat : q[h] = p[2 * h]}
<1>1. c = Mul(b, b) /\ c \in Word /\ c \in Nat
  BY Multiplication DEF Mul
<1>2. IsPowers(b, p) /\ IsPowers(c, q)
  BY <1>1, PowersExist
<1> HIDE DEF p, q, c
<1>3. 0 \in S
  BY <1>2 DEF IsPowers
<1>4. ASSUME NEW h \in Nat, h \in S
      PROVE  h + 1 \in S
  <2>1. 2 * h \in Nat /\ 2 * h + 1 \in Nat /\ 2 * (h + 1) = (2 * h + 1) + 1
    OBVIOUS
  <2>2. q[h] = p[2 * h] /\ p[2 * h] \in Nat
    BY <1>2, <1>4, <2>1, Multiplication DEF IsPowers
  <2>3. q[h + 1] = Mul(c, p[2 * h])
    BY <1>2, <2>2 DEF IsPowers
  <2>4. p[2 * (h + 1)] = Mul(b, Mul(b, p[2 * h]))
    <3>1. p[2 * h + 1] = Mul(b, p[2 * h])
      BY <1>2, <2>1 DEF IsPowers
    <3>2. p[(2 * h + 1) + 1] = Mul(b, p[2 * h + 1])
      BY <1>2, <2>1 DEF IsPowers
    <3> QED
      BY <2>1, <3>1, <3>2
  <2>5. Mul(b, Mul(b, p[2 * h])) = Mul(Mul(b, b), p[2 * h])
    <3> DEFINE d == p[2 * h]
    <3>1. d \in Nat
      BY <2>2
    <3> HIDE DEF d
    <3>2. Mul(b, Mul(b, d)) = Mul(Mul(b, b), d)
      BY <3>1, Multiplication
    <3> QED
      BY <3>2 DEF d
  <2> QED
    BY <1>1, <2>3, <2>4, <2>5
<1> HIDE DEF S
<1>5. \A h \in Nat : h \in S
  BY <1>3, <1>4, Iterating!Induct
<1> QED
  BY <1>5 DEF S, p, q, c

\* The recursion of the code, in terms of f.
Squaring(f) ==
  f = [x \in (0 .. WordSize - 1) \X Nat |->
         LET b == x[1]
             e == x[2]
         IN  IF e = 0 THEN 1 % WordSize
             ELSE ((IF e % 2 = 1 THEN b ELSE 1) * f[<<(b * b) % WordSize, e \div 2>>]) % WordSize]

LEMMA SquaringOfPowers ==
  ASSUME NEW b \in Word, NEW e \in Nat
  PROVE  Powers(b)[e] =
           IF e = 0 THEN 1 % WordSize
           ELSE ((IF e % 2 = 1 THEN b ELSE 1) * Powers((b * b) % WordSize)[e \div 2]) % WordSize
<1>1. b \in Nat /\ b * b \in Nat
  BY Multiplication
<1>2. IsPowers(b, Powers(b))
  BY <1>1, PowersExist
<1> DEFINE h == e \div 2
<1>3. h \in Nat /\ ((e = 2 * h /\ e % 2 = 0) \/ (e = 2 * h + 1 /\ e % 2 = 1))
  <2>1. e % 2 = 0 \/ e % 2 = 1
    OBVIOUS
  <2>2. h \in Nat /\ e = 2 * h + (e % 2)
    OBVIOUS
  <2> QED
    BY <2>1, <2>2
<1> HIDE DEF h
<1>4. Powers((b * b) % WordSize)[h] = Powers(b)[2 * h]
  BY <1>1, <1>3, PowersSquare
<1>5. Powers(b)[2 * h] \in Word /\ Powers(b)[2 * h] \in Nat /\ 2 * h \in Nat
  <2>1. 2 * h \in Nat
    BY <1>3
  <2>2. Powers(b)[2 * h] \in Word
    BY <1>2, <2>1 DEF IsPowers
  <2> QED
    BY <2>1, <2>2, Multiplication
<1>6. CASE e = 0
  BY <1>2, <1>6 DEF IsPowers, One
<1>7. CASE e # 0 /\ e = 2 * h
  <2>1. (1 * Powers(b)[2 * h]) % WordSize = Powers(b)[2 * h]
    BY <1>5, Multiplication
  <2> QED
    BY <1>3, <1>4, <1>7, <2>1 DEF h
<1>8. CASE e # 0 /\ e = 2 * h + 1
  <2>1. Powers(b)[e] = Mul(b, Powers(b)[2 * h])
    BY <1>2, <1>5, <1>8 DEF IsPowers
  <2> QED
    BY <1>3, <1>4, <1>8, <2>1 DEF h, Mul
<1> QED
  BY <1>3, <1>6, <1>7, <1>8

LEMMA SquaringExists ==
  \E f : Squaring(f)
<1> DEFINE f == [x \in (0 .. WordSize - 1) \X Nat |-> Powers(x[1])[x[2]]]
<1>1. ASSUME NEW x \in (0 .. WordSize - 1) \X Nat
      PROVE  f[<<(x[1] * x[1]) % WordSize, x[2] \div 2>>] = Powers((x[1] * x[1]) % WordSize)[x[2] \div 2]
  <2>1. x[1] \in Word /\ x[2] \in Nat
    BY DEF Word
  <2>2. x[1] * x[1] \in Nat
    <3>1. \A a \in Nat : a * a \in Nat
      OBVIOUS
    <3>2. x[1] \in Nat
      BY <2>1, Multiplication
    <3> QED
      BY <3>1, <3>2
  <2>3. (x[1] * x[1]) % WordSize \in 0 .. WordSize - 1
    BY <2>2, Multiplication DEF Word
  <2>4. \A n \in Nat : n \div 2 \in Nat
    OBVIOUS
  <2> QED
    BY <2>1, <2>3, <2>4
<1>2. ASSUME NEW x \in (0 .. WordSize - 1) \X Nat
      PROVE  Powers(x[1])[x[2]] =
               IF x[2] = 0 THEN 1 % WordSize
               ELSE ((IF x[2] % 2 = 1 THEN x[1] ELSE 1) * f[<<(x[1] * x[1]) % WordSize, x[2] \div 2>>]) % WordSize
  <2>1. x[1] \in Word /\ x[2] \in Nat
    BY DEF Word
  <2> QED
    BY <1>1, <2>1, SquaringOfPowers
<1>3. Squaring(f)
  BY <1>2 DEF Squaring
<1> QED
  BY <1>3

\* Exponentiation by squaring computes the powers.
LEMMA PowIsPower ==
  ASSUME NEW b \in Nat, NEW e \in Nat
  PROVE  Pow(b, e) = Powers(b % WordSize)[e]
<1> DEFINE f == CHOOSE g : Squaring(g)
<1>1. Squaring(f)
  BY SquaringExists
<1>2. Pow(b, e) = f[<<b % WordSize, e>>]
  BY DEF Pow, Squaring
<1> HIDE DEF f
<1>3. ASSUME NEW c \in Word, NEW n \in Nat
      PROVE  f[<<c, n>>] = IF n = 0 THEN 1 % WordSize
                           ELSE ((IF n % 2 = 1 THEN c ELSE 1) * f[<<(c * c) % WordSize, n \div 2>>]) % WordSize
  BY <1>1 DEF Squaring, Word
<1> DEFINE S == {n \in Nat : \A c \in Word : f[<<c, n>>] = Powers(c)[n]}
<1>4. ASSUME NEW n \in Nat, \A m \in Nat : m < n => m \in S
      PROVE  n \in S
  <2> SUFFICES ASSUME NEW c \in Word
               PROVE  f[<<c, n>>] = Powers(c)[n]
    OBVIOUS
  <2>1. CASE n = 0
    BY <1>3, <2>1, SquaringOfPowers
  <2>2. CASE n # 0
    <3> DEFINE h == n \div 2
    <3>1. h \in Nat /\ h < n
      BY <2>2, Division
    <3>2. (c * c) % WordSize \in Word
      BY Multiplication
    <3>3. f[<<(c * c) % WordSize, h>>] = Powers((c * c) % WordSize)[h]
      BY <1>4, <3>1, <3>2
    <3> QED
      BY <1>3, <2>2, <3>3, SquaringOfPowers
  <2> QED
    BY <2>1, <2>2
<1> HIDE DEF S
<1>5. \A n \in Nat : n \in S
  BY <1>4, Iterating!StrongInduct
<1>6. b % WordSize \in Word
  BY Multiplication
<1> QED
  BY <1>2, <1>5, <1>6 DEF S

LEMMA PowFacts ==
  /\ \A b, e \in Nat : Pow(b, e) \in Word
  /\ \A b \in Nat : Pow(b, 0) = One /\ Pow(b, 1) = b % WordSize
  /\ \A b, e, f \in Nat : Pow(b, e + f) = Mul(Pow(b, e), Pow(b, f))
<1>1. ASSUME NEW b \in Nat
      PROVE  /\ \A e \in Nat : Pow(b, e) \in Word
             /\ Pow(b, 0) = One /\ Pow(b, 1) = b % WordSize
             /\ \A e, f \in Nat : Pow(b, e + f) = Mul(Pow(b, e), Pow(b, f))
  <2> DEFINE c == b % WordSize
             p == Powers(c)
  <2>1. c \in Word /\ c \in Nat
    BY Multiplication
  <2>2. IsPowers(c, p)
    BY <2>1, PowersExist
  <2>3. \A e \in Nat : Pow(b, e) = p[e]
    BY PowIsPower
  <2>4. \A e, f \in Nat : p[e + f] = Mul(p[e], p[f])
    BY <2>1, PowersAdd
  <2> HIDE DEF c, p
  <2>5. \A e, f \in Nat : e + f \in Nat
    OBVIOUS
  <2>6. p[0] = One /\ p[1] = c
    <3>1. p[0] = One /\ p[0 + 1] = Mul(c, p[0])
      BY <2>2 DEF IsPowers
    <3>2. Mul(c, One) = c
      <4>1. One \in Nat
        BY Multiplication
      <4> QED
        BY <2>1, <4>1, Multiplication
    <3> QED
      BY <3>1, <3>2
  <2>7. \A e \in Nat : p[e] \in Word
    BY <2>2 DEF IsPowers
  <2>8. \A e, f \in Nat : Pow(b, e + f) = Mul(Pow(b, e), Pow(b, f))
    BY <2>3, <2>4, <2>5
  <2> QED
    BY <2>3, <2>6, <2>7, <2>8 DEF c
<1> QED
  BY <1>1

-----------------------------------------------------------------------------
(* The hash of a list of factors. *)

\* The recursion of the code.
Hashing(l, f) ==
  f = [n \in 0 .. Len(l) |->
         IF n = 0 THEN 1 % WordSize ELSE (f[n - 1] * Pow(l[n].id, l[n].exp)) % WordSize]

LEMMA FactorPower ==
  ASSUME NEW l, IsList(l), NEW n \in 1 .. Len(l)
  PROVE  Pow(l[n].id, l[n].exp) \in Word
<1>1. n \in DOMAIN l /\ l[n].id \in Nat /\ l[n].exp \in Nat
  BY ListFacts
<1> QED
  BY <1>1, PowFacts

LEMMA HashingExists ==
  ASSUME NEW l, IsList(l)
  PROVE  \E f : Hashing(l, f)
<1> DEFINE h == [x \in Nat \X Word |->
                   IF x[1] + 1 \in 1 .. Len(l) THEN Mul(x[2], Pow(l[x[1] + 1].id, l[x[1] + 1].exp)) ELSE One]
<1>1. Len(l) \in Nat /\ \A n \in 1 .. Len(l) : Pow(l[n].id, l[n].exp) \in Word
  BY ListFacts, FactorPower
<1>2. \A a, b \in Word : Mul(a, b) \in Word
  BY Multiplication
<1>3. IsStep(h, Word)
  <2> SUFFICES ASSUME NEW x \in Nat \X Word
               PROVE  (IF x[1] + 1 \in 1 .. Len(l) THEN Mul(x[2], Pow(l[x[1] + 1].id, l[x[1] + 1].exp)) ELSE One) \in Word
    BY DEF IsStep
  <2>1. x[2] \in Word /\ One \in Word
    BY Multiplication
  <2> QED
    BY <1>1, <1>2, <2>1
<1>4. \A n \in Nat, v \in Word : n + 1 \in 1 .. Len(l) => h[<<n, v>>] = Mul(v, Pow(l[n + 1].id, l[n + 1].exp))
  OBVIOUS
<1> HIDE DEF h
<1>5. One \in Word
  BY Multiplication
<1>6. PICK g : Follows(g, Word, One, h)
  BY <1>3, <1>5, Recursion
<1> DEFINE f == [n \in 0 .. Len(l) |-> g[n]]
<1>7. ASSUME NEW n \in 0 .. Len(l)
      PROVE  f[n] = IF n = 0 THEN 1 % WordSize ELSE (f[n - 1] * Pow(l[n].id, l[n].exp)) % WordSize
  <2>1. CASE n = 0
    BY <1>1, <1>6, <2>1 DEF Follows, One
  <2>2. CASE n # 0
    <3> DEFINE m == n - 1
    <3>1. m \in Nat /\ m + 1 = n /\ m + 1 \in 1 .. Len(l) /\ m \in 0 .. Len(l)
      BY <1>1, <2>2
    <3> HIDE DEF m
    <3>2. g[m] \in Word /\ g[m + 1] = h[<<m, g[m]>>]
      BY <1>6, <3>1 DEF Follows
    <3>3. g[n] = Mul(g[m], Pow(l[n].id, l[n].exp))
      BY <1>4, <3>1, <3>2
    <3>4. f[n - 1] = g[m]
      BY <3>1 DEF m
    <3> QED
      BY <2>2, <3>3, <3>4 DEF Mul
  <2> QED
    BY <2>1, <2>2
<1>8. Hashing(l, f)
  BY <1>7 DEF Hashing
<1> QED
  BY <1>8

\* The same product, over all ids.
IsGathered(l, g) ==
  /\ g \in [Nat -> Word]
  /\ g[0] = One
  /\ \A m \in Nat : g[m + 1] = Mul(g[m], Pow(m, Exp(l, m)))

LEMMA GatheredExists ==
  ASSUME NEW l, IsList(l)
  PROVE  \E g : IsGathered(l, g)
<1> DEFINE h == [x \in Nat \X Word |-> Mul(x[2], Pow(x[1], Exp(l, x[1])))]
<1>1. ASSUME NEW x \in Nat \X Word
      PROVE  Mul(x[2], Pow(x[1], Exp(l, x[1]))) \in Word
  <2>1. x[1] \in Nat /\ Exp(l, x[1]) \in Nat
    BY MonomialOf
  <2>2. x[2] \in Nat
    BY Multiplication
  <2>3. Pow(x[1], Exp(l, x[1])) \in Nat
    BY <2>1, PowFacts, Multiplication
  <2> QED
    BY <2>2, <2>3, Multiplication
<1>2. IsStep(h, Word)
  BY <1>1 DEF IsStep
<1>3. \A n \in Nat, v \in Word : h[<<n, v>>] = Mul(v, Pow(n, Exp(l, n)))
  OBVIOUS
<1> HIDE DEF h
<1>4. One \in Word
  BY Multiplication
<1>5. PICK g : Follows(g, Word, One, h)
  BY <1>2, <1>4, Recursion
<1>6. IsGathered(l, g)
  BY <1>3, <1>5 DEF IsGathered, Follows
<1> QED
  BY <1>6

\* The factors of l up to n are the ones whose ids are below m.
Below(l, n, m) == \A p \in 1 .. Len(l) : p <= n <=> l[p].id < m

LEMMA HashedIsGathered ==
  ASSUME NEW l, IsList(l), NEW f, Hashing(l, f), NEW g, IsGathered(l, g)
  PROVE  \A m \in Nat : \A n \in 0 .. Len(l) : Below(l, n, m) => f[n] = g[m]
<1> DEFINE S == {m \in Nat : \A n \in 0 .. Len(l) : Below(l, n, m) => f[n] = g[m]}
<1>1. /\ Len(l) \in Nat /\ DOMAIN l = 1 .. Len(l)
      /\ \A p \in 1 .. Len(l) : l[p].id \in Nat
      /\ \A p, q \in 1 .. Len(l) : p < q => l[p].id < l[q].id
  BY ListFacts
<1>2. f[0] = One /\ g[0] = One
  BY <1>1 DEF Hashing, IsGathered, One
<1>3. 0 \in S
  <2> SUFFICES ASSUME NEW n \in 0 .. Len(l), Below(l, n, 0)
               PROVE  f[n] = g[0]
    OBVIOUS
  <2>1. n = 0
    <3> SUFFICES ASSUME n > 0
                 PROVE  FALSE
      BY <1>1
    <3>1. n \in 1 .. Len(l) /\ l[n].id \in Nat
      BY <1>1
    <3> QED
      BY <3>1 DEF Below
  <2> QED
    BY <1>2, <2>1
<1>4. ASSUME NEW m \in Nat, m \in S
      PROVE  m + 1 \in S
  <2> SUFFICES ASSUME NEW n \in 0 .. Len(l), Below(l, n, m + 1)
               PROVE  f[n] = g[m + 1]
    OBVIOUS
  <2>1. g[m + 1] = Mul(g[m], Pow(m, Exp(l, m))) /\ g[m] \in Word
    BY DEF IsGathered
  <2>2. CASE m \in Ids(l)
    <3>1. PICK p \in 1 .. Len(l) : l[p].id = m
      BY <1>1, <2>2 DEF Ids
    <3>2. p = n
      <4>1. p <= n
        BY <1>1, <3>1 DEF Below
      <4>2. ~ p < n
        <5> SUFFICES ASSUME p < n
                     PROVE  FALSE
          OBVIOUS
        <5>1. n \in 1 .. Len(l) /\ n <= n
          BY <1>1
        <5>2. l[n].id < m + 1 /\ l[p].id < l[n].id /\ l[n].id \in Nat
          BY <1>1, <5>1 DEF Below
        <5> QED
          BY <3>1, <5>2
      <4> QED
        BY <1>1, <4>1, <4>2
    <3>3. n - 1 \in 0 .. Len(l)
      BY <1>1, <3>1, <3>2
    <3>4. Below(l, n - 1, m)
      <4> SUFFICES ASSUME NEW q \in 1 .. Len(l)
                   PROVE  q <= n - 1 <=> l[q].id < m
        BY DEF Below
      <4>1. q <= n <=> l[q].id < m + 1
        BY DEF Below
      <4>2. q < n => l[q].id < m
        BY <1>1, <3>1, <3>2
      <4>3. q = n => l[q].id = m
        BY <3>1, <3>2
      <4> QED
        BY <1>1, <3>1, <3>2, <4>1, <4>2, <4>3
    <3>5. f[n - 1] = g[m]
      BY <1>4, <3>3, <3>4
    <3>6. f[n] = Mul(f[n - 1], Pow(m, l[n].exp))
      <4>1. n # 0 /\ l[n].id = m
        BY <1>1, <3>1, <3>2
      <4>2. f[n] = (f[n - 1] * Pow(l[n].id, l[n].exp)) % WordSize
        BY <4>1 DEF Hashing
      <4> QED
        BY <4>1, <4>2 DEF Mul
    <3>7. Exp(l, m) = l[n].exp
      BY <1>1, <3>1, <3>2, MonomialOf
    <3> QED
      BY <2>1, <3>5, <3>6, <3>7
  <2>3. CASE m \notin Ids(l)
    <3>1. \A p \in 1 .. Len(l) : l[p].id # m
      BY <1>1, <2>3 DEF Ids
    <3>2. Below(l, n, m)
      <4> SUFFICES ASSUME NEW q \in 1 .. Len(l)
                   PROVE  q <= n <=> l[q].id < m
        BY DEF Below
      <4>1. (q <= n <=> l[q].id < m + 1) /\ l[q].id \in Nat /\ l[q].id # m
        BY <1>1, <3>1 DEF Below
      <4> QED
        BY <4>1
    <3>3. f[n] = g[m]
      BY <1>4, <3>2
    <3>4. Pow(m, Exp(l, m)) = One
      BY <2>3, MonomialOf, PowFacts
    <3>5. Mul(g[m], One) = g[m]
      <4>1. One \in Nat
        BY Multiplication
      <4> QED
        BY <2>1, <4>1, Multiplication
    <3> QED
      BY <2>1, <3>3, <3>4, <3>5
  <2> QED
    BY <2>2, <2>3
<1> HIDE DEF S
<1>5. \A m \in Nat : m \in S
  BY <1>3, <1>4, Iterating!Induct
<1> QED
  BY <1>5 DEF S

\* The hash of a list is gathered by all numbers that exceed its ids.
LEMMA HashIsGathered ==
  ASSUME NEW l, IsList(l), NEW g, IsGathered(l, g)
  PROVE  \E b \in Nat : \A m \in Nat : m >= b => HashOfFactors(l) = g[m]
<1> DEFINE f == CHOOSE h : Hashing(l, h)
           b == IF Len(l) = 0 THEN 0 ELSE l[Len(l)].id + 1
<1>1. Hashing(l, f)
  BY HashingExists
<1>2. HashOfFactors(l) = f[Len(l)]
  BY DEF HashOfFactors, Hashing
<1> HIDE DEF f
<1>3. /\ Len(l) \in Nat /\ DOMAIN l = 1 .. Len(l)
      /\ \A p \in 1 .. Len(l) : l[p].id \in Nat
      /\ \A p, q \in 1 .. Len(l) : p < q => l[p].id < l[q].id
  BY ListFacts
<1>4. b \in Nat
  BY <1>3
<1>5. ASSUME NEW m \in Nat, m >= b
      PROVE  Below(l, Len(l), m)
  <2> SUFFICES ASSUME NEW p \in 1 .. Len(l)
               PROVE  l[p].id < m
    BY <1>3 DEF Below
  <2>1. Len(l) # 0 /\ Len(l) \in 1 .. Len(l) /\ l[Len(l)].id \in Nat /\ l[p].id \in Nat
    BY <1>3
  <2>2. l[p].id <= l[Len(l)].id
    <3>1. CASE p = Len(l)
      BY <2>1, <3>1
    <3>2. CASE p < Len(l)
      BY <1>3, <2>1, <3>2
    <3>3. p = Len(l) \/ p < Len(l)
      OBVIOUS
    <3> QED
      BY <3>1, <3>2, <3>3
  <2> QED
    BY <1>5, <2>1, <2>2
<1>6. Len(l) \in 0 .. Len(l)
  BY <1>3
<1>7. \A m \in Nat : m >= b => HashOfFactors(l) = g[m]
  BY <1>1, <1>2, <1>5, <1>6, HashedIsGathered
<1> QED
  BY <1>4, <1>7

\* The hash of a product is the product of the hashes.
LEMMA HashOfProduct ==
  ASSUME NEW l, NEW r, NEW p, IsList(l), IsList(r), IsList(p),
         \A m \in Nat : Exp(p, m) = Exp(l, m) + Exp(r, m)
  PROVE  HashOfFactors(p) = Mul(HashOfFactors(l), HashOfFactors(r))
<1>1. PICK f : IsGathered(l, f)
  BY GatheredExists
<1>2. PICK g : IsGathered(r, g)
  BY GatheredExists
<1>3. PICK h : IsGathered(p, h)
  BY GatheredExists
<1> DEFINE S == {m \in Nat : h[m] = Mul(f[m], g[m])}
<1>4. 0 \in S
  <2>1. Mul(One, One) = One
    BY Multiplication
  <2> QED
    BY <1>1, <1>2, <1>3, <2>1 DEF IsGathered
<1>5. ASSUME NEW m \in Nat, m \in S
      PROVE  m + 1 \in S
  <2> DEFINE u == Pow(m, Exp(l, m))
             v == Pow(m, Exp(r, m))
  <2>1. Exp(l, m) \in Nat /\ Exp(r, m) \in Nat
    BY MonomialOf
  <2>2. u \in Nat /\ v \in Nat /\ Pow(m, Exp(p, m)) = Mul(u, v)
    BY <2>1, PowFacts, Multiplication
  <2>3. f[m] \in Nat /\ g[m] \in Nat /\ h[m] = Mul(f[m], g[m])
    BY <1>1, <1>2, <1>5, Multiplication DEF IsGathered
  <2>4. f[m + 1] = Mul(f[m], u) /\ g[m + 1] = Mul(g[m], v) /\ h[m + 1] = Mul(Mul(f[m], g[m]), Mul(u, v))
    BY <1>1, <1>2, <1>3, <2>2, <2>3 DEF IsGathered
  <2> HIDE DEF u, v
  <2>5. Mul(Mul(f[m], g[m]), Mul(u, v)) = Mul(Mul(f[m], u), Mul(g[m], v))
    BY <2>2, <2>3, Exchange
  <2> QED
    BY <2>4, <2>5
<1> HIDE DEF S
<1>6. \A m \in Nat : h[m] = Mul(f[m], g[m])
  <2>1. \A m \in Nat : m \in S
    BY <1>4, <1>5, Iterating!Induct
  <2> QED
    BY <2>1 DEF S
<1>7. PICK a \in Nat : \A m \in Nat : m >= a => HashOfFactors(l) = f[m]
  BY <1>1, HashIsGathered
<1>8. PICK b \in Nat : \A m \in Nat : m >= b => HashOfFactors(r) = g[m]
  BY <1>2, HashIsGathered
<1>9. PICK c \in Nat : \A m \in Nat : m >= c => HashOfFactors(p) = h[m]
  BY <1>3, HashIsGathered
<1> DEFINE m == a + b + c
<1>10. m \in Nat /\ m >= a /\ m >= b /\ m >= c
  OBVIOUS
<1> QED
  BY <1>6, <1>7, <1>8, <1>9, <1>10

\* An operand that is no product has the hash of the product of one factor.
LEMMA HashOfAtom ==
  ASSUME NEW l, IsList(l)
  PROVE  HashOfOperand(l) = HashOfFactors(l) /\ HashOfOperand(l) \in Word
<1>1. PICK f : Hashing(l, f) /\ HashOfFactors(l) = f[Len(l)]
  <2> DEFINE f == CHOOSE h : Hashing(l, h)
  <2>1. Hashing(l, f)
    BY HashingExists
  <2>2. HashOfFactors(l) = f[Len(l)]
    BY DEF HashOfFactors, Hashing
  <2> QED
    BY <2>1, <2>2
<1>2. HashOfFactors(l) \in Word
  <2>1. PICK g : IsGathered(l, g)
    BY GatheredExists
  <2>2. PICK b \in Nat : \A m \in Nat : m >= b => HashOfFactors(l) = g[m]
    BY <2>1, HashIsGathered
  <2>3. HashOfFactors(l) = g[b]
    BY <2>2
  <2> QED
    BY <2>1, <2>3 DEF IsGathered
<1>3. ASSUME IsAtom(l)
      PROVE  HashOfFactors(l) = l[1].id % WordSize
  <2>1. Len(l) = 1 /\ l[1].exp = 1 /\ 1 \in DOMAIN l /\ l[1].id \in Nat
    BY <1>3, ListFacts DEF IsAtom
  <2>2. f[1] = (f[0] * Pow(l[1].id, 1)) % WordSize /\ f[0] = One
    BY <1>1, <2>1 DEF Hashing, One
  <2>3. Pow(l[1].id, 1) = l[1].id % WordSize /\ l[1].id % WordSize \in Word
    BY <2>1, PowFacts, Multiplication
  <2>4. Mul(One, l[1].id % WordSize) = l[1].id % WordSize
    BY <2>3, Multiplication
  <2> QED
    BY <1>1, <2>1, <2>2, <2>3, <2>4 DEF Mul
<1> QED
  BY <1>2, <1>3 DEF HashOfOperand

\* The hash of two operands is the hash of the factors of their product.
LEMMA HashOfKey ==
  ASSUME NEW l, NEW r, NEW p, IsList(l), IsList(r), IsList(p),
         Monomial(p) = Times(Monomial(l), Monomial(r))
  PROVE  HashOfOperands(l, r) = HashOfFactors(p)
<1>1. Ids(p) = Ids(l) \cup Ids(r) /\ \A m \in Ids(p) : Exp(p, m) = Exp(l, m) + Exp(r, m)
  BY TimesOf
<1>2. ASSUME NEW m \in Nat
      PROVE  Exp(p, m) = Exp(l, m) + Exp(r, m)
  <2>1. CASE m \in Ids(p)
    BY <1>1, <2>1
  <2>2. CASE m \notin Ids(p)
    <3>1. Exp(p, m) = 0 /\ Exp(l, m) = 0 /\ Exp(r, m) = 0
      BY <1>1, <2>2, MonomialOf
    <3> QED
      BY <3>1
  <2> QED
    BY <2>1, <2>2
<1>3. HashOfFactors(p) = Mul(HashOfFactors(l), HashOfFactors(r))
  BY <1>2, HashOfProduct
<1> QED
  BY <1>3, HashOfAtom DEF HashOfOperands, Mul

-----------------------------------------------------------------------------
(* The hashes of the keys. *)

\* persist returns the hash of the key it was called with.
Stored == Returned("persist") => Value = HashOfOperands(lhs, rhs)

LEMMA StoredHash ==
  Spec => []Stored
<1>1. Init => Stored
  BY DEF Init, Stored, Returned
<1>2. IInv /\ Stored /\ [Next]_vars => Stored'
  <2> SUFFICES ASSUME IInv, Stored, [Next]_vars, Returned("persist")'
               PROVE  Value' = HashOfOperands(lhs, rhs)'
    BY DEF Stored
  <2>1. CASE PersistReturn \/ PersistSquare
    BY <2>1 DEF PersistReturn, PersistSquare, Return, operands, Value
  <2>2. CASE Start
    <3>1. result' = result /\ call = "none" /\ result = <<>>
      BY <2>2 DEF Start, PersistCall, EqualCall, DivideCall, DeglexCall, Call, IInv, AtRest
    <3> QED
      BY <3>1 DEF Returned
  <2>3. CASE Done
    BY <2>3 DEF Done, Returned
  <2>4. CASE PersistStep \/ EqualStep \/ EqualMismatch \/ EqualReturn
    BY <2>4 DEF PersistStep, EqualStep, EqualMismatch, EqualReturn, Running, Return, operands, Returned
  <2>5. CASE DivideByOne \/ DivideStep \/ DivideSearch \/ DivideFail \/ DivideCollect \/ DivideReturn
    BY <2>5
    DEF DivideByOne, DivideStep, DivideSearch, DivideFail, DivideCollect, DivideReturn, Collecting, Running,
        Return, operands, Returned
  <2>6. CASE DeglexAtoms \/ DeglexSame \/ DeglexDegree \/ DeglexStep \/ DeglexReturn
    BY <2>6
    DEF DeglexAtoms, DeglexSame, DeglexDegree, DeglexStep, DeglexReturn, ComparingFactors, Running, Return,
        operands, Returned
  <2>7. CASE UNCHANGED vars
    BY <2>7 DEF vars, Stored, Returned, Value
  <2> QED
    BY <2>1, <2>2, <2>3, <2>4, <2>5, <2>6, <2>7 DEF Next, Step
<1> QED
  BY <1>1, <1>2, Inductive, PTL DEF Spec

\* persist creates the product of its operands, and stores it under the hash that
\* operator/ and load compute for its factors.
THEOREM PersistedKeyIsFound ==
  Spec => []PersistIsTimes
<1>1. IInv /\ Stored => PersistIsTimes
  BY HashOfKey DEF IInv, Types, Stored, PersistIsTimes, Merges
<1> QED
  BY <1>1, Inductive, StoredHash, PTL

\* Key== holds for the product of the operands and for no other product, and only
\* holds for keys of the same hash, as the cache demands.
THEOREM EqualKeysHaveEqualHashes ==
  Spec => []EqualIsTimes
<1>1. IInv => EqualIsTimes
  BY HashOfKey DEF IInv, Types, EqualIsTimes, Recognizes
<1> QED
  BY <1>1, Inductive, PTL

-----------------------------------------------------------------------------
(* Degrees. *)

IsMonomial(f) ==
  /\ DOMAIN f \subseteq Id
  /\ f \in [DOMAIN f -> Nat \ {0}]

Bounded(f, b) == b \in Nat /\ DOMAIN f \subseteq 0 .. b - 1

Exponents(f) == [m \in Nat |-> Exponent(f, m)]

LEMMA ExponentFacts ==
  ASSUME NEW f, IsMonomial(f)
  PROVE  /\ \A m : Exponent(f, m) \in Nat
         /\ \A m : m \in DOMAIN f <=> Exponent(f, m) > 0
         /\ \A m : m \in DOMAIN f => Exponent(f, m) = f[m] /\ m \in Nat
         /\ Exponents(f) \in [Nat -> Nat]
<1>1. \A m \in DOMAIN f : f[m] \in Nat /\ f[m] > 0 /\ m \in Nat
  <2> SUFFICES ASSUME NEW m \in DOMAIN f
               PROVE  f[m] \in Nat /\ f[m] > 0 /\ m \in Nat
    OBVIOUS
  <2>1. f[m] \in Nat \ {0}
    BY DEF IsMonomial
  <2>2. m \in Nat
    BY KeyAssumption DEF IsMonomial
  <2> QED
    BY <2>1, <2>2
<1>2. \A m : Exponent(f, m) \in Nat /\ (m \in DOMAIN f <=> Exponent(f, m) > 0)
  BY <1>1 DEF Exponent
<1> QED
  BY <1>1, <1>2 DEF Exponent, Exponents

\* The recursion of the fold that sums up the exponents.
Folding(f, iter) ==
  iter = [s \in SUBSET DOMAIN f |->
            IF s = {} THEN 0 ELSE LET x == CHOOSE y \in s : TRUE IN f[x] + iter[s \ {x}]]

LEMMA TotalDegreeFolds ==
  ASSUME NEW f
  PROVE  TotalDegree(f) = (CHOOSE iter : Folding(f, iter))[DOMAIN f]
BY DEF TotalDegree, FoldFunction, FoldFunctionOnSet, MapThenFoldSet, Folding

\* The exponents of some of the factors.
Part(f, s) == [m \in Nat |-> IF m \in s THEN f[m] ELSE 0]

LEMMA PartFacts ==
  ASSUME NEW f, IsMonomial(f), NEW b, Bounded(f, b)
  PROVE  /\ \A s \in SUBSET DOMAIN f : Part(f, s) \in [Nat -> Nat] /\ Sum(Part(f, s))[b] \in Nat
         /\ Sum(Part(f, {}))[b] = 0
         /\ \A s \in SUBSET DOMAIN f : \A x \in s :
              Sum(Part(f, s))[b] = f[x] + Sum(Part(f, s \ {x}))[b]
<1>1. b \in Nat /\ DOMAIN f \subseteq 0 .. b - 1
  BY DEF Bounded
<1>2. \A m \in DOMAIN f : f[m] \in Nat
  BY ExponentFacts
<1>3. ASSUME NEW s \in SUBSET DOMAIN f
      PROVE  Part(f, s) \in [Nat -> Nat] /\ Sum(Part(f, s))[b] \in Nat
  <2>1. Part(f, s) \in [Nat -> Nat]
    BY <1>2 DEF Part
  <2>2. IsSum(Part(f, s), Sum(Part(f, s)))
    BY <2>1, SumExists
  <2> QED
    BY <1>1, <2>1, <2>2 DEF IsSum
<1>4. Sum(Part(f, {}))[b] = 0
  <2>1. Part(f, {}) \in [Nat -> Nat]
    BY <1>3
  <2>2. \A m \in Nat : Part(f, {})[m] = 0
    BY DEF Part
  <2> QED
    BY <1>1, <2>1, <2>2, SumOfNone
<1>5. ASSUME NEW s \in SUBSET DOMAIN f, NEW x \in s
      PROVE  Sum(Part(f, s))[b] = f[x] + Sum(Part(f, s \ {x}))[b]
  <2> DEFINE u == Part(f, {x})
             v == Part(f, s \ {x})
             w == Part(f, s)
  <2>1. u \in [Nat -> Nat] /\ v \in [Nat -> Nat] /\ w \in [Nat -> Nat]
    <3>1. {x} \in SUBSET DOMAIN f /\ s \ {x} \in SUBSET DOMAIN f
      OBVIOUS
    <3> QED
      BY <1>3, <3>1
  <2>2. x \in Nat /\ x < b /\ f[x] \in Nat
    BY <1>1, <1>2
  <2>3. ASSUME NEW n \in Nat
        PROVE  w[n] = u[n] + v[n]
    <3>1. CASE n = x
      BY <2>2, <3>1 DEF Part
    <3>2. CASE n # x /\ n \in s
      BY <1>2, <3>2 DEF Part
    <3>3. CASE n \notin s
      BY <3>3 DEF Part
    <3> QED
      BY <3>1, <3>2, <3>3
  <2>4. u[x] = f[x] /\ \A n \in Nat : n # x => u[n] = 0
    BY <2>2 DEF Part
  <2> HIDE DEF u, v, w
  <2>5. Sum(w)[b] = Sum(u)[b] + Sum(v)[b]
    <3>1. Adds(u, v, w, b)
      BY <1>1, <2>1, <2>3 DEF Adds
    <3> QED
      BY <3>1, SumAdds
  <2>6. Sum(u)[b] = f[x]
    BY <1>1, <2>1, <2>2, <2>4, SumOfOne
  <2> QED
    BY <2>5, <2>6 DEF u, v, w
<1> QED
  BY <1>3, <1>4, <1>5

LEMMA DegreeIsSum ==
  ASSUME NEW f, IsMonomial(f), NEW b, Bounded(f, b)
  PROVE  TotalDegree(f) = Sum(Exponents(f))[b] /\ TotalDegree(f) \in Nat
<1> DEFINE A(s) == Sum(Part(f, s))[b]
           iter == CHOOSE g : Folding(f, g)
<1>1. /\ A({}) = 0
      /\ \A s \in SUBSET DOMAIN f : A(s) \in Nat /\ \A x \in s : A(s) = f[x] + A(s \ {x})
  BY PartFacts
<1>2. Folding(f, iter)
  <2> DEFINE g == [s \in SUBSET DOMAIN f |-> A(s)]
  <2> HIDE DEF A
  <2>1. ASSUME NEW s \in SUBSET DOMAIN f
        PROVE  g[s] = IF s = {} THEN 0 ELSE LET x == CHOOSE y \in s : TRUE IN f[x] + g[s \ {x}]
    <3>1. CASE s = {}
      BY <1>1, <3>1
    <3>2. CASE s # {}
      <4> DEFINE x == CHOOSE y \in s : TRUE
      <4>1. x \in s
        BY <3>2
      <4> HIDE DEF x
      <4>2. g[s] = f[x] + g[s \ {x}]
        BY <1>1, <4>1
      <4> QED
        BY <3>2, <4>2 DEF x
    <3> QED
      BY <3>1, <3>2
  <2>2. Folding(f, g)
    BY <2>1 DEF Folding
  <2> QED
    BY <2>2
<1>3. TotalDegree(f) = iter[DOMAIN f]
  BY TotalDegreeFolds
<1> HIDE DEF A, iter
<1>4. IsFiniteSet(DOMAIN f)
  <2>1. b \in Nat /\ DOMAIN f \subseteq 0 .. b - 1
    BY DEF Bounded
  <2>2. 0 \in Int /\ b - 1 \in Int
    BY <2>1
  <2>3. IsFiniteSet(0 .. b - 1)
    BY <2>2, FS_Interval
  <2> QED
    BY <2>1, <2>3, FS_Subset
<1>5. \A s \in SUBSET DOMAIN f : IsFiniteSet(s) /\ Cardinality(s) \in Nat /\ (Cardinality(s) = 0 <=> s = {})
  BY <1>4, FS_Subset, FS_CardinalityType, FS_EmptySet
<1> DEFINE S == {n \in Nat : \A s \in SUBSET DOMAIN f : Cardinality(s) = n => iter[s] = A(s)}
<1>6. 0 \in S
  <2>1. iter[{}] = 0
    BY <1>2 DEF Folding
  <2> QED
    BY <1>1, <1>5, <2>1
<1>7. ASSUME NEW n \in Nat, n \in S
      PROVE  n + 1 \in S
  <2> SUFFICES ASSUME NEW s \in SUBSET DOMAIN f, Cardinality(s) = n + 1
               PROVE  iter[s] = A(s)
    OBVIOUS
  <2>1. s # {} /\ IsFiniteSet(s)
    BY <1>5
  <2> DEFINE x == CHOOSE y \in s : TRUE
  <2>2. x \in s
    BY <2>1
  <2>3. iter[s] = f[x] + iter[s \ {x}]
    BY <1>2, <2>1 DEF Folding
  <2> HIDE DEF x
  <2>4. s \ {x} \in SUBSET DOMAIN f /\ Cardinality(s \ {x}) = n
    BY <2>1, <2>2, FS_RemoveElement
  <2>5. iter[s \ {x}] = A(s \ {x})
    BY <1>7, <2>4
  <2> QED
    BY <1>1, <2>2, <2>3, <2>5
<1> HIDE DEF S
<1>8. \A n \in Nat : n \in S
  BY <1>6, <1>7, Iterating!Induct
<1>9. iter[DOMAIN f] = A(DOMAIN f)
  <2>1. DOMAIN f \in SUBSET DOMAIN f
    OBVIOUS
  <2> QED
    BY <1>5, <1>8, <2>1 DEF S
<1>10. Part(f, DOMAIN f) = Exponents(f)
  BY DEF Part, Exponents, Exponent
<1> QED
  BY <1>1, <1>3, <1>9, <1>10 DEF A

\* All monomials are bounded.
LEMMA ListMonomial ==
  ASSUME NEW l, IsList(l)
  PROVE  IsMonomial(Monomial(l)) /\ \E b \in Nat : Bounded(Monomial(l), b)
<1>1. /\ Len(l) \in Nat /\ DOMAIN l = 1 .. Len(l)
      /\ \A p \in DOMAIN l : l[p] \in Factor /\ l[p].id \in Nat /\ l[p].exp \in Nat /\ l[p].exp > 0
      /\ \A p, q \in DOMAIN l : p < q => l[p].id < l[q].id
  BY ListFacts
<1>2. DOMAIN Monomial(l) = Ids(l)
  BY MonomialOf
<1>3. IsMonomial(Monomial(l))
  <2>1. Ids(l) \subseteq Id
    <3> SUFFICES ASSUME NEW p \in DOMAIN l
                 PROVE  l[p].id \in Id
      BY DEF Ids
    <3> QED
      BY <1>1 DEF Factor
  <2>2. \A m \in Ids(l) : Monomial(l)[m] \in Nat \ {0}
    <3> SUFFICES ASSUME NEW m \in Ids(l)
                 PROVE  Monomial(l)[m] \in Nat \ {0}
      OBVIOUS
    <3>1. Monomial(l)[m] \in Nat /\ Monomial(l)[m] > 0
      BY MonomialOf
    <3> QED
      BY <3>1
  <2>3. Monomial(l) = [m \in DOMAIN Monomial(l) |-> Monomial(l)[m]]
    BY DEF Monomial
  <2> QED
    BY <1>2, <2>1, <2>2, <2>3 DEF IsMonomial
<1> DEFINE b == IF Len(l) = 0 THEN 0 ELSE l[Len(l)].id + 1
<1>4. b \in Nat
  BY <1>1
<1>5. ASSUME NEW p \in DOMAIN l
      PROVE  l[p].id \in 0 .. b - 1
  <2>1. Len(l) # 0 /\ Len(l) \in DOMAIN l /\ l[Len(l)].id \in Nat /\ l[p].id \in Nat
    BY <1>1
  <2>2. p = Len(l) \/ p < Len(l)
    BY <1>1
  <2>3. l[p].id <= l[Len(l)].id
    BY <1>1, <2>1, <2>2
  <2> QED
    BY <2>1, <2>3
<1> HIDE DEF b
<1>6. Bounded(Monomial(l), b)
  BY <1>2, <1>4, <1>5 DEF Bounded, Ids
<1> QED
  BY <1>3, <1>4, <1>6

\* Multiplying by one factor.
Variable(m) == [n \in {m} |-> 1]

LEMMA TimesVariable ==
  ASSUME NEW f, IsMonomial(f), NEW b \in Nat, Bounded(f, b), NEW m \in Id
  PROVE  /\ IsMonomial(Times(f, Variable(m)))
         /\ \E c \in Nat : Bounded(Times(f, Variable(m)), c)
         /\ \A n \in Nat : Exponent(Times(f, Variable(m)), n) = Exponent(f, n) + (IF n = m THEN 1 ELSE 0)
         /\ TotalDegree(Times(f, Variable(m))) = TotalDegree(f) + 1
<1> DEFINE x == Variable(m)
           t == Times(f, x)
           c == b + m + 1
<1>1. m \in Nat /\ c \in Nat /\ m < c /\ b <= c
  BY KeyAssumption
<1>2. \A n : Exponent(x, n) = IF n = m THEN 1 ELSE 0
  BY DEF Variable, Exponent
<1>3. IsMonomial(x) /\ Bounded(x, c)
  BY <1>1 DEF IsMonomial, Bounded, Variable
<1>4. Bounded(f, c)
  BY <1>1 DEF Bounded
<1>5. DOMAIN t = DOMAIN f \cup {m} /\ \A n \in DOMAIN t : t[n] = Exponent(f, n) + Exponent(x, n)
  BY DEF Times, Variable
<1>6. t = [n \in DOMAIN t |-> t[n]]
  BY DEF Times
<1>7. \A n : Exponent(t, n) = Exponent(f, n) + Exponent(x, n)
  <2> SUFFICES ASSUME NEW n
               PROVE  Exponent(t, n) = Exponent(f, n) + Exponent(x, n)
    OBVIOUS
  <2>1. CASE n \in DOMAIN t
    BY <1>5, <2>1 DEF Exponent
  <2>2. CASE n \notin DOMAIN t
    <3>1. Exponent(t, n) = 0 /\ Exponent(f, n) = 0 /\ Exponent(x, n) = 0
      BY <1>2, <1>5, <2>2 DEF Exponent
    <3> QED
      BY <3>1
  <2> QED
    BY <2>1, <2>2
<1> HIDE DEF x, t, c
<1>8. IsMonomial(t)
  <2>1. DOMAIN t \subseteq Id
    BY <1>5 DEF IsMonomial
  <2>2. ASSUME NEW n \in DOMAIN t
        PROVE  t[n] \in Nat \ {0}
    <3>1. Exponent(f, n) \in Nat /\ Exponent(x, n) \in Nat
      BY <1>3, ExponentFacts
    <3>2. Exponent(f, n) > 0 \/ Exponent(x, n) > 0
      <4>1. CASE n = m
        BY <1>2, <4>1
      <4>2. CASE n \in DOMAIN f
        BY <4>2, ExponentFacts
      <4> QED
        BY <1>5, <4>1, <4>2
    <3> QED
      BY <1>5, <3>1, <3>2
  <2> QED
    BY <1>6, <2>1, <2>2 DEF IsMonomial
<1>9. Bounded(t, c)
  BY <1>1, <1>4, <1>5 DEF Bounded
<1>10. TotalDegree(t) = TotalDegree(f) + 1
  <2>1. /\ TotalDegree(t) = Sum(Exponents(t))[c]
        /\ TotalDegree(f) = Sum(Exponents(f))[c]
    BY <1>4, <1>8, <1>9, DegreeIsSum
  <2>2. Exponents(t) \in [Nat -> Nat] /\ Exponents(f) \in [Nat -> Nat] /\ Exponents(x) \in [Nat -> Nat]
    BY <1>3, <1>8, ExponentFacts
  <2>3. \A n \in Nat : Exponents(t)[n] = Exponents(f)[n] + Exponents(x)[n]
    BY <1>7 DEF Exponents
  <2>4. Sum(Exponents(t))[c] = Sum(Exponents(f))[c] + Sum(Exponents(x))[c]
    <3>1. Adds(Exponents(f), Exponents(x), Exponents(t), c)
      BY <1>1, <2>2, <2>3 DEF Adds
    <3> QED
      BY <3>1, SumAdds
  <2>5. Exponents(x)[m] = 1 /\ \A n \in Nat : n # m => Exponents(x)[n] = 0
    BY <1>1, <1>2 DEF Exponents
  <2>6. Sum(Exponents(x))[c] = 1
    BY <1>1, <2>2, <2>5, SumOfOne
  <2> QED
    BY <2>1, <2>4, <2>6
<1> QED
  BY <1>1, <1>2, <1>7, <1>8, <1>9, <1>10 DEF x, t

-----------------------------------------------------------------------------
(* The order of monomials. *)

\* The first factor that tells two monomials apart.
Differ(f, g, m) ==
  /\ m \in Nat
  /\ Exponent(f, m) # Exponent(g, m)
  /\ \A n \in Nat : n < m => Exponent(f, n) = Exponent(g, n)

Identity == [m \in Id |-> m]

LEMMA FirstDifference ==
  ASSUME NEW f, IsMonomial(f), NEW g, IsMonomial(g), f # g
  PROVE  \E m : Differ(f, g, m)
<1> DEFINE T == {m \in Nat : Exponent(f, m) # Exponent(g, m)}
<1>1. T # {}
  <2> SUFFICES ASSUME \A m \in Nat : Exponent(f, m) = Exponent(g, m)
               PROVE  FALSE
    OBVIOUS
  <2>1. DOMAIN f \subseteq Nat /\ DOMAIN g \subseteq Nat
    BY KeyAssumption DEF IsMonomial
  <2>2. DOMAIN f = DOMAIN g
    <3>1. \A m : m \in DOMAIN f => m \in DOMAIN g
      BY <2>1, ExponentFacts
    <3>2. \A m : m \in DOMAIN g => m \in DOMAIN f
      BY <2>1, ExponentFacts
    <3> QED
      BY <3>1, <3>2
  <2>3. \A m \in DOMAIN f : f[m] = g[m]
    BY <2>1, <2>2, ExponentFacts
  <2>4. f = [m \in DOMAIN f |-> f[m]] /\ g = [m \in DOMAIN g |-> g[m]]
    BY DEF IsMonomial
  <2> QED
    BY <2>2, <2>3, <2>4
<1>2. T \in SUBSET Nat
  OBVIOUS
<1>3. PICK m \in T : \A n \in T : m <= n
  BY <1>1, <1>2, Iterating!Least
<1>4. ASSUME NEW n \in Nat, n < m
      PROVE  Exponent(f, n) = Exponent(g, n)
  <2>1. m \in Nat
    OBVIOUS
  <2> QED
    BY <1>3, <1>4, <2>1
<1>5. Differ(f, g, m)
  BY <1>4 DEF Differ
<1> QED
  BY <1>5

LEMMA OneDifference ==
  ASSUME NEW f, NEW g, NEW m, NEW n, Differ(f, g, m), Differ(f, g, n)
  PROVE  m = n
<1>1. m \in Nat /\ n \in Nat /\ ~ m < n /\ ~ n < m
  BY DEF Differ
<1> QED
  BY <1>1

LEMMA DeglexOf ==
  ASSUME NEW f, IsMonomial(f), NEW g, IsMonomial(g)
  PROVE  Deglex(Identity, f, g) <=>
           \/ TotalDegree(f) < TotalDegree(g)
           \/ /\ TotalDegree(f) = TotalDegree(g)
              /\ \E m : Differ(f, g, m) /\ Exponent(f, m) > Exponent(g, m)
<1>1. DOMAIN f \subseteq Id /\ DOMAIN g \subseteq Id /\ \A m \in Id : m \in Nat /\ Identity[m] = m
  BY KeyAssumption DEF IsMonomial, Identity
<1>2. \A m : Exponent(f, m) \in Nat /\ Exponent(g, m) \in Nat
  BY ExponentFacts
<1>3. ASSUME NEW m \in DOMAIN f, f[m] > Exponent(g, m),
             \A n \in DOMAIN f \cup DOMAIN g : Identity[n] < Identity[m] => Exponent(f, n) = Exponent(g, n)
      PROVE  Differ(f, g, m) /\ Exponent(f, m) > Exponent(g, m)
  <2>1. m \in Nat /\ Exponent(f, m) = f[m] /\ Identity[m] = m
    BY <1>1 DEF Exponent
  <2>2. ASSUME NEW n \in Nat, n < m
        PROVE  Exponent(f, n) = Exponent(g, n)
    <3>1. CASE n \in DOMAIN f \cup DOMAIN g
      BY <1>1, <1>3, <2>1, <2>2, <3>1
    <3>2. CASE n \notin DOMAIN f \cup DOMAIN g
      BY <3>2 DEF Exponent
    <3> QED
      BY <3>1, <3>2
  <2>3. Exponent(f, m) > Exponent(g, m) /\ Exponent(f, m) # Exponent(g, m)
    BY <1>2, <1>3, <2>1
  <2> QED
    BY <2>1, <2>2, <2>3 DEF Differ
<1>4. ASSUME NEW m, Differ(f, g, m), Exponent(f, m) > Exponent(g, m)
      PROVE  /\ m \in DOMAIN f /\ f[m] > Exponent(g, m)
             /\ \A n \in DOMAIN f \cup DOMAIN g : Identity[n] < Identity[m] => Exponent(f, n) = Exponent(g, n)
  <2>1. m \in DOMAIN f
    <3>1. Exponent(f, m) > 0
      BY <1>2, <1>4
    <3> QED
      BY <3>1, ExponentFacts
  <2>2. f[m] = Exponent(f, m)
    BY <2>1 DEF Exponent
  <2>3. \A n \in DOMAIN f \cup DOMAIN g : Identity[n] < Identity[m] => Exponent(f, n) = Exponent(g, n)
    BY <1>1, <1>4, <2>1 DEF Differ
  <2> QED
    BY <1>4, <2>1, <2>2, <2>3
<1> QED
  BY <1>3, <1>4 DEF Deglex

\* The order is total.
LEMMA DeglexIsTotal ==
  ASSUME NEW f, IsMonomial(f), NEW b, Bounded(f, b), NEW g, IsMonomial(g), NEW c, Bounded(g, c), f # g
  PROVE  Deglex(Identity, f, g) <=> ~Deglex(Identity, g, f)
<1>1. TotalDegree(f) \in Nat /\ TotalDegree(g) \in Nat
  BY DegreeIsSum
<1>2. PICK m : Differ(f, g, m)
  BY FirstDifference
<1>3. \A n : Differ(f, g, n) => n = m
  BY <1>2, OneDifference
<1>4. \A n : Differ(g, f, n) <=> Differ(f, g, n)
  BY DEF Differ
<1>5. Exponent(f, m) \in Nat /\ Exponent(g, m) \in Nat /\ Exponent(f, m) # Exponent(g, m)
  BY <1>2, ExponentFacts DEF Differ
<1>6. (\E n : Differ(f, g, n) /\ Exponent(f, n) > Exponent(g, n)) <=> Exponent(f, m) > Exponent(g, m)
  BY <1>2, <1>3
<1>7. (\E n : Differ(g, f, n) /\ Exponent(g, n) > Exponent(f, n)) <=> Exponent(g, m) > Exponent(f, m)
  BY <1>2, <1>3, <1>4
<1>8. Deglex(Identity, f, g) <=>
        \/ TotalDegree(f) < TotalDegree(g)
        \/ TotalDegree(f) = TotalDegree(g) /\ Exponent(f, m) > Exponent(g, m)
  BY <1>6, DeglexOf
<1>9. Deglex(Identity, g, f) <=>
        \/ TotalDegree(g) < TotalDegree(f)
        \/ TotalDegree(g) = TotalDegree(f) /\ Exponent(g, m) > Exponent(f, m)
  BY <1>7, DeglexOf
<1> QED
  BY <1>1, <1>5, <1>8, <1>9

\* Multiplying both sides by a factor does not change the order.
LEMMA DeglexIsInvariant ==
  ASSUME NEW f, IsMonomial(f), NEW b \in Nat, Bounded(f, b),
         NEW g, IsMonomial(g), NEW c \in Nat, Bounded(g, c),
         NEW m \in Id
  PROVE  Deglex(Identity, f, g) <=> Deglex(Identity, Times(f, Variable(m)), Times(g, Variable(m)))
<1> DEFINE s == Times(f, Variable(m))
           t == Times(g, Variable(m))
<1>1. TotalDegree(f) \in Nat /\ TotalDegree(g) \in Nat
  BY DegreeIsSum
<1>2. /\ IsMonomial(s) /\ TotalDegree(s) = TotalDegree(f) + 1
      /\ \A n \in Nat : Exponent(s, n) = Exponent(f, n) + (IF n = m THEN 1 ELSE 0)
  BY TimesVariable
<1>3. /\ IsMonomial(t) /\ TotalDegree(t) = TotalDegree(g) + 1
      /\ \A n \in Nat : Exponent(t, n) = Exponent(g, n) + (IF n = m THEN 1 ELSE 0)
  BY TimesVariable
<1> HIDE DEF s, t
<1>4. ASSUME NEW n \in Nat
      PROVE  /\ Exponent(s, n) = Exponent(t, n) <=> Exponent(f, n) = Exponent(g, n)
             /\ Exponent(s, n) > Exponent(t, n) <=> Exponent(f, n) > Exponent(g, n)
  <2>1. Exponent(f, n) \in Nat /\ Exponent(g, n) \in Nat
    BY ExponentFacts
  <2>2. PICK d \in Nat : Exponent(s, n) = Exponent(f, n) + d /\ Exponent(t, n) = Exponent(g, n) + d
    BY <1>2, <1>3
  <2> QED
    BY <2>1, <2>2
<1>5. \A n : Differ(s, t, n) <=> Differ(f, g, n)
  BY <1>4 DEF Differ
<1>6. (\E n : Differ(s, t, n) /\ Exponent(s, n) > Exponent(t, n))
      <=> \E n : Differ(f, g, n) /\ Exponent(f, n) > Exponent(g, n)
  BY <1>4, <1>5 DEF Differ
<1>7. Deglex(Identity, f, g) <=>
        \/ TotalDegree(f) < TotalDegree(g)
        \/ /\ TotalDegree(f) = TotalDegree(g)
           /\ \E n : Differ(f, g, n) /\ Exponent(f, n) > Exponent(g, n)
  BY DeglexOf
<1>8. Deglex(Identity, s, t) <=>
        \/ TotalDegree(s) < TotalDegree(t)
        \/ /\ TotalDegree(s) = TotalDegree(t)
           /\ \E n : Differ(s, t, n) /\ Exponent(s, n) > Exponent(t, n)
  BY <1>2, <1>3, DeglexOf
<1>9. Deglex(Identity, f, g) <=> Deglex(Identity, s, t)
  BY <1>1, <1>2, <1>3, <1>6, <1>7, <1>8
<1> QED
  BY <1>9 DEF s, t

\* The degree is at least the exponent of any factor; if it is exactly that, then
\* there is no other factor.
LEMMA DegreeBounds ==
  ASSUME NEW f, IsMonomial(f), NEW b \in Nat, Bounded(f, b)
  PROVE  /\ DOMAIN f = {} => TotalDegree(f) = 0
         /\ \A x \in DOMAIN f : TotalDegree(f) >= f[x] /\ (DOMAIN f = {x} => TotalDegree(f) = f[x])
         /\ \A x, y \in DOMAIN f : x # y => TotalDegree(f) > f[x]
<1>1. /\ TotalDegree(f) = Sum(Exponents(f))[b]
      /\ Part(f, DOMAIN f) = Exponents(f)
      /\ \A x \in DOMAIN f : f[x] \in Nat /\ f[x] > 0
  BY DegreeIsSum, ExponentFacts DEF Part, Exponents, Exponent
<1>2. /\ \A s \in SUBSET DOMAIN f : Sum(Part(f, s))[b] \in Nat
      /\ Sum(Part(f, {}))[b] = 0
      /\ \A s \in SUBSET DOMAIN f : \A x \in s : Sum(Part(f, s))[b] = f[x] + Sum(Part(f, s \ {x}))[b]
  BY PartFacts
<1>3. DOMAIN f = {} => TotalDegree(f) = 0
  BY <1>1, <1>2
<1>4. ASSUME NEW x \in DOMAIN f
      PROVE  TotalDegree(f) = f[x] + Sum(Part(f, DOMAIN f \ {x}))[b] /\ Sum(Part(f, DOMAIN f \ {x}))[b] \in Nat
  BY <1>1, <1>2
<1>5. ASSUME NEW x \in DOMAIN f, DOMAIN f = {x}
      PROVE  TotalDegree(f) = f[x]
  <2>1. DOMAIN f \ {x} = {}
    BY <1>5
  <2> QED
    BY <1>1, <1>2, <1>4, <2>1
<1>6. ASSUME NEW x \in DOMAIN f, NEW y \in DOMAIN f, x # y
      PROVE  TotalDegree(f) > f[x]
  <2> DEFINE s == DOMAIN f \ {x}
  <2>1. s \in SUBSET DOMAIN f /\ s \ {y} \in SUBSET DOMAIN f /\ y \in s
    BY <1>6
  <2>2. Sum(Part(f, s))[b] = f[y] + Sum(Part(f, s \ {y}))[b] /\ Sum(Part(f, s \ {y}))[b] \in Nat
    BY <1>2, <2>1
  <2>3. f[y] \in Nat /\ f[y] > 0 /\ f[x] \in Nat
    BY <1>1
  <2> QED
    BY <1>4, <2>2, <2>3
<1>7. ASSUME NEW x \in DOMAIN f
      PROVE  TotalDegree(f) >= f[x]
  <2>1. f[x] \in Nat
    BY <1>1
  <2>2. PICK d \in Nat : TotalDegree(f) = f[x] + d
    BY <1>4
  <2> QED
    BY <2>1, <2>2
<1> QED
  BY <1>3, <1>5, <1>6, <1>7

\* Numbers that are no products have degree 0 and 1, products have a larger one.
LEMMA DegreeOfList ==
  ASSUME NEW l, IsList(l)
  PROVE  /\ Degree(l) \in Nat
         /\ IsOne(l) => Degree(l) = 0
         /\ IsAtom(l) => Degree(l) = 1
         /\ IsProduct(l) => Degree(l) >= 2
<1> DEFINE f == Monomial(l)
<1>1. IsMonomial(f) /\ \E b \in Nat : Bounded(f, b)
  BY ListMonomial
<1>2. PICK b \in Nat : Bounded(f, b)
  BY <1>1
<1>3. TotalDegree(f) \in Nat
  BY <1>1, <1>2, DegreeIsSum
<1>4. /\ DOMAIN f = {} => TotalDegree(f) = 0
      /\ \A x \in DOMAIN f : TotalDegree(f) >= f[x] /\ (DOMAIN f = {x} => TotalDegree(f) = f[x])
      /\ \A x, y \in DOMAIN f : x # y => TotalDegree(f) > f[x]
  BY <1>1, <1>2, DegreeBounds
<1>5. DOMAIN f = Ids(l) /\ \A n \in DOMAIN l : f[l[n].id] = l[n].exp
  BY MonomialOf
<1> HIDE DEF f
<1>6. /\ Len(l) \in Nat /\ DOMAIN l = 1 .. Len(l) /\ l \in Seq(Factor)
      /\ \A n \in DOMAIN l : l[n].id \in Nat /\ l[n].exp \in Nat /\ l[n].exp > 0
      /\ \A n, m \in DOMAIN l : n < m => l[n].id < l[m].id
  BY ListFacts DEF IsList
<1>7. ASSUME IsOne(l)
      PROVE  TotalDegree(f) = 0
  <2>1. DOMAIN l = {}
    BY <1>7 DEF IsOne
  <2>2. DOMAIN f = {}
    BY <1>5, <2>1 DEF Ids
  <2> QED
    BY <1>4, <2>2
<1>8. ASSUME Len(l) = 1
      PROVE  TotalDegree(f) = l[1].exp
  <2>1. DOMAIN l = {1}
    BY <1>6, <1>8
  <2>2. DOMAIN f = {l[1].id} /\ f[l[1].id] = l[1].exp
    BY <1>5, <2>1 DEF Ids
  <2> QED
    BY <1>4, <2>2
<1>9. ASSUME Len(l) >= 2
      PROVE  TotalDegree(f) >= 2
  <2>1. 1 \in DOMAIN l /\ 2 \in DOMAIN l
    BY <1>6, <1>9
  <2>2. l[1].id # l[2].id /\ l[1].id \in DOMAIN f /\ l[2].id \in DOMAIN f
    BY <1>5, <1>6, <2>1 DEF Ids
  <2>3. TotalDegree(f) > f[l[1].id] /\ f[l[1].id] = l[1].exp
    BY <1>4, <1>5, <2>1, <2>2
  <2>4. l[1].exp \in Nat /\ l[1].exp > 0
    BY <1>6, <2>1
  <2> QED
    BY <1>3, <2>3, <2>4
<1>10. ASSUME IsProduct(l)
       PROVE  TotalDegree(f) >= 2
  <2>1. Len(l) # 0
    BY <1>6, <1>10, EmptySeq DEF IsProduct, IsOne
  <2>2. CASE Len(l) = 1
    <3>1. l[1].exp # 1 /\ l[1].exp \in Nat /\ l[1].exp > 0
      BY <1>6, <1>10, <2>2 DEF IsProduct, IsAtom
    <3> QED
      BY <1>8, <2>2, <3>1
  <2>3. CASE Len(l) >= 2
    BY <1>9, <2>3
  <2> QED
    BY <1>6, <2>1, <2>2, <2>3
<1> QED
  BY <1>3, <1>7, <1>8, <1>10 DEF Degree, IsAtom, f

-----------------------------------------------------------------------------
(* Two lists that start with the same factors. *)

Prefix(l, r, n) ==
  /\ n \in DOMAIN l /\ n \in DOMAIN r
  /\ \A p \in DOMAIN l : p < n => p \in DOMAIN r /\ l[p] = r[p]

LEMMA PrefixAgrees ==
  ASSUME NEW l, IsList(l), NEW r, IsList(r), NEW n, Prefix(l, r, n),
         NEW m \in Nat, m <= l[n].id, m <= r[n].id
  PROVE  \A x \in Nat : x < m => Exp(l, x) = Exp(r, x)
<1> SUFFICES ASSUME NEW x \in Nat, x < m
             PROVE  Exp(l, x) = Exp(r, x)
  OBVIOUS
<1>1. n \in DOMAIN l /\ n \in DOMAIN r /\ \A p \in DOMAIN l : p < n => p \in DOMAIN r /\ l[p] = r[p]
  BY DEF Prefix
<1>2. /\ DOMAIN l = 1 .. Len(l) /\ DOMAIN r = 1 .. Len(r) /\ Len(l) \in Nat /\ Len(r) \in Nat
      /\ \A p \in DOMAIN l : l[p].id \in Nat
      /\ \A p \in DOMAIN r : r[p].id \in Nat
  BY ListFacts
<1>3. \A p \in DOMAIN l : l[p].id < l[n].id => p < n
  <2> SUFFICES ASSUME NEW p \in DOMAIN l, l[p].id < l[n].id, ~ p < n
               PROVE  FALSE
    OBVIOUS
  <2>1. p = n \/ n < p
    BY <1>1, <1>2
  <2>2. n < p => l[n].id < l[p].id
    BY <1>1, ListFacts
  <2> QED
    BY <1>1, <1>2, <2>1, <2>2
<1>4. \A p \in DOMAIN r : r[p].id < r[n].id => p < n
  <2> SUFFICES ASSUME NEW p \in DOMAIN r, r[p].id < r[n].id, ~ p < n
               PROVE  FALSE
    OBVIOUS
  <2>1. p = n \/ n < p
    BY <1>1, <1>2
  <2>2. n < p => r[n].id < r[p].id
    BY <1>1, ListFacts
  <2> QED
    BY <1>1, <1>2, <2>1, <2>2
<1>5. CASE x \in Ids(l)
  <2>1. PICK p \in DOMAIN l : l[p].id = x
    BY <1>5 DEF Ids
  <2>2. p < n
    BY <1>1, <1>2, <1>3, <2>1
  <2>3. p \in DOMAIN r /\ r[p] = l[p]
    BY <1>1, <2>2
  <2> QED
    BY <2>1, <2>3, MonomialOf
<1>6. CASE x \notin Ids(l)
  <2>1. x \notin Ids(r)
    <3> SUFFICES ASSUME NEW p \in DOMAIN r, r[p].id = x
                 PROVE  FALSE
      BY DEF Ids
    <3>1. p < n
      BY <1>1, <1>2, <1>4
    <3>2. p \in DOMAIN l
      BY <1>1, <1>2, <3>1
    <3>3. l[p] = r[p]
      BY <1>1, <3>1, <3>2
    <3> QED
      BY <1>6, <3>2, <3>3 DEF Ids
  <2> QED
    BY <1>6, <2>1, MonomialOf
<1> QED
  BY <1>5, <1>6

\* An id that is passed over is no factor.
LEMMA PassedOver ==
  ASSUME NEW l, IsList(l), NEW r, IsList(r), NEW n, Prefix(l, r, n), l[n].id < r[n].id
  PROVE  Differ(Monomial(l), Monomial(r), l[n].id) /\ Exp(l, l[n].id) > Exp(r, l[n].id)
<1> DEFINE m == l[n].id
<1>1. n \in DOMAIN l /\ n \in DOMAIN r /\ \A p \in DOMAIN l : p < n => p \in DOMAIN r /\ l[p] = r[p]
  BY DEF Prefix
<1>2. /\ DOMAIN l = 1 .. Len(l) /\ DOMAIN r = 1 .. Len(r) /\ Len(l) \in Nat /\ Len(r) \in Nat
      /\ \A p \in DOMAIN l : l[p].id \in Nat /\ l[p].exp \in Nat /\ l[p].exp > 0
      /\ \A p \in DOMAIN r : r[p].id \in Nat
  BY ListFacts
<1>3. m \in Nat /\ m <= l[n].id /\ m <= r[n].id
  BY <1>1, <1>2
<1>4. \A x \in Nat : x < m => Exp(l, x) = Exp(r, x)
  BY <1>3, PrefixAgrees
<1>5. Exp(l, m) > 0
  BY <1>1, <1>2, MonomialOf
<1>6. m \notin Ids(r)
  <2> SUFFICES ASSUME NEW p \in DOMAIN r, r[p].id = m
               PROVE  FALSE
    BY DEF Ids
  <2>1. CASE p < n
    <3>1. p \in DOMAIN l
      BY <1>1, <1>2, <2>1
    <3>2. l[p].id = m /\ l[p].id < l[n].id
      BY <1>1, <2>1, <3>1, ListFacts
    <3> QED
      BY <1>2, <3>1, <3>2
  <2>2. CASE p = n
    BY <1>3, <2>2
  <2>3. CASE n < p
    <3>1. r[n].id < r[p].id
      BY <1>1, <2>3, ListFacts
    <3> QED
      BY <1>1, <1>2, <3>1
  <2> QED
    BY <1>1, <1>2, <2>1, <2>2, <2>3
<1>7. Exp(r, m) = 0
  BY <1>6, MonomialOf
<1>8. Exp(l, m) \in Nat
  BY MonomialOf
<1> HIDE DEF m
<1> QED
  BY <1>3, <1>4, <1>5, <1>7, <1>8 DEF Differ, Exp, m

\* What the loop decides at the first factors that differ is the order.
LEMMA FirstFactors ==
  ASSUME NEW l, IsList(l), NEW r, IsList(r), NEW n, Prefix(l, r, n), l[n] # r[n],
         Degree(l) = Degree(r)
  PROVE  Deglex(Identity, Monomial(l), Monomial(r)) <=>
           \/ l[n].id < r[n].id
           \/ l[n].id = r[n].id /\ l[n].exp > r[n].exp
<1> DEFINE f == Monomial(l)
           g == Monomial(r)
           Answer == \/ l[n].id < r[n].id
                     \/ l[n].id = r[n].id /\ l[n].exp > r[n].exp
<1>1. n \in DOMAIN l /\ n \in DOMAIN r /\ Prefix(r, l, n)
  <2>1. DOMAIN l = 1 .. Len(l) /\ DOMAIN r = 1 .. Len(r) /\ Len(l) \in Nat /\ Len(r) \in Nat
    BY ListFacts
  <2> QED
    BY <2>1 DEF Prefix
<1>2. /\ l[n].id \in Nat /\ l[n].exp \in Nat /\ r[n].id \in Nat /\ r[n].exp \in Nat
      /\ l[n] \in Factor /\ r[n] \in Factor
  BY <1>1, ListFacts
<1>3. Deglex(Identity, f, g) <=> \E m : Differ(f, g, m) /\ Exp(l, m) > Exp(r, m)
  <2>1. IsMonomial(f) /\ IsMonomial(g)
    BY ListMonomial
  <2>2. Degree(l) \in Nat /\ Degree(r) \in Nat
    BY DegreeOfList
  <2> QED
    BY <2>1, <2>2, DeglexOf DEF Degree, Exp
<1>4. \A x, y : Differ(f, g, x) /\ Differ(f, g, y) => x = y
  BY OneDifference
<1>5. CASE l[n].id < r[n].id
  BY <1>3, <1>5, PassedOver
<1>6. CASE r[n].id < l[n].id
  <2>1. Differ(g, f, r[n].id) /\ Exp(r, r[n].id) > Exp(l, r[n].id)
    BY <1>1, <1>6, PassedOver
  <2>2. Differ(f, g, r[n].id)
    BY <2>1 DEF Differ
  <2>3. Exp(r, r[n].id) \in Nat /\ Exp(l, r[n].id) \in Nat
    BY MonomialOf
  <2>4. ~ \E m : Differ(f, g, m) /\ Exp(l, m) > Exp(r, m)
    BY <1>4, <2>1, <2>2, <2>3
  <2> QED
    BY <1>2, <1>3, <1>6, <2>4
<1>7. CASE l[n].id = r[n].id
  <2> DEFINE m == l[n].id
  <2>1. Exp(l, m) = l[n].exp /\ Exp(r, m) = r[n].exp
    BY <1>1, <1>7, MonomialOf
  <2>2. l[n].exp # r[n].exp
    BY <1>2, <1>7 DEF Factor
  <2>3. m \in Nat /\ m <= l[n].id /\ m <= r[n].id
    BY <1>2, <1>7
  <2>4. \A x \in Nat : x < m => Exp(l, x) = Exp(r, x)
    BY <2>3, PrefixAgrees
  <2> HIDE DEF m
  <2>5. Differ(f, g, m)
    BY <2>1, <2>2, <2>3, <2>4 DEF Differ, Exp
  <2>6. (\E x : Differ(f, g, x) /\ Exp(l, x) > Exp(r, x)) <=> l[n].exp > r[n].exp
    BY <1>4, <2>1, <2>5
  <2> QED
    BY <1>2, <1>3, <1>7, <2>6
<1> QED
  BY <1>2, <1>5, <1>6, <1>7

\* Numbers that are no products.
LEMMA AtomsAreOrdered ==
  ASSUME NEW l, IsList(l), NEW r, IsList(r), ~(IsProduct(l) /\ IsProduct(r))
  PROVE  Deglex(Identity, Monomial(l), Monomial(r)) <=>
           IF IsProduct(l) THEN FALSE
           ELSE IF IsProduct(r) THEN TRUE
           ELSE IF IsOne(l) THEN ~IsOne(r)
           ELSE ~IsOne(r) /\ l[1].id < r[1].id
<1> DEFINE f == Monomial(l)
           g == Monomial(r)
<1>1. /\ Degree(l) \in Nat /\ Degree(r) \in Nat
      /\ (IsOne(l) => Degree(l) = 0) /\ (IsAtom(l) => Degree(l) = 1) /\ (IsProduct(l) => Degree(l) >= 2)
      /\ (IsOne(r) => Degree(r) = 0) /\ (IsAtom(r) => Degree(r) = 1) /\ (IsProduct(r) => Degree(r) >= 2)
  BY DegreeOfList
<1>2. (IsProduct(l) \/ IsAtom(l) \/ IsOne(l)) /\ (IsProduct(r) \/ IsAtom(r) \/ IsOne(r))
  BY DEF IsProduct
<1>3. (IsOne(l) => ~IsAtom(l)) /\ (IsOne(r) => ~IsAtom(r))
  BY DEF IsOne, IsAtom
<1>4. (IsProduct(l) => ~IsOne(l) /\ ~IsAtom(l)) /\ (IsProduct(r) => ~IsOne(r) /\ ~IsAtom(r))
  BY DEF IsProduct
<1>5. Deglex(Identity, f, g) <=>
        \/ Degree(l) < Degree(r)
        \/ Degree(l) = Degree(r) /\ \E m : Differ(f, g, m) /\ Exponent(f, m) > Exponent(g, m)
  <2>1. IsMonomial(f) /\ IsMonomial(g)
    BY ListMonomial
  <2> QED
    BY <2>1, DeglexOf DEF Degree
<1>6. l = r => ~ \E m : Differ(f, g, m)
  BY DEF Differ
<1>7. CASE IsProduct(l)
  <2>1. IsAtom(r) \/ IsOne(r)
    BY <1>2, <1>7
  <2>2. Degree(r) <= 1 /\ Degree(l) >= 2
    BY <1>1, <1>7, <2>1
  <2> QED
    BY <1>1, <1>5, <1>7, <2>2
<1>8. CASE ~IsProduct(l) /\ IsProduct(r)
  <2>1. Degree(l) <= 1 /\ Degree(r) >= 2
    BY <1>1, <1>2, <1>8
  <2> QED
    BY <1>1, <1>5, <1>8, <2>1
<1>9. CASE ~IsProduct(l) /\ ~IsProduct(r) /\ IsOne(l)
  <2>1. CASE IsOne(r)
    <3>1. l = r /\ Degree(l) = 0 /\ Degree(r) = 0
      BY <1>1, <1>9, <2>1 DEF IsOne
    <3> QED
      BY <1>5, <1>6, <1>9, <2>1, <3>1
  <2>2. CASE ~IsOne(r)
    <3>1. Degree(l) = 0 /\ Degree(r) = 1
      BY <1>1, <1>2, <1>9, <2>2
    <3> QED
      BY <1>5, <1>9, <2>2, <3>1
  <2> QED
    BY <2>1, <2>2
<1>10. CASE ~IsProduct(l) /\ ~IsProduct(r) /\ ~IsOne(l) /\ IsOne(r)
  <2>1. Degree(l) = 1 /\ Degree(r) = 0
    BY <1>1, <1>2, <1>10
  <2> QED
    BY <1>5, <1>10, <2>1
<1>11. CASE ~IsProduct(l) /\ ~IsProduct(r) /\ ~IsOne(l) /\ ~IsOne(r)
  <2>1. IsAtom(l) /\ IsAtom(r) /\ Degree(l) = Degree(r)
    BY <1>1, <1>2, <1>11
  <2>2. DOMAIN l = {1} /\ DOMAIN r = {1} /\ l[1].exp = 1 /\ r[1].exp = 1
    BY <2>1, ListFacts DEF IsAtom
  <2>3. Prefix(l, r, 1)
    BY <2>2 DEF Prefix
  <2>4. CASE l[1] = r[1]
    <3>1. l = r
      <4>1. l = [n \in {1} |-> l[n]] /\ r = [n \in {1} |-> r[n]]
        <5>1. l \in Seq(Factor) /\ r \in Seq(Factor)
          BY DEF IsList
        <5>2. l = [n \in 1 .. Len(l) |-> l[n]] /\ r = [n \in 1 .. Len(r) |-> r[n]]
          BY <5>1
        <5>3. 1 .. Len(l) = {1} /\ 1 .. Len(r) = {1}
          BY <2>2, ListFacts
        <5> QED
          BY <5>2, <5>3
      <4> QED
        BY <2>4, <4>1
    <3>2. l[1].id \in Nat /\ l[1].id = r[1].id
      BY <2>2, <2>4, ListFacts
    <3> QED
      BY <1>1, <1>5, <1>6, <1>11, <2>1, <3>1, <3>2
  <2>5. CASE l[1] # r[1]
    <3>1. Deglex(Identity, f, g) <=>
            \/ l[1].id < r[1].id
            \/ l[1].id = r[1].id /\ l[1].exp > r[1].exp
      BY <2>1, <2>3, <2>5, FirstFactors
    <3> QED
      BY <1>11, <2>2, <3>1
  <2> QED
    BY <2>4, <2>5
<1> QED
  BY <1>7, <1>8, <1>9, <1>10, <1>11

-----------------------------------------------------------------------------
(* deglex. *)

\* The factors that have been compared are the same.
DeglexInv ==
  Running("deglex") =>
    /\ i = j
    /\ \A p \in DOMAIN lhs : p < i => p \in DOMAIN rhs /\ lhs[p] = rhs[p]

DeglexAnswer ==
  Returned("deglex") => (Value <=> Deglex(Identity, Monomial(lhs), Monomial(rhs)))

\* What deglex returns, whichever way it takes.
LEMMA DeglexReturns ==
  ASSUME IInv, DeglexInv,
         DeglexAtoms \/ DeglexSame \/ DeglexDegree \/ DeglexReturn
  PROVE  DeglexInv' /\ DeglexAnswer'
<1>1. IsList(lhs) /\ IsList(rhs)
  BY DEF IInv, Types
<1>2. lhs' = lhs /\ rhs' = rhs /\ Running("deglex")
  BY DEF DeglexAtoms, DeglexSame, DeglexDegree, DeglexReturn, ComparingFactors, Return, operands
<1>3. result' # <<>>
  <2>1. \E v : result' = <<v>>
    BY DEF DeglexAtoms, DeglexSame, DeglexDegree, DeglexReturn, Return
  <2> QED
    BY <2>1
<1>4. Degree(lhs) \in Nat /\ Degree(rhs) \in Nat
  BY <1>1, DegreeOfList
<1>5. IsMonomial(Monomial(lhs)) /\ IsMonomial(Monomial(rhs))
  BY <1>1, ListMonomial
<1>6. Value' <=> Deglex(Identity, Monomial(lhs), Monomial(rhs))
  <2>1. CASE DeglexAtoms
    <3> DEFINE answer == IF IsProduct(lhs) THEN FALSE
                         ELSE IF IsProduct(rhs) THEN TRUE
                         ELSE IF IsOne(lhs) THEN ~IsOne(rhs)
                         ELSE ~IsOne(rhs) /\ lhs[1].id < rhs[1].id
    <3>1. result' = <<answer>> /\ ~(IsProduct(lhs) /\ IsProduct(rhs))
      BY <2>1 DEF DeglexAtoms, Return
    <3>2. Deglex(Identity, Monomial(lhs), Monomial(rhs)) <=> answer
      BY <1>1, <3>1, AtomsAreOrdered
    <3>3. Value' = answer
      BY <3>1 DEF Value
    <3> QED
      BY <3>2, <3>3
  <2>2. CASE DeglexSame
    <3>1. Value' = FALSE /\ lhs = rhs
      BY <2>2 DEF DeglexSame, Return, Value
    <3>2. ~Deglex(Identity, Monomial(lhs), Monomial(lhs))
      <4>1. ~ \E m : Differ(Monomial(lhs), Monomial(lhs), m)
        BY DEF Differ
      <4>2. ~ TotalDegree(Monomial(lhs)) < TotalDegree(Monomial(lhs))
        BY <1>4 DEF Degree
      <4> QED
        BY <1>5, <4>1, <4>2, DeglexOf
    <3> QED
      BY <3>1, <3>2
  <2>3. CASE DeglexDegree
    <3>1. Value' = (Degree(lhs) < Degree(rhs)) /\ Degree(lhs) # Degree(rhs)
      BY <2>3 DEF DeglexDegree, Return, Value
    <3>2. Deglex(Identity, Monomial(lhs), Monomial(rhs)) <=> Degree(lhs) < Degree(rhs)
      BY <1>5, <3>1, DeglexOf DEF Degree
    <3> QED
      BY <3>1, <3>2
  <2>4. CASE DeglexReturn
    <3> DEFINE answer == \/ lhs[i].id < rhs[i].id
                         \/ lhs[i].id = rhs[i].id /\ lhs[i].exp > rhs[i].exp
    <3>1. i = j /\ \A p \in DOMAIN lhs : p < i => p \in DOMAIN rhs /\ lhs[p] = rhs[p]
      BY <1>2 DEF DeglexInv
    <3>2. /\ i <= Len(lhs) /\ i <= Len(rhs) /\ lhs[i] # rhs[i] /\ Degree(lhs) = Degree(rhs)
          /\ result' = <<answer>>
      BY <2>4, <3>1 DEF DeglexReturn, ComparingFactors, Return
    <3>3. i \in DOMAIN lhs /\ i \in DOMAIN rhs
      <4>1. i \in 1 .. Len(lhs) + 1
        BY DEF IInv, Types
      <4> QED
        BY <1>1, <3>2, <4>1, ListFacts
    <3>4. Prefix(lhs, rhs, i)
      BY <3>1, <3>3 DEF Prefix
    <3>5. Deglex(Identity, Monomial(lhs), Monomial(rhs)) <=> answer
      BY <1>1, <3>2, <3>4, FirstFactors
    <3>6. Value' = answer
      BY <3>2 DEF Value
    <3> QED
      BY <3>5, <3>6
  <2> QED
    BY <2>1, <2>2, <2>3, <2>4
<1> QED
  BY <1>2, <1>3, <1>6 DEF DeglexInv, DeglexAnswer, Running

LEMMA DeglexStepSound ==
  ASSUME IInv, DeglexInv, DeglexStep
  PROVE  DeglexInv' /\ DeglexAnswer'
<1>1. /\ i = j /\ \A p \in DOMAIN lhs : p < i => p \in DOMAIN rhs /\ lhs[p] = rhs[p]
      /\ i <= Len(lhs) /\ i <= Len(rhs) /\ lhs[i] = rhs[i]
      /\ i' = i + 1 /\ j' = j + 1
      /\ lhs' = lhs /\ rhs' = rhs /\ result' = <<>>
  BY DEF DeglexInv, DeglexStep, ComparingFactors, Running, operands
<1>2. /\ i \in 1 .. Len(lhs) + 1 /\ DOMAIN lhs = 1 .. Len(lhs) /\ DOMAIN rhs = 1 .. Len(rhs)
      /\ Len(lhs) \in Nat /\ Len(rhs) \in Nat
  BY ListFacts DEF IInv, Types
<1>3. ASSUME NEW p \in DOMAIN lhs, p < i + 1
      PROVE  p \in DOMAIN rhs /\ lhs[p] = rhs[p]
  <2>1. p = i \/ p < i
    BY <1>2, <1>3
  <2> QED
    BY <1>1, <1>2, <2>1
<1>4. DeglexInv'
  BY <1>1, <1>3 DEF DeglexInv
<1> QED
  BY <1>1, <1>4 DEF DeglexAnswer, Returned

LEMMA DeglexInductive ==
  Spec => [](DeglexInv /\ DeglexAnswer)
<1>1. Init => DeglexInv /\ DeglexAnswer
  BY DEF Init, DeglexInv, DeglexAnswer, Running, Returned
<1>2. IInv /\ (DeglexInv /\ DeglexAnswer) /\ [Next]_vars => (DeglexInv /\ DeglexAnswer)'
  <2> SUFFICES ASSUME IInv, DeglexInv, DeglexAnswer, [Next]_vars
               PROVE  DeglexInv' /\ DeglexAnswer'
    OBVIOUS
  <2>1. CASE Start
    <3>1. result' = <<>> /\ i' = 1 /\ j' = 1
      BY <2>1 DEF Start, PersistCall, EqualCall, DivideCall, DeglexCall, Call, IInv, AtRest
    <3>2. \A p \in DOMAIN lhs' : ~ p < 1
      <4>1. IsList(lhs')
        <5>1. IInv'
          BY <2>1, StartSound
        <5> QED
          BY <5>1 DEF IInv, Types
      <4> QED
        BY <4>1, ListFacts
    <3> QED
      BY <3>1, <3>2 DEF DeglexInv, DeglexAnswer, Returned
  <2>2. CASE Done
    BY <2>2 DEF Done, DeglexInv, DeglexAnswer, Running, Returned
  <2>3. CASE PersistStep \/ PersistReturn \/ PersistSquare
    <3>1. call' = "persist"
      BY <2>3 DEF PersistStep, PersistReturn, PersistSquare, Running, Return, operands
    <3> QED
      BY <3>1 DEF DeglexInv, DeglexAnswer, Running, Returned
  <2>4. CASE EqualStep \/ EqualMismatch \/ EqualReturn
    <3>1. call' = "equal"
      BY <2>4 DEF EqualStep, EqualMismatch, EqualReturn, Running, Return, operands
    <3> QED
      BY <3>1 DEF DeglexInv, DeglexAnswer, Running, Returned
  <2>5. CASE DivideByOne \/ DivideStep \/ DivideSearch \/ DivideFail \/ DivideCollect \/ DivideReturn
    <3>1. call' = "divide"
      BY <2>5
      DEF DivideByOne, DivideStep, DivideSearch, DivideFail, DivideCollect, DivideReturn, Collecting, Running,
          Return, operands
    <3> QED
      BY <3>1 DEF DeglexInv, DeglexAnswer, Running, Returned
  <2>6. CASE DeglexAtoms \/ DeglexSame \/ DeglexDegree \/ DeglexReturn
    BY <2>6, DeglexReturns
  <2>7. CASE DeglexStep
    BY <2>7, DeglexStepSound
  <2>8. CASE UNCHANGED vars
    BY <2>8 DEF vars, DeglexInv, DeglexAnswer, Running, Returned, Value
  <2> QED
    BY <2>1, <2>2, <2>3, <2>4, <2>5, <2>6, <2>7, <2>8 DEF Next, Step
<1> QED
  BY <1>1, <1>2, Inductive, PTL DEF Spec

\* RealNumber::deglex is a monomial order: it decides between any two monomials,
\* and multiplying both sides by a factor does not change its answer.
THEOREM DeglexOrdersMonomials ==
  Spec => []DeglexIsMonomialOrder
<1>1. IInv /\ DeglexAnswer => DeglexIsMonomialOrder
  <2> SUFFICES ASSUME IInv, DeglexAnswer, Returned("deglex")
               PROVE  LET f == Monomial(lhs)
                          g == Monomial(rhs)
                          id == [m \in Id |-> m]
                      IN  /\ Value <=> Deglex(id, f, g)
                          /\ f = g \/ (Value <=> ~Deglex(id, g, f))
                          /\ \A m \in Id : LET x == [n \in {m} |-> 1]
                                           IN  Value <=> Deglex(id, Times(f, x), Times(g, x))
    BY DEF DeglexIsMonomialOrder
  <2> DEFINE f == Monomial(lhs)
             g == Monomial(rhs)
  <2>1. Value <=> Deglex(Identity, f, g)
    BY DEF DeglexAnswer
  <2>2. IsMonomial(f) /\ IsMonomial(g) /\ (\E b \in Nat : Bounded(f, b)) /\ (\E c \in Nat : Bounded(g, c))
    BY ListMonomial DEF IInv, Types
  <2>3. PICK b \in Nat : Bounded(f, b)
    BY <2>2
  <2>4. PICK c \in Nat : Bounded(g, c)
    BY <2>2
  <2> HIDE DEF f, g
  <2>5. f = g \/ (Value <=> ~Deglex(Identity, g, f))
    BY <2>1, <2>2, <2>3, <2>4, DeglexIsTotal
  <2>6. \A m \in Id : Value <=> Deglex(Identity, Times(f, Variable(m)), Times(g, Variable(m)))
    BY <2>1, <2>2, <2>3, <2>4, DeglexIsInvariant
  <2> QED
    BY <2>1, <2>5, <2>6 DEF f, g, Identity, Variable
<1> QED
  BY <1>1, Inductive, DeglexInductive, PTL
=============================================================================
