-------------------------- MODULE RecursiveFunctions --------------------------
(***************************************************************************)
(* Induction over the natural numbers in terms of sets: what holds for 0   *)
(* and is passed on from n to n + 1 is a set of numbers that contains all  *)
(* of them.  From it, a function that is defined by recursion exists if    *)
(* its value at x only depends on its values at arguments that are smaller *)
(* than x.                                                                 *)
(***************************************************************************)
EXTENDS Integers, WellFoundedInduction, TLAPS

CONSTANTS
  Argument(_),     \* where the function with a parameter p is defined
  Measure(_, _),   \* Measure(p, x), how large an argument is
  Value(_, _, _)   \* Value(p, g, x), the value at x if g has the smaller values

-----------------------------------------------------------------------------
(* Induction. *)

\* Every set of natural numbers has a smallest element.
LEMMA Least ==
  ASSUME NEW T \in SUBSET Nat, T # {}
  PROVE  \E n \in T : \A m \in T : n <= m
<1> DEFINE R == OpToRel(<, Nat)
<1>1. IsWellFoundedOn(R, Nat)
  BY NatLessThanWellFounded
<1>2. \A a, b \in Nat : a < b => <<a, b>> \in R
  BY DEF OpToRel
<1> HIDE DEF R
<1>3. PICK n \in T : \A m \in T : ~ (<<m, n>> \in R)
  BY <1>1, WFMin
<1>4. ASSUME NEW m \in T
      PROVE  n <= m
  <2>1. n \in Nat /\ m \in Nat
    OBVIOUS
  <2>2. ~ m < n
    BY <1>2, <1>3, <2>1
  <2> QED
    BY <2>1, <2>2
<1> QED
  BY <1>4

LEMMA Induct ==
  ASSUME NEW S, 0 \in S, \A n \in Nat : n \in S => n + 1 \in S
  PROVE  \A n \in Nat : n \in S
<1> SUFFICES ASSUME NEW x \in Nat, x \notin S
             PROVE  FALSE
  OBVIOUS
<1> DEFINE T == Nat \ S
<1>1. PICK n \in T : \A m \in T : n <= m
  BY Least
<1>2. n # 0 /\ n - 1 \in Nat
  BY <1>1
<1>3. n - 1 \in S
  BY <1>1, <1>2
<1> QED
  BY <1>1, <1>2, <1>3

LEMMA StrongInduct ==
  ASSUME NEW S, \A n \in Nat : (\A m \in Nat : m < n => m \in S) => n \in S
  PROVE  \A n \in Nat : n \in S
<1> SUFFICES ASSUME NEW x \in Nat, x \notin S
             PROVE  FALSE
  OBVIOUS
<1> DEFINE T == Nat \ S
<1>1. PICK n \in T : \A m \in T : n <= m
  BY Least
<1>2. ASSUME NEW m \in Nat, m < n
      PROVE  m \in S
  <2>1. n \in Nat
    OBVIOUS
  <2> QED
    BY <1>1, <1>2, <2>1
<1> QED
  BY <1>2

-----------------------------------------------------------------------------
(* Recursion. *)

\* Up to n, g is the function with parameter p.
Upto(p, n, g) == \A x \in Argument(p) : Measure(p, x) < n => g[x] = Value(p, g, x)

Congruent(p) ==
  \A x \in Argument(p) : \A g, h :
    (\A y \in Argument(p) : Measure(p, y) < Measure(p, x) => g[y] = h[y]) => Value(p, g, x) = Value(p, h, x)

\* Where two such functions are defined, they agree.
LEMMA Unique ==
  ASSUME NEW p, \A x \in Argument(p) : Measure(p, x) \in Nat, Congruent(p),
         NEW m \in Nat, NEW n \in Nat, NEW g, NEW h, Upto(p, m, g), Upto(p, n, h)
  PROVE  \A x \in Argument(p) : Measure(p, x) < m /\ Measure(p, x) < n => g[x] = h[x]
<1> DEFINE S == {k \in Nat : k <= m /\ k <= n => \A x \in Argument(p) : Measure(p, x) < k => g[x] = h[x]}
<1>1. 0 \in S
  OBVIOUS
<1>2. ASSUME NEW k \in Nat, k \in S
      PROVE  k + 1 \in S
  <2> SUFFICES ASSUME k + 1 <= m, k + 1 <= n, NEW x \in Argument(p), Measure(p, x) < k + 1
               PROVE  g[x] = h[x]
    OBVIOUS
  <2>1. Measure(p, x) \in Nat /\ Measure(p, x) < m /\ Measure(p, x) < n
    OBVIOUS
  <2>2. \A y \in Argument(p) : Measure(p, y) < Measure(p, x) => g[y] = h[y]
    BY <1>2, <2>1
  <2>3. Value(p, g, x) = Value(p, h, x)
    BY <2>2 DEF Congruent
  <2>4. g[x] = Value(p, g, x) /\ h[x] = Value(p, h, x)
    BY <2>1 DEF Upto
  <2> QED
    BY <2>3, <2>4
<1> HIDE DEF S
<1>3. \A k \in Nat : k \in S
  BY <1>1, <1>2, Induct
<1>4. ASSUME NEW x \in Argument(p), Measure(p, x) < m, Measure(p, x) < n
      PROVE  g[x] = h[x]
  <2>1. Measure(p, x) + 1 \in S /\ Measure(p, x) \in Nat
    BY <1>3
  <2> QED
    BY <1>4, <2>1 DEF S
<1> QED
  BY <1>4

LEMMA Exists ==
  ASSUME NEW p, \A x \in Argument(p) : Measure(p, x) \in Nat, Congruent(p)
  PROVE  \E f : f = [x \in Argument(p) |-> Value(p, f, x)]
<1> DEFINE S == {n \in Nat : \E g : Upto(p, n, g)}
<1>1. 0 \in S
  BY DEF Upto
<1>2. ASSUME NEW n \in Nat, n \in S
      PROVE  n + 1 \in S
  <2>1. PICK g : Upto(p, n, g)
    BY <1>2
  <2> DEFINE e == [x \in Argument(p) |-> Value(p, g, x)]
  <2>2. \A x \in Argument(p) : e[x] = Value(p, g, x)
    OBVIOUS
  <2> HIDE DEF e
  <2>3. \A x \in Argument(p) : Measure(p, x) < n => e[x] = g[x]
    BY <2>1, <2>2 DEF Upto
  <2>4. ASSUME NEW x \in Argument(p), Measure(p, x) < n + 1
        PROVE  e[x] = Value(p, e, x)
    <3>1. \A y \in Argument(p) : Measure(p, y) < Measure(p, x) => e[y] = g[y]
      BY <2>3, <2>4
    <3>2. Value(p, e, x) = Value(p, g, x)
      BY <3>1 DEF Congruent
    <3> QED
      BY <2>2, <3>2
  <2>5. Upto(p, n + 1, e)
    BY <2>4 DEF Upto
  <2> QED
    BY <2>5
<1> HIDE DEF S
<1>3. \A n \in Nat : n \in S
  BY <1>1, <1>2, Induct
<1> DEFINE part(n) == CHOOSE g : Upto(p, n, g)
           f == [x \in Argument(p) |-> part(Measure(p, x) + 1)[x]]
<1>4. ASSUME NEW n \in Nat
      PROVE  Upto(p, n, part(n))
  <2>1. \E g : Upto(p, n, g)
    BY <1>3 DEF S
  <2> QED
    BY <2>1
<1> HIDE DEF part
<1>5. \A x \in Argument(p) : f[x] = part(Measure(p, x) + 1)[x]
  OBVIOUS
<1>6. f = [x \in Argument(p) |-> f[x]]
  OBVIOUS
<1> HIDE DEF f
<1>7. ASSUME NEW x \in Argument(p)
      PROVE  f[x] = Value(p, f, x)
  <2> DEFINE n == Measure(p, x) + 1
  <2>1. n \in Nat /\ Measure(p, x) \in Nat /\ Measure(p, x) < n
    OBVIOUS
  <2> HIDE DEF n
  <2>2. ASSUME NEW y \in Argument(p), Measure(p, y) < Measure(p, x)
        PROVE  f[y] = part(n)[y]
    <3> DEFINE m == Measure(p, y) + 1
    <3>1. m \in Nat /\ Measure(p, y) < m /\ Measure(p, y) < n
      BY <2>1, <2>2
    <3>2. f[y] = part(m)[y]
      BY <1>5
    <3> HIDE DEF m
    <3>3. Upto(p, m, part(m)) /\ Upto(p, n, part(n))
      BY <1>4, <2>1, <3>1
    <3>4. part(m)[y] = part(n)[y]
      BY <2>1, <3>1, <3>3, Unique
    <3> QED
      BY <3>2, <3>4
  <2>3. Value(p, f, x) = Value(p, part(n), x)
    BY <2>2 DEF Congruent
  <2>4. part(n)[x] = Value(p, part(n), x)
    BY <1>4, <2>1 DEF Upto
  <2> QED
    BY <1>5, <2>3, <2>4 DEF n
<1>8. f = [x \in Argument(p) |-> Value(p, f, x)]
  BY <1>6, <1>7
<1> QED
  BY <1>8
=============================================================================
