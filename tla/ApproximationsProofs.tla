------------------------ MODULE ApproximationsProofs ------------------------
(***************************************************************************)
(* Random, rational and constrained numbers are approximated and compared  *)
(* as promised, in every precision.                                        *)
(*                                                                         *)
(* From the functions that halve their argument, to floating point numbers *)
(* as multiples of a power of two that is small enough for all of them, to *)
(* roundings: they come as close to a number as its digits allow, and they *)
(* do not cross numbers with few digits.  Approximations are roundings, so *)
(* they are accurate, and what cmp and the comparisons conclude from balls *)
(* around them follows.                                                    *)
(***************************************************************************)
EXTENDS Approximations, TLAPS

-----------------------------------------------------------------------------
(* The functions of Dyadics that halve their argument. *)

PowerIf(g, n) == IF n = 0 THEN 1 ELSE (1 + (n % 2)) * Squared[g[n \div 2]]
WidthIf(g, n) == IF n = 0 THEN 0 ELSE g[n \div 2] + 1
ZerosIf(g, n) == IF n % 2 = 1 THEN 0 ELSE g[n \div 2] + 1

HalvingOf(p) == IF p = "zeros" THEN Nat \ {0} ELSE Nat
HalvingIf(p, g, n) ==
  CASE p = "power" -> PowerIf(g, n) [] p = "width" -> WidthIf(g, n) [] p = "zeros" -> ZerosIf(g, n)

Halving == INSTANCE RecursiveFunctions WITH
  Argument <- LAMBDA p : HalvingOf(p),
  Measure <- LAMBDA p, n : n,
  Value <- LAMBDA p, g, n : HalvingIf(p, g, n)

LEMMA Half ==
  ASSUME NEW n \in Nat \ {0}
  PROVE  /\ n \div 2 \in Nat /\ n \div 2 < n
         /\ n % 2 \in {0, 1}
         /\ n = 2 * (n \div 2) + (n % 2)
         /\ (n % 2 # 1 => n \div 2 \in Nat \ {0})
OBVIOUS

LEMMA HalvingExists ==
  ASSUME NEW p \in {"power", "width", "zeros"}
  PROVE  \E f : f = [n \in HalvingOf(p) |-> HalvingIf(p, f, n)]
<1>1. \A n \in HalvingOf(p) : n \in Nat
  BY DEF HalvingOf
<1>2. ASSUME NEW n \in HalvingOf(p), NEW g, NEW h, \A m \in HalvingOf(p) : m < n => g[m] = h[m]
      PROVE  HalvingIf(p, g, n) = HalvingIf(p, h, n)
  <2>1. CASE p = "zeros"
    <3>1. n \in Nat \ {0}
      BY <2>1 DEF HalvingOf
    <3>2. n % 2 # 1 => g[n \div 2] = h[n \div 2]
      BY <1>2, <2>1, <3>1, Half DEF HalvingOf
    <3> QED
      BY <2>1, <3>2 DEF HalvingIf, ZerosIf
  <2>2. CASE p # "zeros"
    <3>1. n \in Nat
      BY <2>2 DEF HalvingOf
    <3>2. n # 0 => g[n \div 2] = h[n \div 2]
      BY <1>2, <2>2, <3>1, Half DEF HalvingOf
    <3> QED
      BY <2>2, <3>2 DEF HalvingIf, PowerIf, WidthIf
  <2> QED
    BY <2>1, <2>2
<1>3. Halving!Congruent(p)
  BY <1>2 DEF Halving!Congruent
<1> QED
  BY <1>1, <1>3, Halving!Exists

LEMMA PowerValue ==
  \A n \in Nat : Power[n] = PowerIf(Power, n)
<1>1. \E f : f = [n \in Nat |-> PowerIf(f, n)]
  <2>1. PICK f : f = [n \in HalvingOf("power") |-> HalvingIf("power", f, n)]
    BY HalvingExists
  <2> QED
    BY <2>1 DEF HalvingOf, HalvingIf
<1> DEFINE IsPower(f) == f = [n \in Nat |-> IF n = 0 THEN 1 ELSE (1 + (n % 2)) * Squared[f[n \div 2]]]
<1>2. \E f : IsPower(f)
  BY <1>1 DEF PowerIf
<1>3. Power = CHOOSE f : IsPower(f)
  BY DEF Power
<1> HIDE DEF IsPower
<1>4. IsPower(Power)
  BY <1>2, <1>3
<1> QED
  BY <1>4 DEF IsPower, PowerIf

LEMMA WidthValue ==
  \A n \in Nat : Width[n] = WidthIf(Width, n)
<1>1. \E f : f = [n \in Nat |-> WidthIf(f, n)]
  <2>1. PICK f : f = [n \in HalvingOf("width") |-> HalvingIf("width", f, n)]
    BY HalvingExists
  <2> QED
    BY <2>1 DEF HalvingOf, HalvingIf
<1> DEFINE IsWidth(f) == f = [n \in Nat |-> IF n = 0 THEN 0 ELSE f[n \div 2] + 1]
<1>2. \E f : IsWidth(f)
  BY <1>1 DEF WidthIf
<1>3. Width = CHOOSE f : IsWidth(f)
  BY DEF Width
<1> HIDE DEF IsWidth
<1>4. IsWidth(Width)
  BY <1>2, <1>3
<1> QED
  BY <1>4 DEF IsWidth, WidthIf

LEMMA ZerosValue ==
  \A n \in Nat \ {0} : Zeros[n] = ZerosIf(Zeros, n)
<1>1. \E f : f = [n \in Nat \ {0} |-> ZerosIf(f, n)]
  <2>1. PICK f : f = [n \in HalvingOf("zeros") |-> HalvingIf("zeros", f, n)]
    BY HalvingExists
  <2> QED
    BY <2>1 DEF HalvingOf, HalvingIf
<1> DEFINE IsZeros(f) == f = [n \in Nat \ {0} |-> IF n % 2 = 1 THEN 0 ELSE f[n \div 2] + 1]
<1>2. \E f : IsZeros(f)
  BY <1>1 DEF ZerosIf
<1>3. Zeros = CHOOSE f : IsZeros(f)
  BY DEF Zeros
<1> HIDE DEF IsZeros
<1>4. IsZeros(Zeros)
  BY <1>2, <1>3
<1> QED
  BY <1>4 DEF IsZeros, ZerosIf

LEMMA PowerIsPositive ==
  \A n \in Nat : Power[n] \in Nat \ {0}
<1> DEFINE S == {n \in Nat : Power[n] \in Nat \ {0}}
<1>1. ASSUME NEW n \in Nat, \A m \in Nat : m < n => m \in S
      PROVE  n \in S
  <2>1. CASE n = 0
    BY <2>1, PowerValue DEF PowerIf
  <2>2. CASE n # 0
    <3>1. n \div 2 \in Nat /\ n \div 2 < n /\ n % 2 \in {0, 1}
      BY <2>2, Half
    <3>2. Power[n \div 2] \in Nat \ {0}
      BY <1>1, <3>1
    <3> DEFINE h == Power[n \div 2]
    <3>3. Squared[h] = h * h
      BY <3>2 DEF Squared
    <3>4. h * h \in Nat \ {0}
      BY <3>2
    <3>5. Power[n] = (1 + (n % 2)) * Squared[h]
      BY <2>2, PowerValue DEF PowerIf
    <3>6. Power[n] = h * h \/ Power[n] = 2 * (h * h)
      BY <3>1, <3>3, <3>4, <3>5
    <3> HIDE DEF h
    <3> QED
      BY <3>4, <3>6
  <2> QED
    BY <2>1, <2>2
<1> HIDE DEF S
<1>2. \A n \in Nat : n \in S
  BY <1>1, Halving!StrongInduct
<1> QED
  BY <1>2 DEF S

LEMMA PowerOfHalf ==
  ASSUME NEW j \in Nat
  PROVE  /\ Power[2 * j] = Power[j] * Power[j]
         /\ Power[2 * j + 1] = 2 * (Power[j] * Power[j])
<1>1. Power[j] \in Nat /\ Squared[Power[j]] = Power[j] * Power[j]
  BY PowerIsPositive DEF Squared
<1>2. (2 * j + 1) \div 2 = j /\ (2 * j + 1) % 2 = 1 /\ 2 * j + 1 # 0 /\ 2 * j + 1 \in Nat
  OBVIOUS
<1>3. (2 * j) \div 2 = j /\ (2 * j) % 2 = 0 /\ 2 * j \in Nat
  OBVIOUS
<1>4. Power[2 * j + 1] = 2 * (Power[j] * Power[j])
  <2> DEFINE n == 2 * j + 1
  <2>1. n \in Nat /\ n # 0 /\ n \div 2 = j /\ n % 2 = 1
    BY <1>2
  <2> HIDE DEF n
  <2>2. Power[n] = (1 + 1) * Squared[Power[j]]
    BY <2>1, PowerValue DEF PowerIf
  <2> QED
    BY <1>1, <2>2 DEF n
<1>5. CASE j = 0
  <2>1. Power[0] = 1
    BY PowerValue DEF PowerIf
  <2> QED
    BY <1>4, <1>5, <2>1
<1>6. CASE j # 0
  <2>1. Power[2 * j] = (1 + 0) * Squared[Power[j]]
    BY <1>3, <1>6, PowerValue DEF PowerIf
  <2> QED
    BY <1>1, <1>4, <2>1
<1> QED
  BY <1>5, <1>6

LEMMA PowerNext ==
  /\ Power[0] = 1
  /\ \A n \in Nat : Power[n + 1] = 2 * Power[n]
<1>0. Power[0] = 1
  BY PowerValue DEF PowerIf
<1> DEFINE S == {n \in Nat : Power[n + 1] = 2 * Power[n]}
<1>1. ASSUME NEW n \in Nat, \A m \in Nat : m < n => m \in S
      PROVE  n \in S
  <2>1. CASE n = 0
    <3>1. Power[2 * 0 + 1] = 2 * (Power[0] * Power[0])
      BY PowerOfHalf
    <3> QED
      BY <1>0, <2>1, <3>1
  <2>2. CASE n # 0
    <3> DEFINE j == n \div 2
    <3>1. j \in Nat /\ j < n /\ (n = 2 * j \/ (n = 2 * j + 1 /\ j \in Nat))
      BY <2>2, Half
    <3> HIDE DEF j
    <3>2. CASE n = 2 * j
      BY <3>1, <3>2, PowerOfHalf
    <3>3. CASE n = 2 * j + 1
      <4>1. n + 1 = 2 * (j + 1) /\ j + 1 \in Nat
        BY <3>1, <3>3
      <4>2. Power[j + 1] = 2 * Power[j]
        BY <1>1, <3>1
      <4>3. Power[n + 1] = Power[j + 1] * Power[j + 1] /\ Power[n] = 2 * (Power[j] * Power[j])
        BY <3>1, <3>3, <4>1, PowerOfHalf
      <4>4. Power[j] \in Nat
        BY <3>1, PowerIsPositive
      <4>5. Power[n + 1] = (2 * Power[j]) * (2 * Power[j])
        BY <4>2, <4>3
      <4>6. (2 * Power[j]) * (2 * Power[j]) = 2 * (2 * (Power[j] * Power[j]))
        BY <4>4
      <4> QED
        BY <4>3, <4>5, <4>6
    <3> QED
      BY <3>1, <3>2, <3>3
  <2> QED
    BY <2>1, <2>2
<1> HIDE DEF S
<1>2. \A n \in Nat : n \in S
  BY <1>1, Halving!StrongInduct
<1> QED
  BY <1>0, <1>2 DEF S

LEMMA PowerSum ==
  ASSUME NEW a \in Nat, NEW b \in Nat
  PROVE  Power[a + b] = Power[a] * Power[b]
<1> DEFINE S == {n \in Nat : Power[a + n] = Power[a] * Power[n]}
<1>1. Power[a] \in Nat
  BY PowerIsPositive
<1>2. 0 \in S
  BY <1>1, PowerNext
<1>3. ASSUME NEW n \in Nat, n \in S
      PROVE  n + 1 \in S
  <2>1. Power[a + n] = Power[a] * Power[n] /\ Power[n] \in Nat /\ a + n \in Nat
    BY <1>3, PowerIsPositive
  <2>2. Power[(a + n) + 1] = 2 * Power[a + n] /\ Power[n + 1] = 2 * Power[n]
    BY <2>1, PowerNext
  <2>3. (a + n) + 1 = a + (n + 1)
    OBVIOUS
  <2>4. 2 * (Power[a] * Power[n]) = Power[a] * (2 * Power[n])
    BY <1>1, <2>1
  <2> QED
    BY <2>1, <2>2, <2>3, <2>4
<1> HIDE DEF S
<1>4. \A n \in Nat : n \in S
  BY <1>2, <1>3, Halving!Induct
<1> QED
  BY <1>4 DEF S

\* Larger exponents have larger powers.
LEMMA PowerGrows ==
  ASSUME NEW a \in Nat, NEW b \in Nat
  PROVE  /\ a <= b => Power[a] <= Power[b]
         /\ a < b => 2 * Power[a] <= Power[b]
         /\ Power[a] <= Power[b] => a <= b
         /\ Power[a] < Power[b] => a < b
<1>1. ASSUME NEW m \in Nat, NEW n \in Nat, m <= n
      PROVE  Power[m] <= Power[n]
  <2>1. n - m \in Nat /\ m + (n - m) = n
    BY <1>1
  <2> DEFINE d == n - m
             p == Power[m]
             q == Power[d]
  <2> HIDE DEF d
  <2>2. d \in Nat /\ m + d = n
    BY <2>1 DEF d
  <2>3. Power[n] = p * q
    BY <2>2, PowerSum
  <2>4. p \in Nat /\ q \in Nat \ {0}
    BY <2>2, PowerIsPositive
  <2> HIDE DEF p, q
  <2>5. p <= p * q
    BY <2>4
  <2> QED
    BY <2>3, <2>5 DEF p
<1>2. ASSUME NEW m \in Nat, NEW n \in Nat, m < n
      PROVE  2 * Power[m] <= Power[n]
  <2>1. m + 1 \in Nat /\ m + 1 <= n
    BY <1>2
  <2>2. Power[m + 1] <= Power[n]
    BY <1>1, <2>1
  <2> QED
    BY <2>2, PowerNext
<1>3. Power[a] \in Nat \ {0} /\ Power[b] \in Nat \ {0}
  BY PowerIsPositive
<1>4. ASSUME b < a
      PROVE  Power[b] < Power[a]
  BY <1>2, <1>3, <1>4
<1>5. ASSUME b <= a
      PROVE  Power[b] <= Power[a]
  BY <1>1, <1>5
<1> QED
  BY <1>1, <1>2, <1>3, <1>4, <1>5

\* The width of a number is the number of its binary digits.
LEMMA WidthBounds ==
  ASSUME NEW n \in Nat \ {0}
  PROVE  Width[n] \in Nat \ {0} /\ Power[Width[n] - 1] <= n /\ n < Power[Width[n]]
<1> DEFINE S == {m \in Nat : m # 0 => Width[m] \in Nat \ {0} /\ Power[Width[m] - 1] <= m /\ m < Power[Width[m]]}
<1>1. ASSUME NEW m \in Nat, \A k \in Nat : k < m => k \in S
      PROVE  m \in S
  <2> SUFFICES ASSUME m # 0
               PROVE  Width[m] \in Nat \ {0} /\ Power[Width[m] - 1] <= m /\ m < Power[Width[m]]
    OBVIOUS
  <2> DEFINE h == m \div 2
  <2>1. h \in Nat /\ h < m /\ m \in {2 * h, 2 * h + 1}
    BY Half
  <2>2. Width[m] = Width[h] + 1
    BY WidthValue DEF WidthIf
  <2> HIDE DEF h
  <2>3. CASE h = 0
    <3>1. Width[0] = 0
      BY WidthValue DEF WidthIf
    <3>2. Width[m] = 1 /\ m = 1
      BY <2>1, <2>2, <2>3, <3>1
    <3>3. Power[0] = 1 /\ Power[0 + 1] = 2 * Power[0]
      BY PowerNext
    <3> QED
      BY <3>2, <3>3
  <2>4. CASE h # 0
    <3> DEFINE w == Width[h]
    <3>1. w \in Nat \ {0} /\ Power[w - 1] <= h /\ h < Power[w]
      BY <1>1, <2>1, <2>4
    <3> HIDE DEF w
    <3>2. w - 1 \in Nat /\ (w - 1) + 1 = w
      BY <3>1
    <3>3. Power[w] = 2 * Power[w - 1] /\ Power[w + 1] = 2 * Power[w]
      BY <3>1, <3>2, PowerNext
    <3>4. Power[w] \in Nat /\ Power[w - 1] \in Nat
      BY <3>1, <3>2, PowerIsPositive
    <3>5. Power[w] <= m /\ m < Power[w + 1]
      BY <2>1, <3>1, <3>3, <3>4
    <3>6. (w + 1) - 1 = w
      BY <3>1
    <3> QED
      BY <2>2, <3>1, <3>5, <3>6 DEF w
  <2> QED
    BY <2>3, <2>4
<1> HIDE DEF S
<1>2. \A m \in Nat : m \in S
  BY <1>1, Halving!StrongInduct
<1> QED
  BY <1>2 DEF S

LEMMA WidthOfZero ==
  Width[0] = 0
BY WidthValue DEF WidthIf

LEMMA WidthType ==
  ASSUME NEW n \in Nat
  PROVE  Width[n] \in Nat
BY WidthBounds, WidthOfZero

\* A number has at most b digits if it is below the power of b.
LEMMA WidthAtMost ==
  ASSUME NEW n \in Nat, NEW b \in Nat
  PROVE  Width[n] <= b <=> n < Power[b]
<1>0. Power[b] \in Nat \ {0}
  BY PowerIsPositive
<1>1. CASE n = 0
  BY <1>0, <1>1, WidthOfZero
<1>2. CASE n # 0
  <2> DEFINE w == Width[n]
  <2>1. w \in Nat \ {0} /\ Power[w - 1] <= n /\ n < Power[w]
    BY <1>2, WidthBounds
  <2> HIDE DEF w
  <2>2. w - 1 \in Nat /\ Power[w - 1] \in Nat /\ Power[w] \in Nat
    BY <2>1, PowerIsPositive
  <2>3. w <= b => Power[w] <= Power[b]
    BY <2>1, PowerGrows
  <2>4. ASSUME n < Power[b]
        PROVE  w <= b
    <3>1. Power[w - 1] < Power[b]
      BY <1>0, <2>1, <2>2, <2>4
    <3>2. w - 1 < b
      BY <2>2, <3>1, PowerGrows
    <3> QED
      BY <2>1, <3>2
  <2> QED
    BY <1>0, <2>1, <2>2, <2>3, <2>4 DEF w
<1> QED
  BY <1>1, <1>2

LEMMA WidthIs ==
  ASSUME NEW n \in Nat, NEW b \in Nat, Power[b] <= n, n < Power[b + 1]
  PROVE  Width[n] = b + 1
<1>1. Width[n] <= b + 1 /\ ~ Width[n] <= b
  <2>1. Power[b] \in Nat
    BY PowerIsPositive
  <2> QED
    BY <2>1, WidthAtMost
<1>2. Width[n] \in Nat
  BY WidthType
<1> QED
  BY <1>1, <1>2

\* A positive number is an odd number times a power of two.
LEMMA OddPart ==
  ASSUME NEW n \in Nat \ {0}
  PROVE  Zeros[n] \in Nat /\ \E q \in Nat : n = q * Power[Zeros[n]] /\ q % 2 = 1
<1> DEFINE S == {m \in Nat : m # 0 => Zeros[m] \in Nat /\ \E q \in Nat : m = q * Power[Zeros[m]] /\ q % 2 = 1}
<1>1. ASSUME NEW m \in Nat, \A k \in Nat : k < m => k \in S
      PROVE  m \in S
  <2> SUFFICES ASSUME m # 0
               PROVE  Zeros[m] \in Nat /\ \E q \in Nat : m = q * Power[Zeros[m]] /\ q % 2 = 1
    OBVIOUS
  <2>1. CASE m % 2 = 1
    <3>1. Zeros[m] = 0
      BY <2>1, ZerosValue DEF ZerosIf
    <3>2. m = m * Power[0]
      BY PowerNext
    <3> QED
      BY <2>1, <3>1, <3>2
  <2>2. CASE m % 2 # 1
    <3> DEFINE h == m \div 2
    <3>1. h \in Nat /\ h < m /\ m = 2 * h /\ h # 0
      BY <2>2, Half
    <3>2. Zeros[m] = Zeros[h] + 1
      BY <2>2, ZerosValue DEF ZerosIf
    <3> HIDE DEF h
    <3>3. Zeros[h] \in Nat /\ \E q \in Nat : h = q * Power[Zeros[h]] /\ q % 2 = 1
      BY <1>1, <3>1
    <3>4. PICK q \in Nat : h = q * Power[Zeros[h]] /\ q % 2 = 1
      BY <3>3
    <3> DEFINE z == Zeros[h]
    <3>5. z \in Nat /\ Power[z] \in Nat /\ Power[z + 1] = 2 * Power[z]
      BY <3>3, PowerNext, PowerIsPositive
    <3>6. h = q * Power[z]
      BY <3>4
    <3> HIDE DEF z
    <3>7. m = q * Power[z + 1]
      <4>1. 2 * (q * Power[z]) = q * (2 * Power[z])
        BY <3>5
      <4> QED
        BY <3>1, <3>5, <3>6, <4>1
    <3> QED
      BY <3>2, <3>4, <3>5, <3>7 DEF z
  <2> QED
    BY <2>1, <2>2
<1> HIDE DEF S
<1>2. \A m \in Nat : m \in S
  BY <1>1, Halving!StrongInduct
<1>3. n \in S /\ n # 0
  BY <1>2
<1> QED
  BY <1>3 DEF S

-----------------------------------------------------------------------------
(* Arithmetic of integers. *)

LEMMA DivMod ==
  ASSUME NEW a \in Int, NEW d \in Nat \ {0}
  PROVE  /\ a \div d \in Int /\ a % d \in Nat /\ a % d < d
         /\ a = d * (a \div d) + (a % d)
OBVIOUS

LEMMA Multiple ==
  ASSUME NEW q \in Int, NEW d \in Nat \ {0}
  PROVE  (q * d) \div d = q /\ (q * d) % d = 0
OBVIOUS

LEMMA Cancel ==
  ASSUME NEW a \in Int, NEW b \in Int, NEW d \in Nat \ {0}
  PROVE  /\ a * d <= b * d <=> a <= b
         /\ a * d < b * d <=> a < b
         /\ a * d = b * d <=> a = b
OBVIOUS

LEMMA Ring ==
  ASSUME NEW a \in Int, NEW b \in Int, NEW c \in Int
  PROVE  /\ a * b \in Int /\ a * b = b * a
         /\ (a * b) * c = a * (b * c) /\ (a * b) * c = (a * c) * b
         /\ (a + b) * c = a * c + b * c
         /\ (a - b) * c = a * c - b * c
OBVIOUS

LEMMA AbsValue ==
  ASSUME NEW a \in Int
  PROVE  Abs(a) \in Nat /\ (Abs(a) = a \/ Abs(a) = -a) /\ (a >= 0 => Abs(a) = a) /\ (a <= 0 => Abs(a) = - a)
BY DEF Abs

LEMMA AbsTimes ==
  ASSUME NEW a \in Int, NEW d \in Nat
  PROVE  Abs(a * d) = Abs(a) * d
<1>1. a * d \in Int
  OBVIOUS
<1>2. CASE a >= 0
  <2>1. a * d >= 0
    BY <1>2
  <2> QED
    BY <1>1, <1>2, <2>1, AbsValue
<1>3. CASE a < 0
  <2>1. a * d <= 0 /\ - (a * d) = (- a) * d
    BY <1>3
  <2>2. Abs(a) = - a /\ Abs(a * d) = - (a * d)
    BY <1>1, <1>3, <2>1, AbsValue
  <2> QED
    BY <2>1, <2>2
<1> QED
  BY <1>2, <1>3

-----------------------------------------------------------------------------
(* The value of a floating point number as a multiple of 2^(-s). *)

Fits(a, s) == a \in Binary /\ s \in Nat /\ a.e + s \in Nat
At(a, s) == a.m * Power[a.e + s]

LEMMA BinaryType ==
  ASSUME NEW a \in Binary
  PROVE  a.m \in Int /\ a.e \in Int /\ a = [m |-> a.m, e |-> a.e]
BY DEF Binary

LEMMA BinaryOf ==
  ASSUME NEW m \in Int, NEW e \in Int
  PROVE  [m |-> m, e |-> e] \in Binary /\ [m |-> m, e |-> e].m = m /\ [m |-> m, e |-> e].e = e
BY DEF Binary

LEMMA AtType ==
  ASSUME NEW a, NEW s, Fits(a, s)
  PROVE  /\ At(a, s) \in Int
         /\ At(a, s) < 0 <=> a.m < 0
         /\ At(a, s) = 0 <=> a.m = 0
         /\ At(a, s) > 0 <=> a.m > 0
         /\ a.m \in Int /\ Power[a.e + s] \in Nat \ {0}
<1>1. a.m \in Int /\ Power[a.e + s] \in Nat \ {0}
  BY PowerIsPositive, BinaryType DEF Fits
<1> DEFINE p == Power[a.e + s]
           m == a.m
<1>2. At(a, s) = m * p
  BY DEF At
<1>3. m \in Int /\ p \in Nat \ {0}
  BY <1>1
<1> HIDE DEF p, m
<1>4. /\ m * p \in Int
      /\ m * p < 0 <=> m < 0
      /\ m * p = 0 <=> m = 0
      /\ m * p > 0 <=> m > 0
  BY <1>3
<1> QED
  BY <1>1, <1>2, <1>4 DEF m

LEMMA FitsFrom ==
  ASSUME NEW a \in Binary
  PROVE  \E s \in Nat : \A t \in Nat : s <= t => Fits(a, t)
<1>1. a.e \in Int
  BY BinaryType
<1>2. PICK s \in Nat : a.e + s >= 0
  <2>1. (IF a.e < 0 THEN - a.e ELSE 0) \in Nat /\ a.e + (IF a.e < 0 THEN - a.e ELSE 0) >= 0
    BY <1>1
  <2> QED
    BY <2>1
<1>3. \A t \in Nat : s <= t => Fits(a, t)
  BY <1>1, <1>2 DEF Fits
<1> QED
  BY <1>3

LEMMA AtLarger ==
  ASSUME NEW a, NEW s, Fits(a, s), NEW k \in Nat
  PROVE  Fits(a, s + k) /\ At(a, s + k) = At(a, s) * Power[k]
<1>1. a \in Binary /\ a.m \in Int /\ a.e \in Int /\ s \in Nat /\ a.e + s \in Nat
  BY BinaryType DEF Fits
<1>2. (a.e + s) + k = a.e + (s + k)
  BY <1>1
<1>3. Power[a.e + (s + k)] = Power[a.e + s] * Power[k]
  BY <1>1, <1>2, PowerSum
<1>4. Power[a.e + s] \in Nat /\ Power[k] \in Nat
  BY <1>1, PowerIsPositive
<1>5. a.m * (Power[a.e + s] * Power[k]) = (a.m * Power[a.e + s]) * Power[k]
  BY <1>1, <1>4, Ring
<1> QED
  BY <1>1, <1>3, <1>5 DEF Fits, At

\* Values at a smaller and at a larger scale.
LEMMA AtScale ==
  ASSUME NEW a, NEW s, NEW t, Fits(a, s), t \in Nat, s <= t
  PROVE  Fits(a, t) /\ At(a, t) = At(a, s) * Power[t - s]
<1>1. s \in Nat /\ t - s \in Nat /\ s + (t - s) = t
  BY DEF Fits
<1> QED
  BY <1>1, AtLarger

LEMMA NormalizedValue ==
  ASSUME NEW a \in Binary
  PROVE  /\ Normal(Normalized[a])
         /\ \E k \in Nat : a.m = Normalized[a].m * Power[k]
         /\ \A s : Fits(a, s) => Fits(Normalized[a], s) /\ At(Normalized[a], s) = At(a, s)
<1>0. a.m \in Int /\ a.e \in Int
  BY BinaryType
<1>1. CASE a.m = 0
  <2>1. Normalized[a] = [m |-> 0, e |-> 0]
    BY <1>1 DEF Normalized
  <2>2. Normal([m |-> 0, e |-> 0])
    BY DEF Normal, Binary
  <2>4. a.m = [m |-> 0, e |-> 0].m * Power[0]
    BY <1>1, PowerNext
  <2>3. ASSUME NEW s, Fits(a, s)
        PROVE  Fits([m |-> 0, e |-> 0], s) /\ At([m |-> 0, e |-> 0], s) = At(a, s)
    <3>1. s \in Nat /\ Fits([m |-> 0, e |-> 0], s)
      BY <2>3 DEF Fits, Binary
    <3>2. At(a, s) = 0
      BY <1>1, <2>3, AtType
    <3>3. At([m |-> 0, e |-> 0], s) = 0
      BY <3>1, AtType
    <3> QED
      BY <3>1, <3>2, <3>3
  <2> QED
    BY <2>1, <2>2, <2>3, <2>4
<1>2. CASE a.m # 0
  <2> DEFINE n == Abs(a.m)
             k == Zeros[n]
  <2>1. n \in Nat \ {0} /\ (a.m = n \/ a.m = - n)
    BY <1>0, <1>2, AbsValue
  <2>2. Normalized[a] = [m |-> a.m \div Power[k], e |-> a.e + k]
    BY <1>2 DEF Normalized
  <2> HIDE DEF n
  <2>3. k \in Nat /\ \E q \in Nat : n = q * Power[k] /\ q % 2 = 1
    BY <2>1, OddPart
  <2> HIDE DEF k
  <2>4. Power[k] \in Nat \ {0}
    BY <2>3, PowerIsPositive
  <2>5. PICK q \in Int : a.m = q * Power[k] /\ q % 2 = 1
    <3>1. PICK r \in Nat : n = r * Power[k] /\ r % 2 = 1
      BY <2>3
    <3>2. (- r) % 2 = 1 /\ - r \in Int /\ - (r * Power[k]) = (- r) * Power[k]
      BY <2>4, <3>1
    <3> QED
      BY <2>1, <3>1, <3>2
  <2>6. a.m \div Power[k] = q
    BY <2>4, <2>5, Multiple
  <2> DEFINE b == [m |-> q, e |-> a.e + k]
  <2>7. b \in Binary /\ b.m = q /\ b.e = a.e + k
    BY <1>0, <2>3, BinaryOf
  <2>8. Normalized[a] = b
    BY <2>2, <2>6
  <2> HIDE DEF b
  <2>9. ASSUME NEW s, Fits(a, s)
        PROVE  Fits(b, s) /\ At(b, s) = At(a, s)
    <3>1. s \in Nat /\ a.e + s \in Nat
      BY <2>9 DEF Fits
    <3>2. b.e + s \in Nat /\ b.e + s = k + (a.e + s)
      BY <1>0, <2>3, <2>7, <3>1
    <3>3. Power[b.e + s] = Power[k] * Power[a.e + s]
      BY <2>3, <3>1, <3>2, PowerSum
    <3>4. Power[a.e + s] \in Nat
      BY <3>1, PowerIsPositive
    <3>5. q * (Power[k] * Power[a.e + s]) = (q * Power[k]) * Power[a.e + s]
      BY <2>4, <3>4, Ring
    <3> QED
      BY <2>5, <2>7, <3>1, <3>2, <3>3, <3>5 DEF Fits, At
  <2>10. a.m = b.m * Power[k]
    BY <2>5, <2>7
  <2> QED
    BY <2>3, <2>5, <2>7, <2>8, <2>9, <2>10 DEF Normal
<1> QED
  BY <1>1, <1>2

LEMMA DyadicValue ==
  ASSUME NEW m \in Int, NEW e \in Int
  PROVE  /\ Normal(Dyadic(m, e)) /\ Dyadic(m, e) \in Binary
         /\ \A s \in Nat : e + s \in Nat =>
              Fits(Dyadic(m, e), s) /\ At(Dyadic(m, e), s) = m * Power[e + s]
<1> DEFINE a == [m |-> m, e |-> e]
<1>1. a \in Binary /\ a.m = m /\ a.e = e /\ Dyadic(m, e) = Normalized[a]
  BY BinaryOf DEF Dyadic
<1> HIDE DEF a
<1>2. \A s \in Nat : e + s \in Nat => Fits(a, s) /\ At(a, s) = m * Power[e + s]
  BY <1>1 DEF Fits, At
<1>3. Normal(Dyadic(m, e)) /\ Dyadic(m, e) \in Binary
  BY <1>1, NormalizedValue DEF Normal
<1> QED
  BY <1>1, <1>2, <1>3, NormalizedValue

LEMMA DyadicAt ==
  ASSUME NEW m, NEW e, NEW s, m \in Int, e \in Int, s \in Nat, e + s \in Nat
  PROVE  Fits(Dyadic(m, e), s) /\ At(Dyadic(m, e), s) = m * Power[e + s] /\ Normal(Dyadic(m, e))
BY DyadicValue

LEMMA IntegerValue ==
  ASSUME NEW n \in Int
  PROVE  /\ Normal(Int2Dyadic(n)) /\ Int2Dyadic(n) \in Binary
         /\ \A s \in Nat : Fits(Int2Dyadic(n), s) /\ At(Int2Dyadic(n), s) = n * Power[s]
<1>1. Int2Dyadic(n) = Dyadic(n, 0) /\ \A s \in Nat : 0 + s \in Nat /\ 0 + s = s
  BY DEF Int2Dyadic
<1> QED
  BY <1>1, DyadicValue

-----------------------------------------------------------------------------
(* The operations on floating point numbers, in terms of their values. *)

LEMMA NegValue ==
  ASSUME NEW a \in Binary
  PROVE  /\ DNeg(a) \in Binary
         /\ Normal(a) => Normal(DNeg(a))
         /\ \A s : Fits(a, s) => Fits(DNeg(a), s) /\ At(DNeg(a), s) = - At(a, s)
<1>1. a.m \in Int /\ a.e \in Int /\ a = [m |-> a.m, e |-> a.e]
  BY BinaryType
<1>2. DNeg(a) = [m |-> - a.m, e |-> a.e]
  BY <1>1 DEF DNeg
<1>3. DNeg(a) \in Binary /\ DNeg(a).m = - a.m /\ DNeg(a).e = a.e
  BY <1>1, <1>2 DEF Binary
<1>4. Normal(a) => Normal(DNeg(a))
  BY <1>1, <1>3 DEF Normal
<1>5. ASSUME NEW s, Fits(a, s)
      PROVE  Fits(DNeg(a), s) /\ At(DNeg(a), s) = - At(a, s)
  <2>1. Power[a.e + s] \in Nat
    BY <1>5, AtType
  <2>2. (- a.m) * Power[a.e + s] = - (a.m * Power[a.e + s])
    BY <1>1, <2>1
  <2> QED
    BY <1>3, <1>5, <2>2 DEF Fits, At
<1> QED
  BY <1>3, <1>4, <1>5

LEMMA AbsOfValue ==
  ASSUME NEW a \in Binary
  PROVE  /\ DAbs(a) \in Binary
         /\ \A s : Fits(a, s) => Fits(DAbs(a), s) /\ At(DAbs(a), s) = Abs(At(a, s))
<1>1. a.m \in Int /\ a.e \in Int /\ a = [m |-> a.m, e |-> a.e] /\ Abs(a.m) \in Int
  BY BinaryType, AbsValue
<1>2. DAbs(a) = [m |-> Abs(a.m), e |-> a.e]
  BY <1>1 DEF DAbs
<1>3. DAbs(a) \in Binary /\ DAbs(a).m = Abs(a.m) /\ DAbs(a).e = a.e
  BY <1>1, <1>2 DEF Binary
<1>4. ASSUME NEW s, Fits(a, s)
      PROVE  Fits(DAbs(a), s) /\ At(DAbs(a), s) = Abs(At(a, s))
  <2>1. Power[a.e + s] \in Nat
    BY <1>4, AtType
  <2>2. Abs(a.m * Power[a.e + s]) = Abs(a.m) * Power[a.e + s]
    BY <1>1, <2>1, AbsTimes
  <2> QED
    BY <1>3, <1>4, <2>2 DEF Fits, At
<1> QED
  BY <1>3, <1>4

LEMMA PlusValue ==
  ASSUME NEW a \in Binary, NEW b \in Binary
  PROVE  /\ Normal(DPlus(a, b)) /\ DPlus(a, b) \in Binary
         /\ \A s : Fits(a, s) /\ Fits(b, s) => Fits(DPlus(a, b), s) /\ At(DPlus(a, b), s) = At(a, s) + At(b, s)
<1> DEFINE e == CommonExponent(a, b)
           m == Times2(a, e) + Times2(b, e)
<1>1. a.m \in Int /\ a.e \in Int /\ b.m \in Int /\ b.e \in Int
  BY BinaryType
<1>2. e \in Int /\ a.e - e \in Nat /\ b.e - e \in Nat /\ (e = a.e \/ e = b.e)
  BY <1>1 DEF CommonExponent
<1>3. DPlus(a, b) = Dyadic(m, e)
  BY DEF DPlus, Total
<1> HIDE DEF e
<1>4. Times2(a, e) = a.m * Power[a.e - e] /\ Times2(b, e) = b.m * Power[b.e - e]
  BY DEF Times2
<1>5. Power[a.e - e] \in Nat /\ Power[b.e - e] \in Nat
  BY <1>2, PowerIsPositive
<1>6. Times2(a, e) \in Int /\ Times2(b, e) \in Int
  BY <1>1, <1>4, <1>5
<1>7. m \in Int
  BY <1>6
<1>8. ASSUME NEW s, Fits(a, s), Fits(b, s)
      PROVE  Fits(DPlus(a, b), s) /\ At(DPlus(a, b), s) = At(a, s) + At(b, s)
  <2>1. s \in Nat /\ e + s \in Nat
    BY <1>2, <1>8 DEF Fits
  <2>2. ASSUME NEW c \in Binary, c.e - e \in Nat
        PROVE  (c.m * Power[c.e - e]) * Power[e + s] = At(c, s)
    <3>1. c.e + s = (c.e - e) + (e + s) /\ c.m \in Int
      BY <1>2, <2>1, BinaryType
    <3>2. Power[c.e + s] = Power[c.e - e] * Power[e + s]
      BY <2>1, <2>2, <3>1, PowerSum
    <3>3. Power[c.e - e] \in Int /\ Power[e + s] \in Int
      BY <2>1, <2>2, PowerIsPositive
    <3> QED
      BY <3>1, <3>2, <3>3, Ring DEF At
  <2>3. m * Power[e + s] = Times2(a, e) * Power[e + s] + Times2(b, e) * Power[e + s]
    <3>1. Power[e + s] \in Int
      BY <2>1, PowerIsPositive
    <3> QED
      BY <1>6, <3>1, Ring
  <2>4. m * Power[e + s] = At(a, s) + At(b, s)
    BY <1>2, <1>4, <2>2, <2>3
  <2> HIDE DEF m
  <2>5. e \in Int
    BY <1>2
  <2>6. Fits(Dyadic(m, e), s) /\ At(Dyadic(m, e), s) = m * Power[e + s]
    BY <1>7, <2>1, <2>5, DyadicValue
  <2> QED
    BY <1>3, <2>4, <2>6
<1> HIDE DEF m
<1>9. Normal(DPlus(a, b)) /\ DPlus(a, b) \in Binary
  BY <1>2, <1>3, <1>7, DyadicValue
<1> QED
  BY <1>8, <1>9

LEMMA MinusValue ==
  ASSUME NEW a \in Binary, NEW b \in Binary
  PROVE  /\ Normal(DMinus(a, b)) /\ DMinus(a, b) \in Binary
         /\ \A s : Fits(a, s) /\ Fits(b, s) => Fits(DMinus(a, b), s) /\ At(DMinus(a, b), s) = At(a, s) - At(b, s)
<1>1. DNeg(b) \in Binary /\ \A s : Fits(b, s) => Fits(DNeg(b), s) /\ At(DNeg(b), s) = - At(b, s)
  BY NegValue
<1>2. DMinus(a, b) = DPlus(a, DNeg(b))
  BY DEF DMinus
<1>3. Normal(DMinus(a, b)) /\ DMinus(a, b) \in Binary
  BY <1>1, <1>2, PlusValue
<1>4. ASSUME NEW s, Fits(a, s), Fits(b, s)
      PROVE  Fits(DMinus(a, b), s) /\ At(DMinus(a, b), s) = At(a, s) - At(b, s)
  <2>1. Fits(DNeg(b), s) /\ At(DNeg(b), s) = - At(b, s)
    BY <1>1, <1>4
  <2>2. Fits(DMinus(a, b), s) /\ At(DMinus(a, b), s) = At(a, s) + At(DNeg(b), s)
    BY <1>1, <1>2, <1>4, <2>1, PlusValue
  <2>3. At(a, s) \in Int /\ At(b, s) \in Int
    BY <1>4, AtType
  <2> QED
    BY <2>1, <2>2, <2>3
<1> QED
  BY <1>3, <1>4

LEMMA TimesValue ==
  ASSUME NEW a \in Binary, NEW b \in Binary
  PROVE  /\ Normal(DTimes(a, b)) /\ DTimes(a, b) \in Binary
         /\ \A s, t : Fits(a, s) /\ Fits(b, t) =>
              Fits(DTimes(a, b), s + t) /\ At(DTimes(a, b), s + t) = At(a, s) * At(b, t)
<1>1. a.m \in Int /\ a.e \in Int /\ b.m \in Int /\ b.e \in Int
  BY BinaryType
<1>2. a.m * b.m \in Int /\ a.e + b.e \in Int
  BY <1>1
<1>3. DTimes(a, b) = Dyadic(a.m * b.m, a.e + b.e)
  BY DEF DTimes
<1>4. ASSUME NEW s, NEW t, Fits(a, s), Fits(b, t)
      PROVE  Fits(DTimes(a, b), s + t) /\ At(DTimes(a, b), s + t) = At(a, s) * At(b, t)
  <2>1. s + t \in Nat /\ s \in Nat /\ t \in Nat /\ a.e + s \in Nat /\ b.e + t \in Nat
    BY <1>4 DEF Fits
  <2>2. (a.e + b.e) + (s + t) = (a.e + s) + (b.e + t)
    BY <1>1, <2>1
  <2>3. (a.e + b.e) + (s + t) \in Nat
    BY <2>1, <2>2
  <2>4. Power[(a.e + b.e) + (s + t)] = Power[a.e + s] * Power[b.e + t]
    BY <2>1, <2>2, PowerSum
  <2> DEFINE p == Power[a.e + s]
             q == Power[b.e + t]
             m == a.m
             n == b.m
  <2>5. p \in Int /\ q \in Int /\ m \in Int /\ n \in Int
    BY <1>1, <2>1, PowerIsPositive
  <2> HIDE DEF p, q, m, n
  <2>6. (m * n) * (p * q) = (m * p) * (n * q)
    BY <2>5
  <2>7. (a.m * b.m) * Power[(a.e + b.e) + (s + t)] = At(a, s) * At(b, t)
    BY <2>4, <2>6 DEF At, p, q, m, n
  <2> DEFINE c == a.m * b.m
             e == a.e + b.e
             w == s + t
  <2> HIDE DEF c, e, w
  <2>8. c \in Int /\ e \in Int /\ w \in Nat /\ e + w \in Nat
    BY <1>2, <2>1, <2>3 DEF c, e, w
  <2>9. Fits(Dyadic(c, e), w) /\ At(Dyadic(c, e), w) = c * Power[e + w]
    BY <2>8, DyadicValue
  <2> QED
    BY <1>3, <2>7, <2>9 DEF c, e, w
<1>5. Normal(DTimes(a, b)) /\ DTimes(a, b) \in Binary
  BY <1>2, <1>3, DyadicValue
<1> QED
  BY <1>4, <1>5

\* A multiple by an integer.
LEMMA MultipleValue ==
  ASSUME NEW a \in Binary, NEW n \in Int
  PROVE  /\ Normal(DTimes(a, Int2Dyadic(n))) /\ DTimes(a, Int2Dyadic(n)) \in Binary
         /\ Normal(DTimes(Int2Dyadic(n), a)) /\ DTimes(Int2Dyadic(n), a) \in Binary
         /\ \A s : Fits(a, s) => /\ Fits(DTimes(a, Int2Dyadic(n)), s)
                                 /\ At(DTimes(a, Int2Dyadic(n)), s) = At(a, s) * n
                                 /\ Fits(DTimes(Int2Dyadic(n), a), s)
                                 /\ At(DTimes(Int2Dyadic(n), a), s) = At(a, s) * n
<1> DEFINE b == Int2Dyadic(n)
<1>1. b \in Binary /\ Fits(b, 0) /\ At(b, 0) = n * Power[0] /\ Power[0] = 1
  BY IntegerValue, PowerNext
<1>2. At(b, 0) = n
  BY <1>1
<1> HIDE DEF b
<1>3. ASSUME NEW s, Fits(a, s)
      PROVE  /\ Fits(DTimes(a, b), s) /\ At(DTimes(a, b), s) = At(a, s) * n
             /\ Fits(DTimes(b, a), s) /\ At(DTimes(b, a), s) = At(a, s) * n
  <2>1. s + 0 = s /\ 0 + s = s /\ At(a, s) \in Int
    BY <1>3, AtType DEF Fits
  <2>2. Fits(DTimes(a, b), s) /\ At(DTimes(a, b), s) = At(a, s) * n
    BY <1>1, <1>2, <1>3, <2>1, TimesValue
  <2>3. Fits(DTimes(b, a), s) /\ At(DTimes(b, a), s) = n * At(a, s)
    BY <1>1, <1>2, <1>3, <2>1, TimesValue
  <2> QED
    BY <2>1, <2>2, <2>3
<1>4. Normal(DTimes(a, b)) /\ DTimes(a, b) \in Binary /\ Normal(DTimes(b, a)) /\ DTimes(b, a) \in Binary
  BY <1>1, TimesValue
<1> QED
  BY <1>3, <1>4 DEF b

LEMMA ShiftValue ==
  ASSUME NEW a, Normal(a), NEW k \in Int
  PROVE  /\ Normal(DShift(a, k)) /\ DShift(a, k) \in Binary
         /\ \A s \in Nat : Fits(a, s + k) => Fits(DShift(a, k), s) /\ At(DShift(a, k), s) = At(a, s + k)
<1>1. a.m \in Int /\ a.e \in Int /\ a = [m |-> a.m, e |-> a.e] /\ a \in Binary
  BY BinaryType DEF Normal
<1>2. CASE a.m = 0
  <2>1. DShift(a, k) = a /\ a.e = 0
    BY <1>1, <1>2 DEF DShift, Normal
  <2>2. ASSUME NEW s \in Nat, Fits(a, s + k)
        PROVE  Fits(a, s) /\ At(a, s) = At(a, s + k)
    <3>1. Fits(a, s)
      BY <1>1, <2>1 DEF Fits
    <3> QED
      BY <1>2, <2>2, <3>1, AtType
  <2> QED
    BY <1>1, <2>1, <2>2
<1>3. CASE a.m # 0
  <2>1. DShift(a, k) = [m |-> a.m, e |-> a.e + k]
    BY <1>1, <1>3 DEF DShift
  <2> DEFINE b == [m |-> a.m, e |-> a.e + k]
  <2>2. b \in Binary /\ b.m = a.m /\ b.e = a.e + k
    BY <1>1, BinaryOf
  <2>3. DShift(a, k) = b
    BY <2>1
  <2> HIDE DEF b
  <2>4. Normal(b)
    BY <1>3, <2>2 DEF Normal
  <2>5. ASSUME NEW s \in Nat, Fits(a, s + k)
        PROVE  Fits(b, s) /\ At(b, s) = At(a, s + k)
    <3>1. b.e + s = a.e + (s + k)
      BY <1>1, <2>2
    <3> QED
      BY <2>2, <2>5, <3>1 DEF Fits, At
  <2> QED
    BY <2>2, <2>3, <2>4, <2>5
<1> QED
  BY <1>2, <1>3

LEMMA OrderIs ==
  ASSUME NEW a, NEW b, NEW s, Fits(a, s), Fits(b, s)
  PROVE  /\ DLess(a, b) <=> At(a, s) < At(b, s)
         /\ DLeq(a, b) <=> At(a, s) <= At(b, s)
<1>1. a \in Binary /\ b \in Binary /\ At(a, s) \in Int /\ At(b, s) \in Int
  BY AtType DEF Fits
<1> DEFINE d == DMinus(a, b)
<1>2. Fits(d, s) /\ At(d, s) = At(a, s) - At(b, s)
  BY <1>1, MinusValue
<1>3. DLess(a, b) <=> d.m < 0
  BY DEF DLess
<1>4. DLeq(a, b) <=> d.m <= 0
  BY DEF DLeq
<1> HIDE DEF d
<1>5. (d.m < 0 <=> At(d, s) < 0) /\ (d.m = 0 <=> At(d, s) = 0) /\ d.m \in Int
  BY <1>2, AtType
<1> QED
  BY <1>1, <1>2, <1>3, <1>4, <1>5

\* Normal numbers with the same value are the same.
LEMMA SameValue ==
  ASSUME NEW a, NEW b, NEW s, Normal(a), Normal(b), Fits(a, s), Fits(b, s), At(a, s) = At(b, s)
  PROVE  a = b
<1>1. a.m \in Int /\ a.e \in Int /\ a = [m |-> a.m, e |-> a.e]
  BY BinaryType DEF Normal
<1>2. b.m \in Int /\ b.e \in Int /\ b = [m |-> b.m, e |-> b.e]
  BY BinaryType DEF Normal
<1>3. ASSUME NEW c, NEW d, Normal(c), Normal(d), Fits(c, s), Fits(d, s), At(c, s) = At(d, s), c.e < d.e
      PROVE  c.m = 0
  <2>1. c.m \in Int /\ c.e \in Int /\ d.m \in Int /\ d.e \in Int /\ s \in Nat /\ c.e + s \in Nat /\ d.e + s \in Nat
    BY <1>3, BinaryType DEF Fits, Normal
  <2> DEFINE k == d.e - c.e - 1
             u == c.e + s
  <2>2. k \in Nat /\ u \in Nat /\ d.e + s = (k + 1) + u
    BY <1>3, <2>1
  <2>0. c.e + s = u
    OBVIOUS
  <2> HIDE DEF k, u
  <2>3. Power[d.e + s] = Power[k + 1] * Power[u] /\ Power[k + 1] = 2 * Power[k]
    <3>1. k + 1 \in Nat
      BY <2>2
    <3>2. Power[(k + 1) + u] = Power[k + 1] * Power[u]
      BY <2>2, <3>1, PowerSum
    <3> QED
      BY <2>2, <3>2, PowerNext
  <2>4. Power[u] \in Nat \ {0} /\ Power[k] \in Nat
    BY <2>2, PowerIsPositive
  <2>5. c.m * Power[u] = d.m * ((2 * Power[k]) * Power[u])
    BY <1>3, <2>0, <2>3 DEF At
  <2>6. d.m * ((2 * Power[k]) * Power[u]) = (2 * (d.m * Power[k])) * Power[u]
    BY <2>1, <2>4
  <2>7. d.m * Power[k] \in Int
    BY <2>1, <2>4
  <2>8. c.m = 2 * (d.m * Power[k])
    <3> DEFINE r == 2 * (d.m * Power[k])
    <3>1. r \in Int /\ c.m \in Int
      BY <2>1, <2>7
    <3>2. c.m * Power[u] = r * Power[u]
      BY <2>5, <2>6
    <3> HIDE DEF r
    <3>3. c.m = r
      BY <2>4, <3>1, <3>2, Cancel
    <3> QED
      BY <3>3 DEF r
  <2>9. c.m % 2 = 0
    BY <2>7, <2>8
  <2> QED
    BY <1>3, <2>9 DEF Normal
<1>4. ASSUME NEW c, NEW d, Normal(c), Normal(d), Fits(c, s), Fits(d, s), At(c, s) = At(d, s)
      PROVE  ~ c.e < d.e
  <2> SUFFICES ASSUME c.e < d.e
               PROVE  FALSE
    OBVIOUS
  <2>1. c.m = 0
    BY <1>3, <1>4
  <2>2. At(c, s) = 0
    BY <1>4, <2>1, AtType
  <2>3. d.m = 0
    BY <1>4, <2>2, AtType
  <2> QED
    BY <2>1, <2>3, <1>4 DEF Normal
<1>5. a.e = b.e
  BY <1>1, <1>2, <1>4
<1>6. Power[a.e + s] \in Nat \ {0}
  BY AtType
<1>7. a.m * Power[a.e + s] = b.m * Power[a.e + s]
  BY <1>5 DEF At
<1>8. a.m = b.m
  BY <1>1, <1>2, <1>6, <1>7, Cancel
<1> QED
  BY <1>1, <1>2, <1>5, <1>8

-----------------------------------------------------------------------------
(* Numbers with few binary digits. *)

Short(c, b) == Normal(c) /\ Bits(c.m) <= b

LEMMA BitsAtMost ==
  ASSUME NEW m \in Int, NEW b \in Nat
  PROVE  /\ Bits(m) \in Nat
         /\ Bits(m) <= b <=> Abs(m) < Power[b]
BY AbsValue, WidthAtMost, WidthType DEF Bits

LEMMA BitsBounds ==
  ASSUME NEW m \in Int, m # 0
  PROVE  Bits(m) \in Nat \ {0} /\ Power[Bits(m) - 1] <= Abs(m) /\ Abs(m) < Power[Bits(m)]
<1>1. Abs(m) \in Nat \ {0}
  BY AbsValue
<1> QED
  BY <1>1, WidthBounds DEF Bits

LEMMA ShortLonger ==
  ASSUME NEW c, NEW a \in Int, NEW b \in Int, Short(c, a), a <= b
  PROVE  Short(c, b)
<1>1. c.m \in Int
  BY BinaryType DEF Short, Normal
<1>2. Bits(c.m) \in Nat
  BY <1>1, BitsAtMost
<1> QED
  BY <1>2 DEF Short

LEMMA ShortDyadic ==
  ASSUME NEW k \in Int, NEW e \in Int, NEW b \in Nat \ {0}, Abs(k) <= Power[b]
  PROVE  Short(Dyadic(k, e), b)
<1> DEFINE a == [m |-> k, e |-> e]
           d == Dyadic(k, e)
<1>1. a \in Binary /\ a.m = k /\ d = Normalized[a]
  BY BinaryOf DEF Dyadic
<1> HIDE DEF a, d
<1>2. Normal(d)
  BY <1>1, NormalizedValue
<1>3. PICK j \in Nat : k = d.m * Power[j]
  BY <1>1, NormalizedValue
<1>4. d.m \in Int
  BY <1>2, BinaryType DEF Normal
<1>5. Power[j] \in Nat \ {0} /\ Power[b] \in Nat
  BY PowerIsPositive
<1>6. Abs(k) = Abs(d.m) * Power[j] /\ Abs(d.m) \in Nat
  BY <1>3, <1>4, <1>5, AbsTimes, AbsValue
<1>7. Abs(d.m) <= Abs(k)
  BY <1>5, <1>6
<1>8. Abs(d.m) # Power[b]
  <2> SUFFICES ASSUME Abs(d.m) = Power[b]
               PROVE  FALSE
    OBVIOUS
  <2>1. b - 1 \in Nat /\ (b - 1) + 1 = b
    OBVIOUS
  <2>2. Power[b] = 2 * Power[b - 1] /\ Power[b - 1] \in Nat \ {0}
    BY <2>1, PowerNext, PowerIsPositive
  <2>3. d.m = 2 * Power[b - 1] \/ d.m = - (2 * Power[b - 1])
    BY <1>4, <2>2, AbsValue
  <2>4. d.m % 2 = 0 /\ d.m # 0
    BY <2>2, <2>3
  <2> QED
    BY <1>2, <2>4 DEF Normal
<1>9. Abs(d.m) < Power[b]
  BY <1>5, <1>6, <1>7, <1>8, AbsValue
<1> QED
  BY <1>2, <1>4, <1>9, BitsAtMost DEF Short, d

\* Numbers with b digits that are not too small are multiples of 2^g.
LEMMA ShortGrid ==
  ASSUME NEW c, NEW b \in Nat \ {0}, Short(c, b), NEW s, Fits(c, s), NEW g \in Int, g + s \in Nat,
         Power[b - 1] * Power[g + s] <= Abs(At(c, s))
  PROVE  \E i \in Int : At(c, s) = i * Power[g + s]
<1>1. c.m \in Int /\ c.e \in Int /\ s \in Nat /\ c.e + s \in Nat /\ b - 1 \in Nat
  BY BinaryType DEF Fits
<1>2. Abs(c.m) < Power[b] /\ Abs(c.m) \in Nat
  BY <1>1, BitsAtMost, AbsValue DEF Short
<1> DEFINE p == Power[c.e + s]
<1>3. p \in Nat \ {0} /\ Power[b] \in Nat
  BY <1>1, PowerIsPositive
<1>4. Abs(At(c, s)) = Abs(c.m) * p
  BY <1>1, <1>3, AbsTimes DEF At
<1>5. Abs(c.m) * p < Power[b] * p
  BY <1>2, <1>3, Cancel
<1>6. Power[b - 1] * Power[g + s] = Power[(b - 1) + (g + s)] /\ Power[b] * p = Power[b + (c.e + s)]
  BY <1>1, PowerSum
<1>7. Power[(b - 1) + (g + s)] < Power[b + (c.e + s)]
  <2>1. Power[(b - 1) + (g + s)] \in Nat /\ Power[b + (c.e + s)] \in Nat
    BY <1>1, PowerIsPositive
  <2>2. Abs(c.m) * p \in Nat
    BY <1>2, <1>3
  <2> HIDE DEF p
  <2> QED
    BY <1>4, <1>5, <1>6, <2>1, <2>2
<1>8. (b - 1) + (g + s) < b + (c.e + s)
  <2>1. (b - 1) + (g + s) \in Nat /\ b + (c.e + s) \in Nat
    BY <1>1
  <2> QED
    BY <1>7, <2>1, PowerGrows
<1>9. c.e - g \in Nat /\ c.e + s = (c.e - g) + (g + s)
  BY <1>1, <1>8
<1>10. p = Power[c.e - g] * Power[g + s]
  BY <1>9, PowerSum
<1>11. Power[c.e - g] \in Int /\ Power[g + s] \in Int
  BY <1>9, PowerIsPositive
<1>12. At(c, s) = (c.m * Power[c.e - g]) * Power[g + s]
  BY <1>1, <1>10, <1>11, Ring DEF At
<1>13. c.m * Power[c.e - g] \in Int
  BY <1>1, <1>11
<1> QED
  BY <1>12, <1>13

\* A short number is a multiple of 2^g, or small.
LEMMA ShortOrSmall ==
  ASSUME NEW c, NEW b \in Nat \ {0}, Short(c, b), NEW s, Fits(c, s), NEW g \in Int, g + s \in Nat
  PROVE  \/ \E i \in Int : At(c, s) = i * Power[g + s]
         \/ Abs(At(c, s)) < Power[b - 1] * Power[g + s]
<1>1. At(c, s) \in Int
  BY AtType
<1>2. b - 1 \in Nat
  OBVIOUS
<1>3. Power[b - 1] \in Nat /\ Power[g + s] \in Nat
  BY <1>2, PowerIsPositive
<1>4. Power[b - 1] * Power[g + s] \in Int /\ Abs(At(c, s)) \in Int
  BY <1>1, <1>3, AbsValue
<1> QED
  BY <1>4, ShortGrid

-----------------------------------------------------------------------------
(* The nearest multiple of a number. *)

LEMMA NearestMultiple ==
  ASSUME NEW n \in Int, NEW x \in Nat \ {0}, NEW j \in Int, NEW i \in Int, 2 * Abs(n - j * x) <= x
  PROVE  Abs(n - j * x) <= Abs(n - i * x)
<1> DEFINE p == j * x
           q == i * x
<1>1. p \in Int /\ q \in Int
  OBVIOUS
<1>2. i < j => q + x <= p
  <2> SUFFICES ASSUME i < j
               PROVE  q + x <= p
    OBVIOUS
  <2>1. (i + 1) * x <= j * x /\ (i + 1) * x = i * x + x
    BY Cancel, Ring
  <2> QED
    BY <2>1
<1>3. j < i => p + x <= q
  <2> SUFFICES ASSUME j < i
               PROVE  p + x <= q
    OBVIOUS
  <2>1. (j + 1) * x <= i * x /\ (j + 1) * x = j * x + x
    BY Cancel, Ring
  <2> QED
    BY <2>1
<1>4. i = j => p = q
  OBVIOUS
<1>5. 2 * Abs(n - p) <= x
  OBVIOUS
<1> HIDE DEF p, q
<1>6. Abs(n - p) <= Abs(n - q)
  BY <1>1, <1>2, <1>3, <1>4, <1>5 DEF Abs
<1> QED
  BY <1>6 DEF p, q

LEMMA NearestIs ==
  ASSUME NEW n \in Int, NEW d \in Nat \ {0}
  PROVE  Nearest(n, d) \in Int /\ 2 * Abs(n - Nearest(n, d) * d) <= d
<1> DEFINE q == n \div d
           r == n % d
<1>1. q \in Int /\ r \in Nat /\ r < d /\ n = d * q + r
  BY DivMod
<1>2. Nearest(n, d) = IF 2 * r < d \/ (2 * r = d /\ q % 2 = 0) THEN q ELSE q + 1
  BY DEF Nearest
<1> HIDE DEF q, r
<1>3. d * q = q * d /\ (q + 1) * d = q * d + d /\ q * d \in Int
  BY <1>1
<1>4. CASE Nearest(n, d) = q /\ 2 * r <= d
  <2>1. n - q * d = r
    BY <1>1, <1>3
  <2>2. Abs(n - q * d) = r
    BY <1>1, <2>1, AbsValue
  <2> QED
    BY <1>1, <1>4, <2>2
<1>5. CASE Nearest(n, d) = q + 1 /\ 2 * r >= d
  <2>1. n - (q + 1) * d = r - d
    BY <1>1, <1>3
  <2>2. Abs(n - (q + 1) * d) = d - r
    BY <1>1, <2>1, AbsValue
  <2>3. 2 * Abs(n - (q + 1) * d) <= d /\ q + 1 \in Int
    BY <1>1, <1>5, <2>2
  <2> QED
    BY <1>5, <2>3
<1> QED
  BY <1>1, <1>2, <1>4, <1>5

-----------------------------------------------------------------------------
(* Numbers num / den, and how floating point numbers relate to them. *)

IsValue(v) == Normal(v.num) /\ v.den \in Nat \ {0}
Only(c) == [num |-> c, den |-> 1]

Below(c, v) == Difference(v, Only(c)).m >= 0
Above(c, v) == Difference(v, Only(c)).m <= 0
Distance(c, v) == DAbs(Difference(v, Only(c)))

LEMMA DifferenceIs ==
  ASSUME NEW v, NEW w, IsValue(v), IsValue(w), NEW s, Fits(v.num, s), Fits(w.num, s)
  PROVE  /\ Fits(Difference(v, w), s)
         /\ At(Difference(v, w), s) = At(v.num, s) * w.den - At(w.num, s) * v.den
         /\ At(v.num, s) * w.den \in Int /\ At(w.num, s) * v.den \in Int
<1>1. v.num \in Binary /\ w.num \in Binary /\ v.den \in Int /\ w.den \in Int
  BY DEF IsValue, Normal
<1> DEFINE a == DTimes(v.num, Int2Dyadic(w.den))
           b == DTimes(w.num, Int2Dyadic(v.den))
<1>2. a \in Binary /\ Fits(a, s) /\ At(a, s) = At(v.num, s) * w.den
  BY <1>1, MultipleValue
<1>3. b \in Binary /\ Fits(b, s) /\ At(b, s) = At(w.num, s) * v.den
  BY <1>1, MultipleValue
<1>4. Difference(v, w) = DMinus(a, b)
  BY DEF Difference
<1> HIDE DEF a, b
<1>5. Fits(DMinus(a, b), s) /\ At(DMinus(a, b), s) = At(a, s) - At(b, s)
  BY <1>2, <1>3, MinusValue
<1>6. At(a, s) \in Int /\ At(b, s) \in Int
  BY <1>2, <1>3, AtType
<1> QED
  BY <1>2, <1>3, <1>4, <1>5, <1>6

LEMMA OnlyIs ==
  ASSUME NEW c, Normal(c)
  PROVE  IsValue(Only(c)) /\ Only(c).num = c /\ Only(c).den = 1
BY DEF Only, IsValue

\* The relations of a floating point number to a value, at a scale.
LEMMA RelationsAt ==
  ASSUME NEW v, IsValue(v), NEW c, Normal(c), NEW s, Fits(v.num, s), Fits(c, s)
  PROVE  /\ Below(c, v) <=> At(c, s) * v.den <= At(v.num, s)
         /\ Above(c, v) <=> At(v.num, s) <= At(c, s) * v.den
         /\ Distance(c, v) \in Binary
         /\ Fits(Distance(c, v), s)
         /\ At(Distance(c, v), s) = Abs(At(v.num, s) - At(c, s) * v.den)
         /\ At(c, s) \in Int /\ At(v.num, s) \in Int /\ At(c, s) * v.den \in Int
<1> DEFINE d == Difference(v, Only(c))
<1>1. /\ Fits(d, s)
      /\ At(d, s) = At(v.num, s) * 1 - At(c, s) * v.den
      /\ At(v.num, s) * 1 \in Int /\ At(c, s) * v.den \in Int
  BY OnlyIs, DifferenceIs
<1>2. Below(c, v) <=> d.m >= 0
  BY DEF Below
<1>3. Above(c, v) <=> d.m <= 0
  BY DEF Above
<1>4. Distance(c, v) = DAbs(d)
  BY DEF Distance
<1> HIDE DEF d
<1>5. At(d, s) \in Int /\ d.m \in Int /\ (d.m < 0 <=> At(d, s) < 0) /\ (d.m > 0 <=> At(d, s) > 0)
  BY <1>1, AtType
<1>6. At(v.num, s) \in Int /\ At(c, s) \in Int /\ At(v.num, s) * 1 = At(v.num, s)
  BY AtType
<1>7. d \in Binary
  BY <1>1 DEF Fits
<1>8. DAbs(d) \in Binary /\ Fits(DAbs(d), s) /\ At(DAbs(d), s) = Abs(At(d, s))
  BY <1>1, <1>7, AbsOfValue
<1> QED
  BY <1>1, <1>2, <1>3, <1>4, <1>5, <1>6, <1>8

LEMMA CommonScale ==
  ASSUME NEW a, NEW b, NEW c, NEW d, Normal(a), Normal(b), Normal(c), Normal(d)
  PROVE  \E s \in Nat : Fits(a, s) /\ Fits(b, s) /\ Fits(c, s) /\ Fits(d, s)
<1>1. a \in Binary /\ b \in Binary /\ c \in Binary /\ d \in Binary
  BY DEF Normal
<1>2. PICK i \in Nat : \A t \in Nat : i <= t => Fits(a, t)
  BY <1>1, FitsFrom
<1>3. PICK j \in Nat : \A t \in Nat : j <= t => Fits(b, t)
  BY <1>1, FitsFrom
<1>4. PICK k \in Nat : \A t \in Nat : k <= t => Fits(c, t)
  BY <1>1, FitsFrom
<1>5. PICK l \in Nat : \A t \in Nat : l <= t => Fits(d, t)
  BY <1>1, FitsFrom
<1>6. i + j + k + l \in Nat /\ i <= i + j + k + l /\ j <= i + j + k + l /\ k <= i + j + k + l /\ l <= i + j + k + l
  OBVIOUS
<1> QED
  BY <1>2, <1>3, <1>4, <1>5, <1>6

\* Some scale that is larger than any given one.
LEMMA LargeScale ==
  ASSUME NEW a, Normal(a), NEW s \in Int
  PROVE  \E t \in Nat : s <= t /\ Fits(a, t)
<1>1. PICK i \in Nat : \A t \in Nat : i <= t => Fits(a, t)
  BY FitsFrom DEF Normal
<1>2. PICK t \in Nat : i <= t /\ s <= t
  <2>1. IF i <= s THEN s \in Nat /\ i <= s ELSE s <= i
    OBVIOUS
  <2> QED
    BY <2>1
<1> QED
  BY <1>1, <1>2

LEMMA OrderIsTotal ==
  ASSUME NEW v, IsValue(v), NEW c, Normal(c)
  PROVE  Below(c, v) \/ Above(c, v)
<1>1. PICK s \in Nat : Fits(c, s) /\ Fits(v.num, s)
  BY CommonScale DEF IsValue
<1> QED
  BY <1>1, RelationsAt

\* Floating point numbers that separate.
LEMMA OrderIsTransitive ==
  ASSUME NEW v, IsValue(v), NEW c, NEW d, Normal(c), Normal(d), DLeq(c, d)
  PROVE  (Below(d, v) => Below(c, v)) /\ (Above(c, v) => Above(d, v))
<1>1. PICK s \in Nat : Fits(c, s) /\ Fits(d, s) /\ Fits(v.num, s)
  BY CommonScale DEF IsValue
<1>2. At(c, s) <= At(d, s)
  BY <1>1, OrderIs
<1>3. At(c, s) * v.den <= At(d, s) * v.den
  <2>1. At(c, s) \in Int /\ At(d, s) \in Int /\ v.den \in Nat \ {0}
    BY <1>1, AtType DEF IsValue
  <2> QED
    BY <1>2, <2>1, Cancel
<1>4. /\ Below(c, v) <=> At(c, s) * v.den <= At(v.num, s)
      /\ Above(c, v) <=> At(v.num, s) <= At(c, s) * v.den
      /\ At(v.num, s) \in Int /\ At(c, s) * v.den \in Int
  BY <1>1, RelationsAt
<1>5. /\ Below(d, v) <=> At(d, s) * v.den <= At(v.num, s)
      /\ Above(d, v) <=> At(v.num, s) <= At(d, s) * v.den
      /\ At(d, s) * v.den \in Int
  BY <1>1, RelationsAt
<1> QED
  BY <1>3, <1>4, <1>5

-----------------------------------------------------------------------------
(* What roundings achieve.  A number a is as close to the value v as numbers
   with b digits get, or it at least does not cross any number with b digits. *)

IsNearest(a, v, b) == Short(a, b) /\ \A c : Short(c, b) => DLeq(Distance(a, v), Distance(c, v))

Respects(a, v, b) == \A c : Short(c, b) => (Below(c, v) => DLeq(c, a)) /\ (Above(c, v) => DLeq(a, c))

LEMMA NearestRespects ==
  ASSUME NEW v, IsValue(v), NEW a, NEW b, IsNearest(a, v, b)
  PROVE  Respects(a, v, b)
<1> SUFFICES ASSUME NEW c, Short(c, b)
             PROVE  (Below(c, v) => DLeq(c, a)) /\ (Above(c, v) => DLeq(a, c))
  BY DEF Respects
<1>1. Normal(a) /\ Normal(c) /\ DLeq(Distance(a, v), Distance(c, v))
  BY DEF IsNearest, Short
<1>2. PICK s \in Nat : Fits(a, s) /\ Fits(c, s) /\ Fits(v.num, s)
  BY <1>1, CommonScale DEF IsValue
<1> DEFINE n == At(v.num, s)
           d == v.den
           x == At(a, s)
           y == At(c, s)
<1>3. /\ Below(c, v) <=> y * d <= n
      /\ Above(c, v) <=> n <= y * d
      /\ Fits(Distance(c, v), s)
      /\ At(Distance(c, v), s) = Abs(n - y * d)
  BY <1>1, <1>2, RelationsAt
<1>4. Fits(Distance(a, v), s) /\ At(Distance(a, v), s) = Abs(n - x * d)
  BY <1>1, <1>2, RelationsAt
<1>5. Abs(n - x * d) <= Abs(n - y * d)
  BY <1>1, <1>3, <1>4, OrderIs
<1>6. (DLeq(c, a) <=> y <= x) /\ (DLeq(a, c) <=> x <= y)
  BY <1>2, OrderIs
<1>7. n \in Int /\ x \in Int /\ y \in Int /\ d \in Nat \ {0}
  BY <1>2, AtType DEF IsValue
<1> HIDE DEF n, d, x, y
<1> DEFINE p == x * d
           q == y * d
<1>8. p \in Int /\ q \in Int /\ (p < q <=> x < y) /\ (q < p <=> y < x)
  BY <1>7, Cancel
<1>9. Abs(n - p) <= Abs(n - q)
  BY <1>5
<1>10. (Below(c, v) <=> q <= n) /\ (Above(c, v) <=> n <= q)
  BY <1>3
<1> HIDE DEF p, q
<1>11. (q <= n => q <= p) /\ (n <= q => p <= q)
  BY <1>7, <1>8, <1>9 DEF Abs
<1> QED
  BY <1>6, <1>7, <1>8, <1>10, <1>11

LEMMA RespectsFewer ==
  ASSUME NEW v, NEW a, NEW b \in Int, NEW d \in Int, Respects(a, v, b), d <= b
  PROVE  Respects(a, v, d)
BY ShortLonger DEF Respects

-----------------------------------------------------------------------------
(* Rounding to multiples of a power of two 2^g. *)

\* With b digits, v / 2^g is rounded to an integer.
Grid(v, g, s) == Power[g + s] * v.den
Spans(v, b, g, s) ==
  /\ Fits(v.num, s) /\ g + s \in Nat
  /\ Power[b - 1] * Grid(v, g, s) <= Abs(At(v.num, s))
  /\ Abs(At(v.num, s)) <= Power[b] * Grid(v, g, s)
IsRounded(j, v, g, s) == 2 * Abs(At(v.num, s) - j * Grid(v, g, s)) <= Grid(v, g, s)
IsFloor(j, v, g, s) == j * Grid(v, g, s) <= At(v.num, s) /\ At(v.num, s) < (j + 1) * Grid(v, g, s)

LEMMA GridType ==
  ASSUME NEW v, IsValue(v), NEW g \in Int, NEW s, Fits(v.num, s), g + s \in Nat
  PROVE  /\ Grid(v, g, s) \in Nat \ {0} /\ At(v.num, s) \in Int /\ s \in Nat
         /\ Power[g + s] \in Nat \ {0} /\ v.den \in Nat \ {0}
<1>1. Power[g + s] \in Nat \ {0} /\ v.den \in Nat \ {0} /\ At(v.num, s) \in Int
  BY PowerIsPositive, AtType DEF IsValue
<1> QED
  BY <1>1 DEF Grid, Fits

LEMMA AbsMultiple ==
  ASSUME NEW a \in Int, NEW k \in Nat \ {0}, NEW x \in Int, NEW y \in Int
  PROVE  /\ y * x <= Abs(a) <=> y * (x * k) <= Abs(a * k)
         /\ Abs(a) <= y * x <=> Abs(a * k) <= y * (x * k)
         /\ 2 * Abs(a - y * x) <= x <=> 2 * Abs(a * k - y * (x * k)) <= x * k
<1>1. Abs(a * k) = Abs(a) * k /\ y * (x * k) = (y * x) * k /\ Abs(a) \in Int
  BY AbsTimes, Ring, AbsValue
<1> DEFINE p == y * x
           q == a - p
           r == Abs(a)
           u == Abs(q)
<1>2. p \in Int /\ q \in Int /\ a * k - p * k = q * k /\ r \in Int
  BY <1>1, Ring
<1>3. u \in Int
  BY <1>2, AbsValue
<1>3a. Abs(q * k) = u * k
  <2> HIDE DEF q, p
  <2> QED
    BY <1>2, AbsTimes
<1>3b. a * k - y * (x * k) = q * k
  BY <1>1, <1>2
<1> HIDE DEF p, q, r, u
<1>4. (p * k <= r * k <=> p <= r) /\ (r * k <= p * k <=> r <= p)
  BY <1>1, <1>2, Cancel
<1>5. 2 * u \in Int /\ (2 * u) * k = 2 * (u * k)
  BY <1>3
<1>6. (2 * u) * k <= x * k <=> 2 * u <= x
  BY <1>5, Cancel
<1>7. 2 * Abs(a * k - y * (x * k)) = (2 * u) * k
  BY <1>3a, <1>3b, <1>5
<1> QED
  BY <1>1, <1>4, <1>6, <1>7 DEF p, q, r, u

\* The scale does not matter.
LEMMA SpansAtScale ==
  ASSUME NEW v, IsValue(v), NEW b \in Nat \ {0}, NEW g \in Int, NEW s, NEW t \in Nat, s <= t,
         Spans(v, b, g, s), NEW j \in Int
  PROVE  /\ Spans(v, b, g, t)
         /\ IsRounded(j, v, g, s) => IsRounded(j, v, g, t)
         /\ IsFloor(j, v, g, s) => IsFloor(j, v, g, t)
<1> DEFINE k == Power[t - s]
           x == Grid(v, g, s)
           n == At(v.num, s)
<1>1. s \in Nat /\ Fits(v.num, s) /\ g + s \in Nat /\ t - s \in Nat /\ g + t \in Nat
  BY DEF Spans, Fits
<1>2. k \in Nat \ {0} /\ n \in Int /\ x \in Nat \ {0} /\ Power[b] \in Nat /\ Power[b - 1] \in Nat
  <2>1. b - 1 \in Nat
    OBVIOUS
  <2> QED
    BY <1>1, <2>1, PowerIsPositive, GridType
<1>3. Fits(v.num, t) /\ At(v.num, t) = n * k
  BY <1>1, AtScale
<1>4. Grid(v, g, t) = x * k
  <2>1. g + t = (g + s) + (t - s)
    BY <1>1
  <2>2. Power[g + t] = Power[g + s] * k
    BY <1>1, <2>1, PowerSum
  <2>3. Power[g + s] \in Int /\ v.den \in Int
    BY <1>1, PowerIsPositive DEF IsValue
  <2>4. (Power[g + s] * k) * v.den = (Power[g + s] * v.den) * k
    BY <1>2, <2>3, Ring
  <2> QED
    BY <2>2, <2>4 DEF Grid
<1>5. Power[b - 1] * x <= Abs(n) /\ Abs(n) <= Power[b] * x
  BY DEF Spans
<1>6. /\ IsRounded(j, v, g, s) <=> 2 * Abs(n - j * x) <= x
      /\ IsRounded(j, v, g, t) <=> 2 * Abs(n * k - j * (x * k)) <= x * k
  BY <1>3, <1>4 DEF IsRounded
<1>7. /\ IsFloor(j, v, g, s) <=> j * x <= n /\ n < (j + 1) * x
      /\ IsFloor(j, v, g, t) <=> j * (x * k) <= n * k /\ n * k < (j + 1) * (x * k)
  BY <1>3, <1>4 DEF IsFloor
<1> HIDE DEF k, x, n
<1>8. Power[b - 1] * (x * k) <= Abs(n * k) /\ Abs(n * k) <= Power[b] * (x * k)
  BY <1>2, <1>5, AbsMultiple
<1>9. Spans(v, b, g, t)
  BY <1>1, <1>3, <1>4, <1>8 DEF Spans
<1>10. IsRounded(j, v, g, s) => IsRounded(j, v, g, t)
  BY <1>2, <1>6, AbsMultiple
<1>11. IsFloor(j, v, g, s) => IsFloor(j, v, g, t)
  <2>1. j * (x * k) = (j * x) * k /\ (j + 1) * (x * k) = ((j + 1) * x) * k /\ j * x \in Int /\ (j + 1) * x \in Int
    BY <1>2, Ring
  <2>2. (j * x <= n => (j * x) * k <= n * k) /\ (n < (j + 1) * x => n * k < ((j + 1) * x) * k)
    BY <1>2, <2>1, Cancel
  <2> QED
    BY <1>7, <2>1, <2>2
<1> QED
  BY <1>9, <1>10, <1>11

LEMMA NearestOnGrid ==
  ASSUME NEW v, IsValue(v), NEW b \in Nat \ {0}, NEW g \in Int, NEW s, Spans(v, b, g, s),
         NEW j \in Int, IsRounded(j, v, g, s)
  PROVE  IsNearest(Dyadic(j, g), v, b)
<1>1. Short(Dyadic(j, g), b)
  <2> DEFINE x == Grid(v, g, s)
             n == At(v.num, s)
             p == Power[b]
  <2>1. x \in Nat \ {0} /\ n \in Int /\ p \in Nat
    BY GridType, PowerIsPositive DEF Spans
  <2>2. Abs(n) <= p * x /\ 2 * Abs(n - j * x) <= x
    BY DEF Spans, IsRounded
  <2> HIDE DEF x, n, p
  <2>3. Abs(j * x) = Abs(j) * x /\ Abs(j) \in Nat
    BY <2>1, AbsTimes, AbsValue
  <2> DEFINE y == j * x
             z == p * x
             w == Abs(j) * x
  <2>4. y \in Int /\ z \in Int /\ w = Abs(y) /\ w \in Int
    BY <2>1, <2>3
  <2>5. Abs(n) <= z /\ 2 * Abs(n - y) <= x
    BY <2>2
  <2>5a. 2 * w = (2 * Abs(j)) * x /\ 2 * z + x = (2 * p + 1) * x
    BY <2>1, <2>3
  <2> HIDE DEF y, z, w
  <2>6. 2 * w <= 2 * z + x
    BY <2>1, <2>4, <2>5 DEF Abs
  <2>7. (2 * Abs(j)) * x <= (2 * p + 1) * x
    BY <2>5a, <2>6
  <2>8. 2 * Abs(j) <= 2 * p + 1
    <3>1. 2 * Abs(j) \in Int /\ 2 * p + 1 \in Int
      BY <2>1, <2>3
    <3> QED
      BY <2>1, <2>7, <3>1, Cancel
  <2>9. Abs(j) <= p
    BY <2>1, <2>3, <2>8
  <2> QED
    BY <2>9, ShortDyadic DEF p
<1>2. ASSUME NEW c, Short(c, b)
      PROVE  DLeq(Distance(Dyadic(j, g), v), Distance(c, v))
  <2> DEFINE a == Dyadic(j, g)
  <2>1. Normal(a) /\ Normal(c) /\ Normal(v.num) /\ s \in Nat
    BY <1>2, DyadicValue DEF Short, IsValue, Spans, Fits
  <2>1a. s \in Int
    BY <2>1
  <2>2. PICK t \in Nat : s <= t /\ Fits(c, t)
    BY <2>1, <2>1a, LargeScale
  <2>3. Spans(v, b, g, t) /\ IsRounded(j, v, g, t)
    BY <2>2, SpansAtScale
  <2>4. Fits(v.num, t) /\ g + t \in Nat
    BY <2>3 DEF Spans
  <2>5. Fits(a, t) /\ At(a, t) = j * Power[g + t]
    BY <2>2, <2>4, DyadicValue
  <2> HIDE DEF a
  <2> DEFINE n == At(v.num, t)
             d == v.den
             q == Power[g + t]
             x == Grid(v, g, t)
             y == At(c, t)
             u == Power[b - 1]
  <2>6. /\ n \in Int /\ d \in Nat \ {0} /\ q \in Nat \ {0} /\ x \in Nat \ {0} /\ y \in Int /\ u \in Nat \ {0}
        /\ x = q * d
    <3>1. b - 1 \in Nat
      OBVIOUS
    <3> QED
      BY <2>2, <2>4, <3>1, GridType, AtType, PowerIsPositive DEF Grid
  <2>7. u * x <= Abs(n) /\ 2 * Abs(n - j * x) <= x
    BY <2>3 DEF Spans, IsRounded
  <2>8. (\E i \in Int : y = i * q) \/ Abs(y) < u * q
    BY <1>2, <2>2, <2>4, ShortOrSmall
  <2>9. DLeq(Distance(a, v), Distance(c, v)) <=> Abs(n - (j * q) * d) <= Abs(n - y * d)
    <3>1. Fits(Distance(a, v), t) /\ At(Distance(a, v), t) = Abs(n - (j * q) * d)
      BY <2>1, <2>4, <2>5, RelationsAt
    <3>2. Fits(Distance(c, v), t) /\ At(Distance(c, v), t) = Abs(n - y * d)
      BY <2>1, <2>2, <2>4, RelationsAt
    <3> QED
      BY <3>1, <3>2, OrderIs
  <2> HIDE DEF n, d, q, x, y, u
  <2>10. ASSUME NEW i \in Int
         PROVE  Abs(n - j * x) <= Abs(n - i * x)
    BY <2>6, <2>7, NearestMultiple
  <2>11. (j * q) * d = j * x
    BY <2>6, Ring
  <2>12. CASE \E i \in Int : y = i * q
    <3>1. PICK i \in Int : y = i * q
      BY <2>12
    <3>2. y * d = i * x
      BY <2>6, <3>1, Ring
    <3> QED
      BY <2>9, <2>10, <2>11, <3>2 DEF a
  <2>13. CASE Abs(y) < u * q
    <3>1. u * x = (u * q) * d /\ u * q \in Int
      BY <2>6, Ring
    <3>2. y <= u * q /\ - (u * q) <= y
      BY <2>6, <2>13, <3>1 DEF Abs
    <3>3. y * d <= u * x /\ - (u * x) <= y * d
      <4>1. y * d <= (u * q) * d /\ (- (u * q)) * d <= y * d
        BY <2>6, <3>1, <3>2, Cancel
      <4>2. (- (u * q)) * d = - ((u * q) * d)
        BY <2>6, <3>1
      <4> QED
        BY <3>1, <4>1, <4>2
    <3> DEFINE z == u * x
               w == y * d
    <3>4. z \in Int /\ w \in Int /\ (- u) * x = - z
      BY <2>6
    <3>5. Abs(n - j * x) <= Abs(n - z) /\ Abs(n - j * x) <= Abs(n + z)
      <4>0. u \in Int /\ - u \in Int
        BY <2>6
      <4>1. Abs(n - j * x) <= Abs(n - u * x) /\ Abs(n - j * x) <= Abs(n - (- u) * x)
        BY <2>10, <4>0
      <4> QED
        BY <2>6, <3>4, <4>1
    <3>6. z <= Abs(n) /\ w <= z /\ - z <= w
      BY <2>7, <3>3
    <3> DEFINE r == Abs(n - j * x)
    <3>7. r \in Int
      <4>1. n - j * x \in Int
        BY <2>6
      <4> QED
        BY <4>1, AbsValue
    <3>8. r <= Abs(n - z) /\ r <= Abs(n + z)
      BY <3>5
    <3>9. DLeq(Distance(a, v), Distance(c, v)) <=> r <= Abs(n - w)
      BY <2>9, <2>11
    <3> HIDE DEF z, w, r
    <3>10. r <= Abs(n - w)
      BY <2>6, <3>4, <3>6, <3>7, <3>8 DEF Abs
    <3> QED
      BY <3>9, <3>10 DEF a
  <2> QED
    BY <2>8, <2>12, <2>13 DEF a
<1> QED
  BY <1>1, <1>2 DEF IsNearest

LEMMA FloorOnGrid ==
  ASSUME NEW v, IsValue(v), NEW b \in Nat \ {0}, NEW g \in Int, NEW s, Spans(v, b, g, s), v.num.m > 0,
         NEW j \in Int, IsFloor(j, v, g, s)
  PROVE  Short(Dyadic(j, g), b) /\ Below(Dyadic(j, g), v) /\ Respects(Dyadic(j, g), v, b)
<1> DEFINE a == Dyadic(j, g)
<1>0. Normal(a)
  BY DyadicValue
<1>1. ASSUME NEW t \in Nat, s <= t
      PROVE  /\ Fits(v.num, t) /\ g + t \in Nat
             /\ Fits(a, t) /\ At(a, t) = j * Power[g + t]
             /\ At(v.num, t) > 0 /\ At(v.num, t) \in Int
             /\ Power[b - 1] * Grid(v, g, t) <= At(v.num, t)
             /\ At(v.num, t) <= Power[b] * Grid(v, g, t)
             /\ j * Grid(v, g, t) <= At(v.num, t)
             /\ At(v.num, t) < (j + 1) * Grid(v, g, t)
  <2>1. Spans(v, b, g, t) /\ IsFloor(j, v, g, t)
    BY <1>1, SpansAtScale
  <2>2. Fits(v.num, t) /\ g + t \in Nat
    BY <2>1 DEF Spans
  <2>3. At(v.num, t) > 0 /\ At(v.num, t) \in Int
    BY <2>2, AtType
  <2>4. Abs(At(v.num, t)) = At(v.num, t)
    BY <2>3, AbsValue
  <2>5. Fits(a, t) /\ At(a, t) = j * Power[g + t]
    BY <2>2, DyadicValue
  <2> QED
    BY <2>1, <2>2, <2>3, <2>4, <2>5 DEF Spans, IsFloor
<1> HIDE DEF a
<1>2. s \in Nat /\ s <= s
  BY DEF Spans, Fits
<1> DEFINE p == Power[b]
           u == Power[b - 1]
<1>3. p \in Nat \ {0} /\ u \in Nat \ {0}
  <2>1. b - 1 \in Nat
    OBVIOUS
  <2> QED
    BY <2>1, PowerIsPositive
<1>4. u <= j /\ j <= p
  <2> DEFINE x == Grid(v, g, s)
             n == At(v.num, s)
  <2>1. n \in Int /\ u * x <= n /\ n <= p * x /\ j * x <= n /\ n < (j + 1) * x
    BY <1>1, <1>2
  <2>2. x \in Nat \ {0}
    BY <1>1, <1>2, GridType
  <2> HIDE DEF x, n, p, u
  <2>3. u * x < (j + 1) * x /\ j * x <= p * x
    <3>1. u * x \in Int /\ (j + 1) * x \in Int /\ j * x \in Int /\ p * x \in Int
      BY <1>3, <2>2
    <3> QED
      BY <2>1, <3>1
  <2>4. u < j + 1 /\ j <= p
    BY <1>3, <2>2, <2>3, Cancel
  <2> QED
    BY <1>3, <2>4
<1>5. Short(a, b)
  <2>1. Abs(j) <= p
    BY <1>3, <1>4, AbsValue
  <2> QED
    BY <2>1, ShortDyadic DEF a, p
<1>6. Below(a, v)
  <2>1. Fits(v.num, s) /\ Fits(a, s) /\ At(a, s) = j * Power[g + s] /\ j * Grid(v, g, s) <= At(v.num, s)
    BY <1>1, <1>2
  <2>2. Power[g + s] \in Int /\ v.den \in Int
    BY <1>1, <1>2, GridType
  <2>3. (j * Power[g + s]) * v.den = j * Grid(v, g, s)
    <3> DEFINE q == Power[g + s]
               d == v.den
    <3>1. q \in Int /\ d \in Int
      BY <2>2
    <3>2. Grid(v, g, s) = q * d
      BY DEF Grid
    <3> HIDE DEF q, d
    <3>3. (j * q) * d = j * (q * d)
      BY <3>1, Ring
    <3> QED
      BY <3>2, <3>3 DEF q, d
  <2> QED
    BY <1>0, <2>1, <2>3, RelationsAt
<1>7. ASSUME NEW c, Short(c, b), Below(c, v)
      PROVE  DLeq(c, a)
  <2>1. Normal(c) /\ s \in Int
    BY <1>2, <1>7 DEF Short
  <2>2. PICK t \in Nat : s <= t /\ Fits(c, t)
    BY <2>1, LargeScale
  <2> DEFINE n == At(v.num, t)
             d == v.den
             q == Power[g + t]
             x == Grid(v, g, t)
             y == At(c, t)
  <2>3. /\ Fits(v.num, t) /\ g + t \in Nat /\ Fits(a, t) /\ At(a, t) = j * q
        /\ n \in Int /\ u * x <= n /\ n < (j + 1) * x
    BY <1>1, <2>2
  <2>4. /\ d \in Nat \ {0} /\ q \in Nat \ {0} /\ x \in Nat \ {0} /\ y \in Int /\ x = q * d
    BY <2>2, <2>3, GridType, AtType DEF Grid
  <2>5. y * d <= n
    BY <1>7, <2>1, <2>2, <2>3, RelationsAt
  <2>6. (\E i \in Int : y = i * q) \/ Abs(y) < u * q
    BY <1>7, <2>2, <2>3, ShortOrSmall
  <2>7. DLeq(c, a) <=> y <= j * q
    BY <2>2, <2>3, OrderIs
  <2> HIDE DEF n, d, q, x, y, u
  <2>8. CASE \E i \in Int : y = i * q
    <3>1. PICK i \in Int : y = i * q
      BY <2>8
    <3>2. y * d = i * x
      BY <2>4, <3>1, Ring
    <3>3. i * x < (j + 1) * x
      <4>1. i * x \in Int /\ (j + 1) * x \in Int
        BY <2>4
      <4> QED
        BY <2>3, <2>5, <3>2, <4>1
    <3>4. i < j + 1
      BY <2>4, <3>3, Cancel
    <3>5. i <= j
      BY <3>4
    <3> QED
      BY <2>4, <2>7, <3>1, <3>5, Cancel
  <2>9. CASE Abs(y) < u * q
    <3>1. u * q \in Int /\ j * q \in Int
      BY <1>3, <2>4
    <3>2. y <= u * q
      BY <2>4, <2>9, <3>1 DEF Abs
    <3>3. u * q <= j * q
      BY <1>3, <1>4, <2>4, Cancel
    <3> QED
      BY <2>4, <2>7, <3>1, <3>2, <3>3
  <2> QED
    BY <2>6, <2>8, <2>9
<1>8. ASSUME NEW c, Short(c, b), Above(c, v)
      PROVE  DLeq(a, c)
  <2>1. Normal(c)
    BY <1>8 DEF Short
  <2>2. PICK t \in Nat : Fits(c, t) /\ Fits(a, t) /\ Fits(v.num, t)
    BY <1>0, <2>1, CommonScale DEF IsValue
  <2>3. At(v.num, t) <= At(c, t) * v.den /\ At(c, t) * v.den \in Int /\ At(v.num, t) \in Int /\ At(c, t) \in Int
    BY <1>8, <2>1, <2>2, RelationsAt
  <2>4. At(a, t) * v.den <= At(v.num, t) /\ At(a, t) * v.den \in Int /\ At(a, t) \in Int
    BY <1>0, <1>6, <2>2, RelationsAt
  <2>5. At(a, t) * v.den <= At(c, t) * v.den
    BY <2>3, <2>4
  <2>6. At(a, t) <= At(c, t)
    BY <2>3, <2>4, <2>5, Cancel DEF IsValue
  <2> QED
    BY <2>2, <2>6, OrderIs
<1> QED
  BY <1>5, <1>6, <1>7, <1>8 DEF Respects, a

-----------------------------------------------------------------------------
(* The roundings of a floating point number. *)

\* The digits that are cut off.
Excess(a, b) == Bits(a.m) - b

LEMMA ExcessIs ==
  ASSUME NEW a, Normal(a), NEW b \in Nat \ {0}
  PROVE  /\ Excess(a, b) \in Int /\ a.m \in Int /\ a.e \in Int /\ a \in Binary
         /\ Excess(a, b) <= 0 => Short(a, b)
         /\ Excess(a, b) > 0 =>
              /\ Excess(a, b) \in Nat /\ Power[Excess(a, b)] \in Nat \ {0} /\ a.m # 0
              /\ Power[b - 1] * Power[Excess(a, b)] <= Abs(a.m)
              /\ Abs(a.m) <= Power[b] * Power[Excess(a, b)]
<1>1. a.m \in Int /\ a.e \in Int /\ a \in Binary
  BY BinaryType DEF Normal
<1>2. Bits(a.m) \in Nat
  BY <1>1, BitsAtMost
<1>3. Excess(a, b) = Bits(a.m) - b /\ Excess(a, b) \in Int
  BY <1>2 DEF Excess
<1>4. Excess(a, b) <= 0 => Short(a, b)
  BY <1>2, <1>3 DEF Short
<1>5. ASSUME Excess(a, b) > 0
      PROVE  /\ Excess(a, b) \in Nat /\ Power[Excess(a, b)] \in Nat \ {0} /\ a.m # 0
             /\ Power[b - 1] * Power[Excess(a, b)] <= Abs(a.m)
             /\ Abs(a.m) <= Power[b] * Power[Excess(a, b)]
  <2> DEFINE k == Excess(a, b)
  <2>1. k \in Nat \ {0} /\ Bits(a.m) = b + k /\ Bits(a.m) - 1 = (b - 1) + k /\ b - 1 \in Nat
    BY <1>2, <1>3, <1>5
  <2>2. a.m # 0
    <3>1. Bits(0) = 0
      BY WidthOfZero DEF Bits, Abs
    <3> QED
      BY <2>1, <3>1
  <2>3. Power[Bits(a.m) - 1] <= Abs(a.m) /\ Abs(a.m) < Power[Bits(a.m)]
    BY <1>1, <2>2, BitsBounds
  <2> HIDE DEF k
  <2>4. Power[(b - 1) + k] = Power[b - 1] * Power[k] /\ Power[b + k] = Power[b] * Power[k]
    BY <2>1, PowerSum
  <2>5. Abs(a.m) \in Int /\ Power[b + k] \in Int /\ Power[k] \in Nat \ {0}
    BY <1>1, <2>1, AbsValue, PowerIsPositive
  <2>6. Power[b - 1] * Power[k] <= Abs(a.m) /\ Abs(a.m) <= Power[b] * Power[k]
    BY <2>1, <2>3, <2>4, <2>5
  <2> QED
    BY <2>1, <2>2, <2>5, <2>6 DEF k
<1> QED
  BY <1>1, <1>3, <1>4, <1>5

\* A number as a multiple of a power of two that is larger than its own.
LEMMA OwnGrid ==
  ASSUME NEW a, Normal(a), NEW b \in Nat \ {0}, Excess(a, b) > 0
  PROVE  \E s \in Nat :
           LET k == Excess(a, b)
               p == Power[a.e + s]
               v == Only(a)
           IN  /\ p \in Nat \ {0} /\ Fits(a, s) /\ a.e + k \in Int /\ (a.e + k) + s \in Nat
               /\ At(a, s) = a.m * p
               /\ Power[(a.e + k) + s] = Power[k] * p
               /\ Grid(v, a.e + k, s) = Power[k] * p
               /\ Spans(v, b, a.e + k, s)
<1>1. PICK s \in Nat : Fits(a, s)
  BY CommonScale
<1> DEFINE k == Excess(a, b)
           p == Power[a.e + s]
           v == Only(a)
           g == a.e + k
<1>2. k \in Nat /\ Power[k] \in Nat \ {0} /\ a.m \in Int /\ a.e \in Int /\ a.e + s \in Nat
  BY <1>1, ExcessIs DEF Fits
<1>3. p \in Nat \ {0}
  BY <1>2, PowerIsPositive
<1>4. g \in Int /\ g + s \in Nat /\ g + s = k + (a.e + s)
  BY <1>2
<1>5. Power[g + s] = Power[k] * p
  <2> HIDE DEF k, g
  <2> QED
    BY <1>2, <1>4, PowerSum
<1>6. Grid(v, g, s) = Power[k] * p
  <2>1. v.den = 1
    BY OnlyIs
  <2> HIDE DEF k, g, p, v
  <2> QED
    BY <1>2, <1>3, <1>5, <2>1 DEF Grid
<1>7. At(a, s) = a.m * p
  BY DEF At
<1>8. Spans(v, b, g, s)
  <2>1. v.num = a
    BY OnlyIs
  <2>2. Power[b - 1] * Power[k] <= Abs(a.m) /\ Abs(a.m) <= Power[b] * Power[k]
    BY <1>2, ExcessIs
  <2>3. Power[b - 1] \in Int /\ Power[b] \in Int
    <3>1. b - 1 \in Nat
      OBVIOUS
    <3> QED
      BY <3>1, PowerIsPositive
  <2> DEFINE m == a.m
             x == Power[k]
  <2>4. m \in Int /\ x \in Int
    BY <1>2
  <2>5. Power[b - 1] * x <= Abs(m) /\ Abs(m) <= Power[b] * x
    BY <2>2
  <2> HIDE DEF k, g, p, v, m, x
  <2>6. Power[b - 1] * (x * p) <= Abs(m * p) /\ Abs(m * p) <= Power[b] * (x * p)
    BY <1>3, <2>3, <2>4, <2>5, AbsMultiple
  <2> QED
    BY <1>1, <1>4, <1>6, <1>7, <2>1, <2>6 DEF Spans, m, x
<1> QED
  BY <1>1, <1>3, <1>4, <1>5, <1>6, <1>7, <1>8

\* A number is nearest to itself.
LEMMA NearestToItself ==
  ASSUME NEW a, NEW b, Short(a, b)
  PROVE  IsNearest(a, Only(a), b)
<1>1. Normal(a) /\ IsValue(Only(a)) /\ Only(a).num = a /\ Only(a).den = 1
  BY OnlyIs DEF Short
<1>2. ASSUME NEW c, Short(c, b)
      PROVE  DLeq(Distance(a, Only(a)), Distance(c, Only(a)))
  <2>1. Normal(c)
    BY <1>2 DEF Short
  <2>2. PICK s \in Nat : Fits(a, s) /\ Fits(c, s)
    BY <1>1, <2>1, CommonScale
  <2>3. Fits(Distance(a, Only(a)), s) /\ At(Distance(a, Only(a)), s) = Abs(At(a, s) - At(a, s) * 1)
    BY <1>1, <2>2, RelationsAt
  <2>4. Fits(Distance(c, Only(a)), s) /\ At(Distance(c, Only(a)), s) = Abs(At(a, s) - At(c, s) * 1)
    BY <1>1, <2>1, <2>2, RelationsAt
  <2>5. At(a, s) \in Int /\ At(c, s) \in Int
    BY <2>2, AtType
  <2>6. Abs(At(a, s) - At(a, s) * 1) = 0 /\ Abs(At(a, s) - At(c, s) * 1) >= 0
    <3>1. At(a, s) - At(a, s) * 1 = 0 /\ At(a, s) - At(c, s) * 1 \in Int
      BY <2>5
    <3>2. Abs(0) = 0
      BY DEF Abs
    <3> QED
      BY <3>1, <3>2, AbsValue
  <2> QED
    BY <2>3, <2>4, <2>6, OrderIs
<1> QED
  BY <1>2 DEF IsNearest

LEMMA RoundNearIs ==
  ASSUME NEW a, Normal(a), NEW b \in Nat \ {0}
  PROVE  IsNearest(RoundNear(a, b), Only(a), b)
<1> DEFINE k == Excess(a, b)
<1>1. k \in Int /\ a \in Binary /\ a.m \in Int
  BY ExcessIs
<1>2. RoundNear(a, b) = IF k <= 0 THEN a ELSE Dyadic(Nearest(a.m, Power[k]), a.e + k)
  BY <1>1 DEF RoundNear, Round, Excess
<1>3. CASE k <= 0
  <2>1. Short(a, b)
    BY <1>3, ExcessIs
  <2> QED
    BY <1>2, <1>3, <2>1, NearestToItself
<1>4. CASE k > 0
  <2>1. Power[k] \in Nat \ {0}
    BY <1>4, ExcessIs
  <2> DEFINE j == Nearest(a.m, Power[k])
             g == a.e + k
  <2>2. j \in Int /\ 2 * Abs(a.m - j * Power[k]) <= Power[k]
    BY <1>1, <2>1, NearestIs
  <2>3. PICK s \in Nat : /\ Power[a.e + s] \in Nat \ {0} /\ g \in Int
                         /\ At(a, s) = a.m * Power[a.e + s]
                         /\ Grid(Only(a), g, s) = Power[k] * Power[a.e + s]
                         /\ Spans(Only(a), b, g, s)
    BY <1>4, OwnGrid
  <2>4. RoundNear(a, b) = Dyadic(j, g)
    BY <1>1, <1>2, <1>4
  <2>5. IsValue(Only(a)) /\ Only(a).num = a
    BY OnlyIs
  <2>6. IsRounded(j, Only(a), g, s)
    <3> DEFINE m == a.m
               p == Power[a.e + s]
               x == Power[k]
    <3>1. m \in Int /\ p \in Nat \ {0} /\ x \in Int /\ 2 * Abs(m - j * x) <= x
      BY <1>1, <2>1, <2>2, <2>3
    <3> HIDE DEF m, p, x, j, g, k
    <3>2. 2 * Abs(m * p - j * (x * p)) <= x * p
      BY <2>2, <3>1, AbsMultiple
    <3> QED
      BY <2>3, <2>5, <3>2 DEF IsRounded, m, p, x
  <2> HIDE DEF j, g
  <2> QED
    BY <2>2, <2>3, <2>4, <2>5, <2>6, NearestOnGrid
<1> QED
  BY <1>1, <1>3, <1>4

LEMMA DigitsAre ==
  ASSUME NEW a, Normal(a), a.m > 0, NEW b \in Nat \ {0}
  PROVE  Short(Digits(a, b), b) /\ Below(Digits(a, b), Only(a)) /\ Respects(Digits(a, b), Only(a), b)
<1> DEFINE k == Excess(a, b)
<1>1. k \in Int /\ a \in Binary /\ a.m \in Int
  BY ExcessIs
<1>2. Digits(a, b) = IF k <= 0 THEN a ELSE Dyadic(a.m \div Power[k], a.e + k)
  BY <1>1 DEF Digits, Round, Excess, Down
<1>3. CASE k <= 0
  <2>1. Short(a, b)
    BY <1>3, ExcessIs
  <2>2. IsValue(Only(a)) /\ Only(a).num = a /\ Only(a).den = 1
    BY OnlyIs
  <2>3. Respects(a, Only(a), b)
    BY <2>1, <2>2, NearestToItself, NearestRespects
  <2>4. Below(a, Only(a))
    <3>1. PICK s \in Nat : Fits(a, s)
      BY CommonScale
    <3>2. Below(a, Only(a)) <=> At(a, s) * 1 <= At(a, s)
      BY <2>2, <3>1, RelationsAt
    <3>3. At(a, s) \in Int
      BY <3>1, AtType
    <3> QED
      BY <3>2, <3>3
  <2> QED
    BY <1>2, <1>3, <2>1, <2>3, <2>4
<1>4. CASE k > 0
  <2>1. Power[k] \in Nat \ {0}
    BY <1>4, ExcessIs
  <2> DEFINE x == Power[k]
             j == a.m \div x
             g == a.e + k
             m == a.m
  <2>2. j \in Int /\ j * x <= m /\ m < (j + 1) * x
    <3>1. m \div x \in Int /\ m % x \in Nat /\ m % x < x /\ m = x * (m \div x) + (m % x)
      BY <1>1, <2>1, DivMod
    <3> DEFINE r == m % x
    <3>2. j \in Int /\ r \in Nat /\ r < x /\ m = x * j + r /\ x \in Nat
      BY <2>1, <3>1
    <3> HIDE DEF j, r, x, m
    <3>3. x * j = j * x /\ (j + 1) * x = j * x + x /\ j * x \in Int
      BY <3>2
    <3> QED
      BY <3>2, <3>3
  <2>3. PICK s \in Nat : /\ Power[a.e + s] \in Nat \ {0} /\ g \in Int
                         /\ At(a, s) = a.m * Power[a.e + s]
                         /\ Grid(Only(a), g, s) = x * Power[a.e + s]
                         /\ Spans(Only(a), b, g, s)
    BY <1>4, OwnGrid
  <2>4. Digits(a, b) = Dyadic(j, g)
    BY <1>1, <1>2, <1>4
  <2>5. IsValue(Only(a)) /\ Only(a).num = a
    BY OnlyIs
  <2>6. IsFloor(j, Only(a), g, s)
    <3> DEFINE p == Power[a.e + s]
    <3>1. m \in Int /\ p \in Nat \ {0} /\ x \in Int
      BY <1>1, <2>1, <2>3
    <3> HIDE DEF m, p, x, j, g, k
    <3>2. j * (x * p) = (j * x) * p /\ (j + 1) * (x * p) = ((j + 1) * x) * p
      BY <2>2, <3>1, Ring
    <3>3. (j * x) * p <= m * p /\ m * p < ((j + 1) * x) * p
      <4>1. j * x \in Int /\ (j + 1) * x \in Int
        BY <2>2, <3>1
      <4> QED
        BY <2>2, <3>1, <4>1, Cancel
    <3>4. j * (x * p) <= m * p /\ m * p < (j + 1) * (x * p)
      BY <3>2, <3>3
    <3> QED
      BY <2>3, <2>5, <3>4 DEF IsFloor, m, p
  <2> HIDE DEF j, g
  <2> QED
    BY <2>2, <2>3, <2>4, <2>5, <2>6, FloorOnGrid
<1> QED
  BY <1>1, <1>3, <1>4

\* The ends of an interval are rounded outwards.
LEMMA RoundDownIs ==
  ASSUME NEW a, Normal(a), NEW b \in Nat \ {0}
  PROVE  Short(Round(a, b, Down), b) /\ DLeq(Round(a, b, Down), a)
<1> DEFINE k == Excess(a, b)
<1>1. k \in Int /\ a \in Binary /\ a.m \in Int /\ a.e \in Int
  BY ExcessIs
<1>2. Round(a, b, Down) = IF k <= 0 THEN a ELSE Dyadic(a.m \div Power[k], a.e + k)
  BY <1>1 DEF Round, Excess, Down
<1>3. CASE k <= 0
  <2>1. Short(a, b)
    BY <1>3, ExcessIs
  <2>2. DLeq(a, a)
    <3>1. PICK s \in Nat : Fits(a, s)
      BY CommonScale
    <3>2. At(a, s) \in Int
      BY <3>1, AtType
    <3> QED
      BY <3>1, <3>2, OrderIs
  <2> QED
    BY <1>2, <1>3, <2>1, <2>2
<1>4. CASE k > 0
  <2> DEFINE x == Power[k]
             j == a.m \div x
             g == a.e + k
             m == a.m
             u == Power[b]
  <2>1. x \in Nat \ {0} /\ Abs(m) <= u * x /\ u \in Nat
    BY <1>4, ExcessIs, PowerIsPositive
  <2>2. j \in Int /\ j * x <= m /\ m < (j + 1) * x
    <3>1. m \div x \in Int /\ m % x \in Nat /\ m % x < x /\ m = x * (m \div x) + (m % x)
      BY <1>1, <2>1, DivMod
    <3> DEFINE r == m % x
    <3>2. j \in Int /\ r \in Nat /\ r < x /\ m = x * j + r /\ x \in Nat
      BY <2>1, <3>1
    <3> HIDE DEF j, r, x, m
    <3>3. x * j = j * x /\ (j + 1) * x = j * x + x /\ j * x \in Int
      BY <3>2
    <3> QED
      BY <3>2, <3>3
  <2>3. PICK s \in Nat : /\ Power[a.e + s] \in Nat \ {0} /\ g \in Int /\ g + s \in Nat
                         /\ Fits(a, s) /\ At(a, s) = m * Power[a.e + s]
                         /\ Power[g + s] = x * Power[a.e + s]
    BY <1>4, OwnGrid
  <2>4. Round(a, b, Down) = Dyadic(j, g)
    BY <1>1, <1>2, <1>4
  <2> DEFINE p == Power[a.e + s]
  <2>5. m \in Int /\ p \in Nat \ {0}
    BY <1>1, <2>3
  <2>6. Fits(Dyadic(j, g), s) /\ At(Dyadic(j, g), s) = j * (x * p)
    <3> HIDE DEF j, g, x, p
    <3>1. j \in Int /\ g \in Int /\ s \in Nat /\ g + s \in Nat /\ Power[g + s] = x * p
      BY <2>2, <2>3 DEF p
    <3>2. Fits(Dyadic(j, g), s) /\ At(Dyadic(j, g), s) = j * Power[g + s]
      BY <3>1, DyadicValue
    <3> QED
      BY <3>1, <3>2
  <2>7. At(a, s) = m * p
    BY <2>3
  <2>8. DLeq(Dyadic(j, g), a) <=> j * (x * p) <= m * p
    BY <2>3, <2>6, <2>7, OrderIs
  <2> HIDE DEF j, g, x, m, u, p
  <2>9. j * (x * p) <= m * p
    <3>1. j * (x * p) = (j * x) * p /\ j * x \in Int
      BY <2>1, <2>2, <2>5, Ring
    <3> QED
      BY <2>2, <2>5, <3>1, Cancel
  <2>10. Abs(j) <= u
    <3>1. - (u * x) <= m /\ m <= u * x /\ u * x \in Int /\ - (u * x) = (- u) * x
      BY <2>1, <2>5 DEF Abs
    <3>2. (- u) * x < (j + 1) * x /\ j * x <= u * x
      <4>1. (j + 1) * x \in Int /\ j * x \in Int /\ (- u) * x \in Int
        BY <2>1, <2>2
      <4> QED
        BY <2>2, <2>5, <3>1, <4>1
    <3>3. - u < j + 1 /\ j <= u
      BY <2>1, <2>2, <3>2, Cancel
    <3> QED
      BY <2>1, <2>2, <3>3 DEF Abs
  <2>11. Short(Dyadic(j, g), b)
    BY <2>2, <2>3, <2>10, ShortDyadic DEF u
  <2> QED
    BY <2>4, <2>8, <2>9, <2>11
<1> QED
  BY <1>1, <1>3, <1>4

LEMMA RoundUpIs ==
  ASSUME NEW a, Normal(a), NEW b \in Nat \ {0}
  PROVE  Short(Round(a, b, Up), b) /\ DLeq(a, Round(a, b, Up))
<1> DEFINE k == Excess(a, b)
<1>1. k \in Int /\ a \in Binary /\ a.m \in Int /\ a.e \in Int
  BY ExcessIs
<1>2. Round(a, b, Up) = IF k <= 0 THEN a ELSE Dyadic(- ((- a.m) \div Power[k]), a.e + k)
  BY <1>1 DEF Round, Excess, Up
<1>3. CASE k <= 0
  <2>1. Short(a, b)
    BY <1>3, ExcessIs
  <2>2. DLeq(a, a)
    <3>1. PICK s \in Nat : Fits(a, s)
      BY CommonScale
    <3>2. At(a, s) \in Int
      BY <3>1, AtType
    <3> QED
      BY <3>1, <3>2, OrderIs
  <2> QED
    BY <1>2, <1>3, <2>1, <2>2
<1>4. CASE k > 0
  <2> DEFINE x == Power[k]
             i == (- a.m) \div x
             j == - i
             g == a.e + k
             m == a.m
             u == Power[b]
  <2>1. x \in Nat \ {0} /\ Abs(m) <= u * x /\ u \in Nat
    BY <1>4, ExcessIs, PowerIsPositive
  <2>2. i \in Int /\ i * x <= - m /\ - m < (i + 1) * x
    <3> DEFINE n == - m
    <3>0. n \in Int
      BY <1>1
    <3>1. n \div x \in Int /\ n % x \in Nat /\ n % x < x /\ n = x * (n \div x) + (n % x)
      BY <3>0, <2>1, DivMod
    <3> DEFINE r == n % x
    <3>2. i \in Int /\ r \in Nat /\ r < x /\ n = x * i + r /\ x \in Nat
      BY <2>1, <3>1
    <3>2a. n = - m
      OBVIOUS
    <3> HIDE DEF i, r, x, m, n
    <3>3. x * i = i * x /\ (i + 1) * x = i * x + x /\ i * x \in Int
      BY <3>2
    <3> QED
      BY <3>2, <3>2a, <3>3
  <2>2a. j \in Int /\ j = - i
    BY <2>2
  <2>3. PICK s \in Nat : /\ Power[a.e + s] \in Nat \ {0} /\ g \in Int /\ g + s \in Nat
                         /\ Fits(a, s) /\ At(a, s) = m * Power[a.e + s]
                         /\ Power[g + s] = x * Power[a.e + s]
    BY <1>4, OwnGrid
  <2>4. Round(a, b, Up) = Dyadic(j, g)
    BY <1>1, <1>2, <1>4
  <2> DEFINE p == Power[a.e + s]
  <2>5. m \in Int /\ p \in Nat \ {0}
    BY <1>1, <2>3
  <2>6. Fits(Dyadic(j, g), s) /\ At(Dyadic(j, g), s) = j * (x * p)
    <3> HIDE DEF j, g, x, p
    <3>1. j \in Int /\ g \in Int /\ s \in Nat /\ g + s \in Nat /\ Power[g + s] = x * p
      BY <2>2a, <2>3 DEF p
    <3>2. Fits(Dyadic(j, g), s) /\ At(Dyadic(j, g), s) = j * Power[g + s]
      BY <3>1, DyadicValue
    <3> QED
      BY <3>1, <3>2
  <2>7. At(a, s) = m * p
    BY <2>3
  <2>8. DLeq(a, Dyadic(j, g)) <=> m * p <= j * (x * p)
    BY <2>3, <2>6, <2>7, OrderIs
  <2> HIDE DEF i, j, g, x, m, u, p
  <2>9. m <= j * x
    <3>1. j * x = - (i * x) /\ i * x \in Int
      BY <2>1, <2>2, <2>2a
    <3> QED
      BY <2>2, <2>5, <3>1
  <2>10. m * p <= j * (x * p)
    <3>1. j * (x * p) = (j * x) * p /\ j * x \in Int
      BY <2>1, <2>2a, <2>5, Ring
    <3> QED
      BY <2>5, <2>9, <3>1, Cancel
  <2>11. Abs(j) <= u
    <3>1. - (u * x) <= - m /\ - m <= u * x /\ u * x \in Int /\ - (u * x) = (- u) * x
      BY <2>1, <2>5 DEF Abs
    <3>2. (- u) * x < (i + 1) * x /\ i * x <= u * x
      <4>1. (i + 1) * x \in Int /\ i * x \in Int /\ (- u) * x \in Int
        BY <2>1, <2>2
      <4> QED
        BY <2>2, <2>5, <3>1, <4>1
    <3>3. - u < i + 1 /\ i <= u
      BY <2>1, <2>2, <3>2, Cancel
    <3> QED
      BY <2>1, <2>2, <2>2a, <3>3 DEF Abs
  <2>12. Short(Dyadic(j, g), b)
    BY <2>2a, <2>3, <2>11, ShortDyadic DEF u
  <2> QED
    BY <2>4, <2>8, <2>10, <2>12
<1> QED
  BY <1>1, <1>3, <1>4

-----------------------------------------------------------------------------
(* The rounding of a fraction. *)

ScaleOver(k) == Power[IF k > 0 THEN k ELSE 0]
ScaleUnder(k) == Power[IF k > 0 THEN 0 ELSE - k]

\* n * 2^k / d has at least b digits.
HasBits(n, d, b, k) == Power[b - 1] * (d * ScaleUnder(k)) <= Abs(n * ScaleOver(k))

ChosenShift(n, d, b) ==
  LET most == b + Bits(d) - Bits(n) IN IF HasBits(n, d, b, most - 1) THEN most - 1 ELSE most

Fraction(n, d) == [num |-> Int2Dyadic(n), den |-> d]

LEMMA FractionIs ==
  ASSUME NEW n \in Int, NEW d \in Nat \ {0}
  PROVE  /\ IsValue(Fraction(n, d)) /\ Fraction(n, d).num = Int2Dyadic(n) /\ Fraction(n, d).den = d
         /\ \A s \in Nat : Fits(Int2Dyadic(n), s) /\ At(Int2Dyadic(n), s) = n * Power[s]
BY IntegerValue DEF Fraction, IsValue

LEMMA QuotientIs ==
  ASSUME NEW n \in Int, NEW d \in Nat \ {0}, NEW b \in Nat \ {0}
  PROVE  RoundQuotient(n, d, b) =
           IF n = 0 THEN Int2Dyadic(0)
           ELSE LET k == ChosenShift(n, d, b) IN Dyadic(Nearest(n * ScaleOver(k), d * ScaleUnder(k)), - k)
<1> DEFINE q == <<n, d, b>>
<1>1. q \in Int \X Nat \X Nat /\ q[1] = n /\ q[2] = d /\ q[3] = b
  OBVIOUS
<1>2. RoundQuotient(n, d, b) = Quotient[q]
  BY DEF RoundQuotient
<1> HIDE DEF q
<1>3. CASE n = 0
  BY <1>1, <1>2, <1>3 DEF Quotient
<1>4. CASE n # 0
  BY <1>1, <1>2, <1>4 DEF Quotient, ChosenShift, HasBits, ScaleOver, ScaleUnder
<1> QED
  BY <1>3, <1>4

\* At a scale s, numbers that are multiples of 2^(-k).
LEMMA ScalesAgree ==
  ASSUME NEW k \in Int, NEW s \in Nat, s - k \in Nat
  PROVE  /\ ScaleOver(k) \in Nat \ {0} /\ ScaleUnder(k) \in Nat \ {0} /\ Power[s - k] \in Nat \ {0}
         /\ ScaleOver(k) * Power[s - k] = Power[s] * ScaleUnder(k)
<1>1. CASE k > 0
  <2>1. ScaleOver(k) = Power[k] /\ ScaleUnder(k) = 1 /\ k \in Nat /\ s = k + (s - k)
    BY <1>1, PowerNext DEF ScaleOver, ScaleUnder
  <2>2. Power[s] = Power[k] * Power[s - k]
    BY <2>1, PowerSum
  <2> QED
    BY <2>1, <2>2, PowerIsPositive
<1>2. CASE k <= 0
  <2>1. ScaleOver(k) = 1 /\ ScaleUnder(k) = Power[- k] /\ - k \in Nat /\ s - k = s + (- k)
    BY <1>2, PowerNext DEF ScaleOver, ScaleUnder
  <2>2. Power[s - k] = Power[s] * Power[- k]
    BY <2>1, PowerSum
  <2> QED
    BY <2>1, <2>2, PowerIsPositive
<1> QED
  BY <1>1, <1>2

\* The digits of n * 2^k / d, at any scale.
LEMMA HasBitsAt ==
  ASSUME NEW n \in Int, NEW d \in Nat \ {0}, NEW b \in Nat \ {0}, NEW k \in Int, NEW s \in Nat, s - k \in Nat
  PROVE  /\ HasBits(n, d, b, k) <=> Power[b - 1] * (Power[s - k] * d) <= Abs(n * Power[s])
         /\ \A j \in Int : 2 * Abs(n * ScaleOver(k) - j * (d * ScaleUnder(k))) <= d * ScaleUnder(k)
              <=> 2 * Abs(n * Power[s] - j * (Power[s - k] * d)) <= Power[s - k] * d
<1> DEFINE o == ScaleOver(k)
           w == ScaleUnder(k)
           g == Power[s - k]
           p == Power[s]
           u == Power[b - 1]
<1>1. o \in Nat \ {0} /\ w \in Nat \ {0} /\ g \in Nat \ {0} /\ o * g = p * w /\ p \in Nat \ {0} /\ u \in Nat
  <2>1. b - 1 \in Nat
    OBVIOUS
  <2> QED
    BY <2>1, ScalesAgree, PowerIsPositive
<1>2. HasBits(n, d, b, k) <=> u * (d * w) <= Abs(n * o)
  BY DEF HasBits
<1> HIDE DEF o, w, g, p, u
<1> DEFINE N1 == n * o
           X1 == d * w
           N2 == n * p
           X2 == g * d
<1>3. N1 \in Int /\ X1 \in Int /\ N2 \in Int /\ X2 \in Int
  BY <1>1
<1>4. N1 * g = N2 * w
  <2>1. (n * o) * g = n * (o * g) /\ n * (p * w) = (n * p) * w
    BY <1>1, Ring
  <2> QED
    BY <1>1, <2>1
<1>5. X1 * g = X2 * w
  <2>1. (d * w) * g = (g * d) * w
    BY <1>1
  <2> QED
    BY <2>1
<1> HIDE DEF N1, X1, N2, X2
<1>5a. u \in Int /\ g \in Nat \ {0} /\ w \in Nat \ {0}
  BY <1>1
<1>6. u * X1 <= Abs(N1) <=> u * X2 <= Abs(N2)
  <2>1. u * X1 <= Abs(N1) <=> u * (X1 * g) <= Abs(N1 * g)
    BY <1>3, <1>5a, AbsMultiple
  <2>2. u * X2 <= Abs(N2) <=> u * (X2 * w) <= Abs(N2 * w)
    BY <1>3, <1>5a, AbsMultiple
  <2> QED
    BY <1>4, <1>5, <2>1, <2>2
<1>7. ASSUME NEW j \in Int
      PROVE  2 * Abs(N1 - j * X1) <= X1 <=> 2 * Abs(N2 - j * X2) <= X2
  <2>1. 2 * Abs(N1 - j * X1) <= X1 <=> 2 * Abs(N1 * g - j * (X1 * g)) <= X1 * g
    BY <1>1, <1>3, AbsMultiple
  <2>2. 2 * Abs(N2 - j * X2) <= X2 <=> 2 * Abs(N2 * w - j * (X2 * w)) <= X2 * w
    BY <1>1, <1>3, AbsMultiple
  <2> QED
    BY <1>4, <1>5, <2>1, <2>2
<1> QED
  BY <1>2, <1>6, <1>7 DEF N1, X1, N2, X2, o, w, g, p, u

LEMMA ChosenShiftIs ==
  ASSUME NEW n \in Int, n # 0, NEW d \in Nat \ {0}, NEW b \in Nat \ {0}
  PROVE  LET k == ChosenShift(n, d, b)
         IN  /\ k \in Int
             /\ \E s \in Nat : s - k \in Nat /\ Spans(Fraction(n, d), b, - k, s)
<1> DEFINE bn == Bits(n)
           bd == Bits(d)
           most == b + bd - bn
           k == ChosenShift(n, d, b)
<1>1. /\ bn \in Nat \ {0} /\ Power[bn - 1] <= Abs(n) /\ Abs(n) < Power[bn]
      /\ bd \in Nat \ {0} /\ Power[bd - 1] <= d /\ d < Power[bd] /\ Abs(n) \in Nat
  BY BitsBounds, AbsValue
<1>2. most \in Int /\ (k = most \/ k = most - 1)
  BY <1>1 DEF ChosenShift
<1>3. PICK s \in Nat : s - most \in Nat /\ s - (most - 1) \in Nat /\ s - (most - 1) = (s - most) + 1
  <2>1. (IF most < 0 THEN 0 ELSE most) \in Nat /\ (IF most < 0 THEN 0 ELSE most) - most \in Nat
    BY <1>2
  <2>2. PICK t \in Nat : t - most \in Nat
    BY <2>1
  <2>3. t - (most - 1) \in Nat /\ t - (most - 1) = (t - most) + 1
    BY <1>2, <2>2
  <2> QED
    BY <2>2, <2>3
<1> DEFINE p == Power[s]
           g == Power[s - most]
           u == Power[b - 1]
<1>3a. b - 1 \in Nat /\ (b - 1) + 1 = b /\ bn - 1 \in Nat /\ bd - 1 \in Nat /\ (bd - 1) + 1 = bd /\ (bn - 1) + 1 = bn
  BY <1>1
<1>4. p \in Nat \ {0} /\ g \in Nat \ {0} /\ u \in Nat \ {0}
  BY <1>3, <1>3a, PowerIsPositive
<1>5. Power[s - (most - 1)] = 2 * g /\ Power[b] = 2 * u
  BY <1>3, <1>3a, PowerNext
<1>6. Abs(n * p) = Abs(n) * p
  BY <1>4, AbsTimes
\* u * g * 2^bd = 2^(bn - 1) * p
<1>7. (u * g) * Power[bd] = Power[bn - 1] * p
  <2>1. ((b - 1) + (s - most)) + bd = (bn - 1) + s /\ (b - 1) + (s - most) \in Nat
    BY <1>1, <1>3, <1>3a
  <2>2. Power[((b - 1) + (s - most)) + bd] = Power[(b - 1) + (s - most)] * Power[bd]
    BY <1>1, <2>1, PowerSum
  <2>3. Power[(b - 1) + (s - most)] = u * g
    BY <1>3, <1>3a, PowerSum
  <2>4. Power[(bn - 1) + s] = Power[bn - 1] * p
    BY <1>3a, PowerSum
  <2> QED
    BY <2>1, <2>2, <2>3, <2>4
<1>8. /\ Power[bd] = 2 * Power[bd - 1] /\ Power[bn] = 2 * Power[bn - 1]
      /\ Power[bd - 1] \in Nat \ {0} /\ Power[bn - 1] \in Nat \ {0}
  BY <1>3a, PowerNext, PowerIsPositive
<1> HIDE DEF bn, bd, most, p, g, u, k
<1> DEFINE y == u * g
           a == Power[bd - 1]
           c == Power[bn - 1]
           r == Abs(n)
<1>9. /\ y \in Nat \ {0} /\ a \in Nat \ {0} /\ c \in Nat \ {0} /\ r \in Nat
      /\ y * (2 * a) = c * p /\ c <= r /\ r < 2 * c /\ a <= d /\ d < 2 * a
  BY <1>1, <1>4, <1>7, <1>8
<1> HIDE DEF y, a, c, r
\* The lower bound at most, and the upper bound at most - 1.
<1>10. y * d <= r * p
  <2>1. y * d <= y * (2 * a)
    BY <1>9
  <2>2. c * p <= r * p
    BY <1>4, <1>9
  <2>3. y * d \in Int /\ r * p \in Int /\ c * p \in Int
    BY <1>4, <1>9
  <2> QED
    BY <1>9, <2>1, <2>2, <2>3
<1>11. r * p <= 4 * (y * d)
  <2>1. r * p <= (2 * c) * p /\ (2 * c) * p = 2 * (c * p)
    BY <1>4, <1>9
  <2>2. y * a <= y * d /\ y * (2 * a) = 2 * (y * a)
    BY <1>9
  <2>3. y * d \in Int /\ r * p \in Int /\ c * p \in Int /\ y * a \in Int
    BY <1>4, <1>9
  <2> QED
    BY <1>9, <2>1, <2>2, <2>3
<1>12. /\ u * (g * d) = y * d /\ u * ((2 * g) * d) = 2 * (y * d) /\ (2 * u) * (g * d) = 2 * (y * d)
       /\ (2 * u) * ((2 * g) * d) = 4 * (y * d)
  <2>1. g * d \in Int /\ u * (g * d) = (u * g) * d
    BY <1>4, Ring
  <2>2. (2 * g) * d = 2 * (g * d)
    BY <1>4
  <2> DEFINE z == g * d
  <2>3. z \in Int /\ u * z = y * d
    BY <2>1 DEF y
  <2> HIDE DEF z
  <2>4. u * (2 * z) = 2 * (u * z) /\ (2 * u) * z = 2 * (u * z) /\ (2 * u) * (2 * z) = 4 * (u * z)
    BY <1>4, <2>3
  <2> QED
    BY <2>2, <2>3, <2>4 DEF z
<1>13. y * d \in Nat /\ r * p \in Nat
  BY <1>4, <1>9
<1> DEFINE v == Fraction(n, d)
<1>14. ASSUME NEW j \in Int, s - j \in Nat
       PROVE  /\ Fits(v.num, s) /\ - j + s = s - j /\ - j + s \in Nat
              /\ Grid(v, - j, s) = Power[s - j] * d
              /\ Abs(At(v.num, s)) = r * p
  <2>1. v.num = Int2Dyadic(n) /\ v.den = d /\ Fits(v.num, s) /\ At(v.num, s) = n * p
    BY FractionIs DEF p
  <2>2. - j + s = s - j
    OBVIOUS
  <2> QED
    BY <1>6, <1>14, <2>1, <2>2 DEF Grid, r
<1> HIDE DEF v
<1>15. CASE k = most - 1
  <2>1. HasBits(n, d, b, most - 1)
    BY <1>2, <1>15 DEF ChosenShift, k, most, bn, bd
  <2>2. u * ((2 * g) * d) <= r * p
    <3>1. most - 1 \in Int
      BY <1>2
    <3>2. Power[b - 1] * (Power[s - (most - 1)] * d) <= Abs(n * Power[s])
      BY <1>3, <2>1, <3>1, HasBitsAt
    <3> QED
      BY <1>5, <1>6, <3>2 DEF u, p, r
  <2>3. s - k = s - (most - 1) /\ s - k \in Nat /\ k \in Int
    BY <1>2, <1>3, <1>15
  <2>4. Grid(v, - k, s) = (2 * g) * d /\ Fits(v.num, s) /\ - k + s \in Nat /\ Abs(At(v.num, s)) = r * p
    BY <1>5, <1>14, <2>3
  <2>5. Spans(v, b, - k, s)
    BY <1>5, <1>11, <1>12, <2>2, <2>4 DEF Spans, u
  <2> QED
    BY <2>3, <2>5 DEF v, k
<1>16. CASE k = most /\ k # most - 1
  <2>1. ~ HasBits(n, d, b, most - 1)
    BY <1>16 DEF ChosenShift, k, most, bn, bd
  <2>2. ~ u * ((2 * g) * d) <= r * p
    <3>1. most - 1 \in Int
      BY <1>2
    <3>2. ~ Power[b - 1] * (Power[s - (most - 1)] * d) <= Abs(n * Power[s])
      BY <1>3, <2>1, <3>1, HasBitsAt
    <3> QED
      BY <1>5, <1>6, <3>2 DEF u, p, r
  <2>3. s - k = s - most /\ s - k \in Nat /\ k \in Int
    BY <1>2, <1>3, <1>16
  <2>4. Grid(v, - k, s) = g * d /\ Fits(v.num, s) /\ - k + s \in Nat /\ Abs(At(v.num, s)) = r * p
    BY <1>14, <2>3 DEF g
  <2>5. r * p <= 2 * (y * d)
    BY <1>12, <1>13, <2>2
  <2>6. Spans(v, b, - k, s)
    BY <1>5, <1>10, <1>12, <2>4, <2>5 DEF Spans, u
  <2> QED
    BY <2>3, <2>6 DEF v, k
<1> QED
  BY <1>2, <1>15, <1>16

LEMMA RoundQuotientIs ==
  ASSUME NEW n \in Int, NEW d \in Nat \ {0}, NEW b \in Nat \ {0}
  PROVE  IsNearest(RoundQuotient(n, d, b), Fraction(n, d), b)
<1> DEFINE v == Fraction(n, d)
<1>1. IsValue(v) /\ v.num = Int2Dyadic(n) /\ v.den = d
  BY FractionIs
<1>2. CASE n = 0
  <2>1. RoundQuotient(n, d, b) = Int2Dyadic(0)
    BY <1>2, QuotientIs
  <2>2. Short(Int2Dyadic(0), b)
    <3>1. Int2Dyadic(0) = Dyadic(0, 0) /\ Abs(0) = 0 /\ Power[b] \in Nat
      BY PowerIsPositive DEF Int2Dyadic, Abs
    <3>2. Abs(0) <= Power[b]
      BY <3>1
    <3> QED
      BY <3>1, <3>2, ShortDyadic
  <2>3. ASSUME NEW c, Short(c, b)
        PROVE  DLeq(Distance(Int2Dyadic(0), v), Distance(c, v))
    <3>1. Normal(c) /\ Normal(Int2Dyadic(0))
      BY <2>2, <2>3 DEF Short
    <3>2. PICK s \in Nat : Fits(c, s)
      BY <3>1, CommonScale
    <3>3. Fits(Int2Dyadic(0), s) /\ At(Int2Dyadic(0), s) = 0 * Power[s] /\ Power[s] \in Int
      BY IntegerValue, PowerIsPositive
    <3>4. At(Int2Dyadic(0), s) = 0 /\ v.num = Int2Dyadic(0) /\ d \in Int
      BY <1>1, <1>2, <3>3
    <3>5. /\ Fits(Distance(Int2Dyadic(0), v), s)
          /\ At(Distance(Int2Dyadic(0), v), s) = Abs(0 - 0 * d)
      BY <1>1, <3>1, <3>3, <3>4, RelationsAt
    <3>6. /\ Fits(Distance(c, v), s)
          /\ At(Distance(c, v), s) = Abs(0 - At(c, s) * d)
      BY <1>1, <3>1, <3>2, <3>3, <3>4, RelationsAt
    <3>7. At(c, s) \in Int
      BY <3>2, AtType
    <3>8. Abs(0 - 0 * d) = 0 /\ Abs(0 - At(c, s) * d) >= 0
      <4>1. 0 - 0 * d = 0 /\ 0 - At(c, s) * d \in Int
        BY <3>7
      <4>2. Abs(0) = 0
        BY DEF Abs
      <4> QED
        BY <4>1, <4>2, AbsValue
    <3> QED
      BY <3>5, <3>6, <3>8, OrderIs
  <2> QED
    BY <2>1, <2>2, <2>3 DEF IsNearest
<1>3. CASE n # 0
  <2> DEFINE k == ChosenShift(n, d, b)
             j == Nearest(n * ScaleOver(k), d * ScaleUnder(k))
  <2>1. RoundQuotient(n, d, b) = Dyadic(j, - k)
    BY <1>3, QuotientIs
  <2>2. k \in Int /\ - k \in Int /\ \E s \in Nat : s - k \in Nat /\ Spans(v, b, - k, s)
    BY <1>3, ChosenShiftIs
  <2>3. PICK s \in Nat : s - k \in Nat /\ Spans(v, b, - k, s)
    BY <2>2
  <2> HIDE DEF k
  <2>4. ScaleOver(k) \in Nat \ {0} /\ ScaleUnder(k) \in Nat \ {0}
    BY <2>2, <2>3, ScalesAgree
  <2>5. n * ScaleOver(k) \in Int /\ d * ScaleUnder(k) \in Nat \ {0}
    BY <2>4
  <2>6. j \in Int /\ 2 * Abs(n * ScaleOver(k) - j * (d * ScaleUnder(k))) <= d * ScaleUnder(k)
    BY <2>5, NearestIs
  <2> HIDE DEF j
  <2>7. 2 * Abs(n * Power[s] - j * (Power[s - k] * d)) <= Power[s - k] * d
    BY <2>2, <2>3, <2>6, HasBitsAt
  <2>8. IsRounded(j, v, - k, s)
    <3>1. At(v.num, s) = n * Power[s]
      BY <1>1, FractionIs
    <3>2. - k + s = s - k
      BY <2>2
    <3>3. Grid(v, - k, s) = Power[s - k] * d
      BY <1>1, <3>2 DEF Grid
    <3> QED
      BY <2>7, <3>1, <3>3 DEF IsRounded
  <2> HIDE DEF v
  <2>9. IsNearest(Dyadic(j, - k), v, b)
    BY <1>1, <2>2, <2>3, <2>6, <2>8, NearestOnGrid
  <2> QED
    BY <2>1, <2>9 DEF v
<1> QED
  BY <1>2, <1>3

-----------------------------------------------------------------------------
(* How far a rounded number is from the exact one. *)

\* The radius of a ball around an approximation.
Radius(a, p) == Dyadic(1, Exponent2(a) - p - 2)

Accurate(a, v, p) == DLeq(DShift(Distance(a, v), p), DAbs(v.num))
InReach(a, v, p) == DLeq(Distance(a, v), DTimes(Radius(a, p), Int2Dyadic(2 * v.den)))

\* What arf promises for p, in a form that the comparisons build on.
Fine(a, v, p) == Short(a, p + 1) /\ Respects(a, v, p) /\ Accurate(a, v, p) /\ InReach(a, v, p)

\* A nonzero number between two neighbouring numbers with b digits.
Between(v, b, g, s, j) ==
  /\ Spans(v, b, g, s) /\ IsFloor(j, v, g, s)
  /\ Short(Dyadic(j, g), b) /\ Short(Dyadic(j + 1, g), b)

LEMMA Neighbours ==
  ASSUME NEW v, IsValue(v), v.num.m # 0, NEW b \in Nat \ {0}
  PROVE  \E g, j \in Int : \E s \in Nat : Between(v, b, g, s, j)
<1> DEFINE m == Power[b - 1] * v.den
<1>0. b - 1 \in Nat /\ (b - 1) + 1 = b /\ v.den \in Nat \ {0} /\ Power[b - 1] \in Nat \ {0}
  <2>1. b - 1 \in Nat /\ (b - 1) + 1 = b
    OBVIOUS
  <2> QED
    BY <2>1, PowerIsPositive DEF IsValue
<1>1. m \in Nat \ {0}
  BY <1>0
<1> HIDE DEF m
<1>2. PICK s \in Nat : Fits(v.num, s) /\ m <= Abs(At(v.num, s))
  <2>1. PICK t \in Nat : Fits(v.num, t)
    BY CommonScale DEF IsValue
  <2> DEFINE k == Width[m]
             n == At(v.num, t)
  <2>2. k \in Nat /\ m < Power[k]
    BY <1>1, WidthBounds
  <2>3. n \in Int /\ n # 0
    BY <2>1, AtType
  <2>4. t + k \in Nat /\ Fits(v.num, t + k) /\ At(v.num, t + k) = n * Power[k]
    BY <2>1, <2>2, AtLarger
  <2> HIDE DEF n, k
  <2>5. Abs(n * Power[k]) = Abs(n) * Power[k] /\ Abs(n) \in Nat \ {0} /\ Power[k] \in Nat
    <3>1. Power[k] \in Nat
      BY <2>2, PowerIsPositive
    <3>2. Abs(n) \in Nat \ {0}
      BY <2>3, AbsValue
    <3> QED
      BY <2>3, <3>1, <3>2, AbsTimes
  <2>6. Power[k] <= Abs(n) * Power[k]
    BY <2>5
  <2>7. m <= Abs(At(v.num, t + k))
    <3>1. Abs(n) * Power[k] \in Int
      BY <2>5
    <3> QED
      BY <1>1, <2>2, <2>4, <2>5, <2>6, <3>1
  <2> QED
    BY <2>4, <2>7
<1> DEFINE n == At(v.num, s)
           q == Abs(n) \div m
           h == Width[q] - 1
           g == h - s
           x == Grid(v, g, s)
           j == n \div x
<1>3. n \in Int /\ Abs(n) \in Nat
  BY <1>2, AtType, AbsValue
<1>4. q \in Nat \ {0} /\ q * m <= Abs(n) /\ Abs(n) < (q + 1) * m
  <2> DEFINE r == Abs(n) % m
             a == Abs(n)
  <2>1. q \in Int /\ r \in Nat /\ r < m /\ a = m * q + r
    <3> HIDE DEF n
    <3>1. Abs(n) \in Int
      BY <1>3
    <3> QED
      BY <1>1, <3>1, DivMod
  <2>2. m <= a /\ a \in Nat
    BY <1>2, <1>3
  <2> HIDE DEF n, q, r, a
  <2>3. q * m = m * q /\ (q + 1) * m = m * q + m /\ m * q \in Int
    BY <1>1, <2>1
  <2>4. ~ q <= 0
    <3> SUFFICES ASSUME q <= 0
                 PROVE  FALSE
      OBVIOUS
    <3>1. m * q <= 0
      BY <1>1, <2>1
    <3> QED
      BY <1>1, <2>1, <2>2, <2>3, <3>1
  <2> QED
    BY <1>1, <2>1, <2>2, <2>3, <2>4 DEF a
<1>5. h \in Nat /\ Power[h] <= q /\ q + 1 <= Power[h + 1] /\ Power[h + 1] = 2 * Power[h] /\ Power[h] \in Nat
  <2>1. Width[q] \in Nat \ {0} /\ Power[Width[q] - 1] <= q /\ q < Power[Width[q]]
    BY <1>4, WidthBounds
  <2>2. h \in Nat /\ h + 1 = Width[q]
    BY <2>1
  <2>3. Power[h + 1] \in Nat /\ Power[h] \in Nat /\ Power[h + 1] = 2 * Power[h]
    BY <2>2, PowerIsPositive, PowerNext
  <2> QED
    BY <1>4, <2>1, <2>2, <2>3
<1>6. g \in Int /\ g + s = h
  BY <1>5
<1>7. x = Power[h] * v.den /\ x \in Nat \ {0}
  BY <1>0, <1>5, <1>6, PowerIsPositive DEF Grid
<1>8. Power[b - 1] * x = Power[h] * m /\ Power[b] * x = Power[h + 1] * m
  <2> DEFINE u == Power[b - 1]
             d == v.den
             p == Power[h]
  <2>1. u \in Int /\ d \in Int /\ p \in Int /\ x = p * d /\ m = u * d /\ Power[b] = 2 * u /\ Power[h + 1] = 2 * p
    BY <1>0, <1>5, <1>7, PowerNext DEF m
  <2> HIDE DEF u, d, p, x
  <2>2. u * (p * d) = p * (u * d) /\ (2 * u) * (p * d) = (2 * p) * (u * d)
    BY <2>1
  <2> QED
    BY <2>1, <2>2 DEF u, p
<1>9. Power[b - 1] * x <= Abs(n) /\ Abs(n) < Power[b] * x
  <2> DEFINE p == Power[h]
             r == Power[h + 1]
             a == Abs(n)
  <2>1. p \in Nat /\ r \in Nat /\ p <= q /\ q + 1 <= r /\ a \in Nat
    BY <1>3, <1>5
  <2> HIDE DEF p, r, q, a
  <2>2. p * m <= q * m /\ (q + 1) * m <= r * m
    BY <1>1, <1>4, <2>1, Cancel
  <2>3. p * m \in Int /\ q * m \in Int /\ (q + 1) * m \in Int /\ r * m \in Int
    BY <1>1, <1>4, <2>1
  <2>4. q * m <= a /\ a < (q + 1) * m
    BY <1>4 DEF a
  <2>5. p * m <= a /\ a < r * m
    BY <2>1, <2>2, <2>3, <2>4
  <2> QED
    BY <1>8, <2>5 DEF p, r, a
<1>10. j \in Int /\ j * x <= n /\ n < (j + 1) * x
  <2> DEFINE r == n % x
  <2>0. x \in Nat \ {0}
    BY <1>7
  <2>1. j \in Int /\ r \in Nat /\ r < x /\ n = x * j + r
    <3> HIDE DEF n, x
    <3> QED
      BY <1>3, <2>0, DivMod
  <2> HIDE DEF j, r, x, n
  <2>2. x * j = j * x /\ (j + 1) * x = j * x + x /\ j * x \in Int
    BY <2>0, <2>1
  <2> QED
    BY <2>0, <2>1, <2>2
<1>11. Abs(j) <= Power[b] /\ Abs(j + 1) <= Power[b] /\ j + 1 \in Int
  <2> DEFINE w == Power[b]
  <2>1. w \in Nat /\ Abs(n) < w * x
    BY <1>9, PowerIsPositive
  <2> HIDE DEF j, x, n, w
  <2>2. - (w * x) <= n /\ n < w * x /\ w * x \in Int /\ - (w * x) = (- w) * x
    BY <1>3, <1>7, <2>1 DEF Abs
  <2>3. (- w) * x < (j + 1) * x /\ j * x < w * x
    <3>1. (j + 1) * x \in Int /\ j * x \in Int /\ (- w) * x \in Int
      BY <1>7, <1>10, <2>1
    <3> QED
      BY <1>3, <1>10, <2>2, <3>1
  <2>4. - w < j + 1 /\ j < w
    BY <1>7, <1>10, <2>1, <2>3, Cancel
  <2> QED
    BY <1>10, <2>1, <2>4 DEF Abs, w
<1>12. Short(Dyadic(j, g), b) /\ Short(Dyadic(j + 1, g), b)
  <2> HIDE DEF j, g
  <2> QED
    BY <1>6, <1>10, <1>11, ShortDyadic
<1>13. IsFloor(j, v, g, s)
  BY <1>10 DEF IsFloor
<1>14. g + s \in Nat
  BY <1>5, <1>6
<1>15. Power[b - 1] * Grid(v, g, s) <= Abs(At(v.num, s)) /\ Abs(At(v.num, s)) <= Power[b] * Grid(v, g, s)
  <2>1. Abs(n) \in Nat /\ Power[b] * x \in Nat
    BY <1>3, <1>7, PowerIsPositive, AbsValue
  <2> QED
    BY <1>9, <2>1
<1> HIDE DEF n, q, h, g, x, j
<1>16. Between(v, b, g, s, j)
  BY <1>2, <1>12, <1>13, <1>14, <1>15 DEF Between, Spans
<1> QED
  BY <1>6, <1>10, <1>16

LEMMA AbsIsNormal ==
  ASSUME NEW a, Normal(a)
  PROVE  Normal(DAbs(a))
<1>1. a.m \in Int /\ a.e \in Int /\ a = [m |-> a.m, e |-> a.e]
  BY BinaryType DEF Normal
<1>2. Abs(a.m) \in Int /\ (a.m % 2 = 1 => Abs(a.m) % 2 = 1) /\ (a.m = 0 => Abs(a.m) = 0)
  BY <1>1 DEF Abs
<1>3. DAbs(a) = [m |-> Abs(a.m), e |-> a.e]
  BY <1>1 DEF DAbs
<1>4. DAbs(a) \in Binary /\ DAbs(a).m = Abs(a.m) /\ DAbs(a).e = a.e
  BY <1>1, <1>2, <1>3 DEF Binary
<1> QED
  BY <1>2, <1>4 DEF Normal

LEMMA ExponentType ==
  ASSUME NEW a, Normal(a)
  PROVE  Exponent2(a) \in Int /\ a.m \in Int /\ a.e \in Int /\ Bits(a.m) \in Nat /\ a \in Binary
<1>1. a.m \in Int /\ a.e \in Int /\ a \in Binary
  BY BinaryType DEF Normal
<1>2. Bits(a.m) \in Nat
  BY <1>1, BitsAtMost
<1> QED
  BY <1>1, <1>2 DEF Exponent2

LEMMA AccurateAt ==
  ASSUME NEW v, IsValue(v), NEW a, Normal(a), NEW p \in Nat, NEW s, Fits(v.num, s), Fits(a, s)
  PROVE  Accurate(a, v, p) <=> Abs(At(v.num, s) - At(a, s) * v.den) * Power[p] <= Abs(At(v.num, s))
<1> DEFINE d == Distance(a, v)
<1>1. Fits(d, s) /\ At(d, s) = Abs(At(v.num, s) - At(a, s) * v.den) /\ At(v.num, s) \in Int /\ s \in Nat
  BY RelationsAt DEF Fits
<1>2. Normal(d)
  <2>1. Normal(Difference(v, Only(a)))
    <3>1. v.num \in Binary /\ v.den \in Int /\ Only(a).num \in Binary /\ Only(a).den \in Int
      BY OnlyIs DEF IsValue, Normal
    <3>2. DTimes(v.num, Int2Dyadic(Only(a).den)) \in Binary /\ DTimes(Only(a).num, Int2Dyadic(v.den)) \in Binary
      BY <3>1, MultipleValue
    <3> QED
      BY <3>2, MinusValue DEF Difference
  <2> QED
    BY <2>1, AbsIsNormal DEF Distance
<1>3. Fits(d, s + p) /\ At(d, s + p) = At(d, s) * Power[p]
  BY <1>1, AtLarger
<1>4. Fits(DShift(d, p), s) /\ At(DShift(d, p), s) = At(d, s + p)
  BY <1>1, <1>2, <1>3, ShiftValue
<1>5. Fits(DAbs(v.num), s) /\ At(DAbs(v.num), s) = Abs(At(v.num, s))
  BY AbsOfValue DEF IsValue, Normal
<1> QED
  BY <1>1, <1>3, <1>4, <1>5, OrderIs DEF Accurate

LEMMA InReachAt ==
  ASSUME NEW v, IsValue(v), NEW a, Normal(a), NEW p \in Int, NEW s, Fits(v.num, s), Fits(a, s),
         (Exponent2(a) - p - 2) + s \in Nat
  PROVE  InReach(a, v, p) <=>
           Abs(At(v.num, s) - At(a, s) * v.den) <= Power[(Exponent2(a) - p - 2) + s] * (2 * v.den)
<1> DEFINE x == Exponent2(a) - p - 2
           r == Radius(a, p)
<1>1. x \in Int /\ s \in Nat /\ x + s \in Nat
  BY ExponentType DEF Fits
<1>2. r = Dyadic(1, x)
  BY DEF Radius
<1> HIDE DEF x
<1>3. r \in Binary /\ Fits(r, s) /\ At(r, s) = 1 * Power[x + s]
  BY <1>1, <1>2, DyadicValue
<1>4. At(r, s) = Power[x + s]
  BY <1>1, <1>3, PowerIsPositive
<1> HIDE DEF r
<1> DEFINE n == 2 * v.den
<1>5. n \in Int
  BY DEF IsValue
<1>6. Fits(DTimes(r, Int2Dyadic(n)), s) /\ At(DTimes(r, Int2Dyadic(n)), s) = Power[x + s] * n
  <2>1. r \in Binary /\ Fits(r, s)
    BY <1>3
  <2> HIDE DEF n
  <2>2. Fits(DTimes(r, Int2Dyadic(n)), s) /\ At(DTimes(r, Int2Dyadic(n)), s) = At(r, s) * n
    BY <1>5, <2>1, MultipleValue
  <2> QED
    BY <1>4, <2>2
<1>7. Fits(Distance(a, v), s) /\ At(Distance(a, v), s) = Abs(At(v.num, s) - At(a, s) * v.den)
  BY RelationsAt
<1>8. InReach(a, v, p) <=> DLeq(Distance(a, v), DTimes(r, Int2Dyadic(n)))
  BY DEF InReach, r
<1> HIDE DEF n
<1> QED
  BY <1>6, <1>7, <1>8, OrderIs DEF x, n

\* The neighbours of a nonzero number with b digits.
LEMMA OwnNeighbours ==
  ASSUME NEW a, NEW b \in Nat \ {0}, Short(a, b), a.m # 0, NEW s, Fits(a, s), (Exponent2(a) - b) + s \in Nat
  PROVE  \E c, d : /\ Short(c, b) /\ Fits(c, s) /\ At(c, s) = At(a, s) - Power[(Exponent2(a) - b) + s]
                   /\ Short(d, b) /\ Fits(d, s) /\ At(d, s) = At(a, s) + Power[(Exponent2(a) - b) + s]
<1> DEFINE w == Bits(a.m)
           g == Exponent2(a) - b
           i == a.m * Power[b - w]
           q == Power[g + s]
<1>1. /\ a.m \in Int /\ a.e \in Int /\ w \in Nat /\ Exponent2(a) = a.e + w /\ w <= b /\ Normal(a)
      /\ s \in Nat /\ a.e + s \in Nat
  BY ExponentType DEF Short, Exponent2, Fits
<1>2. Abs(a.m) < Power[w] /\ Abs(a.m) \in Nat
  BY <1>1, BitsBounds, AbsValue
<1>3. g \in Int /\ b - w \in Nat /\ a.e + s = (b - w) + (g + s) /\ g + s \in Nat
  BY <1>1
<1>4. /\ Power[b - w] \in Nat \ {0} /\ q \in Nat \ {0} /\ Power[w] \in Nat /\ Power[b] \in Nat
      /\ Power[a.e + s] = Power[b - w] * q
  <2>1. Power[a.e + s] = Power[b - w] * q
    <3> HIDE DEF w, g
    <3> QED
      BY <1>3, PowerSum
  <2> QED
    BY <1>1, <1>3, <2>1, PowerIsPositive
<1>5. i \in Int /\ At(a, s) = i * q
  <2>1. At(a, s) = a.m * (Power[b - w] * q)
    BY <1>4 DEF At
  <2> DEFINE m == a.m
             y == Power[b - w]
  <2>2. m \in Int /\ y \in Int /\ q \in Int
    BY <1>1, <1>4
  <2> HIDE DEF m, y, q
  <2>3. m * (y * q) = (m * y) * q /\ m * y \in Int
    BY <2>2, Ring
  <2> QED
    BY <2>1, <2>3 DEF m, y
<1>6. Abs(i) < Power[b]
  <2>1. Power[b] = Power[w] * Power[b - w]
    <3>1. w + (b - w) = b
      BY <1>1
    <3> QED
      BY <1>1, <1>3, <3>1, PowerSum
  <2>2. Abs(i) = Abs(a.m) * Power[b - w]
    BY <1>1, <1>4, AbsTimes
  <2> DEFINE m == Abs(a.m)
             y == Power[b - w]
             z == Power[w]
  <2>3. m \in Nat /\ y \in Nat \ {0} /\ z \in Nat /\ m < z
    BY <1>2, <1>4
  <2> HIDE DEF m, y, z
  <2>4. m * y < z * y
    BY <2>3, Cancel
  <2> QED
    BY <2>1, <2>2, <2>4 DEF m, y, z
<1> HIDE DEF i, q, g, w
<1>7. i - 1 \in Int /\ i + 1 \in Int /\ Abs(i - 1) <= Power[b] /\ Abs(i + 1) <= Power[b]
  BY <1>4, <1>5, <1>6 DEF Abs
<1> DEFINE c == Dyadic(i - 1, g)
           d == Dyadic(i + 1, g)
<1>8. Short(c, b) /\ Short(d, b)
  BY <1>3, <1>7, ShortDyadic
<1>9. Fits(c, s) /\ At(c, s) = (i - 1) * q /\ Fits(d, s) /\ At(d, s) = (i + 1) * q
  <2>1. \A u \in Int : Fits(Dyadic(u, g), s) /\ At(Dyadic(u, g), s) = u * q
    <3>1. TAKE u \in Int
    <3> QED
      BY <1>1, <1>3, DyadicValue DEF q
  <2> QED
    BY <1>7, <2>1
<1>10. (i - 1) * q = i * q - q /\ (i + 1) * q = i * q + q
  BY <1>4, <1>5
<1>11. At(c, s) = At(a, s) - q /\ At(d, s) = At(a, s) + q
  BY <1>5, <1>9, <1>10
<1> QED
  BY <1>8, <1>9, <1>11 DEF q, g

\* Distances from the multiples of a number on both sides.
LEMMA BetweenMultiples ==
  ASSUME NEW n \in Int, NEW x \in Nat \ {0}, NEW z \in Int, NEW y \in Int, y <= n, n < y + x
  PROVE  /\ y <= z /\ z <= y + x => Abs(n - z) <= x
         /\ Abs(n - z) <= Abs(n - y) /\ Abs(n - z) <= Abs(n - (y + x)) => 2 * Abs(n - z) <= x
BY DEF Abs

LEMMA BesideMultiples ==
  ASSUME NEW n \in Int, NEW x \in Nat \ {0}, NEW z \in Int
  PROVE  /\ z - x <= n /\ n <= z + x => Abs(n - z) <= x
         /\ Abs(n - z) <= Abs(n - (z - x)) /\ Abs(n - z) <= Abs(n - (z + x)) => 2 * Abs(n - z) <= x
BY DEF Abs

LEMMA BetweenAt ==
  ASSUME NEW v, IsValue(v), v.num.m # 0, NEW b \in Nat \ {0}, NEW a, Normal(a)
  PROVE  \E g, j \in Int : \E s \in Nat : Between(v, b, g, s, j) /\ Fits(a, s)
<1>1. PICK g \in Int, j \in Int : \E s \in Nat : Between(v, b, g, s, j)
  BY Neighbours
<1>2. PICK s \in Nat : Between(v, b, g, s, j)
  BY <1>1
<1>3. PICK t \in Nat : s <= t /\ Fits(a, t)
  BY LargeScale
<1>4. Between(v, b, g, t, j)
  BY <1>2, <1>3, SpansAtScale DEF Between
<1> QED
  BY <1>3, <1>4

LEMMA NeighboursAt ==
  ASSUME NEW v, IsValue(v), NEW b \in Nat \ {0}, NEW g \in Int, NEW j \in Int, NEW s \in Nat, Between(v, b, g, s, j)
  PROVE  LET c == Dyadic(j, g)
             d == Dyadic(j + 1, g)
         IN  /\ Short(c, b) /\ Fits(c, s) /\ At(c, s) * v.den = j * Grid(v, g, s) /\ Below(c, v)
             /\ Short(d, b) /\ Fits(d, s) /\ At(d, s) * v.den = (j + 1) * Grid(v, g, s) /\ Above(d, v)
             /\ At(c, s) \in Int /\ At(d, s) \in Int
<1> DEFINE q == Power[g + s]
<1>1. Fits(v.num, s) /\ g + s \in Nat /\ IsFloor(j, v, g, s) /\ Short(Dyadic(j, g), b) /\ Short(Dyadic(j + 1, g), b)
  BY DEF Between, Spans
<1>2. Grid(v, g, s) = q * v.den /\ q \in Nat \ {0} /\ v.den \in Nat \ {0} /\ Grid(v, g, s) \in Nat
      /\ At(v.num, s) \in Int
  BY <1>1, GridType DEF Grid
<1>3. \A u \in Int : /\ Fits(Dyadic(u, g), s) /\ At(Dyadic(u, g), s) = u * q /\ At(Dyadic(u, g), s) \in Int
                     /\ At(Dyadic(u, g), s) * v.den = u * Grid(v, g, s)
  <2>1. TAKE u \in Int
  <2>2. Fits(Dyadic(u, g), s) /\ At(Dyadic(u, g), s) = u * q
    BY <1>1, DyadicValue
  <2> DEFINE d == v.den
  <2>3. q \in Int /\ d \in Int
    BY <1>2
  <2> HIDE DEF q, d
  <2>4. u * q \in Int /\ (u * q) * d = u * (q * d)
    BY <2>3, Ring
  <2> QED
    BY <1>2, <2>2, <2>4 DEF d
<1>4. Normal(Dyadic(j, g)) /\ Normal(Dyadic(j + 1, g))
  BY <1>1 DEF Short
<1>5. Below(Dyadic(j, g), v)
  <2>1. Fits(Dyadic(j, g), s) /\ At(Dyadic(j, g), s) * v.den <= At(v.num, s)
    BY <1>1, <1>3 DEF IsFloor
  <2> QED
    BY <1>1, <1>4, <2>1, RelationsAt
<1>6. Above(Dyadic(j + 1, g), v)
  <2>0. j + 1 \in Int
    OBVIOUS
  <2> DEFINE e == Dyadic(j + 1, g)
  <2>1. Fits(e, s) /\ At(e, s) * v.den = (j + 1) * Grid(v, g, s) /\ At(v.num, s) < (j + 1) * Grid(v, g, s)
    BY <1>1, <1>3, <2>0 DEF IsFloor
  <2>2. (j + 1) * Grid(v, g, s) \in Int
    BY <1>2
  <2>3. At(v.num, s) <= At(e, s) * v.den
    BY <1>2, <2>1, <2>2
  <2> HIDE DEF e
  <2> QED
    BY <1>1, <1>4, <2>1, <2>3, RelationsAt DEF e
<1> QED
  BY <1>1, <1>3, <1>5, <1>6

LEMMA CloseByRespect ==
  ASSUME NEW v, IsValue(v), NEW b \in Nat \ {0}, NEW g \in Int, NEW j \in Int, NEW s \in Nat,
         Between(v, b, g, s, j), NEW a, Normal(a), Fits(a, s), Respects(a, v, b)
  PROVE  Abs(At(v.num, s) - At(a, s) * v.den) <= Grid(v, g, s)
<1> DEFINE c == Dyadic(j, g)
           d == Dyadic(j + 1, g)
           n == At(v.num, s)
           x == Grid(v, g, s)
           k == v.den
           y == j * x
           z == At(a, s) * k
<1>1. /\ Short(c, b) /\ Fits(c, s) /\ At(c, s) * k = j * x /\ Below(c, v)
      /\ Short(d, b) /\ Fits(d, s) /\ At(d, s) * k = (j + 1) * x /\ Above(d, v)
      /\ At(c, s) \in Int /\ At(d, s) \in Int
  BY NeighboursAt
<1>2. x \in Nat \ {0} /\ n \in Int /\ k \in Nat \ {0} /\ At(a, s) \in Int
  BY GridType, AtType DEF Between, Spans
<1>3. DLeq(c, a) /\ DLeq(a, d)
  <2> HIDE DEF c, d
  <2> QED
    BY <1>1 DEF Respects
<1>4. At(c, s) <= At(a, s) /\ At(a, s) <= At(d, s)
  <2> HIDE DEF c, d
  <2> QED
    BY <1>1, <1>3, OrderIs
<1>5. y \in Int /\ z \in Int /\ (j + 1) * x = y + x
  <2> HIDE DEF x, k
  <2> QED
    BY <1>2
<1>6. y <= n /\ n < y + x
  <2>1. y <= n /\ n < (j + 1) * x
    BY DEF Between, IsFloor
  <2> HIDE DEF x, y, n
  <2> QED
    BY <1>5, <2>1
<1>7. y <= z /\ z <= y + x
  <2> DEFINE e == At(a, s)
             f == At(c, s)
             h == At(d, s)
  <2>1. e \in Int /\ f \in Int /\ h \in Int /\ k \in Nat \ {0} /\ f <= e /\ e <= h
    BY <1>1, <1>2, <1>4
  <2>2. f * k = y /\ h * k = y + x /\ e * k = z
    BY <1>1, <1>5
  <2> HIDE DEF e, f, h, k, x, y, z
  <2>3. f * k <= e * k /\ e * k <= h * k
    BY <2>1, Cancel
  <2> QED
    BY <2>2, <2>3
<1> HIDE DEF n, x, y, z
<1>8. Abs(n - z) <= x
  BY <1>2, <1>5, <1>6, <1>7, BetweenMultiples
<1> QED
  BY <1>8 DEF n, x, z, k

LEMMA CloseByNearest ==
  ASSUME NEW v, IsValue(v), NEW b \in Nat \ {0}, NEW g \in Int, NEW j \in Int, NEW s \in Nat,
         Between(v, b, g, s, j), NEW a, Fits(a, s), IsNearest(a, v, b)
  PROVE  2 * Abs(At(v.num, s) - At(a, s) * v.den) <= Grid(v, g, s)
<1> DEFINE c == Dyadic(j, g)
           d == Dyadic(j + 1, g)
           n == At(v.num, s)
           x == Grid(v, g, s)
           k == v.den
           y == j * x
           z == At(a, s) * k
<1>1. /\ Short(c, b) /\ Fits(c, s) /\ At(c, s) * k = j * x /\ Below(c, v)
      /\ Short(d, b) /\ Fits(d, s) /\ At(d, s) * k = (j + 1) * x /\ Above(d, v)
      /\ At(c, s) \in Int /\ At(d, s) \in Int
  BY NeighboursAt
<1>2. x \in Nat \ {0} /\ n \in Int /\ k \in Nat \ {0} /\ At(a, s) \in Int /\ Fits(v.num, s) /\ Normal(a)
  BY GridType, AtType DEF Between, Spans, IsNearest, Short
<1>3. DLeq(Distance(a, v), Distance(c, v)) /\ DLeq(Distance(a, v), Distance(d, v))
  <2> HIDE DEF c, d
  <2> QED
    BY <1>1 DEF IsNearest
<1>4. y \in Int /\ z \in Int /\ (j + 1) * x = y + x
  <2> HIDE DEF x, k
  <2> QED
    BY <1>2
<1>5. Abs(n - z) <= Abs(n - y) /\ Abs(n - z) <= Abs(n - (y + x))
  <2> HIDE DEF c, d
  <2>1. Fits(Distance(a, v), s) /\ At(Distance(a, v), s) = Abs(n - z)
    BY <1>2, RelationsAt
  <2>2. Fits(Distance(c, v), s) /\ At(Distance(c, v), s) = Abs(n - y)
    <3>1. Normal(c) /\ Fits(c, s)
      BY <1>1 DEF Short
    <3>2. Fits(Distance(c, v), s) /\ At(Distance(c, v), s) = Abs(At(v.num, s) - At(c, s) * v.den)
      BY <1>2, <3>1, RelationsAt
    <3> QED
      BY <1>1, <3>2
  <2>3. Fits(Distance(d, v), s) /\ At(Distance(d, v), s) = Abs(n - (y + x))
    <3>1. Normal(d) /\ Fits(d, s)
      BY <1>1 DEF Short
    <3>2. Fits(Distance(d, v), s) /\ At(Distance(d, v), s) = Abs(At(v.num, s) - At(d, s) * v.den)
      BY <1>2, <3>1, RelationsAt
    <3> QED
      BY <1>1, <1>4, <3>2
  <2> HIDE DEF n, z, y, x
  <2> QED
    BY <1>3, <2>1, <2>2, <2>3, OrderIs
<1>6. y <= n /\ n < y + x
  <2>1. y <= n /\ n < (j + 1) * x
    BY DEF Between, IsFloor
  <2> HIDE DEF x, y, n
  <2> QED
    BY <1>4, <2>1
<1> HIDE DEF n, x, y, z
<1>7. 2 * Abs(n - z) <= x
  BY <1>2, <1>4, <1>5, <1>6, BetweenMultiples
<1> QED
  BY <1>7 DEF n, x, z, k

\* A number that is closer than a unit in the last place has the accuracy that arf promises.
LEMMA RespectIsAccurate ==
  ASSUME NEW v, IsValue(v), v.num.m # 0, NEW b \in Nat, NEW a, Normal(a), Respects(a, v, b + 1)
  PROVE  Accurate(a, v, b)
<1>1. PICK g \in Int, j \in Int : \E s \in Nat : Between(v, b + 1, g, s, j) /\ Fits(a, s)
  BY BetweenAt
<1>2. PICK s \in Nat : Between(v, b + 1, g, s, j) /\ Fits(a, s)
  BY <1>1
<1> DEFINE n == At(v.num, s)
           x == Grid(v, g, s)
           r == Abs(n - At(a, s) * v.den)
           q == Power[b]
<1>3. r <= x
  BY <1>2, CloseByRespect
<1>4. x \in Nat \ {0} /\ n \in Int /\ q \in Nat \ {0} /\ Abs(n) \in Nat /\ Fits(v.num, s)
  BY <1>2, GridType, PowerIsPositive, AbsValue DEF Between, Spans
<1>5. q * x <= Abs(n)
  <2>1. (b + 1) - 1 = b
    OBVIOUS
  <2> QED
    BY <1>2, <2>1 DEF Between, Spans
<1>6. r \in Int
  <2>1. At(a, s) \in Int /\ v.den \in Int
    BY <1>2, AtType DEF IsValue
  <2>2. At(a, s) * v.den \in Int
    BY <2>1
  <2> QED
    BY <1>4, <2>2, AbsValue
<1>7. r * q <= Abs(n)
  <2> DEFINE k == Abs(n)
  <2>1. k \in Int /\ q * x <= k
    BY <1>4, <1>5
  <2> HIDE DEF r, q, x, n, k
  <2>2. r * q <= x * q
    BY <1>3, <1>4, <1>6, Cancel
  <2>3. x * q = q * x /\ r * q \in Int /\ q * x \in Int
    BY <1>4, <1>6, Ring
  <2>4. r * q <= k
    BY <2>1, <2>2, <2>3
  <2> QED
    BY <2>4 DEF k
<1> QED
  BY <1>2, <1>4, <1>7, AccurateAt

LEMMA NearestIsAccurate ==
  ASSUME NEW v, IsValue(v), v.num.m # 0, NEW b \in Nat \ {0}, NEW a, IsNearest(a, v, b)
  PROVE  Accurate(a, v, b)
<1>0. Normal(a)
  BY DEF IsNearest, Short
<1>1. PICK g \in Int, j \in Int : \E s \in Nat : Between(v, b, g, s, j) /\ Fits(a, s)
  BY <1>0, BetweenAt
<1>2. PICK s \in Nat : Between(v, b, g, s, j) /\ Fits(a, s)
  BY <1>1
<1> DEFINE n == At(v.num, s)
           x == Grid(v, g, s)
           r == Abs(n - At(a, s) * v.den)
           q == Power[b - 1]
<1>3. 2 * r <= x
  BY <1>2, CloseByNearest
<1>4. x \in Nat \ {0} /\ n \in Int /\ q \in Nat \ {0} /\ Abs(n) \in Nat /\ Fits(v.num, s) /\ Power[b] = 2 * q
  <2>1. b - 1 \in Nat /\ (b - 1) + 1 = b
    OBVIOUS
  <2>2. q \in Nat \ {0} /\ Power[b] = 2 * q
    BY <2>1, PowerNext, PowerIsPositive
  <2> QED
    BY <1>2, <2>2, GridType, AbsValue DEF Between, Spans
<1>5. q * x <= Abs(n)
  BY <1>2 DEF Between, Spans
<1>6. r \in Int
  <2>1. At(a, s) \in Int /\ v.den \in Int
    BY <1>2, AtType DEF IsValue
  <2>2. At(a, s) * v.den \in Int
    BY <2>1
  <2> QED
    BY <1>4, <2>2, AbsValue
<1>7. r * Power[b] <= Abs(n)
  <2> DEFINE k == Abs(n)
  <2>1. k \in Int /\ q * x <= k
    BY <1>4, <1>5
  <2> HIDE DEF r, q, x, n, k
  <2>2. 2 * r \in Int /\ (2 * r) * q <= x * q
    <3> DEFINE t == 2 * r
    <3>1. t \in Int /\ x \in Int /\ q \in Nat \ {0} /\ t <= x
      BY <1>3, <1>4, <1>6
    <3> HIDE DEF t
    <3>2. t * q <= x * q
      BY <3>1, Cancel
    <3> QED
      BY <3>1, <3>2 DEF t
  <2>3. x * q = q * x /\ (2 * r) * q \in Int /\ q * x \in Int
    BY <1>4, <1>6
  <2>4. (2 * r) * q = r * (2 * q)
    <3>1. 2 * r = r * 2 /\ r \in Int /\ q \in Int
      BY <1>4, <1>6
    <3>2. (r * 2) * q = r * (2 * q)
      BY <3>1, Ring
    <3> QED
      BY <3>1, <3>2
  <2>5. r * (2 * q) <= k
    BY <2>1, <2>2, <2>3, <2>4
  <2> QED
    BY <1>4, <2>5 DEF k
<1> QED
  BY <1>0, <1>2, <1>4, <1>7, AccurateAt

LEMMA AccurateIsNonzero ==
  ASSUME NEW v, IsValue(v), v.num.m # 0, NEW b \in Nat \ {0}, NEW a, Normal(a), Accurate(a, v, b)
  PROVE  a.m # 0
<1> SUFFICES ASSUME a.m = 0
             PROVE  FALSE
  OBVIOUS
<1>1. PICK s \in Nat : Fits(v.num, s) /\ Fits(a, s)
  BY CommonScale DEF IsValue
<1> DEFINE n == At(v.num, s)
           d == v.den
           q == Power[b]
<1>2. At(a, s) = 0 /\ n \in Int /\ n # 0 /\ d \in Int /\ q \in Nat \ {0} /\ 2 <= q
  <2>1. Power[b] = 2 * Power[b - 1] /\ Power[b - 1] \in Nat \ {0}
    <3>1. b - 1 \in Nat /\ (b - 1) + 1 = b
      OBVIOUS
    <3> QED
      BY <3>1, PowerNext, PowerIsPositive
  <2> QED
    BY <1>1, <2>1, AtType DEF IsValue
<1>3. Abs(n - At(a, s) * d) * q <= Abs(n)
  BY <1>1, AccurateAt
<1> HIDE DEF n, d, q
<1>4. n - At(a, s) * d = n
  BY <1>2
<1>5. Abs(n) \in Nat \ {0}
  BY <1>2 DEF Abs
<1> DEFINE k == Abs(n)
<1>6. k \in Nat \ {0} /\ k * q <= k
  BY <1>3, <1>4, <1>5
<1> HIDE DEF k
<1>7. k * q <= k * 1
  BY <1>6
<1>8. q * k <= 1 * k
  BY <1>2, <1>6, <1>7, Ring
<1>9. q <= 1
  BY <1>2, <1>6, <1>8, Cancel
<1> QED
  BY <1>2, <1>9

\* A nonzero number and its neighbours with b digits around v.
LEMMA ReachByRespect ==
  ASSUME NEW v, IsValue(v), NEW b \in Nat \ {0}, NEW a, Short(a, b), a.m # 0, Respects(a, v, b),
         NEW s, Fits(v.num, s), Fits(a, s), (Exponent2(a) - b) + s \in Nat
  PROVE  Abs(At(v.num, s) - At(a, s) * v.den) <= Power[(Exponent2(a) - b) + s] * v.den
<1> DEFINE q == Power[(Exponent2(a) - b) + s]
           n == At(v.num, s)
           i == At(a, s)
           k == v.den
<1>1. PICK c, d : /\ Short(c, b) /\ Fits(c, s) /\ At(c, s) = i - q
                  /\ Short(d, b) /\ Fits(d, s) /\ At(d, s) = i + q
  BY OwnNeighbours
<1>2. q \in Nat \ {0} /\ n \in Int /\ i \in Int /\ k \in Nat \ {0} /\ Normal(a) /\ Normal(c) /\ Normal(d)
  BY <1>1, PowerIsPositive, AtType DEF IsValue, Short
<1>3. ~ DLeq(d, a) /\ ~ DLeq(a, c)
  <2>1. DLeq(d, a) <=> i + q <= i
    BY <1>1, OrderIs
  <2>2. DLeq(a, c) <=> i <= i - q
    BY <1>1, OrderIs
  <2> HIDE DEF q, i
  <2> QED
    BY <1>2, <2>1, <2>2
<1>4. ~ Below(d, v) /\ ~ Above(c, v)
  BY <1>1, <1>3 DEF Respects
<1>5. /\ Below(d, v) <=> (i + q) * k <= n
      /\ Above(c, v) <=> n <= (i - q) * k
  <2>1. Below(d, v) <=> At(d, s) * v.den <= At(v.num, s)
    BY <1>1, <1>2, RelationsAt
  <2>2. Above(c, v) <=> At(v.num, s) <= At(c, s) * v.den
    BY <1>1, <1>2, RelationsAt
  <2> QED
    BY <1>1, <2>1, <2>2
<1> HIDE DEF q, n, i, k
<1>6. (i + q) * k = i * k + q * k /\ (i - q) * k = i * k - q * k /\ i * k \in Int /\ q * k \in Nat \ {0}
  BY <1>2
<1> DEFINE z == i * k
           y == q * k
<1>7. z \in Int /\ y \in Nat \ {0} /\ z - y <= n /\ n <= z + y
  <2>1. z \in Int /\ y \in Nat \ {0} /\ ~ (z + y <= n) /\ ~ (n <= z - y)
    BY <1>4, <1>5, <1>6
  <2> HIDE DEF z, y
  <2> QED
    BY <1>2, <2>1
<1> HIDE DEF z, y
<1>8. Abs(n - z) <= y
  BY <1>2, <1>7, BesideMultiples
<1> QED
  BY <1>8 DEF n, z, y, i, k, q

LEMMA ReachByNearest ==
  ASSUME NEW v, IsValue(v), NEW b \in Nat \ {0}, NEW a, a.m # 0, IsNearest(a, v, b),
         NEW s, Fits(v.num, s), Fits(a, s), (Exponent2(a) - b) + s \in Nat
  PROVE  2 * Abs(At(v.num, s) - At(a, s) * v.den) <= Power[(Exponent2(a) - b) + s] * v.den
<1> DEFINE q == Power[(Exponent2(a) - b) + s]
           n == At(v.num, s)
           i == At(a, s)
           k == v.den
<1>0. Short(a, b)
  BY DEF IsNearest
<1>1. PICK c, d : /\ Short(c, b) /\ Fits(c, s) /\ At(c, s) = i - q
                  /\ Short(d, b) /\ Fits(d, s) /\ At(d, s) = i + q
  BY <1>0, OwnNeighbours
<1>2. q \in Nat \ {0} /\ n \in Int /\ i \in Int /\ k \in Nat \ {0} /\ Normal(a) /\ Normal(c) /\ Normal(d)
  BY <1>0, <1>1, PowerIsPositive, AtType DEF IsValue, Short
<1>3. DLeq(Distance(a, v), Distance(c, v)) /\ DLeq(Distance(a, v), Distance(d, v))
  BY <1>1 DEF IsNearest
<1>4. Fits(Distance(a, v), s) /\ At(Distance(a, v), s) = Abs(n - i * k)
  BY <1>2, RelationsAt
<1>5. Fits(Distance(c, v), s) /\ At(Distance(c, v), s) = Abs(n - (i - q) * k)
  <2>1. Fits(Distance(c, v), s) /\ At(Distance(c, v), s) = Abs(n - At(c, s) * k)
    BY <1>1, <1>2, RelationsAt
  <2> QED
    BY <1>1, <2>1
<1>6. Fits(Distance(d, v), s) /\ At(Distance(d, v), s) = Abs(n - (i + q) * k)
  <2>1. Fits(Distance(d, v), s) /\ At(Distance(d, v), s) = Abs(n - At(d, s) * k)
    BY <1>1, <1>2, RelationsAt
  <2> QED
    BY <1>1, <2>1
<1> HIDE DEF q, n, i, k
<1>7. Abs(n - i * k) <= Abs(n - (i - q) * k) /\ Abs(n - i * k) <= Abs(n - (i + q) * k)
  BY <1>3, <1>4, <1>5, <1>6, OrderIs
<1>8. (i + q) * k = i * k + q * k /\ (i - q) * k = i * k - q * k /\ i * k \in Int /\ q * k \in Nat \ {0}
  BY <1>2
<1> DEFINE z == i * k
           y == q * k
<1>9. z \in Int /\ y \in Nat \ {0} /\ Abs(n - z) <= Abs(n - (z - y)) /\ Abs(n - z) <= Abs(n - (z + y))
  BY <1>7, <1>8
<1> HIDE DEF z, y
<1>10. 2 * Abs(n - z) <= y
  BY <1>2, <1>9, BesideMultiples
<1> QED
  BY <1>10 DEF n, z, y, i, k, q

LEMMA ReachScale ==
  ASSUME NEW v, IsValue(v), NEW a, Normal(a), NEW p \in Nat
  PROVE  \E s \in Nat : /\ Fits(v.num, s) /\ Fits(a, s)
                        /\ (Exponent2(a) - p - 2) + s \in Nat
                        /\ (Exponent2(a) - (p + 1)) + s \in Nat
                        /\ (Exponent2(a) - p) + s \in Nat
                        /\ Power[(Exponent2(a) - (p + 1)) + s] = 2 * Power[(Exponent2(a) - p - 2) + s]
                        /\ Power[(Exponent2(a) - p) + s] = 4 * Power[(Exponent2(a) - p - 2) + s]
                        /\ Power[(Exponent2(a) - p - 2) + s] \in Nat \ {0}
<1> DEFINE x == Exponent2(a) - p - 2
<1>1. x \in Int
  BY ExponentType
<1>2. PICK u \in Nat : Fits(v.num, u) /\ Fits(a, u)
  BY CommonScale DEF IsValue
<1> DEFINE t == IF u < - x THEN - x ELSE u
<1>3. t \in Nat /\ u <= t /\ x + t \in Nat
  BY <1>1, <1>2
<1>4. Fits(v.num, t) /\ Fits(a, t)
  BY <1>2, <1>3, AtScale
<1>5. (Exponent2(a) - (p + 1)) + t = (x + t) + 1 /\ (Exponent2(a) - p) + t = ((x + t) + 1) + 1
  BY <1>1, <1>3, ExponentType
<1> HIDE DEF t, x
<1> DEFINE y == x + t
<1>6. y \in Nat
  BY <1>3
<1> HIDE DEF y
<1>7. Power[y] \in Nat \ {0} /\ Power[y + 1] = 2 * Power[y] /\ Power[(y + 1) + 1] = 4 * Power[y]
      /\ y + 1 \in Nat /\ (y + 1) + 1 \in Nat
  BY <1>6, PowerNext, PowerIsPositive
<1>8. (Exponent2(a) - p - 2) + t = y /\ (Exponent2(a) - (p + 1)) + t = y + 1 /\ (Exponent2(a) - p) + t = (y + 1) + 1
  BY <1>5 DEF y, x
<1> QED
  BY <1>3, <1>4, <1>6, <1>7, <1>8

LEMMA RespectIsInReach ==
  ASSUME NEW v, IsValue(v), NEW p \in Nat, NEW a, Short(a, p + 1), a.m # 0, Respects(a, v, p + 1)
  PROVE  InReach(a, v, p)
<1>0. Normal(a)
  BY DEF Short
<1>1. PICK s \in Nat : /\ Fits(v.num, s) /\ Fits(a, s)
                       /\ (Exponent2(a) - p - 2) + s \in Nat
                       /\ (Exponent2(a) - (p + 1)) + s \in Nat
                       /\ (Exponent2(a) - p) + s \in Nat
                       /\ Power[(Exponent2(a) - (p + 1)) + s] = 2 * Power[(Exponent2(a) - p - 2) + s]
                       /\ Power[(Exponent2(a) - p) + s] = 4 * Power[(Exponent2(a) - p - 2) + s]
                       /\ Power[(Exponent2(a) - p - 2) + s] \in Nat \ {0}
  BY <1>0, ReachScale
<1> DEFINE y == Power[(Exponent2(a) - p - 2) + s]
           d == v.den
           r == Abs(At(v.num, s) - At(a, s) * v.den)
<1>2. r <= (2 * y) * d
  <2>1. r <= Power[(Exponent2(a) - (p + 1)) + s] * v.den
    <3>1. p + 1 \in Nat \ {0}
      OBVIOUS
    <3> QED
      BY <1>1, <3>1, ReachByRespect
  <2> QED
    BY <1>1, <2>1
<1>3. y \in Int /\ d \in Int
  BY <1>1 DEF IsValue
<1>4. (2 * y) * d = y * (2 * d)
  <2> HIDE DEF y, d
  <2> QED
    BY <1>3
<1>5. r <= y * (2 * d)
  BY <1>2, <1>4
<1>6. p \in Int
  OBVIOUS
<1> QED
  BY <1>0, <1>1, <1>5, <1>6, InReachAt

LEMMA NearestIsInReach ==
  ASSUME NEW v, IsValue(v), NEW p \in Nat \ {0}, NEW a, a.m # 0, IsNearest(a, v, p)
  PROVE  InReach(a, v, p)
<1>0. Normal(a)
  BY DEF Short, IsNearest
<1>1. PICK s \in Nat : /\ Fits(v.num, s) /\ Fits(a, s)
                       /\ (Exponent2(a) - p - 2) + s \in Nat
                       /\ (Exponent2(a) - (p + 1)) + s \in Nat
                       /\ (Exponent2(a) - p) + s \in Nat
                       /\ Power[(Exponent2(a) - (p + 1)) + s] = 2 * Power[(Exponent2(a) - p - 2) + s]
                       /\ Power[(Exponent2(a) - p) + s] = 4 * Power[(Exponent2(a) - p - 2) + s]
                       /\ Power[(Exponent2(a) - p - 2) + s] \in Nat \ {0}
  BY <1>0, ReachScale
<1> DEFINE y == Power[(Exponent2(a) - p - 2) + s]
           d == v.den
           r == Abs(At(v.num, s) - At(a, s) * v.den)
<1>2. 2 * r <= (4 * y) * d
  <2>1. 2 * r <= Power[(Exponent2(a) - p) + s] * v.den
    BY <1>1, ReachByNearest
  <2> QED
    BY <1>1, <2>1
<1>3. y \in Int /\ d \in Int /\ r \in Int
  <2>1. At(v.num, s) \in Int /\ At(a, s) \in Int /\ v.den \in Int /\ y \in Int
    BY <1>1, AtType DEF IsValue
  <2>2. At(a, s) * v.den \in Int
    BY <2>1
  <2> QED
    BY <2>1, <2>2, AbsValue
<1>4. r <= y * (2 * d)
  <2> HIDE DEF y, d, r
  <2>1. (4 * y) * d = 2 * (y * (2 * d)) /\ y * (2 * d) \in Int
    BY <1>3
  <2> QED
    BY <1>2, <1>3, <2>1
<1>5. p \in Int
  OBVIOUS
<1> QED
  BY <1>0, <1>1, <1>4, <1>5, InReachAt

LEMMA FineByRespect ==
  ASSUME NEW v, IsValue(v), v.num.m # 0, NEW p \in Nat \ {0}, NEW a, Short(a, p + 1), Respects(a, v, p + 1)
  PROVE  Fine(a, v, p) /\ a.m # 0
<1>1. p \in Nat /\ Normal(a)
  BY DEF Short
<1>2. Accurate(a, v, p)
  BY <1>1, RespectIsAccurate
<1>3. a.m # 0
  BY <1>1, <1>2, AccurateIsNonzero
<1>4. InReach(a, v, p)
  BY <1>1, <1>3, RespectIsInReach
<1>5. Respects(a, v, p)
  BY RespectsFewer
<1> QED
  BY <1>2, <1>3, <1>4, <1>5 DEF Fine

LEMMA FineByNearest ==
  ASSUME NEW v, IsValue(v), v.num.m # 0, NEW p \in Nat \ {0}, NEW a, IsNearest(a, v, p)
  PROVE  Fine(a, v, p) /\ a.m # 0
<1>1. Normal(a) /\ Short(a, p)
  BY DEF IsNearest, Short
<1>2. Accurate(a, v, p)
  BY NearestIsAccurate
<1>3. a.m # 0
  BY <1>1, <1>2, AccurateIsNonzero
<1>4. InReach(a, v, p)
  BY <1>3, NearestIsInReach
<1>5. Respects(a, v, p)
  BY NearestRespects
<1>6. Short(a, p + 1)
  BY <1>1, ShortLonger
<1> QED
  BY <1>2, <1>3, <1>4, <1>5, <1>6 DEF Fine

-----------------------------------------------------------------------------
(* The approximations of random, rational and constrained numbers. *)

LEMMA RandomIsFine ==
  ASSUME NEW d, Normal(d), d.m > 0, NEW p \in Nat \ {0}
  PROVE  Fine(Digits(d, p + 1), Only(d), p) /\ Digits(d, p + 1).m # 0
<1>1. p + 1 \in Nat \ {0}
  OBVIOUS
<1>2. Short(Digits(d, p + 1), p + 1) /\ Respects(Digits(d, p + 1), Only(d), p + 1)
  BY <1>1, DigitsAre
<1>3. IsValue(Only(d)) /\ Only(d).num.m # 0
  <2>1. d.m # 0
    BY ExponentType
  <2> QED
    BY <2>1, OnlyIs
<1> DEFINE a == Digits(d, p + 1)
           v == Only(d)
<1> HIDE DEF a, v
<1> QED
  BY <1>2, <1>3, FineByRespect DEF a, v

LEMMA RationalIsFine ==
  ASSUME NEW n \in Int, NEW d \in Nat \ {0}, NEW p \in Nat \ {0}
  PROVE  Fine(RoundQuotient(n, d, p), Fraction(n, d), p) /\ (n # 0 => RoundQuotient(n, d, p).m # 0)
<1> DEFINE a == RoundQuotient(n, d, p)
           v == Fraction(n, d)
<1>1. IsNearest(a, v, p)
  BY RoundQuotientIs
<1>2. IsValue(v) /\ v.num = Int2Dyadic(n) /\ v.den = d
  BY FractionIs
<1>3. Fits(v.num, 0) /\ At(v.num, 0) = n
  <2>1. Fits(Int2Dyadic(n), 0) /\ At(Int2Dyadic(n), 0) = n * Power[0]
    BY IntegerValue
  <2> QED
    BY <1>2, <2>1, PowerNext
<1>4. CASE n # 0
  <2>1. v.num.m # 0
    BY <1>3, <1>4, AtType
  <2> HIDE DEF a, v
  <2>2. Fine(a, v, p) /\ a.m # 0
    BY <1>1, <1>2, <2>1, FineByNearest
  <2> QED
    BY <2>2 DEF a, v
<1>5. CASE n = 0
  <2>1. a = Int2Dyadic(0) /\ v.num = a
    BY <1>2, <1>5, QuotientIs
  <2>2. Normal(a) /\ Short(a, p)
    BY <1>1 DEF IsNearest, Short
  <2>3. Short(a, p + 1) /\ Respects(a, v, p)
    BY <1>1, <1>2, <2>2, ShortLonger, NearestRespects
  <2>4. PICK s \in Nat : /\ Fits(v.num, s) /\ Fits(a, s)
                         /\ (Exponent2(a) - p - 2) + s \in Nat
                         /\ Power[(Exponent2(a) - p - 2) + s] \in Nat \ {0}
    BY <1>2, <2>2, ReachScale
  <2>5. At(a, s) = 0 /\ At(v.num, s) = 0
    <3>1. a.m = 0
      BY <1>3, <1>5, <2>1, AtType
    <3> QED
      BY <2>1, <2>4, <3>1, AtType
  <2>6. Abs(At(v.num, s) - At(a, s) * v.den) = 0 /\ Abs(At(v.num, s)) = 0
    BY <1>2, <2>5 DEF Abs, IsValue
  <2>7. Accurate(a, v, p)
    <3>1. Power[p] \in Int /\ p \in Nat
      BY PowerIsPositive
    <3>2. Abs(At(v.num, s) - At(a, s) * v.den) * Power[p] <= Abs(At(v.num, s))
      BY <2>6, <3>1
    <3> HIDE DEF a, v
    <3> QED
      BY <1>2, <2>2, <2>4, <3>1, <3>2, AccurateAt
  <2>8. InReach(a, v, p)
    <3> DEFINE y == Power[(Exponent2(a) - p - 2) + s]
               k == v.den
    <3>1. y \in Nat /\ k \in Nat
      BY <1>2, <2>4 DEF IsValue
    <3>2. 0 <= y * (2 * k)
      <4> HIDE DEF y, k
      <4> QED
        BY <3>1
    <3>3. p \in Int
      OBVIOUS
    <3>4. Abs(At(v.num, s) - At(a, s) * v.den) <= y * (2 * v.den)
      BY <2>6, <3>2
    <3> HIDE DEF a, v
    <3> QED
      BY <1>2, <2>2, <2>4, <3>3, <3>4, InReachAt
  <2> QED
    BY <1>5, <2>3, <2>7, <2>8 DEF Fine
<1> QED
  BY <1>4, <1>5

\* The grid that a number above or below the given digits of a constrained number is on.
LEMMA ConstrainedGrid ==
  ASSUME NEW B \in Nat, NEW h \in Nat \ {0}, NEW w \in Nat, NEW k \in Nat,
         NEW i \in Int, NEW u \in Int, NEW d \in Int, NEW c \in Int,
         i + d < c, c <= i + u, Power[B + h - 1] <= d, u < Power[B + h],
         (w = 0 /\ i = 0) \/ (w # 0 /\ Power[w - 1] * Power[B + h + k + 1] <= Abs(i))
  PROVE  Power[h + w - 1] * Power[B] <= Abs(c)
<1>0. B + h - 1 \in Nat /\ B + h \in Nat /\ h + w - 1 \in Nat /\ B + h + w - 1 \in Nat
  OBVIOUS
<1>1. Power[h + w - 1] * Power[B] = Power[B + h + w - 1] /\ Power[B + h + w - 1] \in Nat \ {0}
      /\ Power[B + h - 1] \in Nat \ {0} /\ Power[B + h] \in Nat
  <2>1. (h + w - 1) + B = B + h + w - 1
    OBVIOUS
  <2> QED
    BY <1>0, <2>1, PowerSum, PowerIsPositive
<1>2. CASE w = 0 /\ i = 0
  <2>1. B + h + w - 1 = B + h - 1
    BY <1>2
  <2>2. d <= c
    BY <1>2
  <2>3. Power[B + h - 1] <= c
    BY <1>1, <2>2
  <2> QED
    BY <1>1, <2>1, <2>3 DEF Abs
<1>3. CASE w # 0 /\ Power[w - 1] * Power[B + h + k + 1] <= Abs(i)
  <2> DEFINE m == Power[B + h + w - 1]
  <2>0. w - 1 \in Nat /\ B + h + k + 1 \in Nat /\ B + h + w + k \in Nat /\ B + h + w \in Nat
    BY <1>3
  <2>1. Power[w - 1] * Power[B + h + k + 1] = Power[B + h + w + k]
    <3>1. (w - 1) + (B + h + k + 1) = B + h + w + k
      OBVIOUS
    <3> QED
      BY <2>0, <3>1, PowerSum
  <2>2. Power[B + h + w] <= Power[B + h + w + k] /\ Power[B + h + w] = 2 * m /\ m \in Nat \ {0}
    <3>1. Power[B + h + w] <= Power[B + h + w + k]
      BY <2>0, PowerGrows
    <3>2. (B + h + w - 1) + 1 = B + h + w
      OBVIOUS
    <3> QED
      BY <1>0, <1>1, <3>1, <3>2, PowerNext
  <2>3. Power[B + h] <= m
    <3>1. B + h <= B + h + w - 1
      BY <1>3
    <3> QED
      BY <1>0, <3>1, PowerGrows
  <2>4. Power[B + h + w + k] \in Nat
    BY <2>0, PowerIsPositive
  <2>5. 2 * m <= Abs(i)
    BY <1>3, <2>1, <2>2, <2>4, AbsValue
  <2> HIDE DEF m
  <2>6. u < m /\ 0 < d
    BY <1>1, <2>2, <2>3
  <2>7. m <= Abs(c)
    BY <2>2, <2>5, <2>6 DEF Abs
  <2> QED
    BY <1>1, <2>7 DEF m
<1> QED
  BY <1>2, <1>3

HasScale(a, b, c, d, k, g) ==
  \E s \in Nat : Fits(a, s) /\ Fits(b, s) /\ s + k \in Nat /\ Fits(c, s + k) /\ Fits(d, s + k) /\ g + s \in Nat

LEMMA TwoScales ==
  ASSUME NEW a, NEW b, NEW c, NEW d, Normal(a), Normal(b), Normal(c), Normal(d), NEW k \in Int, NEW g \in Int
  PROVE  HasScale(a, b, c, d, k, g)
<1>1. PICK x \in Nat : Fits(a, x) /\ Fits(b, x)
  BY CommonScale
<1>2. PICK y \in Nat : Fits(c, y) /\ Fits(d, y)
  BY CommonScale
<1> DEFINE r == IF x < y - k THEN y - k ELSE x
           s == IF r < - g THEN - g ELSE r
<1>3. s \in Nat /\ x <= s /\ y <= s + k /\ s + k \in Nat /\ g + s \in Nat
  BY <1>1, <1>2
<1> HIDE DEF r, s
<1> DEFINE t == s + k
<1>4. t \in Nat /\ y <= t
  BY <1>3
<1> HIDE DEF t
<1>5. Fits(a, s) /\ Fits(b, s) /\ Fits(c, t) /\ Fits(d, t)
  BY <1>1, <1>2, <1>3, <1>4, AtScale
<1> QED
  BY <1>3, <1>5 DEF t, HasScale

LEMMA ExponentBounds ==
  ASSUME NEW a, Normal(a), a.m # 0, NEW s, Fits(a, s)
  PROVE  /\ Exponent2(a) + s - 1 \in Nat /\ Exponent2(a) \in Int
         /\ Power[Exponent2(a) + s - 1] <= Abs(At(a, s)) /\ Abs(At(a, s)) < Power[Exponent2(a) + s]
<1> DEFINE w == Bits(a.m)
           q == Power[a.e + s]
           m == Abs(a.m)
<1>1. a.m \in Int /\ a.e \in Int /\ s \in Nat /\ a.e + s \in Nat
  BY ExponentType DEF Fits
<1>2. w \in Nat \ {0} /\ Power[w - 1] <= m /\ m < Power[w]
  BY <1>1, BitsBounds
<1>3. /\ Exponent2(a) + s - 1 = (w - 1) + (a.e + s) /\ Exponent2(a) + s = w + (a.e + s)
      /\ w - 1 \in Nat /\ Exponent2(a) \in Int
  BY <1>1, <1>2 DEF Exponent2
<1>4. Power[Exponent2(a) + s - 1] = Power[w - 1] * q /\ Power[Exponent2(a) + s] = Power[w] * q
  <2>1. w \in Nat
    BY <1>2
  <2> HIDE DEF w
  <2> QED
    BY <1>1, <1>3, <2>1, PowerSum
<1>5. Abs(At(a, s)) = m * q
  <2>1. q \in Nat /\ At(a, s) = a.m * q
    BY <1>1, PowerIsPositive DEF At
  <2> HIDE DEF q
  <2> QED
    BY <1>1, <2>1, AbsTimes DEF m
<1> DEFINE x == Power[w - 1]
           y == Power[w]
<1>6. m \in Nat /\ q \in Nat \ {0} /\ x \in Nat /\ y \in Nat /\ x <= m /\ m < y
  BY <1>1, <1>2, <1>3, PowerIsPositive, AbsValue
<1>7. x * q <= m * q /\ m * q < y * q
  <2> HIDE DEF x, y, m, q
  <2> QED
    BY <1>6, Cancel
<1>8. Exponent2(a) + s - 1 \in Nat
  BY <1>1, <1>2, <1>3
<1> QED
  BY <1>3, <1>4, <1>5, <1>7, <1>8

\* The size of a multiple of 2^e.
LEMMA GivenDigits ==
  ASSUME NEW a, Normal(a), NEW e \in Int, a.m = 0 \/ e <= a.e, NEW s, Fits(a, s), e + s \in Nat
  PROVE  /\ \A x \in Int : x <= e /\ x + s \in Nat => \E i \in Int : At(a, s) = i * Power[x + s]
         /\ Bits(a.m) \in Nat
         /\ \/ Bits(a.m) = 0 /\ At(a, s) = 0
            \/ Bits(a.m) # 0 /\ Power[Bits(a.m) - 1] * Power[e + s] <= Abs(At(a, s))
<1>0. a.m \in Int /\ a.e \in Int /\ Bits(a.m) \in Nat /\ s \in Nat /\ At(a, s) \in Int
  BY ExponentType, AtType DEF Fits
<1>1. CASE a.m = 0
  <2>1. At(a, s) = 0
    BY <1>1, AtType
  <2>2. Bits(a.m) = 0
    BY <1>1, WidthOfZero DEF Bits, Abs
  <2>3. \A x \in Int : x <= e /\ x + s \in Nat => \E i \in Int : At(a, s) = i * Power[x + s]
    <3>1. TAKE x \in Int
    <3>2. HAVE x <= e /\ x + s \in Nat
    <3>3. 0 * Power[x + s] = 0
      BY <3>2, PowerIsPositive
    <3> QED
      BY <2>1, <3>3
  <2> QED
    BY <1>0, <2>1, <2>2, <2>3
<1>2. CASE a.m # 0
  <2> DEFINE w == Bits(a.m)
  <2>1. e <= a.e /\ w \in Nat \ {0} /\ Exponent2(a) = a.e + w
    BY <1>0, <1>2, BitsBounds DEF Exponent2
  <2>2. Exponent2(a) + s - 1 \in Nat /\ Power[Exponent2(a) + s - 1] <= Abs(At(a, s))
    BY <1>2, ExponentBounds
  <2>3. w - 1 \in Nat /\ (w - 1) + (e + s) <= Exponent2(a) + s - 1 /\ (w - 1) + (e + s) \in Nat
    BY <1>0, <2>1
  <2> DEFINE x == w - 1
             y == e + s
             z == Exponent2(a) + s - 1
  <2>4. x \in Nat /\ y \in Nat /\ z \in Nat /\ x + y <= z /\ x + y \in Nat /\ Power[z] <= Abs(At(a, s))
    BY <2>2, <2>3
  <2>5. Power[x] * Power[y] <= Abs(At(a, s))
    <3> HIDE DEF x, y, z
    <3>1. Power[x + y] = Power[x] * Power[y] /\ Power[x + y] <= Power[z]
      BY <2>4, PowerSum, PowerGrows
    <3>2. Power[x + y] \in Nat /\ Power[z] \in Nat /\ Abs(At(a, s)) \in Nat
      BY <1>0, <2>4, PowerIsPositive, AbsValue
    <3>3. Power[x + y] <= Abs(At(a, s))
      BY <2>4, <3>1, <3>2
    <3> QED
      BY <3>1, <3>3
  <2>6. \A i \in Int : i <= e /\ i + s \in Nat => \E j \in Int : At(a, s) = j * Power[i + s]
    <3>1. TAKE i \in Int
    <3>2. HAVE i <= e /\ i + s \in Nat
    <3>3. a.e - i \in Nat /\ (a.e - i) + (i + s) = a.e + s
      BY <1>0, <2>1, <3>2
    <3> DEFINE n == a.e - i
               k == i + s
               m == a.m
    <3>4. At(a, s) = m * (Power[n] * Power[k]) /\ Power[n] \in Int /\ Power[k] \in Int /\ m \in Int
      <4>1. Power[n + k] = Power[n] * Power[k]
        <5> HIDE DEF n, k
        <5> QED
          BY <3>2, <3>3, PowerSum DEF k, n
      <4> QED
        BY <1>0, <3>2, <3>3, <4>1, PowerIsPositive DEF At
    <3> HIDE DEF m, n
    <3>5. m * (Power[n] * Power[k]) = (m * Power[n]) * Power[k] /\ m * Power[n] \in Int
      BY <3>4, Ring
    <3> QED
      BY <3>4, <3>5
  <2> QED
    BY <1>0, <2>1, <2>5, <2>6
<1> QED
  BY <1>1, <1>2

\* The digits of the leading part are those of a random number below 1.
LEMMA LeadingDigits ==
  ASSUME NEW u, Normal(u), u.m > 0, NEW h \in Nat \ {0}, NEW t, Fits(u, t), Fits(Digits(u, h), t)
  PROVE  /\ Exponent2(u) + t - 1 \in Nat /\ Exponent2(u) \in Int
         /\ Power[Exponent2(u) + t - 1] <= At(Digits(u, h), t)
         /\ At(Digits(u, h), t) <= At(u, t)
         /\ At(u, t) < Power[Exponent2(u) + t]
         /\ At(u, t) \in Nat /\ At(Digits(u, h), t) \in Int
         /\ Normal(Digits(u, h))
<1> DEFINE d == Digits(u, h)
           x == Exponent2(u) - 1
           z == Dyadic(1, x)
<1>1. u.m # 0 /\ At(u, t) \in Int /\ At(u, t) > 0 /\ At(d, t) \in Int /\ Abs(At(u, t)) = At(u, t) /\ t \in Nat
  <2>1. u.m # 0
    BY ExponentType
  <2>2. At(u, t) \in Int /\ At(u, t) > 0 /\ At(d, t) \in Int
    BY AtType
  <2> QED
    BY <2>1, <2>2, AbsValue DEF Fits
<1>2. Exponent2(u) + t - 1 \in Nat /\ Exponent2(u) \in Int
      /\ Power[Exponent2(u) + t - 1] <= Abs(At(u, t)) /\ Abs(At(u, t)) < Power[Exponent2(u) + t]
  BY <1>1, ExponentBounds
<1>3. x \in Int /\ x + t = Exponent2(u) + t - 1 /\ x + t \in Nat
  BY <1>1, <1>2
<1>4. Short(d, h) /\ Below(d, Only(u)) /\ Respects(d, Only(u), h) /\ Normal(d)
  BY DigitsAre DEF Short
<1>5. IsValue(Only(u)) /\ Only(u).num = u /\ Only(u).den = 1
  BY OnlyIs
<1>6. At(d, t) <= At(u, t)
  <2>1. At(d, t) * 1 <= At(u, t)
    BY <1>4, <1>5, RelationsAt
  <2> QED
    BY <1>1, <2>1
<1>7. Fits(z, t) /\ At(z, t) = Power[x + t] /\ Normal(z) /\ Short(z, h)
  <2>1. Fits(z, t) /\ At(z, t) = 1 * Power[x + t] /\ Normal(z)
    <3>1. x \in Int /\ x + t \in Nat /\ t \in Nat /\ 1 \in Int
      BY <1>1, <1>3
    <3> HIDE DEF x
    <3> QED
      BY <3>1, DyadicAt
  <2>2. Short(z, h)
    <3>1. Power[h] \in Nat \ {0} /\ Abs(1) = 1
      BY PowerIsPositive DEF Abs
    <3>2. Abs(1) <= Power[h]
      BY <3>1
    <3> HIDE DEF x
    <3> QED
      BY <1>3, <3>2, ShortDyadic
  <2>3. Power[x + t] \in Nat
    BY <1>3, PowerIsPositive
  <2> QED
    BY <2>1, <2>2, <2>3
<1>8. Below(z, Only(u))
  <2>1. At(z, t) * 1 <= At(u, t)
    <3>1. Power[x + t] \in Nat /\ Power[x + t] <= At(u, t)
      BY <1>1, <1>2, <1>3, PowerIsPositive
    <3> QED
      BY <1>7, <3>1
  <2> HIDE DEF z
  <2> QED
    BY <1>5, <1>7, <2>1, RelationsAt
<1>9. At(z, t) <= At(d, t)
  <2> HIDE DEF z, d
  <2>1. DLeq(z, d)
    BY <1>4, <1>7, <1>8 DEF Respects
  <2> QED
    BY <1>7, <2>1, OrderIs DEF d
<1> QED
  BY <1>1, <1>2, <1>3, <1>4, <1>6, <1>7, <1>9

\* c is below initial + inner * 2^k exactly if it is below the digits that are used of this.
LEMMA ConstrainedBelow ==
  ASSUME NEW u, Normal(u), u.m > 0, Exponent2(u) <= 0, NEW a, Normal(a), NEW e \in Int, a.m = 0 \/ e <= a.e,
         NEW b \in Nat \ {0}, NEW h \in Nat \ {0}, h = b - Bits(a.m),
         NEW c, Short(c, b), DLeq(c, DPlus(a, DShift(u, e - 1)))
  PROVE  DLeq(c, DPlus(a, DShift(Digits(u, h), e - 1)))
<1> DEFINE d == Digits(u, h)
           k == e - 1
           g == k + Exponent2(u) - h
           w == Bits(a.m)
           n == - Exponent2(u)
           v == Only(u)
<1>1. Normal(c) /\ Normal(d) /\ k \in Int /\ g \in Int /\ Exponent2(u) \in Int /\ n \in Nat /\ w \in Nat /\ b = h + w
      /\ a \in Binary /\ c \in Binary /\ u \in Binary /\ d \in Binary /\ IsValue(v) /\ v.num = u /\ v.den = 1
      /\ Short(d, h) /\ Respects(d, v, h)
  BY ExponentType, DigitsAre, OnlyIs DEF Short
<1>2. PICK s \in Nat : Fits(a, s) /\ Fits(c, s) /\ s + k \in Nat /\ Fits(u, s + k) /\ Fits(d, s + k) /\ g + s \in Nat
  <2> HIDE DEF d, k, g
  <2>1. HasScale(a, c, u, d, k, g)
    BY <1>1, TwoScales
  <2> QED
    BY <2>1 DEF HasScale
<1> DEFINE t == s + k
           B == g + s
           i == At(a, s)
           y == At(c, s)
           uu == At(u, t)
           dd == At(d, t)
<1>3. /\ Exponent2(u) + t = B + h /\ Exponent2(u) + t - 1 = B + h - 1
      /\ e + s = B + h + n + 1 /\ t \in Nat /\ B \in Nat /\ e + s \in Nat
  BY <1>1, <1>2
<1>4. Power[B + h - 1] <= dd /\ dd <= uu /\ uu < Power[B + h] /\ uu \in Nat /\ dd \in Int
  <2>1. Power[Exponent2(u) + t - 1] <= dd /\ dd <= uu /\ uu < Power[Exponent2(u) + t] /\ uu \in Nat /\ dd \in Int
    <3>1. Fits(u, t) /\ Fits(Digits(u, h), t)
      BY <1>2
    <3> HIDE DEF t
    <3> QED
      BY <3>1, LeadingDigits
  <2> QED
    BY <1>3, <2>1
<1>5. i \in Int /\ y \in Int /\ Power[B] \in Nat \ {0} /\ Power[B + h - 1] \in Nat \ {0}
      /\ Power[B + h] = Power[h] * Power[B] /\ Power[h] \in Nat
  <2> HIDE DEF B
  <2>1. B + h = h + B /\ B + h - 1 \in Nat /\ B \in Nat /\ h \in Nat
    BY <1>3
  <2>2. i \in Int /\ y \in Int
    BY <1>2, AtType
  <2>3. Power[h + B] = Power[h] * Power[B] /\ Power[h] \in Nat
    BY <2>1, PowerSum, PowerIsPositive
  <2> QED
    BY <2>1, <2>2, <2>3, PowerIsPositive
<1> DEFINE p == DPlus(a, DShift(u, k))
           q == DPlus(a, DShift(d, k))
<1>6. Fits(p, s) /\ At(p, s) = i + uu /\ Fits(q, s) /\ At(q, s) = i + dd
  <2>1. DShift(u, k) \in Binary /\ Fits(DShift(u, k), s) /\ At(DShift(u, k), s) = uu
    <3> HIDE DEF k, d
    <3> QED
      BY <1>1, <1>2, ShiftValue
  <2>2. DShift(d, k) \in Binary /\ Fits(DShift(d, k), s) /\ At(DShift(d, k), s) = dd
    <3> HIDE DEF k, d
    <3> QED
      BY <1>1, <1>2, ShiftValue
  <2> DEFINE f == DShift(u, k)
             j == DShift(d, k)
  <2> HIDE DEF f, j
  <2>3. f \in Binary /\ Fits(f, s) /\ At(f, s) = uu /\ j \in Binary /\ Fits(j, s) /\ At(j, s) = dd
    BY <2>1, <2>2 DEF f, j
  <2>4. Fits(DPlus(a, f), s) /\ At(DPlus(a, f), s) = i + uu
    BY <1>1, <1>2, <2>3, PlusValue
  <2>5. Fits(DPlus(a, j), s) /\ At(DPlus(a, j), s) = i + dd
    BY <1>1, <1>2, <2>3, PlusValue
  <2> QED
    BY <2>4, <2>5 DEF f, j
<1>7. y <= i + uu
  <2>1. DLeq(c, p)
    OBVIOUS
  <2> HIDE DEF p
  <2> QED
    BY <1>2, <1>6, <2>1, OrderIs
<1>8. DLeq(c, q) <=> y <= i + dd
  <2> HIDE DEF q
  <2> QED
    BY <1>2, <1>6, OrderIs
<1>9. SUFFICES ASSUME i + dd < y
               PROVE  FALSE
  <2>1. y <= i + dd => DLeq(c, q)
    BY <1>8
  <2> HIDE DEF i, y, dd
  <2> QED
    BY <1>4, <1>5, <2>1 DEF q, d, k
<1>10. /\ \A x \in Int : x <= e /\ x + s \in Nat => \E j \in Int : i = j * Power[x + s]
       /\ (w = 0 /\ i = 0) \/ (w # 0 /\ Power[w - 1] * Power[e + s] <= Abs(i))
  <2>1. Fits(a, s) /\ e + s \in Nat
    BY <1>2, <1>3
  <2> QED
    BY <2>1, GivenDigits
<1>11. \E j \in Int : i = j * Power[B]
  <2>1. g \in Int /\ g <= e /\ g + s \in Nat
    BY <1>1, <1>2
  <2> HIDE DEF g, i
  <2> QED
    BY <1>10, <2>1
<1>12. Power[h + w - 1] * Power[B] <= Abs(y)
  <2>1. (w = 0 /\ i = 0) \/ (w # 0 /\ Power[w - 1] * Power[B + h + n + 1] <= Abs(i))
    BY <1>3, <1>10
  <2>2. B \in Nat /\ w \in Nat /\ n \in Nat /\ i \in Int /\ uu \in Int /\ dd \in Int /\ y \in Int
        /\ i + dd < y /\ y <= i + uu /\ Power[B + h - 1] <= dd /\ uu < Power[B + h]
    BY <1>1, <1>3, <1>4, <1>5, <1>7, <1>9
  <2> HIDE DEF i, y, uu, dd, B, n, w
  <2> QED
    BY <2>1, <2>2, ConstrainedGrid
<1>13. \E j \in Int : y = j * Power[B]
  <2>1. h + w - 1 = b - 1
    BY <1>1
  <2>2. Power[b - 1] * Power[g + s] <= Abs(At(c, s))
    BY <1>12, <2>1
  <2>3. Short(c, b) /\ Fits(c, s) /\ g \in Int /\ g + s \in Nat
    BY <1>1, <1>2
  <2> HIDE DEF g
  <2> QED
    BY <2>2, <2>3, ShortGrid DEF B, y
<1>14. PICK i1 \in Int : y = i1 * Power[B]
  BY <1>13
<1>15. PICK i2 \in Int : i = i2 * Power[B]
  BY <1>11
<1> DEFINE j == i1 - i2
           Q == Power[B]
           H == Power[h]
<1>16. j \in Int /\ y - i = j * Q
  <2>1. Q \in Int
    BY <1>5
  <2>2. i1 * Q - i2 * Q = (i1 - i2) * Q
    <3> HIDE DEF Q
    <3> QED
      BY <1>14, <1>15, <2>1, Ring
  <2> QED
    BY <1>14, <1>15, <2>2
<1>17. dd < j * Q /\ j * Q <= uu /\ 0 < j * Q /\ j * Q < H * Q /\ j * Q \in Int
  <2> DEFINE m == j * Q
  <2>1. m = y - i /\ Q \in Nat \ {0} /\ Power[B + h] = H * Q
    BY <1>5, <1>16
  <2> HIDE DEF m, i, y, dd, uu, Q, H, j
  <2>2. m \in Int /\ dd < m /\ m <= uu /\ 0 < m /\ m < H * Q
    <3>1. H * Q \in Int
      BY <1>5, <2>1 DEF H
    <3> QED
      BY <1>4, <1>5, <1>7, <1>9, <2>1, <3>1
  <2> QED
    BY <2>2 DEF m
<1>18. 0 < j /\ j < H
  <2>1. H \in Int /\ Q \in Nat \ {0}
    BY <1>5
  <2> HIDE DEF j, H, Q
  <2>2. 0 * Q = 0
    BY <2>1
  <2> QED
    BY <1>16, <1>17, <2>1, <2>2, Cancel
<1> DEFINE x == Exponent2(u) - h
           z == Dyadic(j, x)
<1>19. x \in Int /\ x + t = B
  BY <1>1, <1>3
<1>20. Short(z, h) /\ Normal(z) /\ Fits(z, t) /\ At(z, t) = j * Q
  <2>1. Abs(j) <= Power[h]
    <3> HIDE DEF j
    <3> QED
      BY <1>5, <1>16, <1>18 DEF Abs, H
  <2>2. x + t \in Nat /\ t \in Nat
    BY <1>3, <1>19
  <2> HIDE DEF j, x, t
  <2>3. Fits(z, t) /\ At(z, t) = j * Power[x + t] /\ Normal(z)
    BY <1>16, <1>19, <2>2, DyadicValue
  <2>4. Short(z, h)
    BY <1>16, <1>19, <2>1, ShortDyadic
  <2> QED
    BY <1>19, <2>3, <2>4
<1>21. Below(z, v)
  <2> HIDE DEF z, t, j, Q
  <2>1. At(z, t) * 1 <= At(u, t)
    BY <1>17, <1>20
  <2>2. Fits(v.num, t) /\ At(z, t) * v.den <= At(v.num, t)
    <3>1. Fits(u, t)
      BY <1>2 DEF t
    <3> QED
      BY <1>1, <2>1, <3>1
  <2> QED
    BY <1>1, <1>20, <2>2, RelationsAt
<1>22. At(z, t) <= dd
  <2> HIDE DEF z, v, d, t
  <2>1. DLeq(z, d)
    BY <1>1, <1>20, <1>21 DEF Respects
  <2>2. Fits(d, t)
    BY <1>2 DEF t
  <2> QED
    BY <1>20, <2>1, <2>2, OrderIs
<1> HIDE DEF dd, j, Q, z, t
<1> QED
  BY <1>4, <1>17, <1>20, <1>22

LEMMA BelowOnly ==
  ASSUME NEW v, NEW c, Normal(v), Normal(c)
  PROVE  (Below(c, Only(v)) <=> DLeq(c, v)) /\ (Above(c, Only(v)) <=> DLeq(v, c))
<1>1. PICK s \in Nat : Fits(v, s) /\ Fits(c, s)
  BY CommonScale
<1>2. IsValue(Only(v)) /\ Only(v).num = v /\ Only(v).den = 1
  BY OnlyIs
<1>3. Below(c, Only(v)) <=> At(c, s) * Only(v).den <= At(Only(v).num, s)
  BY <1>1, <1>2, RelationsAt
<1>4. Above(c, Only(v)) <=> At(Only(v).num, s) <= At(c, s) * Only(v).den
  BY <1>1, <1>2, RelationsAt
<1>5. At(c, s) * 1 = At(c, s)
  BY <1>1, AtType
<1> QED
  BY <1>1, <1>2, <1>3, <1>4, <1>5, OrderIs

LEMMA LeqIsTransitive ==
  ASSUME NEW a, NEW b, NEW c, Normal(a), Normal(b), Normal(c), DLeq(a, b), DLeq(b, c)
  PROVE  DLeq(a, c)
<1>1. PICK s \in Nat : Fits(a, s) /\ Fits(b, s) /\ Fits(c, s)
  BY CommonScale
<1>2. At(a, s) \in Int /\ At(b, s) \in Int /\ At(c, s) \in Int /\ At(a, s) <= At(b, s) /\ At(b, s) <= At(c, s)
  BY <1>1, AtType, OrderIs
<1>3. At(a, s) <= At(c, s)
  BY <1>2
<1> QED
  BY <1>1, <1>3, OrderIs

\* A scale for a + u * 2^(e - 1), where u is below 1 and a is a multiple of 2^e.
LEMMA ConstrainedAt ==
  ASSUME NEW u, Normal(u), u.m > 0, Exponent2(u) <= 0, NEW a, Normal(a), NEW e \in Int, a.m = 0 \/ e <= a.e,
         NEW c, Normal(c)
  PROVE  \E s \in Nat : \E i, n \in Int :
           LET q == Power[e - 1 + s]
               v == DPlus(a, DShift(u, e - 1))
               w == Bits(a.m)
           IN  /\ Fits(a, s) /\ Fits(c, s) /\ Fits(v, s) /\ (e - 1) + s \in Nat
               /\ q \in Nat \ {0} /\ 0 < n /\ n < q
               /\ At(a, s) = i * q /\ At(v, s) = i * q + n
               /\ w \in Nat
               /\ (w = 0 /\ i * q = 0) \/ (w # 0 /\ Power[w] * q <= Abs(i * q))
<1> DEFINE k == e - 1
           v == DPlus(a, DShift(u, k))
           w == Bits(a.m)
<1>1. k \in Int /\ a \in Binary /\ u \in Binary /\ Exponent2(u) \in Int /\ u.m # 0
  BY ExponentType
<1>2. PICK s \in Nat : Fits(a, s) /\ Fits(c, s) /\ s + k \in Nat /\ Fits(u, s + k) /\ 0 + s \in Nat
  <2> HIDE DEF k
  <2>0. 0 \in Int
    OBVIOUS
  <2>1. HasScale(a, c, u, u, k, 0)
    BY <1>1, <2>0, TwoScales
  <2> QED
    BY <2>1 DEF HasScale
<1> DEFINE t == s + k
           q == Power[e - 1 + s]
           n == At(u, t)
<1>3. t \in Nat /\ e - 1 + s = t /\ e + s = t + 1 /\ k + s = t /\ k + s \in Nat /\ Fits(u, t)
  BY <1>1, <1>2
<1>4. q \in Nat \ {0} /\ q = Power[t] /\ Power[e + s] = 2 * q
  <2> HIDE DEF t, k
  <2> QED
    BY <1>3, PowerNext, PowerIsPositive
<1>5. n \in Int /\ 0 < n /\ n < q
  <2>1. n \in Int /\ n > 0 /\ Abs(n) = n
    <3> HIDE DEF t
    <3>1. n \in Int /\ n > 0
      BY <1>3, AtType
    <3> QED
      BY <3>1, AbsValue
  <2>2. Exponent2(u) + t - 1 \in Nat /\ Abs(n) < Power[Exponent2(u) + t]
    <3> HIDE DEF t
    <3> QED
      BY <1>1, <1>3, ExponentBounds
  <2> DEFINE x == Exponent2(u) + t
  <2>3. x \in Nat /\ x <= t
    BY <1>1, <1>3, <2>2
  <2>4. Power[x] <= Power[t] /\ Power[x] \in Int /\ Power[t] \in Int /\ n < Power[x]
    <3>1. n < Power[x]
      BY <2>1, <2>2
    <3> HIDE DEF x, t, n
    <3> QED
      BY <1>3, <2>3, <3>1, PowerGrows, PowerIsPositive
  <2> HIDE DEF n, x, t
  <2> QED
    BY <1>4, <2>1, <2>4
<1>6. /\ \A x \in Int : x <= e /\ x + s \in Nat => \E i \in Int : At(a, s) = i * Power[x + s]
      /\ w \in Nat
      /\ (w = 0 /\ At(a, s) = 0) \/ (w # 0 /\ Power[w - 1] * Power[e + s] <= Abs(At(a, s)))
  <2>1. Fits(a, s) /\ e + s \in Nat
    BY <1>2, <1>3
  <2> QED
    BY <2>1, GivenDigits
<1>7. PICK i \in Int : At(a, s) = i * q
  <2>1. k <= e /\ k + s \in Nat /\ Power[k + s] = q
    BY <1>3
  <2> HIDE DEF k, q
  <2>2. \E i \in Int : At(a, s) = i * Power[k + s]
    BY <1>1, <1>6, <2>1
  <2> QED
    BY <2>1, <2>2
<1>8. Fits(v, s) /\ At(v, s) = i * q + n
  <2>1. DShift(u, k) \in Binary /\ Fits(DShift(u, k), s) /\ At(DShift(u, k), s) = n
    <3> HIDE DEF k
    <3> QED
      BY <1>1, <1>2, ShiftValue
  <2> DEFINE f == DShift(u, k)
  <2> HIDE DEF f
  <2>2. f \in Binary /\ Fits(f, s) /\ At(f, s) = n
    BY <2>1 DEF f
  <2>3. Fits(DPlus(a, f), s) /\ At(DPlus(a, f), s) = At(a, s) + At(f, s)
    BY <1>1, <1>2, <2>2, PlusValue
  <2> QED
    BY <1>7, <2>2, <2>3 DEF f
<1>9. w # 0 => Power[w - 1] * Power[e + s] = Power[w] * q
  <2> HAVE w # 0
  <2>1. w - 1 \in Nat /\ (w - 1) + 1 = w
    BY <1>6
  <2> DEFINE x == w - 1
  <2>2. Power[w] = 2 * Power[x] /\ Power[x] \in Int
    <3>1. w = x + 1 /\ x \in Nat
      BY <2>1
    <3> HIDE DEF x, w
    <3> QED
      BY <3>1, PowerNext, PowerIsPositive
  <2> DEFINE y == Power[x]
  <2>3. y \in Int /\ q \in Int
    BY <1>4, <2>2
  <2>4. y * (2 * q) = (2 * y) * q
    <3> HIDE DEF y, q
    <3> QED
      BY <2>3
  <2> QED
    BY <1>4, <2>2, <2>4
<1>10. /\ w \in Nat
       /\ (w = 0 /\ i * q = 0) \/ (w # 0 /\ Power[w] * q <= Abs(i * q))
  BY <1>6, <1>7, <1>9
<1>11. (e - 1) + s \in Nat /\ Fits(a, s) /\ Fits(c, s)
  BY <1>2, <1>3
<1> HIDE DEF q, n, w, v
<1>12. q \in Nat \ {0} /\ n \in Int /\ 0 < n /\ n < q
  BY <1>4, <1>5
<1>13. /\ Fits(a, s) /\ Fits(c, s) /\ Fits(v, s) /\ (e - 1) + s \in Nat
       /\ q \in Nat \ {0} /\ 0 < n /\ n < q
       /\ At(a, s) = i * q /\ At(v, s) = i * q + n
       /\ w \in Nat
       /\ (w = 0 /\ i * q = 0) \/ (w # 0 /\ Power[w] * q <= Abs(i * q))
  BY <1>7, <1>8, <1>10, <1>11, <1>12
<1> QED
  BY <1>12, <1>13 DEF q, w, v, k

LEMMA ConstrainedIsNonzero ==
  ASSUME NEW u, Normal(u), u.m > 0, Exponent2(u) <= 0, NEW a, Normal(a), NEW e \in Int, a.m = 0 \/ e <= a.e
  PROVE  LET v == DPlus(a, DShift(u, e - 1)) IN Normal(v) /\ v.m # 0 /\ DLeq(a, v)
<1> DEFINE v == DPlus(a, DShift(u, e - 1))
           w == Bits(a.m)
<1>1. PICK s \in Nat, i \in Int, n \in Int :
        LET q == Power[e - 1 + s]
        IN  /\ Fits(a, s) /\ Fits(a, s) /\ Fits(v, s) /\ (e - 1) + s \in Nat
            /\ q \in Nat \ {0} /\ 0 < n /\ n < q
            /\ At(a, s) = i * q /\ At(v, s) = i * q + n
            /\ w \in Nat
            /\ (w = 0 /\ i * q = 0) \/ (w # 0 /\ Power[w] * q <= Abs(i * q))
  BY ConstrainedAt
<1> DEFINE q == Power[e - 1 + s]
           k == i * q
<1>2. /\ Fits(a, s) /\ Fits(v, s) /\ q \in Nat \ {0} /\ 0 < n /\ n < q
      /\ At(a, s) = k /\ At(v, s) = k + n
      /\ w \in Nat
      /\ (w = 0 /\ k = 0) \/ (w # 0 /\ Power[w] * q <= Abs(k))
  BY <1>1
<1>3. Normal(v)
  <2>1. a \in Binary /\ DShift(u, e - 1) \in Binary
    BY ExponentType, ShiftValue
  <2> QED
    BY <2>1, PlusValue
<1>4. k \in Int
  BY <1>2, AtType
<1>5. k + n # 0
  <2>1. CASE k = 0
    BY <1>2, <2>1
  <2>2. CASE Power[w] * q <= Abs(k)
    <3> DEFINE p == Power[w]
    <3>1. p \in Nat \ {0}
      BY <1>2, PowerIsPositive
    <3> HIDE DEF p, q, k
    <3>2. 1 * q <= p * q /\ p * q \in Int
      BY <1>2, <3>1, Cancel
    <3>3. q <= Abs(k)
      BY <1>2, <1>4, <2>2, <3>2, AbsValue DEF p
    <3> QED
      BY <1>2, <1>4, <3>3 DEF Abs
  <2> QED
    BY <1>2, <2>1, <2>2
<1>6. v.m # 0
  <2> HIDE DEF v, k
  <2> QED
    BY <1>2, <1>5, AtType
<1>7. DLeq(a, v)
  <2>1. k <= k + n
    BY <1>2, <1>4
  <2> HIDE DEF v, k
  <2> QED
    BY <1>2, <2>1, OrderIs
<1> QED
  BY <1>3, <1>6, <1>7

LEMMA ConstrainedBelowGiven ==
  ASSUME NEW u, Normal(u), u.m > 0, Exponent2(u) <= 0, NEW a, Normal(a), NEW e \in Int, a.m = 0 \/ e <= a.e,
         NEW b \in Nat \ {0}, b <= Bits(a.m),
         NEW c, Short(c, b), DLeq(c, DPlus(a, DShift(u, e - 1)))
  PROVE  DLeq(c, a)
<1> DEFINE v == DPlus(a, DShift(u, e - 1))
           w == Bits(a.m)
<1>0. Normal(c)
  BY DEF Short
<1>1. PICK s \in Nat, i \in Int, n \in Int :
        LET q == Power[e - 1 + s]
        IN  /\ Fits(a, s) /\ Fits(c, s) /\ Fits(v, s) /\ (e - 1) + s \in Nat
            /\ q \in Nat \ {0} /\ 0 < n /\ n < q
            /\ At(a, s) = i * q /\ At(v, s) = i * q + n
            /\ w \in Nat
            /\ (w = 0 /\ i * q = 0) \/ (w # 0 /\ Power[w] * q <= Abs(i * q))
  BY <1>0, ConstrainedAt
<1> DEFINE q == Power[e - 1 + s]
           k == i * q
           y == At(c, s)
<1>2. /\ Fits(a, s) /\ Fits(c, s) /\ Fits(v, s) /\ q \in Nat \ {0} /\ 0 < n /\ n < q
      /\ At(a, s) = k /\ At(v, s) = k + n
      /\ w \in Nat /\ w # 0 /\ Power[w] * q <= Abs(k) /\ (e - 1) + s \in Nat
  <2>1. w # 0
    BY <1>1
  <2> QED
    BY <1>1, <2>1
<1>3. k \in Int /\ y \in Int
  BY <1>2, AtType
<1>4. y <= k + n
  <2>1. DLeq(c, v)
    OBVIOUS
  <2> HIDE DEF v, k
  <2> QED
    BY <1>2, <2>1, OrderIs
<1>5. SUFFICES ASSUME k < y
               PROVE  FALSE
  <2>1. DLeq(c, a) <=> y <= k
    BY <1>2, OrderIs
  <2> HIDE DEF k, y
  <2> QED
    BY <1>3, <2>1
<1>6. Power[b - 1] * q <= Abs(y)
  <2> DEFINE p == Power[b - 1]
             r == Power[w]
  <2>1. p \in Nat \ {0} /\ r \in Nat /\ 2 * p <= r
    <3>1. b - 1 \in Nat /\ b - 1 < w
      BY <1>2
    <3> HIDE DEF w
    <3> QED
      BY <1>2, <3>1, PowerGrows, PowerIsPositive
  <2> HIDE DEF p, r, q, k, y
  <2>2. (2 * p) * q <= r * q /\ 1 * q <= p * q
    BY <1>2, <2>1, Cancel
  <2>3. (2 * p) * q = 2 * (p * q) /\ p * q \in Int /\ r * q \in Int
    BY <1>2, <2>1
  <2>4. 2 * (p * q) <= Abs(k) /\ q <= p * q
    BY <1>2, <1>3, <2>2, <2>3, AbsValue DEF r
  <2> DEFINE x == p * q
  <2>5. x \in Int /\ 2 * x <= Abs(k) /\ q <= x
    BY <2>3, <2>4
  <2> HIDE DEF x
  <2>6. x <= Abs(y)
    BY <1>2, <1>3, <1>4, <1>5, <2>5 DEF Abs
  <2> QED
    BY <2>6 DEF x, p
<1>7. \E j \in Int : y = j * q
  <2>1. e - 1 \in Int /\ Fits(c, s) /\ (e - 1) + s \in Nat /\ Power[b - 1] * Power[(e - 1) + s] <= Abs(At(c, s))
    BY <1>2, <1>6
  <2> DEFINE g == e - 1
  <2> HIDE DEF g
  <2>2. \E j \in Int : At(c, s) = j * Power[g + s]
    BY <2>1, ShortGrid DEF g
  <2> QED
    BY <2>2 DEF g
<1>8. PICK j \in Int : y = j * q
  BY <1>7
<1> HIDE DEF q
<1>9. (j - i) * q = j * q - i * q /\ j - i \in Int
  BY <1>2
<1> DEFINE x == j - i
<1>10. x \in Int /\ 0 < x * q /\ x * q < q /\ x * q = y - k
  BY <1>2, <1>3, <1>4, <1>5, <1>8, <1>9
<1> HIDE DEF x
<1>11. 0 * q < x * q /\ x * q < 1 * q
  BY <1>2, <1>10
<1>12. 0 < x /\ x < 1
  BY <1>2, <1>10, <1>11, Cancel
<1> QED
  BY <1>10, <1>12

\* What constrained numbers are rounded from.
LEMMA ConstrainedSumIs ==
  ASSUME NEW u, Normal(u), u.m > 0, NEW a, Normal(a), NEW e \in Int, NEW h \in Nat \ {0}
  PROVE  LET v == DPlus(a, DShift(u, e - 1))
             y == DPlus(a, DShift(Digits(u, h), e - 1))
         IN  Normal(y) /\ Normal(v) /\ DLeq(y, v)
<1> DEFINE d == Digits(u, h)
           k == e - 1
           v == DPlus(a, DShift(u, k))
           y == DPlus(a, DShift(d, k))
<1>1. k \in Int /\ a \in Binary /\ u \in Binary /\ Normal(d) /\ d \in Binary /\ 0 \in Int
  BY ExponentType, DigitsAre DEF Short
<1>2. PICK s \in Nat : Fits(a, s) /\ s + k \in Nat /\ Fits(u, s + k) /\ Fits(d, s + k)
  <2> HIDE DEF d, k
  <2>0. Normal(d) /\ k \in Int
    BY <1>1
  <2>1. HasScale(a, a, u, d, k, k)
    BY <2>0, TwoScales
  <2> QED
    BY <2>1 DEF HasScale
<1> DEFINE t == s + k
<1>3. At(d, t) <= At(u, t) /\ At(d, t) \in Int /\ At(u, t) \in Int
  <2>1. Fits(u, t) /\ Fits(Digits(u, h), t)
    BY <1>2
  <2> HIDE DEF t
  <2> QED
    BY <2>1, LeadingDigits
<1>4. DShift(u, k) \in Binary /\ Fits(DShift(u, k), s) /\ At(DShift(u, k), s) = At(u, t)
  <2> HIDE DEF k, d
  <2> QED
    BY <1>1, <1>2, ShiftValue
<1>5. DShift(d, k) \in Binary /\ Fits(DShift(d, k), s) /\ At(DShift(d, k), s) = At(d, t)
  <2> HIDE DEF k, d
  <2> QED
    BY <1>1, <1>2, ShiftValue
<1> DEFINE f == DShift(u, k)
           j == DShift(d, k)
<1> HIDE DEF f, j
<1>6. f \in Binary /\ Fits(f, s) /\ At(f, s) = At(u, t) /\ j \in Binary /\ Fits(j, s) /\ At(j, s) = At(d, t)
  BY <1>4, <1>5 DEF f, j
<1>7. Fits(DPlus(a, f), s) /\ At(DPlus(a, f), s) = At(a, s) + At(u, t) /\ Normal(DPlus(a, f))
  BY <1>1, <1>2, <1>6, PlusValue
<1>8. Fits(DPlus(a, j), s) /\ At(DPlus(a, j), s) = At(a, s) + At(d, t) /\ Normal(DPlus(a, j))
  BY <1>1, <1>2, <1>6, PlusValue
<1>9. At(a, s) + At(d, t) <= At(a, s) + At(u, t)
  <2>1. At(a, s) \in Int
    BY <1>2, AtType
  <2> QED
    BY <1>3, <2>1
<1>10. DLeq(DPlus(a, j), DPlus(a, f))
  BY <1>7, <1>8, <1>9, OrderIs
<1> QED
  BY <1>7, <1>8, <1>10 DEF f, j

LEMMA ConstrainedIsFine ==
  ASSUME NEW r, IsConstrained(r), NEW p \in Nat \ {0}
  PROVE  Fine(ApproximateConstrained(r, p), Value(r), p) /\ ApproximateConstrained(r, p).m # 0
<1> DEFINE u == r.inner.value
           a == r.initial
           e == r.e
           v == DPlus(a, DShift(u, e - 1))
           b == p + 1
           h == p + 1 - Bits(a.m)
           sum == DPlus(a, DShift(Digits(u, h), e - 1))
           y == IF h > 0 THEN sum ELSE a
           approximation == RoundNear(y, b)
<1>1. Normal(u) /\ u.m > 0 /\ Exponent2(u) <= 0 /\ Normal(a) /\ e \in Int /\ (a.m = 0 \/ e <= a.e) /\ b \in Nat \ {0}
      /\ h \in Int /\ Bits(a.m) \in Nat /\ r.kind = "constrained"
  BY ExponentType DEF IsConstrained, IsRandom
<1>2. Value(r) = Only(v)
  BY <1>1 DEF Value, Only
<1>3. ApproximateConstrained(r, p) = approximation
  <2>1. (h - 1) + 1 = h
    BY <1>1
  <2> DEFINE z == IF h > 0 THEN DPlus(a, DShift(ApproximateRandom(r.inner, h - 1), e - 1)) ELSE a
  <2>2. ApproximateRandom(r.inner, h - 1) = Digits(u, h)
    BY <2>1 DEF ApproximateRandom
  <2>3. z = y
    BY <2>2
  <2>4. ApproximateConstrained(r, p) = RoundNear(z, p + 1)
    BY DEF ApproximateConstrained
  <2> HIDE DEF z, y
  <2> QED
    BY <2>3, <2>4
<1>4. Normal(v) /\ v.m # 0 /\ DLeq(a, v)
  <2> HIDE DEF a, u, e
  <2> QED
    BY <1>1, ConstrainedIsNonzero
<1>5. Normal(y) /\ DLeq(y, v)
  <2>1. CASE h > 0
    <3>1. h \in Nat \ {0}
      BY <1>1, <2>1
    <3> HIDE DEF a, u, e, h
    <3>2. Normal(sum) /\ DLeq(sum, v)
      BY <1>1, <3>1, ConstrainedSumIs
    <3> QED
      BY <2>1, <3>2
  <2>2. CASE ~ (h > 0)
    BY <1>1, <1>4, <2>2
  <2> QED
    BY <2>1, <2>2
<1>6. ASSUME NEW c, Short(c, b), DLeq(c, v)
      PROVE  DLeq(c, y)
  <2>1. CASE h > 0
    <3>1. h \in Nat \ {0} /\ h = b - Bits(a.m)
      BY <1>1, <2>1
    <3> HIDE DEF a, u, e, h, b
    <3>2. DLeq(c, sum)
      BY <1>1, <1>6, <3>1, ConstrainedBelow
    <3> QED
      BY <2>1, <3>2
  <2>2. CASE ~ (h > 0)
    <3>1. b <= Bits(a.m)
      BY <1>1, <2>2
    <3> HIDE DEF a, u, e, h, b
    <3>2. DLeq(c, a)
      BY <1>1, <1>6, <3>1, ConstrainedBelowGiven
    <3> QED
      BY <2>2, <3>2
  <2> QED
    BY <2>1, <2>2
<1> HIDE DEF y, v, b
<1>7. IsNearest(approximation, Only(y), b)
  BY <1>1, <1>5, RoundNearIs
<1>8. Short(approximation, b) /\ Normal(approximation) /\ Respects(approximation, Only(y), b)
  <2>1. IsValue(Only(y))
    BY <1>5, OnlyIs
  <2> QED
    BY <1>7, <2>1, NearestRespects DEF IsNearest, Short
<1> HIDE DEF approximation
<1>9. Respects(approximation, Only(v), b)
  <2> SUFFICES ASSUME NEW c, Short(c, b)
               PROVE  /\ Below(c, Only(v)) => DLeq(c, approximation)
                      /\ Above(c, Only(v)) => DLeq(approximation, c)
    BY DEF Respects
  <2>0. Normal(c)
    BY DEF Short
  <2>1. Below(c, Only(v)) => DLeq(c, approximation)
    <3> HAVE Below(c, Only(v))
    <3>1. DLeq(c, v)
      BY <1>4, <2>0, BelowOnly
    <3>2. Below(c, Only(y))
      BY <1>5, <1>6, <2>0, <3>1, BelowOnly
    <3> QED
      BY <1>8, <3>2 DEF Respects
  <2>2. Above(c, Only(v)) => DLeq(approximation, c)
    <3> HAVE Above(c, Only(v))
    <3>1. DLeq(v, c)
      BY <1>4, <2>0, BelowOnly
    <3>2. DLeq(y, c)
      BY <1>4, <1>5, <2>0, <3>1, LeqIsTransitive
    <3>3. Above(c, Only(y))
      BY <1>5, <2>0, <3>2, BelowOnly
    <3> QED
      BY <1>8, <3>3 DEF Respects
  <2> QED
    BY <2>1, <2>2
<1>10. IsValue(Only(v)) /\ Only(v).num.m # 0
  BY <1>4, OnlyIs
<1> DEFINE w == Only(v)
<1> HIDE DEF w
<1>11. Fine(approximation, w, p) /\ approximation.m # 0
  BY <1>8, <1>9, <1>10, FineByRespect DEF b, w
<1> QED
  BY <1>2, <1>3, <1>11 DEF w

\* What the proofs need to know of a number: the numbers that are no products have it.
Approximable(r) ==
  /\ IsValue(Value(r))
  /\ \A p \in Nat \ {0} : /\ Fine(Approximate(r, p), Value(r), p)
                          /\ r # Rational(0, 1) => Approximate(r, p).m # 0

LEMMA RandomIsApproximable ==
  ASSUME NEW r, IsRandom(r)
  PROVE  Approximable(r)
<1>1. r.kind = "random" /\ Normal(r.value) /\ r.value.m > 0
  BY DEF IsRandom
<1>2. Value(r) = Only(r.value) /\ IsValue(Value(r))
  BY <1>1, OnlyIs DEF Value, Only
<1>3. ASSUME NEW p \in Nat \ {0}
      PROVE  Fine(Approximate(r, p), Value(r), p) /\ Approximate(r, p).m # 0
  <2>1. Approximate(r, p) = Digits(r.value, p + 1)
    BY <1>1 DEF Approximate, ApproximateRandom
  <2> QED
    BY <1>1, <1>2, <2>1, RandomIsFine
<1> QED
  BY <1>2, <1>3 DEF Approximable

LEMMA RationalIsApproximable ==
  ASSUME NEW r, IsRational(r)
  PROVE  Approximable(r)
<1>1. r.kind = "rational" /\ r.num \in Int /\ r.den \in Nat \ {0} /\ r = Rational(r.num, r.den)
      /\ \A d \in 1 .. r.den - 1 : (r.num * d) % r.den # 0
  BY DEF IsRational
<1>2. Value(r) = Fraction(r.num, r.den) /\ IsValue(Value(r))
  BY <1>1, FractionIs DEF Value, Fraction
<1>3. r.num = 0 => r = Rational(0, 1)
  <2> HAVE r.num = 0
  <2>1. r.den = 1
    <3> SUFFICES ASSUME r.den # 1
                 PROVE  FALSE
      OBVIOUS
    <3>1. 1 \in 1 .. r.den - 1 /\ (r.num * 1) % r.den = 0
      BY <1>1
    <3> QED
      BY <1>1, <3>1
  <2> QED
    BY <1>1, <2>1
<1>4. ASSUME NEW p \in Nat \ {0}
      PROVE  Fine(Approximate(r, p), Value(r), p) /\ (r.num # 0 => Approximate(r, p).m # 0)
  <2>1. Approximate(r, p) = RoundQuotient(r.num, r.den, p)
    BY <1>1 DEF Approximate, ApproximateRational
  <2> DEFINE n == r.num
             d == r.den
  <2>2. n \in Int /\ d \in Nat \ {0}
    BY <1>1
  <2> HIDE DEF n, d
  <2>3. Fine(RoundQuotient(n, d, p), Fraction(n, d), p) /\ (n # 0 => RoundQuotient(n, d, p).m # 0)
    BY <2>2, RationalIsFine
  <2> QED
    BY <1>2, <2>1, <2>3 DEF n, d
<1> QED
  BY <1>2, <1>3, <1>4 DEF Approximable

LEMMA ConstrainedIsApproximable ==
  ASSUME NEW r, IsConstrained(r)
  PROVE  Approximable(r)
<1>1. r.kind = "constrained"
  BY DEF IsConstrained
<1>2. IsValue(Value(r))
  <2>1. Normal(r.initial) /\ Normal(r.inner.value) /\ r.e \in Int
    BY DEF IsConstrained, IsRandom
  <2> DEFINE k == r.e - 1
             f == DShift(r.inner.value, k)
  <2>2. k \in Int
    BY <2>1
  <2>3. f \in Binary
    <3> HIDE DEF k
    <3> QED
      BY <2>1, <2>2, ShiftValue
  <2> HIDE DEF f
  <2>4. Normal(DPlus(r.initial, f))
    BY <2>1, <2>3, ExponentType, PlusValue
  <2> QED
    BY <1>1, <2>4 DEF Value, IsValue, f
<1>3. ASSUME NEW p \in Nat \ {0}
      PROVE  Fine(Approximate(r, p), Value(r), p) /\ Approximate(r, p).m # 0
  <2>1. Approximate(r, p) = ApproximateConstrained(r, p)
    BY <1>1 DEF Approximate
  <2> QED
    BY <2>1, ConstrainedIsFine
<1> QED
  BY <1>2, <1>3 DEF Approximable

LEMMA NumberIsApproximable ==
  ASSUME NEW r, IsNumber(r), r.kind # "product"
  PROVE  Approximable(r)
<1>1. IsRandom(r) \/ IsRational(r) \/ IsConstrained(r)
  BY DEF IsNumber, IsProduct
<1> QED
  BY <1>1, RandomIsApproximable, RationalIsApproximable, ConstrainedIsApproximable

-----------------------------------------------------------------------------
(* The balls that refine puts around approximations. *)

BallAround(a, p) == Ball(a, Radius(a, p))

LEMMA UnitIs ==
  ASSUME NEW x, x \in Int
  PROVE  /\ Dyadic(1, x).m = 1 /\ Dyadic(1, x).e = x /\ Exponent2(Dyadic(1, x)) = x + 1
         /\ Normal(Dyadic(1, x)) /\ Dyadic(1, x) \in Binary
<1> DEFINE a == [m |-> 1, e |-> x]
<1>1. a \in Binary /\ a.m = 1 /\ a.e = x
  BY DEF Binary
<1>2. Normalized[a] = [m |-> 1 \div Power[Zeros[1]], e |-> x + Zeros[1]]
  <2>1. Abs(1) = 1
    BY DEF Abs
  <2> HIDE DEF a
  <2>2. Normalized[a] = [m |-> a.m \div Power[Zeros[Abs(a.m)]], e |-> a.e + Zeros[Abs(a.m)]]
    BY <1>1 DEF Normalized
  <2> QED
    BY <1>1, <2>1, <2>2
<1>3. Zeros[1] = 0 /\ Power[0] = 1
  BY ZerosValue, PowerNext DEF ZerosIf
<1>4. 1 \div 1 = 1 /\ x + 0 = x
  OBVIOUS
<1>5. Dyadic(1, x) = a
  BY <1>2, <1>3, <1>4 DEF Dyadic
<1>6. Bits(1) = 1
  <2>1. Abs(1) = 1 /\ 1 \div 2 = 0
    BY DEF Abs
  <2>2. Width[1] = Width[0] + 1
    BY <2>1, WidthValue DEF WidthIf
  <2> QED
    BY <2>1, <2>2, WidthOfZero DEF Bits
<1>7. Normal(a)
  BY <1>1 DEF Normal
<1> QED
  BY <1>1, <1>5, <1>6, <1>7 DEF Exponent2

LEMMA BallIs ==
  ASSUME NEW a, Normal(a), NEW p \in Int
  PROVE  LET b == BallAround(a, p)
         IN  /\ b.mid = a /\ b.rad = Radius(a, p) /\ b.whole = FALSE
             /\ b.rad.m = 1 /\ Normal(b.rad) /\ b.rad \in Binary /\ a \in Binary
             /\ Accuracy(b) = p
             /\ Normal(Lower(b)) /\ Normal(Upper(b))
<1> DEFINE x == Exponent2(a) - p - 2
           b == BallAround(a, p)
<1>1. x \in Int /\ Exponent2(a) \in Int /\ a \in Binary
  BY ExponentType
<1>2. b.mid = a /\ b.rad = Radius(a, p) /\ b.whole = FALSE
  BY DEF BallAround, Ball
<1>3. Radius(a, p).m = 1 /\ Exponent2(Radius(a, p)) = x + 1 /\ Normal(Radius(a, p)) /\ Radius(a, p) \in Binary
  <2>1. Radius(a, p) = Dyadic(1, x)
    BY DEF Radius
  <2> HIDE DEF x
  <2> QED
    BY <1>1, <2>1, UnitIs
<1>4. Accuracy(b) = p
  <2> HIDE DEF b
  <2> QED
    BY <1>1, <1>2, <1>3 DEF Accuracy
<1>5. Normal(Lower(b)) /\ Normal(Upper(b))
  <2> HIDE DEF b
  <2> QED
    BY <1>1, <1>2, <1>3, PlusValue, MinusValue DEF Lower, Upper
<1> HIDE DEF b
<1> QED
  BY <1>1, <1>2, <1>3, <1>4, <1>5 DEF b

LEMMA LessOrLeq ==
  ASSUME NEW a, NEW b, Normal(a), Normal(b)
  PROVE  DLess(a, b) <=> ~ DLeq(b, a)
<1>1. PICK s \in Nat : Fits(a, s) /\ Fits(b, s)
  BY CommonScale
<1>2. At(a, s) \in Int /\ At(b, s) \in Int
  BY <1>1, AtType
<1> QED
  BY <1>1, <1>2, OrderIs

\* cmp only finds a number outside of a ball when the rounded ends of the ball say so.
LEMMA CmpWithin ==
  ASSUME NEW r, Approximable(r), NEW b, Normal(Lower(b)), Normal(Upper(b)), Accuracy(b) \in Nat \ {0},
         Below(Round(Lower(b), Accuracy(b), Down), Value(r)),
         Above(Round(Upper(b), Accuracy(b), Up), Value(r))
  PROVE  Cmp(r, b) = 0
<1> DEFINE low == Round(Lower(b), Accuracy(b), Down)
           high == Round(Upper(b), Accuracy(b), Up)
           bits == IF Bits(low.m) < Bits(high.m) THEN Bits(high.m) ELSE Bits(low.m)
           approximation == Approximate(r, bits + 1)
<1>1. Normal(low) /\ Normal(high)
  <2>1. Short(low, Accuracy(b))
    BY RoundDownIs
  <2>2. Short(high, Accuracy(b))
    BY RoundUpIs
  <2> HIDE DEF low, high
  <2> QED
    BY <2>1, <2>2 DEF Short
<1>2. Cmp(r, b) = IF DLess(approximation, low) THEN -1 ELSE IF DLess(high, approximation) THEN 1 ELSE 0
  BY DEF Cmp
<1>3. Below(low, Value(r)) /\ Above(high, Value(r))
  OBVIOUS
<1> HIDE DEF low, high
<1>4. bits \in Nat /\ Bits(low.m) <= bits + 1 /\ Bits(high.m) <= bits + 1 /\ bits + 1 \in Nat \ {0}
  <2>1. Bits(low.m) \in Nat /\ Bits(high.m) \in Nat
    BY <1>1, ExponentType
  <2> DEFINE x == Bits(low.m)
             y == Bits(high.m)
  <2> HIDE DEF x, y
  <2>2. x \in Nat /\ y \in Nat
    BY <2>1 DEF x, y
  <2> DEFINE z == IF x < y THEN y ELSE x
  <2>3. z \in Nat /\ x <= z + 1 /\ y <= z + 1 /\ z + 1 \in Nat \ {0}
    BY <2>2
  <2> QED
    BY <2>3 DEF x, y
<1>5. Short(low, bits + 1) /\ Short(high, bits + 1)
  BY <1>1, <1>4 DEF Short
<1>6. Respects(approximation, Value(r), bits + 1) /\ Normal(approximation)
  <2> DEFINE p == bits + 1
  <2>1. p \in Nat \ {0}
    BY <1>4
  <2> HIDE DEF p
  <2>2. Fine(Approximate(r, p), Value(r), p)
    BY <2>1 DEF Approximable
  <2>3. Respects(Approximate(r, p), Value(r), p) /\ Normal(Approximate(r, p))
    BY <2>2 DEF Fine, Short
  <2> QED
    BY <2>3 DEF p
<1> HIDE DEF approximation, bits
<1>7. DLeq(low, approximation) /\ DLeq(approximation, high)
  BY <1>3, <1>5, <1>6 DEF Respects
<1> QED
  BY <1>1, <1>2, <1>6, <1>7, LessOrLeq

\* The ends of a ball around an approximation are on both sides of it.
LEMMA EndsAre ==
  ASSUME NEW a, Normal(a), NEW p \in Int
  PROVE  LET b == BallAround(a, p) IN ~ DLeq(a, Lower(b)) /\ ~ DLeq(Upper(b), a)
<1> DEFINE b == BallAround(a, p)
           d == b.rad
<1>1. b.mid = a /\ d.m = 1 /\ Normal(d) /\ a \in Binary /\ d \in Binary
  BY BallIs
<1> HIDE DEF b, d
<1>2. PICK s \in Nat : Fits(a, s) /\ Fits(d, s)
  BY <1>1, CommonScale
<1>3. At(a, s) \in Int /\ At(d, s) \in Int /\ At(d, s) > 0
  BY <1>1, <1>2, AtType
<1>4. /\ Fits(DMinus(a, d), s) /\ At(DMinus(a, d), s) = At(a, s) - At(d, s)
      /\ Fits(DPlus(a, d), s) /\ At(DPlus(a, d), s) = At(a, s) + At(d, s)
  BY <1>1, <1>2, PlusValue, MinusValue
<1>5. ~ DLeq(a, DMinus(a, d)) /\ ~ DLeq(DPlus(a, d), a)
  <2>1. DLeq(a, DMinus(a, d)) <=> At(a, s) <= At(DMinus(a, d), s)
    BY <1>2, <1>4, OrderIs
  <2>2. DLeq(DPlus(a, d), a) <=> At(DPlus(a, d), s) <= At(a, s)
    BY <1>2, <1>4, OrderIs
  <2> QED
    BY <1>3, <1>4, <2>1, <2>2
<1>6. Lower(b) = DMinus(a, d) /\ Upper(b) = DPlus(a, d)
  BY <1>1 DEF Lower, Upper, d
<1> QED
  BY <1>5, <1>6 DEF b

\* The assertion at the end of refine.
LEMMA CmpFindsRefined ==
  ASSUME NEW r, Approximable(r), NEW p \in Nat \ {0}
  PROVE  Cmp(r, BallAround(Approximate(r, p), p)) = 0
<1> DEFINE a == Approximate(r, p)
           b == BallAround(a, p)
           v == Value(r)
           low == Round(Lower(b), p, Down)
           high == Round(Upper(b), p, Up)
<1>1. Fine(a, v, p) /\ IsValue(v)
  BY DEF Approximable
<1>2. Normal(a) /\ Respects(a, v, p)
  BY <1>1 DEF Fine, Short
<1> HIDE DEF a
<1>3. Accuracy(b) = p /\ Normal(Lower(b)) /\ Normal(Upper(b)) /\ ~ DLeq(a, Lower(b)) /\ ~ DLeq(Upper(b), a)
  <2>1. p \in Int
    OBVIOUS
  <2> QED
    BY <1>2, <2>1, BallIs, EndsAre
<1> HIDE DEF b
<1>4. Short(low, p) /\ DLeq(low, Lower(b)) /\ Short(high, p) /\ DLeq(Upper(b), high)
  BY <1>3, RoundDownIs, RoundUpIs
<1> HIDE DEF low, high, v
<1>5. Normal(low) /\ Normal(high)
  BY <1>4 DEF Short
<1>6. ~ DLeq(a, low) /\ ~ DLeq(high, a)
  BY <1>2, <1>3, <1>4, <1>5, LeqIsTransitive
<1>7. Below(low, v) /\ Above(high, v)
  BY <1>1, <1>2, <1>4, <1>5, <1>6, OrderIsTotal DEF Respects
<1>8. Cmp(r, b) = 0
  BY <1>3, <1>7, CmpWithin DEF low, high, v
<1> QED
  BY <1>8 DEF b, a

\* A number in a ball is between the ends of the ball.
LEMMA CoveredIs ==
  ASSUME NEW r, Approximable(r), NEW b, Normal(b.mid), Normal(b.rad), b.whole = FALSE, Covers(b, r)
  PROVE  Below(Lower(b), Value(r)) /\ Above(Upper(b), Value(r))
<1> DEFINE v == Value(r)
           c == b.mid
           d == b.rad
           k == v.den
<1>1. IsValue(v) /\ c \in Binary /\ d \in Binary
  BY ExponentType DEF Approximable
<1>2. DLeq(Distance(c, v), DTimes(d, Int2Dyadic(k)))
  BY DEF Covers, Distance, Only
<1> HIDE DEF v
<1>3. PICK s \in Nat : Fits(c, s) /\ Fits(d, s) /\ Fits(v.num, s)
  BY <1>1, CommonScale DEF IsValue
<1>4. k \in Int /\ At(c, s) \in Int /\ At(d, s) \in Int /\ At(v.num, s) \in Int
  BY <1>1, <1>3, AtType DEF IsValue
<1>5. Fits(Distance(c, v), s) /\ At(Distance(c, v), s) = Abs(At(v.num, s) - At(c, s) * k)
  BY <1>1, <1>3, RelationsAt
<1>6. Fits(DTimes(d, Int2Dyadic(k)), s) /\ At(DTimes(d, Int2Dyadic(k)), s) = At(d, s) * k
  BY <1>1, <1>3, <1>4, MultipleValue
<1>7. Abs(At(v.num, s) - At(c, s) * k) <= At(d, s) * k
  BY <1>2, <1>5, <1>6, OrderIs
<1>8. /\ Fits(Lower(b), s) /\ At(Lower(b), s) = At(c, s) - At(d, s) /\ Normal(Lower(b))
      /\ Fits(Upper(b), s) /\ At(Upper(b), s) = At(c, s) + At(d, s) /\ Normal(Upper(b))
  BY <1>1, <1>3, PlusValue, MinusValue DEF Lower, Upper
<1> DEFINE n == At(v.num, s)
           x == At(c, s)
           y == At(d, s)
<1>9. (x - y) * k <= n /\ n <= (x + y) * k
  <2>1. Abs(n - x * k) <= y * k /\ n \in Int /\ x \in Int /\ y \in Int
    BY <1>4, <1>7
  <2> HIDE DEF n, x, y, k
  <2>2. (x - y) * k = x * k - y * k /\ (x + y) * k = x * k + y * k /\ x * k \in Int /\ y * k \in Int
    BY <1>4, <2>1
  <2> DEFINE z == x * k
             w == y * k
  <2>3. z \in Int /\ w \in Int /\ Abs(n - z) <= w /\ (x - y) * k = z - w /\ (x + y) * k = z + w
    BY <2>1, <2>2
  <2> HIDE DEF z, w
  <2> QED
    BY <2>1, <2>3 DEF Abs
<1>10. Below(Lower(b), v) <=> At(Lower(b), s) * v.den <= At(v.num, s)
  BY <1>1, <1>3, <1>8, RelationsAt
<1>11. Above(Upper(b), v) <=> At(v.num, s) <= At(Upper(b), s) * v.den
  BY <1>1, <1>3, <1>8, RelationsAt
<1> QED
  BY <1>8, <1>9, <1>10, <1>11 DEF v

LEMMA CmpFindsCovered ==
  ASSUME NEW r, Approximable(r), NEW b, Normal(b.mid), Normal(b.rad), b.whole = FALSE, Accuracy(b) \in Nat \ {0},
         Covers(b, r)
  PROVE  Cmp(r, b) = 0
<1> DEFINE v == Value(r)
           p == Accuracy(b)
           low == Round(Lower(b), p, Down)
           high == Round(Upper(b), p, Up)
<1>1. Normal(Lower(b)) /\ Normal(Upper(b)) /\ Below(Lower(b), v) /\ Above(Upper(b), v) /\ IsValue(v)
  BY ExponentType, CoveredIs, PlusValue, MinusValue DEF Lower, Upper, Approximable
<1>2. Short(low, p) /\ DLeq(low, Lower(b)) /\ Short(high, p) /\ DLeq(Upper(b), high)
  BY <1>1, RoundDownIs, RoundUpIs
<1> HIDE DEF low, high, v
<1>3. Normal(low) /\ Normal(high)
  BY <1>2 DEF Short
<1>4. Below(low, v) /\ Above(high, v)
  BY <1>1, <1>2, <1>3, OrderIsTransitive
<1> QED
  BY <1>1, <1>4, CmpWithin DEF low, high, v

-----------------------------------------------------------------------------
(* Refining and comparing balls. *)

RefinedBall(r, p) == BallAround(Approximate(r, p), p)

LEMMA RefinedBallIs ==
  ASSUME NEW r, Approximable(r), NEW p \in Nat \ {0}
  PROVE  LET a == Approximate(r, p)
             b == RefinedBall(r, p)
         IN  /\ Normal(a) /\ a \in Binary /\ b.mid = a /\ b.rad = Radius(a, p) /\ b.whole = FALSE
             /\ b.rad.m = 1 /\ Normal(b.rad) /\ b.rad \in Binary
             /\ Accuracy(b) = p
             /\ Normal(Lower(b)) /\ Normal(Upper(b))
             /\ r # Rational(0, 1) => a.m # 0
             /\ Fine(a, Value(r), p) /\ IsValue(Value(r))
<1>1. Fine(Approximate(r, p), Value(r), p) /\ IsValue(Value(r)) /\ (r # Rational(0, 1) => Approximate(r, p).m # 0)
  BY DEF Approximable
<1>2. Normal(Approximate(r, p)) /\ p \in Int
  BY <1>1 DEF Fine, Short
<1> QED
  BY <1>1, <1>2, BallIs DEF RefinedBall

LEMMA RefinedAccuracy ==
  ASSUME NEW r, Approximable(r), NEW p \in Nat \ {0}, NEW q \in Nat \ {0}
  PROVE  /\ HasAccuracy(RefinedBall(r, p), q) => q <= p
         /\ r # Rational(0, 1) /\ q <= p => HasAccuracy(RefinedBall(r, p), q)
<1> DEFINE b == RefinedBall(r, p)
           a == Approximate(r, p)
<1>1. b.mid = a /\ b.whole = FALSE /\ Accuracy(b) = p /\ (r # Rational(0, 1) => a.m # 0)
  BY RefinedBallIs
<1> HIDE DEF b, a
<1>2. HasAccuracy(b, q) <=> a.m # 0 /\ p >= q
  BY <1>1 DEF HasAccuracy
<1> QED
  BY <1>1, <1>2 DEF b

LEMMA RefineIs ==
  ASSUME NEW r, NEW b, NEW p \in Nat \ {0}
  PROVE  /\ HasAccuracy(b, p) => Refine(r, b, p) = b
         /\ ~ HasAccuracy(b, p) => Refine(r, b, p) = RefinedBall(r, p)
         /\ Refine(r, Whole, p) = RefinedBall(r, p)
<1>1. ~ HasAccuracy(Whole, p)
  BY DEF HasAccuracy, Whole
<1> QED
  BY <1>1 DEF Refine, RefinedBall, BallAround, Radius

\* The ends of a ball, from its midpoint and its radius.
LEMMA EndsAt ==
  ASSUME NEW b, b.mid \in Binary, b.rad \in Binary, NEW s, Fits(b.mid, s), Fits(b.rad, s)
  PROVE  /\ Fits(Lower(b), s) /\ At(Lower(b), s) = At(b.mid, s) - At(b.rad, s) /\ Normal(Lower(b))
         /\ Fits(Upper(b), s) /\ At(Upper(b), s) = At(b.mid, s) + At(b.rad, s) /\ Normal(Upper(b))
         /\ At(b.mid, s) \in Int /\ At(b.rad, s) \in Int
BY PlusValue, MinusValue, AtType DEF Lower, Upper

Overlap(b, c) == DLeq(Lower(b), Upper(c)) /\ DLeq(Lower(c), Upper(b))

LEMMA OverlapIs ==
  ASSUME NEW b, NEW c, Normal(Lower(b)), Normal(Upper(b)), Normal(Lower(c)), Normal(Upper(c))
  PROVE  ~ CertainlyLess(b, c) /\ ~ CertainlyNotLess(b, c) => Overlap(b, c)
<1> DEFINE u == Lower(b)
           v == Upper(b)
           w == Lower(c)
           z == Upper(c)
<1>1. CertainlyLess(b, c) <=> DLess(v, w)
  BY DEF CertainlyLess
<1>2. CertainlyNotLess(b, c) <=> DLeq(z, u)
  BY DEF CertainlyNotLess
<1>3. Overlap(b, c) <=> DLeq(u, z) /\ DLeq(w, v)
  BY DEF Overlap
<1>4. Normal(u) /\ Normal(v) /\ Normal(w) /\ Normal(z)
  OBVIOUS
<1> HIDE DEF u, v, w, z
<1>5. PICK s \in Nat : Fits(u, s) /\ Fits(v, s) /\ Fits(w, s) /\ Fits(z, s)
  BY <1>4, CommonScale
<1>6. /\ DLess(v, w) <=> At(v, s) < At(w, s)
      /\ DLeq(z, u) <=> At(z, s) <= At(u, s)
      /\ DLeq(u, z) <=> At(u, s) <= At(z, s)
      /\ DLeq(w, v) <=> At(w, s) <= At(v, s)
  BY <1>5, OrderIs
<1>7. At(u, s) \in Int /\ At(v, s) \in Int /\ At(w, s) \in Int /\ At(z, s) \in Int
  BY <1>5, AtType
<1> QED
  BY <1>1, <1>2, <1>3, <1>6, <1>7

\* Balls that are apart have midpoints in this order.
LEMMA ApartIs ==
  ASSUME NEW a, NEW c, Normal(a), Normal(c), NEW p \in Int
  PROVE  /\ CertainlyLess(BallAround(a, p), BallAround(c, p)) => ~ DLeq(c, a)
         /\ CertainlyNotLess(BallAround(a, p), BallAround(c, p)) => ~ DLeq(a, c)
<1> DEFINE b == BallAround(a, p)
           d == BallAround(c, p)
<1>1. /\ b.mid = a /\ b.rad.m = 1 /\ Normal(b.rad) /\ b.rad \in Binary /\ a \in Binary
      /\ d.mid = c /\ d.rad.m = 1 /\ Normal(d.rad) /\ d.rad \in Binary /\ c \in Binary
  BY BallIs
<1> HIDE DEF b, d
<1>2. PICK s \in Nat : Fits(a, s) /\ Fits(b.rad, s) /\ Fits(c, s) /\ Fits(d.rad, s)
  BY <1>1, CommonScale
<1>3. /\ Fits(Lower(b), s) /\ At(Lower(b), s) = At(a, s) - At(b.rad, s)
      /\ Fits(Upper(b), s) /\ At(Upper(b), s) = At(a, s) + At(b.rad, s)
  BY <1>1, <1>2, EndsAt
<1>4. /\ Fits(Lower(d), s) /\ At(Lower(d), s) = At(c, s) - At(d.rad, s)
      /\ Fits(Upper(d), s) /\ At(Upper(d), s) = At(c, s) + At(d.rad, s)
  BY <1>1, <1>2, EndsAt
<1>5. /\ At(a, s) \in Int /\ At(c, s) \in Int /\ At(b.rad, s) \in Int /\ At(d.rad, s) \in Int
      /\ At(b.rad, s) > 0 /\ At(d.rad, s) > 0
  BY <1>1, <1>2, AtType
<1>6. CertainlyLess(b, d) <=> At(Upper(b), s) < At(Lower(d), s)
  BY <1>3, <1>4, OrderIs DEF CertainlyLess
<1>7. CertainlyNotLess(b, d) <=> At(Upper(d), s) <= At(Lower(b), s)
  BY <1>3, <1>4, OrderIs DEF CertainlyNotLess
<1>8. (DLeq(c, a) <=> At(c, s) <= At(a, s)) /\ (DLeq(a, c) <=> At(a, s) <= At(c, s))
  BY <1>2, OrderIs
<1>9. CertainlyLess(b, d) => ~ DLeq(c, a)
  BY <1>3, <1>4, <1>5, <1>6, <1>8
<1>10. CertainlyNotLess(b, d) => ~ DLeq(a, c)
  BY <1>3, <1>4, <1>5, <1>7, <1>8
<1> QED
  BY <1>9, <1>10 DEF b, d

\* The order of two values.
LEMMA DifferenceAt ==
  ASSUME NEW v, NEW w, IsValue(v), IsValue(w)
  PROVE  \E s \in Nat : /\ Fits(v.num, s) /\ Fits(w.num, s) /\ At(v.num, s) \in Int /\ At(w.num, s) \in Int
                        /\ At(v.num, s) * w.den \in Int /\ At(w.num, s) * v.den \in Int
                        /\ Difference(v, w).m < 0 <=> At(v.num, s) * w.den < At(w.num, s) * v.den
                        /\ Difference(v, w).m = 0 <=> At(v.num, s) * w.den = At(w.num, s) * v.den
                        /\ Difference(v, w).m > 0 <=> At(v.num, s) * w.den > At(w.num, s) * v.den
                        /\ Difference(v, w).m \in Int
<1>1. PICK s \in Nat : Fits(v.num, s) /\ Fits(w.num, s)
  BY CommonScale DEF IsValue
<1>2. /\ Fits(Difference(v, w), s)
      /\ At(Difference(v, w), s) = At(v.num, s) * w.den - At(w.num, s) * v.den
      /\ At(v.num, s) * w.den \in Int /\ At(w.num, s) * v.den \in Int
  BY <1>1, DifferenceIs
<1>3. /\ At(Difference(v, w), s) < 0 <=> Difference(v, w).m < 0
      /\ At(Difference(v, w), s) = 0 <=> Difference(v, w).m = 0
      /\ At(Difference(v, w), s) > 0 <=> Difference(v, w).m > 0
      /\ Difference(v, w).m \in Int
  BY <1>2, AtType
<1>4. At(v.num, s) \in Int /\ At(w.num, s) \in Int
  BY <1>1, AtType
<1> DEFINE y == At(v.num, s) * w.den
           z == At(w.num, s) * v.den
<1>5. y \in Int /\ z \in Int /\ At(Difference(v, w), s) = y - z
  BY <1>2
<1> HIDE DEF y, z
<1>6. /\ Difference(v, w).m < 0 <=> y < z
      /\ Difference(v, w).m = 0 <=> y = z
      /\ Difference(v, w).m > 0 <=> y > z
  BY <1>3, <1>5
<1> QED
  BY <1>1, <1>2, <1>3, <1>4, <1>6 DEF y, z

LEMMA DifferenceFlips ==
  ASSUME NEW v, NEW w, IsValue(v), IsValue(w)
  PROVE  /\ Difference(v, w).m \in Int /\ Difference(w, v).m \in Int
         /\ Difference(v, w).m < 0 <=> Difference(w, v).m > 0
         /\ Difference(v, w).m = 0 <=> Difference(w, v).m = 0
         /\ Difference(v, v).m = 0
<1>1. PICK s \in Nat : Fits(v.num, s) /\ Fits(w.num, s)
  BY CommonScale DEF IsValue
<1> DEFINE y == At(v.num, s) * w.den
           z == At(w.num, s) * v.den
<1>2. /\ Fits(Difference(v, w), s) /\ At(Difference(v, w), s) = y - z
      /\ Fits(Difference(w, v), s) /\ At(Difference(w, v), s) = z - y
      /\ y \in Int /\ z \in Int
  BY <1>1, DifferenceIs
<1>3. Fits(Difference(v, v), s) /\ At(Difference(v, v), s) = 0
  <2>1. /\ Fits(Difference(v, v), s) /\ At(Difference(v, v), s) = At(v.num, s) * v.den - At(v.num, s) * v.den
        /\ At(v.num, s) * v.den \in Int
    BY <1>1, DifferenceIs
  <2> DEFINE u == At(v.num, s) * v.den
  <2>2. u \in Int /\ At(Difference(v, v), s) = u - u
    BY <2>1
  <2> HIDE DEF u
  <2> QED
    BY <2>1, <2>2
<1> HIDE DEF y, z
<1>4. /\ At(Difference(v, w), s) < 0 <=> Difference(v, w).m < 0
      /\ At(Difference(v, w), s) = 0 <=> Difference(v, w).m = 0
      /\ Difference(v, w).m \in Int
      /\ At(Difference(w, v), s) > 0 <=> Difference(w, v).m > 0
      /\ At(Difference(w, v), s) = 0 <=> Difference(w, v).m = 0
      /\ Difference(w, v).m \in Int
  BY <1>2, AtType
<1>5. Difference(v, v).m = 0
  BY <1>3, AtType
<1> QED
  BY <1>2, <1>4, <1>5

\* Rounding is monotonic for random numbers and for rational numbers.
LEMMA RandomIsMonotonic ==
  ASSUME NEW r, NEW t, IsRandom(r), IsRandom(t), Difference(Value(r), Value(t)).m <= 0, NEW p \in Nat \ {0}
  PROVE  DLeq(Approximate(r, p), Approximate(t, p))
<1>1. /\ r.kind = "random" /\ Normal(r.value) /\ r.value.m > 0
      /\ t.kind = "random" /\ Normal(t.value) /\ t.value.m > 0
  BY DEF IsRandom
<1>2. Value(r) = Only(r.value) /\ Value(t) = Only(t.value)
  BY <1>1 DEF Value, Only
<1> DEFINE a == Digits(r.value, p + 1)
           c == Digits(t.value, p + 1)
           u == r.value
           w == t.value
<1>3. Approximate(r, p) = a /\ Approximate(t, p) = c /\ p + 1 \in Nat \ {0}
  BY <1>1 DEF Approximate, ApproximateRandom
<1>4. Short(a, p + 1) /\ Below(a, Only(u)) /\ Respects(c, Only(w), p + 1)
  BY <1>1, <1>3, DigitsAre
<1> HIDE DEF a, c, u, w
<1>5. Normal(a) /\ Normal(u) /\ Normal(w)
  BY <1>1, <1>4 DEF Short, u, w
<1>6. DLeq(a, u)
  BY <1>4, <1>5, BelowOnly
<1>7. DLeq(u, w)
  <2>1. Difference(Only(w), Only(u)).m >= 0
    <3>1. IsValue(Only(u)) /\ IsValue(Only(w))
      BY <1>5, OnlyIs
    <3>2. Difference(Only(u), Only(w)).m <= 0
      BY <1>2 DEF u, w
    <3> DEFINE d == Difference(Only(u), Only(w)).m
               f == Difference(Only(w), Only(u)).m
    <3>3. d \in Int /\ f \in Int /\ (d < 0 <=> f > 0) /\ (d = 0 <=> f = 0) /\ d <= 0
      BY <3>1, <3>2, DifferenceFlips
    <3> HIDE DEF d, f
    <3>4. f >= 0
      BY <3>3
    <3> QED
      BY <3>4 DEF f
  <2>2. Below(u, Only(w))
    BY <2>1 DEF Below
  <2> QED
    BY <1>5, <2>2, BelowOnly
<1>8. DLeq(a, w)
  BY <1>5, <1>6, <1>7, LeqIsTransitive
<1>9. Below(a, Only(w))
  BY <1>5, <1>8, BelowOnly
<1> QED
  BY <1>3, <1>4, <1>9 DEF Respects

\* Two numbers between the same roundings are in the order of these.
LEMMA NearestOrder ==
  ASSUME NEW m \in Int, NEW d \in Nat \ {0}, NEW n \in Int, NEW e \in Nat \ {0}, NEW a \in Int, NEW c \in Int,
         c < a, Abs(m - a * d) <= Abs(m - c * d), Abs(n - c * e) <= Abs(n - a * e)
  PROVE  ~ (m * e < n * d)
<1>1. c * d < a * d /\ c * e < a * e /\ a * d \in Int /\ c * d \in Int /\ a * e \in Int /\ c * e \in Int
  BY Cancel
<1> DEFINE u == a * d
           v == c * d
           w == a * e
           z == c * e
<1>2. u \in Int /\ v \in Int /\ w \in Int /\ z \in Int /\ v < u /\ z < w
      /\ Abs(m - u) <= Abs(m - v) /\ Abs(n - z) <= Abs(n - w)
  BY <1>1
<1> HIDE DEF u, v, w, z
<1>3. u + v <= 2 * m /\ 2 * n <= w + z
  BY <1>2 DEF Abs
<1>4. (u + v) * e = (w + z) * d
  <2>1. u = a * d /\ v = c * d /\ w = a * e /\ z = c * e
    BY DEF u, v, w, z
  <2>2. (a * d) * e = (a * e) * d /\ (c * d) * e = (c * e) * d
    BY Ring
  <2>3. (u + v) * e = u * e + v * e /\ (w + z) * d = w * d + z * d
    BY <1>2
  <2> QED
    BY <2>1, <2>2, <2>3
<1>5. (u + v) * e <= (2 * m) * e /\ (2 * n) * d <= (w + z) * d
  BY <1>2, <1>3, Cancel
<1>6. (2 * m) * e = 2 * (m * e) /\ (2 * n) * d = 2 * (n * d) /\ m * e \in Int /\ n * d \in Int
      /\ (u + v) * e \in Int
  BY <1>2
<1> DEFINE x == m * e
           y == n * d
           k == (u + v) * e
<1>7. x \in Int /\ y \in Int /\ k \in Int /\ k <= 2 * x /\ 2 * y <= k
  BY <1>4, <1>5, <1>6
<1> HIDE DEF x, y, k
<1>8. ~ (x < y)
  BY <1>7
<1> QED
  BY <1>8 DEF x, y

LEMMA RationalIsMonotonic ==
  ASSUME NEW r, NEW t, IsRational(r), IsRational(t), Difference(Value(r), Value(t)).m < 0, NEW p \in Nat \ {0}
  PROVE  DLeq(Approximate(r, p), Approximate(t, p))
<1> DEFINE v == Value(r)
           w == Value(t)
           a == Approximate(r, p)
           c == Approximate(t, p)
<1>1. /\ r.kind = "rational" /\ r.num \in Int /\ r.den \in Nat \ {0}
      /\ t.kind = "rational" /\ t.num \in Int /\ t.den \in Nat \ {0}
  BY DEF IsRational
<1>2. v = Fraction(r.num, r.den) /\ w = Fraction(t.num, t.den) /\ IsValue(v) /\ IsValue(w)
  BY <1>1, FractionIs DEF Value, Fraction
<1>3. a = RoundQuotient(r.num, r.den, p) /\ c = RoundQuotient(t.num, t.den, p)
  BY <1>1 DEF Approximate, ApproximateRational
<1>4. IsNearest(a, v, p) /\ IsNearest(c, w, p)
  <2>1. \A n \in Int : \A d \in Nat \ {0} : IsNearest(RoundQuotient(n, d, p), Fraction(n, d), p)
    BY RoundQuotientIs
  <2> HIDE DEF v, w, a, c
  <2> QED
    BY <1>1, <1>2, <1>3, <2>1
<1> HIDE DEF v, w, a, c
<1>5. Short(a, p) /\ Short(c, p) /\ Normal(a) /\ Normal(c)
  BY <1>4 DEF IsNearest, Short
<1>6. DLeq(Distance(a, v), Distance(c, v)) /\ DLeq(Distance(c, w), Distance(a, w))
  BY <1>4, <1>5 DEF IsNearest
<1>7. PICK s \in Nat : Fits(a, s) /\ Fits(c, s) /\ Fits(v.num, s) /\ Fits(w.num, s)
  BY <1>2, <1>5, CommonScale DEF IsValue
<1> DEFINE m == At(v.num, s)
           n == At(w.num, s)
           d == v.den
           e == w.den
           i == At(a, s)
           j == At(c, s)
<1>8. m \in Int /\ n \in Int /\ d \in Nat \ {0} /\ e \in Nat \ {0} /\ i \in Int /\ j \in Int
  BY <1>2, <1>7, AtType DEF IsValue
<1>9. /\ Fits(Distance(a, v), s) /\ At(Distance(a, v), s) = Abs(m - i * d)
      /\ Fits(Distance(c, v), s) /\ At(Distance(c, v), s) = Abs(m - j * d)
      /\ Fits(Distance(a, w), s) /\ At(Distance(a, w), s) = Abs(n - i * e)
      /\ Fits(Distance(c, w), s) /\ At(Distance(c, w), s) = Abs(n - j * e)
  BY <1>2, <1>5, <1>7, RelationsAt
<1>10. Abs(m - i * d) <= Abs(m - j * d) /\ Abs(n - j * e) <= Abs(n - i * e)
  BY <1>6, <1>9, OrderIs
<1>11. m * e < n * d
  <2>1. /\ Fits(Difference(v, w), s)
        /\ At(Difference(v, w), s) = m * e - n * d
        /\ m * e \in Int /\ n * d \in Int
    BY <1>2, <1>7, DifferenceIs
  <2>2. At(Difference(v, w), s) < 0
    BY <2>1, AtType DEF v, w
  <2> DEFINE y == m * e
             z == n * d
  <2>3. y \in Int /\ z \in Int /\ y - z < 0
    BY <2>1, <2>2
  <2> HIDE DEF y, z
  <2>4. y < z
    BY <2>3
  <2> QED
    BY <2>4 DEF y, z
<1> HIDE DEF m, n, d, e, i, j
<1>12. ~ (j < i)
  BY <1>8, <1>10, <1>11, NearestOrder
<1>13. i <= j
  BY <1>8, <1>12
<1> QED
  BY <1>7, <1>13, OrderIs DEF i, j, a, c

\* Fractions in lowest terms are equal only if they are the same.
LEMMA LowestTerms ==
  ASSUME NEW r, NEW t, IsRational(r), IsRational(t), r.num * t.den = t.num * r.den
  PROVE  r = t
<1>1. /\ r = Rational(r.num, r.den) /\ r.num \in Int /\ r.den \in Nat \ {0}
      /\ \A d \in 1 .. r.den - 1 : (r.num * d) % r.den # 0
      /\ t = Rational(t.num, t.den) /\ t.num \in Int /\ t.den \in Nat \ {0}
      /\ \A d \in 1 .. t.den - 1 : (t.num * d) % t.den # 0
  BY DEF IsRational
<1> DEFINE m == r.num
           d == r.den
           n == t.num
           e == t.den
<1>2. m \in Int /\ n \in Int /\ d \in Nat \ {0} /\ e \in Nat \ {0} /\ m * e = n * d
  BY <1>1
<1>3. d <= e
  <2> SUFFICES ASSUME e < d
               PROVE  FALSE
    BY <1>2
  <2>1. e \in 1 .. d - 1
    BY <1>2
  <2>2. (m * e) % d # 0
    BY <1>1, <2>1
  <2> HIDE DEF m, n, d, e
  <2>3. (n * d) % d = 0
    BY <1>2, Multiple
  <2> QED
    BY <1>2, <2>2, <2>3
<1>4. e <= d
  <2> SUFFICES ASSUME d < e
               PROVE  FALSE
    BY <1>2
  <2>1. d \in 1 .. e - 1
    BY <1>2
  <2>2. (n * d) % e # 0
    BY <1>1, <2>1
  <2> HIDE DEF m, n, d, e
  <2>3. (m * e) % e = 0
    BY <1>2, Multiple
  <2> QED
    BY <1>2, <2>2, <2>3
<1> HIDE DEF m, n, d, e
<1>5. d = e
  BY <1>2, <1>3, <1>4
<1>6. m * d = n * d
  BY <1>2, <1>5
<1>7. m = n
  BY <1>2, <1>6, Cancel
<1> QED
  BY <1>1, <1>5, <1>7 DEF m, n, d, e

LEMMA IsMonotonic ==
  ASSUME NEW r, NEW t, (IsRandom(r) /\ IsRandom(t)) \/ (IsRational(r) /\ IsRational(t)),
         Difference(Value(r), Value(t)).m <= 0, NEW p \in Nat \ {0}
  PROVE  DLeq(Approximate(r, p), Approximate(t, p))
<1>1. CASE IsRandom(r) /\ IsRandom(t)
  BY <1>1, RandomIsMonotonic
<1>2. CASE IsRational(r) /\ IsRational(t)
  <2>1. Approximable(r) /\ Approximable(t)
    BY <1>2, RationalIsApproximable
  <2>2. IsValue(Value(r)) /\ IsValue(Value(t)) /\ Fine(Approximate(r, p), Value(r), p)
    BY <2>1 DEF Approximable
  <2>3. CASE Difference(Value(r), Value(t)).m < 0
    BY <1>2, <2>3, RationalIsMonotonic
  <2>4. CASE Difference(Value(r), Value(t)).m = 0
    <3>1. r = t
      <4>1. r.kind = "rational" /\ t.kind = "rational" /\ r.num \in Int /\ t.num \in Int
            /\ r.den \in Nat \ {0} /\ t.den \in Nat \ {0}
        BY <1>2 DEF IsRational
      <4>2. /\ Value(r).num = Int2Dyadic(r.num) /\ Value(r).den = r.den
            /\ Value(t).num = Int2Dyadic(t.num) /\ Value(t).den = t.den
        BY <4>1 DEF Value
      <4>3. /\ Fits(Int2Dyadic(r.num), 0) /\ At(Int2Dyadic(r.num), 0) = r.num
            /\ Fits(Int2Dyadic(t.num), 0) /\ At(Int2Dyadic(t.num), 0) = t.num
        <5>1. \A n \in Int : Fits(Int2Dyadic(n), 0) /\ At(Int2Dyadic(n), 0) = n
          <6> TAKE n \in Int
          <6>1. Fits(Int2Dyadic(n), 0) /\ At(Int2Dyadic(n), 0) = n * Power[0]
            BY IntegerValue
          <6> QED
            BY <6>1, PowerNext
        <5> QED
          BY <4>1, <5>1
      <4> DEFINE v == Value(r)
                 w == Value(t)
      <4> HIDE DEF v, w
      <4>4. /\ Fits(Difference(v, w), 0)
            /\ At(Difference(v, w), 0) = At(v.num, 0) * w.den - At(w.num, 0) * v.den
        BY <2>2, <4>2, <4>3, DifferenceIs DEF v, w
      <4>5. At(Difference(v, w), 0) = 0
        BY <2>4, <4>4, AtType DEF v, w
      <4>6. r.num * t.den - t.num * r.den = 0
        BY <4>2, <4>3, <4>4, <4>5 DEF v, w
      <4>7. r.num * t.den = t.num * r.den
        <5>1. r.num * t.den \in Int /\ t.num * r.den \in Int
          BY <4>1
        <5> QED
          BY <4>6, <5>1
      <4> QED
        BY <1>2, <4>7, LowestTerms
    <3>2. Normal(Approximate(r, p))
      BY <2>2 DEF Fine, Short
    <3> DEFINE a == Approximate(r, p)
    <3>3. Approximate(t, p) = a
      BY <3>1
    <3> HIDE DEF a
    <3>4. PICK s \in Nat : Fits(a, s)
      BY <3>2, CommonScale DEF a
    <3>5. At(a, s) <= At(a, s)
      BY <3>4, AtType
    <3>6. DLeq(a, a)
      BY <3>4, <3>5, OrderIs
    <3> QED
      BY <3>3, <3>6 DEF a
  <2>5. Difference(Value(r), Value(t)).m \in Int
    BY <2>2, DifferenceFlips
  <2> QED
    BY <2>3, <2>4, <2>5
<1> QED
  BY <1>1, <1>2

\* Balls that are apart tell the order of two random or two rational numbers.
LEMMA ApartIsOrdered ==
  ASSUME NEW r, NEW t, (IsRandom(r) /\ IsRandom(t)) \/ (IsRational(r) /\ IsRational(t)), NEW p \in Nat \ {0}
  PROVE  /\ CertainlyLess(RefinedBall(r, p), RefinedBall(t, p)) => Difference(Value(r), Value(t)).m < 0
         /\ CertainlyNotLess(RefinedBall(r, p), RefinedBall(t, p)) => Difference(Value(r), Value(t)).m > 0
<1> DEFINE v == Value(r)
           w == Value(t)
           d == Difference(v, w).m
           f == Difference(w, v).m
<1>1. Approximable(r) /\ Approximable(t)
  BY RandomIsApproximable, RationalIsApproximable
<1>2. IsValue(v) /\ IsValue(w) /\ Normal(Approximate(r, p)) /\ Normal(Approximate(t, p))
  BY <1>1, RefinedBallIs
<1>3. d \in Int /\ f \in Int /\ (d < 0 <=> f > 0) /\ (d = 0 <=> f = 0)
  <2> HIDE DEF v, w
  <2> QED
    BY <1>2, DifferenceFlips
<1>4. d <= 0 => DLeq(Approximate(r, p), Approximate(t, p))
  BY IsMonotonic
<1>5. f <= 0 => DLeq(Approximate(t, p), Approximate(r, p))
  BY IsMonotonic
<1> HIDE DEF d, f
<1>6. p \in Int
  OBVIOUS
<1>7. CertainlyLess(RefinedBall(r, p), RefinedBall(t, p)) => ~ DLeq(Approximate(t, p), Approximate(r, p))
  BY <1>2, <1>6, ApartIs DEF RefinedBall
<1>8. CertainlyNotLess(RefinedBall(r, p), RefinedBall(t, p)) => ~ DLeq(Approximate(r, p), Approximate(t, p))
  BY <1>2, <1>6, ApartIs DEF RefinedBall
<1>9. CertainlyLess(RefinedBall(r, p), RefinedBall(t, p)) => d < 0
  BY <1>3, <1>5, <1>7
<1>10. CertainlyNotLess(RefinedBall(r, p), RefinedBall(t, p)) => d > 0
  BY <1>3, <1>4, <1>8
<1> QED
  BY <1>9, <1>10 DEF d, v, w

-----------------------------------------------------------------------------
(* Numbers are close to each other when their balls overlap. *)

LEMMA AbsBounds ==
  ASSUME NEW n \in Int, NEW k \in Int
  PROVE  Abs(n) <= k <=> - k <= n /\ n <= k
BY DEF Abs

LEMMA ReachTimes ==
  ASSUME NEW n \in Int, NEW a \in Int, NEW r \in Int, NEW d \in Nat \ {0}, NEW e \in Nat \ {0},
         Abs(n - a * d) <= r * (2 * d)
  PROVE  /\ n * e \in Int /\ a * (d * e) \in Int /\ r * (d * e) \in Int
         /\ a * (d * e) - 2 * (r * (d * e)) <= n * e /\ n * e <= a * (d * e) + 2 * (r * (d * e))
<1> DEFINE u == a * d
           f == r * d
<1>1. u \in Int /\ f \in Int /\ r * (2 * d) = 2 * f
  OBVIOUS
<1>2. a * (d * e) = u * e /\ r * (d * e) = f * e
  BY Ring
<1> HIDE DEF u, f
<1>3. u - 2 * f <= n /\ n <= u + 2 * f
  <2>1. Abs(n - u) <= 2 * f
    BY <1>1 DEF u
  <2> QED
    BY <1>1, <2>1 DEF Abs
<1>4. (u - 2 * f) * e <= n * e /\ n * e <= (u + 2 * f) * e
  BY <1>1, <1>3, Cancel
<1>5. (u - 2 * f) * e = u * e - 2 * (f * e) /\ (u + 2 * f) * e = u * e + 2 * (f * e)
      /\ u * e \in Int /\ f * e \in Int /\ n * e \in Int
  BY <1>1
<1> QED
  BY <1>2, <1>4, <1>5

LEMMA OverlapCore ==
  ASSUME NEW n \in Int, NEW d \in Nat \ {0}, NEW a \in Int, NEW r \in Int, Abs(n - a * d) <= r * (2 * d),
         NEW m \in Int, NEW e \in Nat \ {0}, NEW c \in Int, NEW t \in Int, Abs(m - c * e) <= t * (2 * e),
         a - r <= c + t, c - t <= a + r
  PROVE  Abs(n * e - m * d) <= (r + t) * (3 * (d * e))
<1> DEFINE k == d * e
           x == n * e
           y == m * d
           u == a * k
           f == r * k
           w == c * k
           g == t * k
<1>1. k \in Nat \ {0} /\ e * d = k
  OBVIOUS
<1>2. x \in Int /\ u \in Int /\ f \in Int /\ u - 2 * f <= x /\ x <= u + 2 * f
  BY ReachTimes
<1>3. y \in Int /\ w \in Int /\ g \in Int /\ w - 2 * g <= y /\ y <= w + 2 * g
  <2>1. /\ m * d \in Int /\ c * (e * d) \in Int /\ t * (e * d) \in Int
        /\ c * (e * d) - 2 * (t * (e * d)) <= m * d /\ m * d <= c * (e * d) + 2 * (t * (e * d))
    BY ReachTimes
  <2> QED
    BY <1>1, <2>1
<1> HIDE DEF k
<1>4. u - f <= w + g /\ w - g <= u + f
  <2>1. (a - r) * k <= (c + t) * k /\ (c - t) * k <= (a + r) * k
    BY <1>1, Cancel
  <2>2. /\ (a - r) * k = u - f /\ (c + t) * k = w + g
        /\ (c - t) * k = w - g /\ (a + r) * k = u + f
    BY <1>1, Ring
  <2> QED
    BY <2>1, <2>2
<1>5. (r + t) * (3 * k) = 3 * (f + g)
  <2>1. (r + t) * k = f + g
    BY <1>1, Ring
  <2>2. (r + t) * (3 * k) = 3 * ((r + t) * k)
    BY <1>1
  <2> QED
    BY <2>1, <2>2
<1> HIDE DEF x, y, u, f, w, g
<1>6. Abs(x - y) <= 3 * (f + g)
  BY <1>2, <1>3, <1>4 DEF Abs
<1> QED
  BY <1>5, <1>6 DEF x, y, k

LEMMA ScaledCore ==
  ASSUME NEW n \in Int, NEW d \in Nat \ {0}, NEW a \in Int, NEW r \in Int, Abs(n - a * d) <= r * (2 * d),
         NEW m \in Int, NEW e \in Nat \ {0}, a * e - r * e <= m, m <= a * e + r * e
  PROVE  Abs(n * e - m * d) <= r * (3 * (d * e))
<1> DEFINE k == d * e
           x == n * e
           y == m * d
           u == a * k
           f == r * k
<1>1. k \in Nat \ {0} /\ e * d = k
  OBVIOUS
<1>2. x \in Int /\ u \in Int /\ f \in Int /\ u - 2 * f <= x /\ x <= u + 2 * f
  BY ReachTimes
<1>3. y \in Int /\ u - f <= y /\ y <= u + f
  <2> DEFINE z == a * e
             w == r * e
  <2>1. z \in Int /\ w \in Int /\ z - w <= m /\ m <= z + w
    OBVIOUS
  <2>2. u = z * d /\ f = w * d
    BY <1>1, Ring
  <2> HIDE DEF z, w, u, f
  <2>3. (z - w) * d <= m * d /\ m * d <= (z + w) * d
    BY <2>1, Cancel
  <2>4. (z - w) * d = u - f /\ (z + w) * d = u + f
    BY <2>1, <2>2, Ring
  <2> QED
    BY <2>3, <2>4
<1> HIDE DEF k
<1>4. r * (3 * k) = 3 * f
  BY <1>1
<1> HIDE DEF x, y, u, f
<1>5. Abs(x - y) <= 3 * f
  BY <1>2, <1>3 DEF Abs
<1> QED
  BY <1>4, <1>5 DEF x, y, k

Reaches(b, v) == DLeq(Distance(b.mid, v), DTimes(b.rad, Int2Dyadic(2 * v.den)))

LEMMA ReachesAt ==
  ASSUME NEW v, IsValue(v), NEW b, Normal(b.mid), Normal(b.rad), NEW s,
         Fits(v.num, s), Fits(b.mid, s), Fits(b.rad, s)
  PROVE  Reaches(b, v) <=> Abs(At(v.num, s) - At(b.mid, s) * v.den) <= At(b.rad, s) * (2 * v.den)
<1> DEFINE k == 2 * v.den
           d == b.rad
<1>1. k \in Int /\ d \in Binary /\ Fits(d, s)
  BY ExponentType DEF IsValue
<1>2. Fits(Distance(b.mid, v), s) /\ At(Distance(b.mid, v), s) = Abs(At(v.num, s) - At(b.mid, s) * v.den)
  BY RelationsAt
<1>3. Fits(DTimes(d, Int2Dyadic(k)), s) /\ At(DTimes(d, Int2Dyadic(k)), s) = At(d, s) * k
  <2> HIDE DEF k, d
  <2> QED
    BY <1>1, MultipleValue
<1>4. Reaches(b, v) <=> DLeq(Distance(b.mid, v), DTimes(d, Int2Dyadic(k)))
  BY DEF Reaches
<1> HIDE DEF k, d
<1>5. Reaches(b, v) <=> At(Distance(b.mid, v), s) <= At(d, s) * k
  BY <1>2, <1>3, <1>4, OrderIs
<1> QED
  BY <1>2, <1>5 DEF k, d

\* The distance of two values, compared to a multiple of a number.
LEMMA CloseAt ==
  ASSUME NEW v, NEW w, IsValue(v), IsValue(w), NEW r, r \in Binary, NEW k \in Int, NEW s,
         Fits(v.num, s), Fits(w.num, s), Fits(r, s)
  PROVE  DLeq(DAbs(Difference(v, w)), DTimes(Int2Dyadic(k), r))
           <=> Abs(At(v.num, s) * w.den - At(w.num, s) * v.den) <= At(r, s) * k
<1> DEFINE d == Difference(v, w)
<1>1. d \in Binary /\ Fits(d, s) /\ At(d, s) = At(v.num, s) * w.den - At(w.num, s) * v.den
  BY DifferenceIs DEF Fits
<1> HIDE DEF d
<1>2. Fits(DAbs(d), s) /\ At(DAbs(d), s) = Abs(At(d, s))
  BY <1>1, AbsOfValue
<1>3. Fits(DTimes(Int2Dyadic(k), r), s) /\ At(DTimes(Int2Dyadic(k), r), s) = At(r, s) * k
  BY MultipleValue
<1> QED
  BY <1>1, <1>2, <1>3, OrderIs DEF d

LEMMA OverlapIsClose ==
  ASSUME NEW v, NEW w, IsValue(v), IsValue(w), NEW b, NEW c,
         Normal(b.mid), Normal(b.rad), Normal(c.mid), Normal(c.rad), Reaches(b, v), Reaches(c, w), Overlap(b, c)
  PROVE  DLeq(DAbs(Difference(v, w)), DTimes(Int2Dyadic(3 * (v.den * w.den)), DPlus(b.rad, c.rad)))
<1>1. b.mid \in Binary /\ b.rad \in Binary /\ c.mid \in Binary /\ c.rad \in Binary
  BY ExponentType
<1>2. PICK t \in Nat : Fits(b.mid, t) /\ Fits(b.rad, t) /\ Fits(c.mid, t) /\ Fits(c.rad, t)
  BY CommonScale
<1>3. PICK u \in Nat : Fits(v.num, u) /\ Fits(w.num, u)
  BY CommonScale DEF IsValue
<1> DEFINE s == IF t < u THEN u ELSE t
<1>4. s \in Nat /\ t <= s /\ u <= s
  BY <1>2, <1>3
<1> HIDE DEF s
<1>5. Fits(b.mid, s) /\ Fits(b.rad, s) /\ Fits(c.mid, s) /\ Fits(c.rad, s) /\ Fits(v.num, s) /\ Fits(w.num, s)
  BY <1>2, <1>3, <1>4, AtScale
<1> DEFINE n == At(v.num, s)
           m == At(w.num, s)
           d == v.den
           e == w.den
           a == At(b.mid, s)
           r == At(b.rad, s)
           f == At(c.mid, s)
           g == At(c.rad, s)
<1>6. n \in Int /\ m \in Int /\ d \in Nat \ {0} /\ e \in Nat \ {0} /\ a \in Int /\ r \in Int /\ f \in Int /\ g \in Int
  BY <1>5, AtType DEF IsValue
<1>7. Abs(n - a * d) <= r * (2 * d) /\ Abs(m - f * e) <= g * (2 * e)
  BY <1>5, ReachesAt
<1>8. a - r <= f + g /\ f - g <= a + r
  <2>1. /\ Fits(Lower(b), s) /\ At(Lower(b), s) = a - r
        /\ Fits(Upper(b), s) /\ At(Upper(b), s) = a + r
    BY <1>1, <1>5, EndsAt
  <2>2. /\ Fits(Lower(c), s) /\ At(Lower(c), s) = f - g
        /\ Fits(Upper(c), s) /\ At(Upper(c), s) = f + g
    BY <1>1, <1>5, EndsAt
  <2>3. DLeq(Lower(b), Upper(c)) /\ DLeq(Lower(c), Upper(b))
    BY DEF Overlap
  <2> QED
    BY <2>1, <2>2, <2>3, OrderIs
<1> DEFINE rr == DPlus(b.rad, c.rad)
           k == 3 * (d * e)
<1>9. rr \in Binary /\ Fits(rr, s) /\ At(rr, s) = r + g
  BY <1>1, <1>5, PlusValue
<1> HIDE DEF n, m, d, e, a, r, f, g, rr
<1>10. Abs(n * e - m * d) <= (r + g) * (3 * (d * e))
  BY <1>6, <1>7, <1>8, OverlapCore
<1>11. k \in Int
  BY <1>6
<1>12. Abs(n * e - m * d) <= At(rr, s) * k
  BY <1>9, <1>10
<1> HIDE DEF k
<1>13. DLeq(DAbs(Difference(v, w)), DTimes(Int2Dyadic(k), rr))
  BY <1>5, <1>9, <1>11, <1>12, CloseAt DEF n, m, d, e
<1> QED
  BY <1>13 DEF k, rr, d, e

LEMMA ScaledIsClose ==
  ASSUME NEW v, IsValue(v), NEW b, Normal(b.mid), Normal(b.rad), Reaches(b, v), NEW m \in Int, NEW e \in Nat \ {0},
         Overlap(Ball(DTimes(b.mid, Int2Dyadic(e)), DTimes(b.rad, Int2Dyadic(e))), Exactly(Int2Dyadic(m)))
  PROVE  DLeq(DAbs(Difference(v, Fraction(m, e))),
              DTimes(Int2Dyadic(3 * (v.den * e)), DPlus(b.rad, Int2Dyadic(0))))
<1> DEFINE w == Fraction(m, e)
           o == Int2Dyadic(0)
           y == Int2Dyadic(m)
           c == Ball(DTimes(b.mid, Int2Dyadic(e)), DTimes(b.rad, Int2Dyadic(e)))
           z == Exactly(y)
<1>1. b.mid \in Binary /\ b.rad \in Binary /\ o \in Binary /\ y \in Binary /\ e \in Int
      /\ IsValue(w) /\ w.num = y /\ w.den = e /\ Normal(o) /\ Normal(y)
  <2>1. 0 \in Int
    OBVIOUS
  <2> QED
    BY <2>1, ExponentType, FractionIs, IntegerValue
<1>2. PICK t \in Nat : Fits(b.mid, t) /\ Fits(b.rad, t) /\ Fits(o, t) /\ Fits(y, t)
  <2> HIDE DEF o, y
  <2> QED
    BY <1>1, CommonScale
<1>3. PICK u \in Nat : Fits(v.num, u)
  BY CommonScale DEF IsValue
<1> DEFINE s == IF t < u THEN u ELSE t
<1>4. s \in Nat /\ t <= s /\ u <= s
  BY <1>2, <1>3
<1> HIDE DEF s
<1>5. Fits(b.mid, s) /\ Fits(b.rad, s) /\ Fits(o, s) /\ Fits(y, s) /\ Fits(v.num, s)
  <2> HIDE DEF o, y
  <2> QED
    BY <1>2, <1>3, <1>4, AtScale
<1> DEFINE n == At(v.num, s)
           i == At(y, s)
           d == v.den
           a == At(b.mid, s)
           r == At(b.rad, s)
<1>6. n \in Int /\ i \in Int /\ d \in Nat \ {0} /\ a \in Int /\ r \in Int /\ At(o, s) = 0
  <2>1. o.m = 0
    <3>1. Fits(Int2Dyadic(0), 0) /\ At(Int2Dyadic(0), 0) = 0 * Power[0]
      <4>1. 0 \in Int /\ 0 \in Nat
        OBVIOUS
      <4> QED
        BY <4>1, IntegerValue
    <3>2. 0 * Power[0] = 0
      BY PowerNext
    <3> QED
      BY <3>1, <3>2, AtType
  <2> HIDE DEF o, y
  <2>2. n \in Int /\ i \in Int /\ a \in Int /\ r \in Int /\ At(o, s) = 0
    BY <1>5, <2>1, AtType
  <2> QED
    BY <2>2 DEF IsValue
<1>7. Abs(n - a * d) <= r * (2 * d)
  BY <1>5, ReachesAt
<1>8. a * e - r * e <= i /\ i <= a * e + r * e
  <2>1. c.mid = DTimes(b.mid, Int2Dyadic(e)) /\ c.rad = DTimes(b.rad, Int2Dyadic(e)) /\ z.mid = y /\ z.rad = o
    BY DEF Ball, Exactly
  <2> DEFINE f == b.mid
             h == b.rad
  <2> HIDE DEF f, h
  <2>0. f \in Binary /\ h \in Binary /\ e \in Int /\ Fits(f, s) /\ Fits(h, s)
    BY <1>1, <1>5 DEF f, h
  <2>2. c.mid \in Binary /\ Fits(c.mid, s) /\ At(c.mid, s) = a * e
    <3>1. DTimes(f, Int2Dyadic(e)) \in Binary /\ Fits(DTimes(f, Int2Dyadic(e)), s)
          /\ At(DTimes(f, Int2Dyadic(e)), s) = At(f, s) * e
      BY <2>0, MultipleValue
    <3> QED
      BY <2>1, <3>1 DEF f
  <2>3. c.rad \in Binary /\ Fits(c.rad, s) /\ At(c.rad, s) = r * e
    <3>1. DTimes(h, Int2Dyadic(e)) \in Binary /\ Fits(DTimes(h, Int2Dyadic(e)), s)
          /\ At(DTimes(h, Int2Dyadic(e)), s) = At(h, s) * e
      BY <2>0, MultipleValue
    <3> QED
      BY <2>1, <3>1 DEF h
  <2>4. DLeq(Lower(c), Upper(z)) /\ DLeq(Lower(z), Upper(c))
    BY DEF Overlap
  <2> HIDE DEF c, z, o, y, n, a, r, i
  <2>5. /\ Fits(Lower(c), s) /\ At(Lower(c), s) = At(c.mid, s) - At(c.rad, s)
        /\ Fits(Upper(c), s) /\ At(Upper(c), s) = At(c.mid, s) + At(c.rad, s)
    BY <2>2, <2>3, EndsAt
  <2>6. /\ Fits(Lower(z), s) /\ At(Lower(z), s) = At(z.mid, s) - At(z.rad, s)
        /\ Fits(Upper(z), s) /\ At(Upper(z), s) = At(z.mid, s) + At(z.rad, s)
    BY <1>1, <1>5, <2>1, EndsAt
  <2>7. At(z.mid, s) = i /\ At(z.rad, s) = 0
    BY <1>6, <2>1 DEF i
  <2>8. At(Lower(c), s) <= At(Upper(z), s) /\ At(Lower(z), s) <= At(Upper(c), s)
    BY <2>4, <2>5, <2>6, OrderIs
  <2>9. a * e - r * e <= i + 0 /\ i - 0 <= a * e + r * e
    BY <2>2, <2>3, <2>5, <2>6, <2>7, <2>8
  <2> QED
    BY <1>6, <2>9
<1> DEFINE rr == DPlus(b.rad, o)
           k == 3 * (d * e)
<1>9. rr \in Binary /\ Fits(rr, s) /\ At(rr, s) = r
  <2> HIDE DEF o
  <2>1. rr \in Binary /\ Fits(rr, s) /\ At(rr, s) = r + At(o, s)
    BY <1>1, <1>5, PlusValue
  <2> HIDE DEF rr, r
  <2> QED
    BY <1>6, <2>1
<1> HIDE DEF n, i, d, a, r, rr, w, o, y
<1>10. Abs(n * e - i * d) <= r * (3 * (d * e))
  BY <1>6, <1>7, <1>8, ScaledCore
<1>11. k \in Int
  BY <1>6
<1>12. Abs(At(v.num, s) * w.den - At(w.num, s) * v.den) <= At(rr, s) * k
  BY <1>1, <1>9, <1>10 DEF n, i, d
<1> HIDE DEF k
<1>13. Fits(w.num, s)
  BY <1>1, <1>5
<1>14. DLeq(DAbs(Difference(v, w)), DTimes(Int2Dyadic(k), rr))
  BY <1>1, <1>5, <1>9, <1>11, <1>12, <1>13, CloseAt
<1> QED
  BY <1>14 DEF k, rr, d, w, o

LEMMA FineReaches ==
  ASSUME NEW r, Approximable(r), NEW p \in Nat \ {0}
  PROVE  Reaches(RefinedBall(r, p), Value(r))
<1>1. /\ RefinedBall(r, p).mid = Approximate(r, p) /\ RefinedBall(r, p).rad = Radius(Approximate(r, p), p)
      /\ Fine(Approximate(r, p), Value(r), p)
  BY RefinedBallIs
<1> QED
  BY <1>1 DEF Reaches, Fine, InReach

LEMMA ExactlyIs ==
  ASSUME NEW d, Normal(d)
  PROVE  /\ Exactly(d).mid = d /\ Exactly(d).rad = Int2Dyadic(0) /\ Exactly(d).rad.m = 0
         /\ Normal(Exactly(d).rad) /\ Normal(Lower(Exactly(d))) /\ Normal(Upper(Exactly(d)))
<1> DEFINE o == Int2Dyadic(0)
<1>1. Exactly(d).mid = d /\ Exactly(d).rad = o
  BY DEF Exactly, Ball
<1>2. Normal(o) /\ o \in Binary /\ Fits(o, 0) /\ At(o, 0) = 0 * Power[0]
  <2>1. 0 \in Int /\ 0 \in Nat
    OBVIOUS
  <2> QED
    BY <2>1, IntegerValue
<1>3. o.m = 0
  <2>1. 0 * Power[0] = 0
    BY PowerNext
  <2> HIDE DEF o
  <2> QED
    BY <1>2, <2>1, AtType
<1>4. d \in Binary
  BY ExponentType
<1> HIDE DEF o
<1>5. Normal(DMinus(d, o)) /\ Normal(DPlus(d, o))
  BY <1>2, <1>4, MinusValue, PlusValue
<1> QED
  BY <1>1, <1>2, <1>3, <1>5 DEF Lower, Upper, o

LEMMA ExactlyReaches ==
  ASSUME NEW d, Normal(d)
  PROVE  Reaches(Exactly(d), Only(d))
<1> DEFINE v == Only(d)
           b == Exactly(d)
<1>1. IsValue(v) /\ v.num = d /\ v.den = 1
  BY DEF Only, IsValue
<1>2. b.mid = d /\ b.rad.m = 0 /\ Normal(b.rad)
  BY ExactlyIs
<1> HIDE DEF v, b
<1>3. PICK s \in Nat : Fits(d, s) /\ Fits(b.rad, s)
  BY <1>2, CommonScale
<1>4. At(d, s) \in Int /\ At(b.rad, s) = 0
  BY <1>2, <1>3, AtType
<1>5. Reaches(b, v) <=> Abs(At(v.num, s) - At(b.mid, s) * v.den) <= At(b.rad, s) * (2 * v.den)
  BY <1>1, <1>2, <1>3, ReachesAt
<1>6. Abs(At(d, s) - At(d, s) * 1) <= 0 * (2 * 1)
  BY <1>4 DEF Abs
<1> QED
  BY <1>1, <1>2, <1>4, <1>5, <1>6 DEF v, b

\* The order of fractions.
LEMMA FractionOrder ==
  ASSUME NEW n \in Int, NEW d \in Nat \ {0}, NEW m \in Int, NEW e \in Nat \ {0}
  PROVE  /\ Difference(Fraction(n, d), Fraction(m, e)).m < 0 <=> n * e < m * d
         /\ Difference(Fraction(n, d), Fraction(m, e)).m > 0 <=> m * d < n * e
<1> DEFINE v == Fraction(n, d)
           w == Fraction(m, e)
<1>1. /\ IsValue(v) /\ v.num = Int2Dyadic(n) /\ v.den = d
      /\ IsValue(w) /\ w.num = Int2Dyadic(m) /\ w.den = e
  BY FractionIs
<1>2. /\ Fits(v.num, 0) /\ At(v.num, 0) = n
      /\ Fits(w.num, 0) /\ At(w.num, 0) = m
  <2>1. \A k \in Int : Fits(Int2Dyadic(k), 0) /\ At(Int2Dyadic(k), 0) = k
    <3> TAKE k \in Int
    <3>1. Fits(Int2Dyadic(k), 0) /\ At(Int2Dyadic(k), 0) = k * Power[0]
      BY IntegerValue
    <3> QED
      BY <3>1, PowerNext
  <2> HIDE DEF v, w
  <2> QED
    BY <1>1, <2>1
<1> HIDE DEF v, w
<1>3. Fits(Difference(v, w), 0) /\ At(Difference(v, w), 0) = n * e - m * d /\ n * e \in Int /\ m * d \in Int
  BY <1>1, <1>2, DifferenceIs
<1>4. /\ At(Difference(v, w), 0) < 0 <=> Difference(v, w).m < 0
      /\ At(Difference(v, w), 0) > 0 <=> Difference(v, w).m > 0
  BY <1>3, AtType
<1> DEFINE y == n * e
           z == m * d
<1>5. y \in Int /\ z \in Int /\ At(Difference(v, w), 0) = y - z
  BY <1>3
<1> HIDE DEF y, z
<1>6. (Difference(v, w).m < 0 <=> y < z) /\ (Difference(v, w).m > 0 <=> z < y)
  BY <1>4, <1>5
<1> QED
  BY <1>6 DEF v, w, y, z

-----------------------------------------------------------------------------
(* The inductive invariant: a ball that has been refined is the one around an
   approximation of a precision that suffices, and so are the balls of a
   comparison, which overlap when it goes on. *)

\* Comparisons without products: approximations of products fold over their
\* factors, and those of five or more can miss the accuracy that the rest counts on.
IsPlain(n, rhs) == n.kind # "product" /\ (rhs.kind = "real" => rhs.number.kind # "product")

OtherAt(rhs, q) ==
  CASE rhs.kind = "real" -> RefinedBall(rhs.number, q)
    [] rhs.kind = "arf" -> Exactly(rhs.value)
    [] rhs.kind = "mpq" -> Exactly(Int2Dyadic(rhs.num))

ScaledBy(rhs, b) ==
  IF rhs.kind = "mpq" THEN Ball(DTimes(b.mid, Int2Dyadic(rhs.den)), DTimes(b.rad, Int2Dyadic(rhs.den))) ELSE b

\* The balls after a round that has left the comparison undecided.
IsRound(n, t, q) ==
  /\ t.prec = 2 * q /\ t.self = RefinedBall(n, q) /\ t.other = OtherAt(t.rhs, q)
  /\ Overlap(ScaledBy(t.rhs, t.self), t.other)

IsTask(n, t) ==
  /\ t = [call |-> t.call, rhs |-> t.rhs, self |-> t.self, other |-> t.other, prec |-> t.prec]
  /\ t.call \in {"less", "greater"} /\ t.rhs \in Target /\ t.prec \in Nat \ {0}
  /\ ~ (t.rhs.kind = "mpq" /\ n.kind = "rational")
  /\ \/ t.self = Whole /\ t.other = Whole
     \/ IsPlain(n, t.rhs) => \E q \in Nat \ {0} : IsRound(n, t, q)

BallInv ==
  number.kind # "product" =>
    \/ asked = 0 /\ ball = Whole
    \/ asked \in Nat \ {0} /\ \E p \in Nat \ {0} : asked <= p /\ ball = RefinedBall(number, p)

TaskInv == task = Idle \/ IsTask(number, task)

IInv == number \in Number /\ BallInv /\ TaskInv /\ NumbersOfAKindAreOrdered

LEMMA KindIs ==
  ASSUME NEW r, IsNumber(r)
  PROVE  (r.kind = "random" => IsRandom(r)) /\ (r.kind = "rational" => IsRational(r))
<1>1. /\ IsRandom(r) => r.kind = "random"
      /\ IsRational(r) => r.kind = "rational"
      /\ IsConstrained(r) => r.kind = "constrained"
      /\ IsProduct(r) => r.kind = "product"
  BY DEF IsRandom, IsRational, IsConstrained, IsProduct
<1>2. IsRandom(r) \/ IsRational(r) \/ IsConstrained(r) \/ IsProduct(r)
  BY DEF IsNumber
<1> QED
  BY <1>1, <1>2

LEMMA NumberIs ==
  ASSUME NEW r \in Number
  PROVE  /\ IsNumber(r)
         /\ r.kind # "product" => Approximable(r)
         /\ r.kind = "random" => IsRandom(r)
         /\ r.kind = "rational" => IsRational(r)
<1>1. IsNumber(r)
  BY NumberAssumption
<1> QED
  BY <1>1, KindIs, NumberIsApproximable

LEMMA TargetIs ==
  ASSUME NEW rhs \in Target
  PROVE  /\ rhs.kind \in {"real", "arf", "mpq"}
         /\ rhs.kind = "real" => /\ rhs.number.kind # "product" => Approximable(rhs.number)
                                 /\ rhs.number.kind = "random" => IsRandom(rhs.number)
                                 /\ rhs.number.kind = "rational" => IsRational(rhs.number)
         /\ rhs.kind = "arf" => Normal(rhs.value)
         /\ rhs.kind = "mpq" => rhs.num \in Int /\ rhs.den \in Nat \ {0}
<1>1. /\ rhs.kind \in {"real", "arf", "mpq"}
      /\ rhs.kind = "real" => IsNumber(rhs.number)
      /\ rhs.kind = "arf" => Normal(rhs.value)
      /\ rhs.kind = "mpq" => rhs.num \in Int /\ rhs.den \in Nat \ {0}
  BY TargetAssumption DEF IsTarget
<1>2. rhs.kind = "real" => /\ rhs.number.kind = "random" => IsRandom(rhs.number)
                           /\ rhs.number.kind = "rational" => IsRational(rhs.number)
  BY <1>1, KindIs
<1>3. rhs.kind = "real" /\ rhs.number.kind # "product" => Approximable(rhs.number)
  BY <1>1, NumberIsApproximable
<1> QED
  BY <1>1, <1>2, <1>3

LEMMA PlainNumbers ==
  ASSUME NEW n \in Number, NEW rhs \in Target, IsPlain(n, rhs)
  PROVE  Approximable(n) /\ (rhs.kind = "real" => Approximable(rhs.number))
BY NumberIs, TargetIs DEF IsPlain

\* A round refines both balls to its precision.
LEMMA RoundBalls ==
  ASSUME number \in Number, IsTask(number, task), IsPlain(number, task.rhs)
  PROVE  SelfBall = RefinedBall(number, task.prec) /\ OtherBall = OtherAt(task.rhs, task.prec)
<1> DEFINE p == task.prec
           rhs == task.rhs
<1>1. p \in Nat \ {0} /\ rhs \in Target
  BY DEF IsTask
<1>2. Approximable(number) /\ (rhs.kind = "real" => Approximable(rhs.number))
  BY <1>1, PlainNumbers
<1>3. rhs.kind \in {"real", "arf", "mpq"}
  BY <1>1, TargetIs
<1>4. /\ Refine(number, Whole, p) = RefinedBall(number, p)
      /\ Refine(rhs.number, Whole, p) = RefinedBall(rhs.number, p)
  BY <1>1, RefineIs
<1>5. CASE task.self = Whole /\ task.other = Whole
  BY <1>3, <1>4, <1>5 DEF SelfBall, OtherBall, OtherAt
<1>6. CASE \E q \in Nat \ {0} : IsRound(number, task, q)
  <2>1. PICK q \in Nat \ {0} : IsRound(number, task, q)
    BY <1>6
  <2>2. p = 2 * q /\ task.self = RefinedBall(number, q) /\ task.other = OtherAt(rhs, q) /\ ~ p <= q
    BY <2>1 DEF IsRound
  <2>3. ~ HasAccuracy(RefinedBall(number, q), p)
    BY <1>1, <1>2, <2>2, RefinedAccuracy
  <2>4. Refine(number, task.self, p) = RefinedBall(number, p)
    BY <1>1, <2>2, <2>3, RefineIs
  <2>5. ASSUME rhs.kind = "real"
        PROVE  Refine(rhs.number, task.other, p) = RefinedBall(rhs.number, p)
    <3>1. task.other = RefinedBall(rhs.number, q)
      BY <2>2, <2>5 DEF OtherAt
    <3>2. ~ HasAccuracy(RefinedBall(rhs.number, q), p)
      BY <1>1, <1>2, <2>2, <2>5, RefinedAccuracy
    <3> QED
      BY <1>1, <3>1, <3>2, RefineIs
  <2> QED
    BY <1>3, <1>4, <2>4, <2>5 DEF SelfBall, OtherBall, OtherAt
<1> QED
  BY <1>5, <1>6 DEF IsTask

LEMMA ScaledIs ==
  ASSUME task.rhs \in Target, NEW b
  PROVE  Scaled(b) = ScaledBy(task.rhs, b)
BY DEF Scaled, ScaledBy

\* The ends of the balls of a round.
LEMMA RoundEnds ==
  ASSUME NEW n \in Number, NEW rhs \in Target, IsPlain(n, rhs), NEW p \in Nat \ {0}
  PROVE  LET b == ScaledBy(rhs, RefinedBall(n, p))
             c == OtherAt(rhs, p)
         IN  Normal(Lower(b)) /\ Normal(Upper(b)) /\ Normal(Lower(c)) /\ Normal(Upper(c))
<1> DEFINE a == RefinedBall(n, p)
<1>1. Approximable(n) /\ (rhs.kind = "real" => Approximable(rhs.number))
  BY PlainNumbers
<1>2. /\ rhs.kind \in {"real", "arf", "mpq"}
      /\ rhs.kind = "arf" => Normal(rhs.value)
      /\ rhs.kind = "mpq" => rhs.num \in Int /\ rhs.den \in Nat \ {0}
  BY TargetIs
<1>3. Normal(Lower(a)) /\ Normal(Upper(a)) /\ a.mid \in Binary /\ a.rad \in Binary /\ Normal(a.mid) /\ Normal(a.rad)
  BY <1>1, RefinedBallIs
<1> HIDE DEF a
<1>4. CASE rhs.kind = "real"
  <2>1. Normal(Lower(RefinedBall(rhs.number, p))) /\ Normal(Upper(RefinedBall(rhs.number, p)))
    BY <1>1, <1>4, RefinedBallIs
  <2> QED
    BY <1>3, <1>4, <2>1 DEF ScaledBy, OtherAt, a
<1>5. CASE rhs.kind = "arf"
  <2>1. Normal(Lower(Exactly(rhs.value))) /\ Normal(Upper(Exactly(rhs.value)))
    BY <1>2, <1>5, ExactlyIs
  <2> QED
    BY <1>3, <1>5, <2>1 DEF ScaledBy, OtherAt, a
<1>6. CASE rhs.kind = "mpq"
  <2> DEFINE y == Int2Dyadic(rhs.num)
             c == Ball(DTimes(a.mid, Int2Dyadic(rhs.den)), DTimes(a.rad, Int2Dyadic(rhs.den)))
  <2>1. Normal(y)
    BY <1>2, <1>6, IntegerValue
  <2> HIDE DEF y
  <2>2. Normal(Lower(Exactly(y))) /\ Normal(Upper(Exactly(y)))
    BY <2>1, ExactlyIs
  <2>3. PICK s \in Nat : Fits(a.mid, s) /\ Fits(a.rad, s)
    BY <1>3, CommonScale
  <2>4. c.mid = DTimes(a.mid, Int2Dyadic(rhs.den)) /\ c.rad = DTimes(a.rad, Int2Dyadic(rhs.den))
    BY DEF Ball
  <2> HIDE DEF c
  <2>5. rhs.den \in Int
    BY <1>2, <1>6
  <2>6. c.mid \in Binary /\ Fits(c.mid, s)
    BY <1>3, <2>3, <2>4, <2>5, MultipleValue
  <2>7. c.rad \in Binary /\ Fits(c.rad, s)
    BY <1>3, <2>3, <2>4, <2>5, MultipleValue
  <2>8. Normal(Lower(c)) /\ Normal(Upper(c))
    BY <2>6, <2>7, EndsAt
  <2>9. OtherAt(rhs, p) = Exactly(y) /\ ScaledBy(rhs, a) = c
    BY <1>6 DEF OtherAt, ScaledBy, c, y
  <2> QED
    BY <2>2, <2>8, <2>9 DEF a
<1> QED
  BY <1>2, <1>4, <1>5, <1>6

LEMMA UndecidedOverlap ==
  ASSUME task.call \in {"less", "greater"},
         NEW b, NEW c, Normal(Lower(b)), Normal(Upper(b)), Normal(Lower(c)), Normal(Upper(c)),
         ~ Yes(b, c), ~ No(b, c)
  PROVE  Overlap(b, c)
<1>1. \/ ~ CertainlyLess(b, c) /\ ~ CertainlyNotLess(b, c)
      \/ ~ CertainlyLess(c, b) /\ ~ CertainlyNotLess(c, b)
  BY DEF Yes, No
<1>2. Overlap(b, c) \/ Overlap(c, b)
  BY <1>1, OverlapIs
<1> QED
  BY <1>2 DEF Overlap

-----------------------------------------------------------------------------
(* The steps preserve the invariant. *)

LEMMA InitHolds == Init => IInv
BY DEF Init, IInv, BallInv, TaskInv, NumbersOfAKindAreOrdered

LEMMA RefineKeeps ==
  ASSUME number \in Number, BallInv, RefineBall
  PROVE  BallInv'
<1> SUFFICES ASSUME number.kind # "product"
             PROVE  asked' \in Nat \ {0} /\ \E p \in Nat \ {0} : asked' <= p /\ ball' = RefinedBall(number, p)
  BY DEF BallInv, RefineBall
<1>1. PICK q \in Precision : ball' = Refine(number, ball, q) /\ asked' = q
  BY DEF RefineBall
<1>2. q \in Nat \ {0} /\ q <= q
  BY PrecisionAssumption
<1>3. Approximable(number)
  BY NumberIs
<1>4. CASE ball = Whole
  <2>1. ball' = RefinedBall(number, q)
    BY <1>1, <1>2, <1>4, RefineIs
  <2> QED
    BY <1>1, <1>2, <2>1
<1>5. CASE \E p \in Nat \ {0} : ball = RefinedBall(number, p)
  <2>1. PICK p \in Nat \ {0} : ball = RefinedBall(number, p)
    BY <1>5
  <2>2. CASE HasAccuracy(ball, q)
    <3>1. q <= p
      BY <1>2, <1>3, <2>1, <2>2, RefinedAccuracy
    <3>2. ball' = RefinedBall(number, p)
      BY <1>1, <1>2, <2>1, <2>2, RefineIs
    <3> QED
      BY <1>1, <1>2, <3>1, <3>2
  <2>3. CASE ~ HasAccuracy(ball, q)
    <3>1. ball' = RefinedBall(number, q)
      BY <1>1, <1>2, <2>3, RefineIs
    <3> QED
      BY <1>1, <1>2, <3>1
  <2> QED
    BY <2>2, <2>3
<1> QED
  BY <1>4, <1>5 DEF BallInv

LEMMA CallStarts ==
  ASSUME number \in Number, CompareCall
  PROVE  IsTask(number, task')
<1>1. PICK rhs \in Target, call \in {"less", "greater"} :
        /\ ~ BothRational(rhs)
        /\ task' = [call |-> call, rhs |-> rhs, self |-> Whole, other |-> Whole,
                    prec |-> IF rhs.kind = "mpq" THEN FastPrecision ELSE 2]
  BY DEF CompareCall
<1>2. ~ (rhs.kind = "mpq" /\ number.kind = "rational")
  BY <1>1 DEF BothRational
<1>3. (IF rhs.kind = "mpq" THEN FastPrecision ELSE 2) \in Nat \ {0}
  BY PrecisionAssumption
<1> HIDE DEF IsPlain
<1> QED
  BY <1>1, <1>2, <1>3 DEF IsTask

\* A round that has left the comparison undecided.
LEMMA UndecidedKeeps ==
  ASSUME number \in Number, IsTask(number, task),
         ~ Yes(Scaled(SelfBall), OtherBall), ~ No(Scaled(SelfBall), OtherBall),
         task' = [task EXCEPT !.self = SelfBall, !.other = OtherBall, !.prec = NextPrecision(@)]
  PROVE  IsTask(number, task')
<1> DEFINE p == task.prec
           rhs == task.rhs
<1>1. /\ task'.call = task.call /\ task'.rhs = rhs /\ task'.self = SelfBall /\ task'.other = OtherBall
      /\ task'.prec = 2 * p
      /\ task' = [call |-> task'.call, rhs |-> task'.rhs, self |-> task'.self, other |-> task'.other,
                  prec |-> task'.prec]
  <2>1. task = [call |-> task.call, rhs |-> task.rhs, self |-> task.self, other |-> task.other, prec |-> task.prec]
    BY DEF IsTask
  <2> QED
    BY <2>1 DEF NextPrecision
<1>2. /\ task.call \in {"less", "greater"} /\ rhs \in Target /\ p \in Nat \ {0}
      /\ ~ (rhs.kind = "mpq" /\ number.kind = "rational")
  BY DEF IsTask
<1>3. 2 * p \in Nat \ {0}
  BY <1>2
<1>4. ASSUME IsPlain(number, rhs)
      PROVE  IsRound(number, task', p)
  <2> DEFINE b == ScaledBy(rhs, RefinedBall(number, p))
             c == OtherAt(rhs, p)
  <2>1. SelfBall = RefinedBall(number, p) /\ OtherBall = c
    BY <1>4, RoundBalls
  <2>2. Normal(Lower(b)) /\ Normal(Upper(b)) /\ Normal(Lower(c)) /\ Normal(Upper(c))
    BY <1>2, <1>4, RoundEnds
  <2>3. Scaled(SelfBall) = b
    BY <1>2, <2>1, ScaledIs
  <2> HIDE DEF b, c
  <2>4. Overlap(b, c)
    BY <1>2, <2>1, <2>2, <2>3, UndecidedOverlap
  <2> QED
    BY <1>1, <2>1, <2>4 DEF IsRound, b, c
<1> HIDE DEF p, rhs
<1>5. IsPlain(number, task'.rhs) => \E q \in Nat \ {0} : IsRound(number, task', q)
  BY <1>1, <1>2, <1>4
<1> QED
  BY <1>1, <1>2, <1>3, <1>5 DEF IsTask

LEMMA StepKeeps ==
  ASSUME number \in Number, TaskInv, CompareStep
  PROVE  TaskInv'
<1>1. IsTask(number, task) /\ number' = number
  BY DEF TaskInv, CompareStep
<1>2. \/ task' = Idle
      \/ /\ ~ Yes(Scaled(SelfBall), OtherBall) /\ ~ No(Scaled(SelfBall), OtherBall)
         /\ task' = [task EXCEPT !.self = SelfBall, !.other = OtherBall, !.prec = NextPrecision(@)]
  BY DEF CompareStep
<1>3. task' = Idle \/ IsTask(number, task')
  BY <1>1, <1>2, UndecidedKeeps
<1> QED
  BY <1>1, <1>3 DEF TaskInv

-----------------------------------------------------------------------------
(* The answers about two numbers of a kind. *)

LEMMA AnswerIsRight ==
  ASSUME NEW r, NEW t, (IsRandom(r) /\ IsRandom(t)) \/ (IsRational(r) /\ IsRational(t)), NEW p \in Nat \ {0}
  PROVE  LET b == RefinedBall(r, p)
             c == RefinedBall(t, p)
             d == Difference(Value(r), Value(t)).m
         IN  /\ CertainlyLess(b, c) \/ CertainlyNotLess(b, c) => (CertainlyLess(b, c) <=> d < 0)
             /\ CertainlyLess(c, b) \/ CertainlyNotLess(c, b) => (CertainlyLess(c, b) <=> d > 0)
<1> DEFINE v == Value(r)
           w == Value(t)
           d == Difference(v, w).m
           f == Difference(w, v).m
           b == RefinedBall(r, p)
           c == RefinedBall(t, p)
<1>1. IsValue(v) /\ IsValue(w)
  BY RandomIsApproximable, RationalIsApproximable DEF Approximable
<1>2. d \in Int /\ f \in Int /\ (d < 0 <=> f > 0) /\ (f < 0 <=> d > 0)
  <2> HIDE DEF v, w
  <2> QED
    BY <1>1, DifferenceFlips
<1>3. (CertainlyLess(b, c) => d < 0) /\ (CertainlyNotLess(b, c) => d > 0)
  BY ApartIsOrdered
<1>4. (CertainlyLess(c, b) => f < 0) /\ (CertainlyNotLess(c, b) => f > 0)
  BY ApartIsOrdered
<1> HIDE DEF d, f, b, c
<1>5. /\ CertainlyLess(b, c) \/ CertainlyNotLess(b, c) => (CertainlyLess(b, c) <=> d < 0)
      /\ CertainlyLess(c, b) \/ CertainlyNotLess(c, b) => (CertainlyLess(c, b) <=> d > 0)
  BY <1>2, <1>3, <1>4
<1> QED
  BY <1>5 DEF d, b, c, v, w

LEMMA StepIsRight ==
  ASSUME number \in Number, TaskInv, NumbersOfAKindAreOrdered, CompareStep
  PROVE  NumbersOfAKindAreOrdered'
<1> DEFINE p == task.prec
           rhs == task.rhs
<1>1. IsTask(number, task) /\ number' = number
  BY DEF TaskInv, CompareStep
<1>2. CASE UNCHANGED result
  BY <1>1, <1>2 DEF NumbersOfAKindAreOrdered, IsRight, BothRational
<1>3. CASE /\ Yes(Scaled(SelfBall), OtherBall) \/ No(Scaled(SelfBall), OtherBall)
           /\ result' = [call |-> task.call, rhs |-> rhs, answer |-> Yes(Scaled(SelfBall), OtherBall)]
  <2>1. /\ task.call \in {"less", "greater"} /\ rhs \in Target /\ p \in Nat \ {0}
        /\ ~ (rhs.kind = "mpq" /\ number.kind = "rational")
    BY <1>1 DEF IsTask
  <2>2. result'.call = task.call /\ result'.rhs = rhs /\ result'.answer = Yes(Scaled(SelfBall), OtherBall)
    BY <1>3
  <2> HIDE DEF rhs, p
  <2>3. SUFFICES ASSUME rhs.kind = "real", number.kind = rhs.number.kind, number.kind \in {"random", "rational"}
                 PROVE  IsRight'
    BY <1>1, <2>1, <2>2 DEF NumbersOfAKindAreOrdered, BothRational
  <2>4. IsPlain(number, rhs)
    BY <2>3 DEF IsPlain
  <2> DEFINE t == rhs.number
             b == RefinedBall(number, p)
             c == RefinedBall(t, p)
             d == Difference(Value(number), Value(t)).m
  <2>5. (IsRandom(number) /\ IsRandom(t)) \/ (IsRational(number) /\ IsRational(t))
    BY <2>1, <2>3, NumberIs, TargetIs
  <2>6. SelfBall = b /\ OtherBall = c /\ Scaled(SelfBall) = b
    <3>1. SelfBall = b /\ OtherBall = OtherAt(rhs, p)
      BY <1>1, <2>4, RoundBalls DEF rhs, p
    <3>2. Scaled(SelfBall) = ScaledBy(rhs, SelfBall)
      BY <2>1, ScaledIs DEF rhs
    <3> QED
      BY <2>3, <3>1, <3>2 DEF OtherAt, ScaledBy
  <2>7. /\ CertainlyLess(b, c) \/ CertainlyNotLess(b, c) => (CertainlyLess(b, c) <=> d < 0)
        /\ CertainlyLess(c, b) \/ CertainlyNotLess(c, b) => (CertainlyLess(c, b) <=> d > 0)
    BY <2>1, <2>5, AnswerIsRight
  <2> HIDE DEF b, c, d
  <2>8. Yes(b, c) <=> IF task.call = "less" THEN CertainlyLess(b, c) ELSE CertainlyLess(c, b)
    BY <2>1, <2>3 DEF Yes, rhs
  <2>9. No(b, c) <=> IF task.call = "less" THEN CertainlyNotLess(b, c) ELSE CertainlyNotLess(c, b)
    BY <2>1, <2>3 DEF No, rhs
  <2>10. Yes(b, c) <=> IF task.call = "less" THEN d < 0 ELSE d > 0
    BY <1>3, <2>1, <2>6, <2>7, <2>8, <2>9
  <2>11. Difference(Value(number'), ValueOfTarget(result'.rhs)).m = d
    BY <1>1, <2>2, <2>3 DEF ValueOfTarget, d
  <2>12. result'.answer <=> IF result'.call = "less" THEN d < 0 ELSE d > 0
    BY <2>2, <2>6, <2>10
  <2> QED
    BY <2>11, <2>12 DEF IsRight
<1> QED
  BY <1>2, <1>3 DEF CompareStep

LEMMA SameIsRight ==
  ASSUME number \in Number, CompareSame
  PROVE  NumbersOfAKindAreOrdered'
<1>1. PICK rhs \in Target, call \in {"less", "greater"} :
        Same(rhs) /\ result' = [call |-> call, rhs |-> rhs, answer |-> FALSE]
  BY DEF CompareSame
<1>2. number' = number /\ result'.call = call /\ result'.rhs = rhs /\ result'.answer = FALSE
  BY <1>1 DEF CompareSame
<1>3. rhs.kind # "mpq"
  BY <1>1 DEF Same
<1>4. SUFFICES ASSUME rhs.kind = "real", number.kind \in {"random", "rational"}
               PROVE  IsRight'
  BY <1>2, <1>3 DEF NumbersOfAKindAreOrdered, BothRational
<1>5. rhs.number = number
  BY <1>1, <1>4 DEF Same
<1> DEFINE v == Value(number)
<1>6. IsValue(v)
  BY <1>4, NumberIs DEF Approximable
<1>7. Difference(Value(number'), ValueOfTarget(result'.rhs)) = Difference(v, v)
  BY <1>2, <1>4, <1>5 DEF ValueOfTarget
<1> HIDE DEF v
<1>8. Difference(v, v).m = 0
  BY <1>6, DifferenceFlips
<1> QED
  BY <1>2, <1>7, <1>8 DEF IsRight

LEMMA RationalsAreRight ==
  ASSUME number \in Number, CompareRationals
  PROVE  NumbersOfAKindAreOrdered'
<1>1. PICK rhs \in Target, call \in {"less", "greater"} :
        BothRational(rhs) /\ result' = [call |-> call, rhs |-> rhs, answer |-> RationalIs(call, rhs)]
  BY DEF CompareRationals
<1>2. number' = number /\ result'.call = call /\ result'.rhs = rhs /\ result'.answer = RationalIs(call, rhs)
  BY <1>1 DEF CompareRationals
<1>3. rhs.kind = "mpq" /\ number.kind = "rational"
  BY <1>1 DEF BothRational
<1> DEFINE n == number.num
           d == number.den
           m == rhs.num
           e == rhs.den
<1>4. n \in Int /\ d \in Nat \ {0} /\ m \in Int /\ e \in Nat \ {0}
  BY <1>3, NumberIs, TargetIs DEF IsRational
<1>5. Difference(Value(number'), ValueOfTarget(result'.rhs)) = Difference(Fraction(n, d), Fraction(m, e))
  BY <1>2, <1>3 DEF Value, ValueOfTarget, Fraction
<1>6. RationalIs(call, rhs) <=> IF call = "less" THEN n * e < m * d ELSE m * d < n * e
  BY DEF RationalIs
<1> HIDE DEF n, d, m, e
<1>7. /\ Difference(Fraction(n, d), Fraction(m, e)).m < 0 <=> n * e < m * d
      /\ Difference(Fraction(n, d), Fraction(m, e)).m > 0 <=> m * d < n * e
  BY <1>4, FractionOrder
<1>8. IsRight'
  BY <1>2, <1>5, <1>6, <1>7 DEF IsRight
<1> QED
  BY <1>8 DEF NumbersOfAKindAreOrdered

LEMMA NextKeeps ==
  ASSUME IInv, Next
  PROVE  IInv'
<1>1. number \in Number /\ BallInv /\ TaskInv /\ NumbersOfAKindAreOrdered
  BY DEF IInv
<1>2. CASE RefineBall
  <2>1. UNCHANGED <<number, task, result>>
    BY <1>2 DEF RefineBall
  <2>2. BallInv'
    BY <1>1, <1>2, RefineKeeps
  <2>3. TaskInv' /\ NumbersOfAKindAreOrdered'
    BY <1>1, <2>1 DEF TaskInv, NumbersOfAKindAreOrdered, IsRight, BothRational
  <2> QED
    BY <1>1, <2>1, <2>2, <2>3 DEF IInv
<1>3. ASSUME UNCHANGED <<number, ball, asked>>
      PROVE  number' \in Number /\ BallInv'
  BY <1>1, <1>3 DEF BallInv
<1>4. CASE CompareSame
  <2>1. NumbersOfAKindAreOrdered'
    BY <1>1, <1>4, SameIsRight
  <2>2. UNCHANGED <<number, ball, asked, task>>
    BY <1>4 DEF CompareSame
  <2> QED
    BY <1>1, <1>3, <2>1, <2>2 DEF IInv, TaskInv
<1>5. CASE CompareRationals
  <2>1. NumbersOfAKindAreOrdered'
    BY <1>1, <1>5, RationalsAreRight
  <2>2. UNCHANGED <<number, ball, asked, task>>
    BY <1>5 DEF CompareRationals
  <2> QED
    BY <1>1, <1>3, <2>1, <2>2 DEF IInv, TaskInv
<1>6. CASE CompareCall
  <2>1. IsTask(number, task')
    BY <1>1, <1>6, CallStarts
  <2>2. UNCHANGED <<number, ball, asked>> /\ result' = None
    BY <1>6 DEF CompareCall
  <2>3. TaskInv'
    BY <2>1, <2>2 DEF TaskInv
  <2>4. NumbersOfAKindAreOrdered'
    BY <2>2 DEF NumbersOfAKindAreOrdered
  <2> QED
    BY <1>3, <2>2, <2>3, <2>4 DEF IInv
<1>7. CASE CompareStep
  <2>1. TaskInv' /\ NumbersOfAKindAreOrdered'
    BY <1>1, <1>7, StepKeeps, StepIsRight
  <2>2. UNCHANGED <<number, ball, asked>>
    BY <1>7 DEF CompareStep
  <2> QED
    BY <1>3, <2>1, <2>2 DEF IInv
<1> QED
  BY <1>2, <1>4, <1>5, <1>6, <1>7 DEF Next

LEMMA StutterKeeps ==
  ASSUME IInv, UNCHANGED vars
  PROVE  IInv'
BY DEF IInv, vars, BallInv, TaskInv, NumbersOfAKindAreOrdered, IsRight, BothRational

LEMMA InvariantHolds == Spec => []IInv
<1>1. IInv /\ [Next]_vars => IInv'
  BY NextKeeps, StutterKeeps
<1> QED
  BY <1>1, InitHolds, PTL DEF Spec

-----------------------------------------------------------------------------
(* What the invariant says about a state. *)

LEMMA AskedBall ==
  ASSUME IInv, number.kind # "product", asked # 0
  PROVE  /\ Approximable(number) /\ asked \in Nat \ {0}
         /\ \E p \in Nat \ {0} : asked <= p /\ ball = RefinedBall(number, p)
BY NumberIs DEF IInv, BallInv

LEMMA FindsRefined ==
  ASSUME IInv, number.kind # "product"
  PROVE  RefinedIsFound
<1> SUFFICES ASSUME asked # 0
             PROVE  Cmp(number, ball) = 0
  BY DEF RefinedIsFound
<1>1. PICK p \in Nat \ {0} : ball = RefinedBall(number, p)
  BY AskedBall
<1>2. Approximable(number)
  BY AskedBall
<1> QED
  BY <1>1, <1>2, CmpFindsRefined DEF RefinedBall

LEMMA RefineHolds ==
  ASSUME IInv, number.kind # "product"
  PROVE  RefineAssertions
<1>1. ASSUME asked # 0, number # Rational(0, 1)
      PROVE  HasAccuracy(ball, asked)
  <2>1. PICK p \in Nat \ {0} : asked <= p /\ ball = RefinedBall(number, p)
    BY <1>1, AskedBall
  <2>2. Approximable(number) /\ asked \in Nat \ {0}
    BY <1>1, AskedBall
  <2> QED
    BY <1>1, <2>1, <2>2, RefinedAccuracy
<1> QED
  BY <1>1, FindsRefined DEF RefineAssertions

LEMMA ArfHolds ==
  ASSUME IInv, number.kind # "product"
  PROVE  ArfIsAccurate
<1> SUFFICES ASSUME NEW prec \in Precision
             PROVE  LET v == Value(number)
                        a == Approximate(number, prec)
                        error == DAbs(Difference(v, [num |-> a, den |-> 1]))
                    IN  DLeq(DShift(error, prec), DAbs(v.num)) /\ Bits(a.m) <= prec + 1
  BY DEF ArfIsAccurate
<1>1. prec \in Nat \ {0} /\ Approximable(number)
  BY PrecisionAssumption, NumberIs DEF IInv
<1>2. Fine(Approximate(number, prec), Value(number), prec)
  BY <1>1 DEF Approximable
<1> QED
  BY <1>2 DEF Fine, Short, Accurate, Distance, Only

\* A comparison that goes on has refined both balls.
LEMMA RunningTask ==
  ASSUME IInv, task # Idle, IsPlain(number, task.rhs), ~ task.self.whole \/ ~ task.other.whole
  PROVE  /\ task.rhs \in Target /\ ~ (task.rhs.kind = "mpq" /\ number.kind = "rational") /\ number \in Number
         /\ Approximable(number) /\ (task.rhs.kind = "real" => Approximable(task.rhs.number))
         /\ \E q \in Nat \ {0} : IsRound(number, task, q)
<1>1. IsTask(number, task) /\ number \in Number
  BY DEF IInv, TaskInv
<1>2. Whole.whole = TRUE
  BY DEF Whole
<1>3. \E q \in Nat \ {0} : IsRound(number, task, q)
  BY <1>1, <1>2 DEF IsTask
<1>4. task.rhs \in Target /\ ~ (task.rhs.kind = "mpq" /\ number.kind = "rational")
  BY <1>1 DEF IsTask
<1> QED
  BY <1>1, <1>3, <1>4, PlainNumbers

LEMMA CmpHolds ==
  ASSUME IInv, task # Idle => IsPlain(number, task.rhs)
  PROVE  CmpIsSound
<1> DEFINE b == task.other
<1> SUFFICES ASSUME task # Idle, ~ b.whole, b.rad.m # 0, Cmp(number, b) # 0, Covers(b, number)
             PROVE  FALSE
  BY DEF CmpIsSound
<1>1. PICK q \in Nat \ {0} : IsRound(number, task, q)
  BY RunningTask
<1>2. /\ Approximable(number) /\ (task.rhs.kind = "real" => Approximable(task.rhs.number))
      /\ task.rhs \in Target
  BY RunningTask
<1>3. b = OtherAt(task.rhs, q)
  BY <1>1 DEF IsRound
<1>4. task.rhs.kind = "real"
  <2>1. /\ task.rhs.kind \in {"real", "arf", "mpq"}
        /\ task.rhs.kind = "arf" => Normal(task.rhs.value)
        /\ task.rhs.kind = "mpq" => task.rhs.num \in Int
    BY <1>2, TargetIs
  <2>2. task.rhs.kind = "arf" => b.rad.m = 0
    <3>1. task.rhs.kind = "arf" => b = Exactly(task.rhs.value)
      BY <1>3 DEF OtherAt
    <3> QED
      BY <2>1, <3>1, ExactlyIs
  <2>3. task.rhs.kind = "mpq" => b.rad.m = 0
    <3>1. task.rhs.kind = "mpq" => b = Exactly(Int2Dyadic(task.rhs.num))
      BY <1>3 DEF OtherAt
    <3>2. task.rhs.kind = "mpq" => Normal(Int2Dyadic(task.rhs.num))
      BY <2>1, IntegerValue
    <3> HIDE DEF b
    <3> QED
      BY <3>1, <3>2, ExactlyIs
  <2> QED
    BY <2>1, <2>2, <2>3
<1>5. b = RefinedBall(task.rhs.number, q)
  BY <1>3, <1>4 DEF OtherAt
<1> HIDE DEF b
<1>6. Normal(b.mid) /\ Normal(b.rad) /\ b.whole = FALSE /\ Accuracy(b) = q
  BY <1>2, <1>4, <1>5, RefinedBallIs
<1> QED
  BY <1>2, <1>6, CmpFindsCovered

\* The numbers of an undecided comparison.
LEMMA DistanceHolds ==
  ASSUME NEW n \in Number, NEW rhs \in Target, IsPlain(n, rhs), NEW q \in Nat \ {0},
         Overlap(ScaledBy(rhs, RefinedBall(n, q)), OtherAt(rhs, q))
  PROVE  LET v == Value(n)
             w == ValueOfTarget(rhs)
         IN  DLeq(DAbs(Difference(v, w)),
                  DTimes(Int2Dyadic(3 * (v.den * w.den)), DPlus(RefinedBall(n, q).rad, OtherAt(rhs, q).rad)))
<1> DEFINE v == Value(n)
           w == ValueOfTarget(rhs)
           b == RefinedBall(n, q)
           c == OtherAt(rhs, q)
<1>1. Approximable(n) /\ (rhs.kind = "real" => Approximable(rhs.number))
  BY PlainNumbers
<1>2. /\ rhs.kind \in {"real", "arf", "mpq"}
      /\ rhs.kind = "arf" => Normal(rhs.value)
      /\ rhs.kind = "mpq" => rhs.num \in Int /\ rhs.den \in Nat \ {0}
  BY TargetIs
<1>3. IsValue(v) /\ Normal(b.mid) /\ Normal(b.rad) /\ Reaches(b, v)
  BY <1>1, RefinedBallIs, FineReaches
<1> HIDE DEF v, b
<1>4. CASE rhs.kind = "real"
  <2> DEFINE t == rhs.number
             u == Value(t)
             d == RefinedBall(t, q)
  <2>1. IsValue(u) /\ Normal(d.mid) /\ Normal(d.rad) /\ Reaches(d, u)
    BY <1>1, <1>4, RefinedBallIs, FineReaches
  <2>2. w = u /\ c = d /\ ScaledBy(rhs, b) = b
    BY <1>4 DEF ValueOfTarget, OtherAt, ScaledBy
  <2>3. Overlap(b, d)
    BY <2>2 DEF b
  <2> HIDE DEF u, d, w, c
  <2>4. DLeq(DAbs(Difference(v, u)), DTimes(Int2Dyadic(3 * (v.den * u.den)), DPlus(b.rad, d.rad)))
    BY <1>3, <2>1, <2>3, OverlapIsClose
  <2> QED
    BY <2>2, <2>4 DEF v, w, b, c
<1>5. CASE rhs.kind = "arf"
  <2> DEFINE u == Only(rhs.value)
             d == Exactly(rhs.value)
  <2>1. Normal(rhs.value)
    BY <1>2, <1>5
  <2>2. IsValue(u) /\ Normal(d.mid) /\ Normal(d.rad) /\ Reaches(d, u)
    BY <2>1, ExactlyIs, ExactlyReaches DEF Only, IsValue
  <2>3. w = u /\ c = d /\ ScaledBy(rhs, b) = b
    BY <1>5 DEF ValueOfTarget, OtherAt, ScaledBy, Only
  <2>4. Overlap(b, d)
    BY <2>3 DEF b
  <2> HIDE DEF u, d, w, c
  <2>5. DLeq(DAbs(Difference(v, u)), DTimes(Int2Dyadic(3 * (v.den * u.den)), DPlus(b.rad, d.rad)))
    BY <1>3, <2>2, <2>4, OverlapIsClose
  <2> QED
    BY <2>3, <2>5 DEF v, w, b, c
<1>6. CASE rhs.kind = "mpq"
  <2> DEFINE m == rhs.num
             e == rhs.den
             u == Fraction(m, e)
             d == Exactly(Int2Dyadic(m))
  <2>1. m \in Int /\ e \in Nat \ {0}
    BY <1>2, <1>6
  <2>2. w = u /\ c = d /\ w.den = e
    BY <1>6 DEF ValueOfTarget, OtherAt, Fraction
  <2>3. d.rad = Int2Dyadic(0)
    BY DEF Exactly, Ball
  <2>4. Overlap(Ball(DTimes(b.mid, Int2Dyadic(e)), DTimes(b.rad, Int2Dyadic(e))), Exactly(Int2Dyadic(m)))
    BY <1>6, <2>2 DEF b, ScaledBy
  <2> HIDE DEF m, e
  <2>5. DLeq(DAbs(Difference(v, Fraction(m, e))),
             DTimes(Int2Dyadic(3 * (v.den * e)), DPlus(b.rad, Int2Dyadic(0))))
    BY <1>3, <2>1, <2>4, ScaledIsClose
  <2> HIDE DEF w, c, d
  <2> QED
    BY <2>2, <2>3, <2>5 DEF v, w, b, c
<1> QED
  BY <1>2, <1>4, <1>5, <1>6

LEMMA UndecidedHolds ==
  ASSUME IInv, task # Idle => IsPlain(number, task.rhs)
  PROVE  UndecidedAreClose
<1> SUFFICES ASSUME task # Idle, ~ task.self.whole
             PROVE  LET distance == Difference(Value(number), ValueOfTarget(task.rhs))
                        dens == Value(number).den * (IF task.rhs.kind = "real" THEN Value(task.rhs.number).den
                                                ELSE IF task.rhs.kind = "mpq" THEN task.rhs.den ELSE 1)
                    IN  /\ number # Rational(0, 1) => HasAccuracy(task.self, task.prec \div 2)
                        /\ DLeq(DAbs(distance),
                                DTimes(Int2Dyadic(3 * dens), DPlus(task.self.rad, task.other.rad)))
  BY DEF UndecidedAreClose
<1> DEFINE rhs == task.rhs
<1>1. IsPlain(number, rhs)
  OBVIOUS
<1>2. PICK q \in Nat \ {0} : IsRound(number, task, q)
  BY <1>1, RunningTask
<1>3. Approximable(number) /\ rhs \in Target /\ number \in Number
  BY <1>1, RunningTask
<1>4. /\ task.prec = 2 * q /\ task.self = RefinedBall(number, q) /\ task.other = OtherAt(rhs, q)
      /\ Overlap(ScaledBy(rhs, task.self), task.other)
  BY <1>2 DEF IsRound
<1>5. task.prec \div 2 = q /\ q <= q
  BY <1>4
<1>6. number # Rational(0, 1) => HasAccuracy(task.self, task.prec \div 2)
  BY <1>3, <1>4, <1>5, RefinedAccuracy
<1>7. DLeq(DAbs(Difference(Value(number), ValueOfTarget(rhs))),
           DTimes(Int2Dyadic(3 * (Value(number).den * ValueOfTarget(rhs).den)),
                  DPlus(task.self.rad, task.other.rad)))
  BY <1>1, <1>3, <1>4, DistanceHolds
<1>8. ValueOfTarget(rhs).den =
        IF rhs.kind = "real" THEN Value(rhs.number).den ELSE IF rhs.kind = "mpq" THEN rhs.den ELSE 1
  <2>1. rhs.kind \in {"real", "arf", "mpq"}
    BY <1>3, TargetIs
  <2> QED
    BY <2>1 DEF ValueOfTarget
<1> QED
  BY <1>6, <1>7, <1>8

-----------------------------------------------------------------------------
(* The theorems.  Products are left to the model checker. *)

\* The approximations of random, rational and constrained numbers have the
\* accuracy and the number of digits that arf promises.
THEOREM ArfAccuracy == Spec => [](number.kind # "product" => ArfIsAccurate)
<1>1. IInv => (number.kind # "product" => ArfIsAccurate)
  BY ArfHolds
<1> QED
  BY <1>1, InvariantHolds, PTL

\* The assertions at the end of refine hold for them, whatever precisions have
\* been asked for before.
THEOREM Refining == Spec => [](number.kind # "product" => RefineAssertions)
<1>1. IInv => (number.kind # "product" => RefineAssertions)
  BY RefineHolds
<1> QED
  BY <1>1, InvariantHolds, PTL

\* When cmp finds such a number outside the ball of another one, it is outside.
THEOREM CmpSoundness == Spec => []((task # Idle => IsPlain(number, task.rhs)) => CmpIsSound)
<1>1. IInv => ((task # Idle => IsPlain(number, task.rhs)) => CmpIsSound)
  BY CmpHolds
<1> QED
  BY <1>1, InvariantHolds, PTL

\* Comparisons of random numbers with each other, and of rational numbers, answer
\* right, in any precision and although the balls need not contain the numbers.
THEOREM Ordering == Spec => []NumbersOfAKindAreOrdered
<1>1. IInv => NumbersOfAKindAreOrdered
  BY DEF IInv
<1> QED
  BY <1>1, InvariantHolds, PTL

\* A comparison without products only goes on while the numbers are close.
THEOREM Closeness == Spec => []((task # Idle => IsPlain(number, task.rhs)) => UndecidedAreClose)
<1>1. IInv => ((task # Idle => IsPlain(number, task.rhs)) => UndecidedAreClose)
  BY UndecidedHolds
<1> QED
  BY <1>1, InvariantHolds, PTL
=============================================================================
