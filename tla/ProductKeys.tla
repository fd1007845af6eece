---------------------------- MODULE ProductKeys ----------------------------
(***************************************************************************)
(* The loops over factors in real_number_product.cc.  A product is a pair  *)
(* of vectors, the factors sorted by their id and the exponents; it is     *)
(* looked up by these ids and exponents, with a hash that is multiplied up *)
(* from the ids in size_t arithmetic.  Looking up a product that is given  *)
(* by its two operands compares these to the keys in the cache (Key==)     *)
(* without creating the product; only when there is none, persist merges   *)
(* the operands.  Division and the comparison of monomials walk over two   *)
(* lists of factors in the same way.                                       *)
(*                                                                         *)
(* A list of factors is a sequence of records [id, exp].  One step is one  *)
(* iteration of a loop.                                                    *)
(***************************************************************************)
EXTENDS Naturals, Sequences, FiniteSets, Monomials

CONSTANTS
  Id,           \* ids of irrational real numbers that are no products
  MaxExponent,  \* bound of the model: the exponents of the operands
  WordSize      \* 2^64 in the code: the number of values of a size_t

ASSUME KeyAssumption ==
  Id \subseteq Nat /\ MaxExponent \in Nat \ {0} /\ WordSize \in Nat \ {0}

VARIABLES
  call,    \* the function that is running, or "none"
  lhs, rhs,  \* the factors of its operands
  cached,  \* Key==: the factors of a product in the cache
  i, j, k, \* where the loop is in lhs, rhs, and cached (or quotient)
  quotient, \* operator/: the exponents of lhs that are left
  out,     \* persist, operator/: the factors of the result
  result   \* <<>> while the function runs, then <<what it returned>>

vars == <<call, lhs, rhs, cached, i, j, k, quotient, out, result>>
operands == <<call, lhs, rhs, cached>>

\* The monomial that a list of factors stands for.
Monomial(list) ==
  [m \in {list[n].id : n \in DOMAIN list} |->
     list[CHOOSE n \in DOMAIN list : list[n].id = m].exp]

Sorted(list) == \A n, m \in DOMAIN list : n < m => list[n].id < list[m].id

\* All lists of factors with exponents up to max.
Factors(max) ==
  {list \in UNION {[1 .. n -> [id : Id, exp : 1 .. max]] : n \in 0 .. Cardinality(Id)} : Sorted(list)}

IsAtom(list) == Len(list) = 1 /\ list[1].exp = 1
IsOne(list) == list = <<>>
IsProduct(list) == ~IsOne(list) /\ ~IsAtom(list)

Products(max) == {list \in Factors(max) : IsProduct(list)}

\* Keys in the cache have the ids and the exponents of the factors.
CachedKeys == Products(MaxExponent + 1)

\* Operands are real numbers: products, which have factors, and others.
Atom(id) == [kind |-> "atom", id |-> id]
Product(list) == [kind |-> "product", factors |-> list]
Operands == {Atom(id) : id \in Id} \cup {Product(list) : list \in Products(MaxExponent)}

\* An operand that is no product is its only factor.
OperandFactors(x) == IF x.kind = "product" THEN x.factors ELSE <<[id |-> x.id, exp |-> 1]>>

-----------------------------------------------------------------------------
\* Exponentiation by squaring (a lambda in MonomialsExponents).
Pow(base, exponent) ==
  LET pow[x \in (0 .. WordSize - 1) \X Nat] ==
        LET b == x[1]
            e == x[2]
        IN  IF e = 0 THEN 1 % WordSize
            ELSE ((IF e % 2 = 1 THEN b ELSE 1) * pow[<<(b * b) % WordSize, e \div 2>>]) % WordSize
  IN  pow[<<base % WordSize, exponent>>]

\* The hash of a key that is given by its factors.
HashOfFactors(list) ==
  LET hash[n \in 0 .. Len(list)] ==
        IF n = 0 THEN 1 % WordSize
        ELSE (hash[n - 1] * Pow(list[n].id, list[n].exp)) % WordSize
  IN  hash[Len(list)]

\* The hash of an operand: its id if it is no product.
HashOfOperand(list) == IF IsAtom(list) THEN list[1].id % WordSize ELSE HashOfFactors(list)

\* The hash of a key that is given by two operands.
HashOfOperands(l, r) == (HashOfOperand(l) * HashOfOperand(r)) % WordSize

-----------------------------------------------------------------------------
Init ==
  /\ call = "none"
  /\ lhs = <<>> /\ rhs = <<>> /\ cached = <<>>
  /\ i = 1 /\ j = 1 /\ k = 1
  /\ quotient = <<>> /\ out = <<>>
  /\ result = <<>>

Call(name, l, r, c) ==
  /\ call = "none"
  /\ call' = name
  /\ lhs' = l /\ rhs' = r /\ cached' = c
  /\ quotient' = IF name = "divide" THEN [n \in DOMAIN l |-> l[n].exp] ELSE <<>>
  /\ UNCHANGED <<i, j, k, out, result>>

Running(name) == call = name /\ result = <<>>

Return(value) ==
  /\ result' = <<value>>
  /\ UNCHANGED <<operands, i, j, k, quotient>>

Done ==
  /\ result # <<>>
  /\ call' = "none"
  /\ lhs' = <<>> /\ rhs' = <<>> /\ cached' = <<>>
  /\ i' = 1 /\ j' = 1 /\ k' = 1
  /\ quotient' = <<>> /\ out' = <<>>
  /\ result' = <<>>

-----------------------------------------------------------------------------
\* Key::persist: merge the factors of two operands ...
Push(factor) == out' = Append(out, factor)

PersistLeft ==
  /\ i <= Len(lhs)
  /\ j <= Len(rhs) => lhs[i].id < rhs[j].id
  /\ Push(lhs[i])
  /\ i' = i + 1
  /\ UNCHANGED j

\* Mutant: the exponents of a common factor are not added.
PersistBothForgetsExponent ==
  /\ i <= Len(lhs) /\ j <= Len(rhs)
  /\ lhs[i].id = rhs[j].id
  /\ Push(lhs[i])
  /\ i' = i + 1
  /\ j' = j + 1

PersistBoth ==
  /\ i <= Len(lhs) /\ j <= Len(rhs)
  /\ lhs[i].id = rhs[j].id
  /\ Push([id |-> lhs[i].id, exp |-> lhs[i].exp + rhs[j].exp])
  /\ i' = i + 1
  /\ j' = j + 1

PersistRight ==
  /\ j <= Len(rhs)
  /\ i <= Len(lhs) => rhs[j].id < lhs[i].id
  /\ Push(rhs[j])
  /\ j' = j + 1
  /\ UNCHANGED i

PersistStep ==
  /\ Running("persist")
  /\ lhs # rhs
  /\ PersistLeft \/ PersistBoth \/ PersistRight
  /\ UNCHANGED <<operands, k, quotient, result>>

PersistReturn ==
  /\ Running("persist")
  /\ lhs # rhs
  /\ i > Len(lhs) /\ j > Len(rhs)
  /\ Return(HashOfOperands(lhs, rhs))
  /\ UNCHANGED out

\* ... or double the exponents if both operands are the same number, i.e., the
\* same object (UniqueRepresentation in RealNumbers).
PersistSquare ==
  /\ Running("persist")
  /\ lhs = rhs
  /\ out' = [n \in DOMAIN lhs |-> [lhs[n] EXCEPT !.exp = 2 * @]]
  /\ Return(HashOfOperands(lhs, rhs))

-----------------------------------------------------------------------------
\* Key==: compare the factors of two operands to a key in the cache.
At(list, n, id) == n <= Len(list) /\ list[n].id = id
Behind(list, n, id) == n <= Len(list) /\ list[n].id < id

EqualMatch ==
  LET c == cached[k]
      left == At(lhs, i, c.id)
      right == At(rhs, j, c.id)
  IN  /\ ~Behind(lhs, i, c.id) /\ ~Behind(rhs, j, c.id)
      /\ left \/ right
      /\ c.exp = (IF left THEN lhs[i].exp ELSE 0) + (IF right THEN rhs[j].exp ELSE 0)
      /\ i' = IF left THEN i + 1 ELSE i
      /\ j' = IF right THEN j + 1 ELSE j

EqualStep ==
  /\ Running("equal")
  /\ k <= Len(cached)
  /\ EqualMatch
  /\ k' = k + 1
  /\ UNCHANGED <<operands, quotient, out, result>>

EqualMismatch ==
  /\ Running("equal")
  /\ k <= Len(cached)
  /\ LET c == cached[k]
         left == At(lhs, i, c.id)
         right == At(rhs, j, c.id)
     IN  \/ Behind(lhs, i, c.id) \/ Behind(rhs, j, c.id)
         \/ ~left /\ ~right
         \/ left /\ right /\ lhs[i].exp + rhs[j].exp # c.exp
         \/ left /\ ~right /\ lhs[i].exp # c.exp
         \/ right /\ ~left /\ rhs[j].exp # c.exp
  /\ Return(FALSE)
  /\ UNCHANGED out

\* Mutant: factors of the right operand may be left over.
EqualReturnIgnoresRest ==
  /\ Running("equal")
  /\ k > Len(cached)
  /\ Return(i > Len(lhs))
  /\ UNCHANGED out

EqualReturn ==
  /\ Running("equal")
  /\ k > Len(cached)
  /\ Return(i > Len(lhs) /\ j > Len(rhs))
  /\ UNCHANGED out

-----------------------------------------------------------------------------
\* operator/ of a product by one, which returns the product itself ...
DivideByOne ==
  /\ Running("divide")
  /\ IsOne(rhs)
  /\ out' = lhs
  /\ Return(TRUE)

\* ... by a product ...
DivideSkip ==
  /\ i <= Len(lhs) /\ j <= Len(rhs)
  /\ lhs[i].id < rhs[j].id
  /\ i' = i + 1
  /\ UNCHANGED <<j, quotient>>

\* Mutant: the exponents are not compared before they are subtracted.
DivideFactorUnchecked ==
  /\ i <= Len(lhs) /\ j <= Len(rhs)
  /\ lhs[i].id = rhs[j].id
  /\ quotient' = [quotient EXCEPT ![i] = @ - rhs[j].exp]
  /\ i' = i + 1
  /\ j' = j + 1

DivideFactor ==
  /\ i <= Len(lhs) /\ j <= Len(rhs)
  /\ lhs[i].id = rhs[j].id
  /\ rhs[j].exp <= quotient[i]
  /\ quotient' = [quotient EXCEPT ![i] = @ - rhs[j].exp]
  /\ i' = i + 1
  /\ j' = j + 1

DivideStep ==
  /\ Running("divide")
  /\ ~IsAtom(rhs)
  /\ DivideSkip \/ DivideFactor
  /\ UNCHANGED <<operands, k, out, result>>

\* Mutant of DivideSearch: the search does not move on.
DivideSearchStuck ==
  /\ Running("divide")
  /\ IsAtom(rhs) /\ j <= Len(rhs)
  /\ i <= Len(lhs)
  /\ lhs[i].id = rhs[j].id
  /\ quotient' = [quotient EXCEPT ![i] = @ - 1]
  /\ j' = j + 1
  /\ UNCHANGED <<operands, i, k, out, result>>

\* ... or by a number that is no product, which is searched from the left.
DivideSearch ==
  /\ Running("divide")
  /\ IsAtom(rhs) /\ j <= Len(rhs)
  /\ i <= Len(lhs)
  /\ IF lhs[i].id = rhs[j].id
     THEN /\ quotient' = [quotient EXCEPT ![i] = @ - 1]
          /\ j' = j + 1
          /\ UNCHANGED i
     ELSE /\ i' = i + 1
          /\ UNCHANGED <<quotient, j>>
  /\ UNCHANGED <<operands, k, out, result>>

\* nullopt
DivideFail ==
  /\ Running("divide")
  /\ j <= Len(rhs)
  /\ \/ i > Len(lhs)
     \/ /\ i <= Len(lhs) /\ ~IsAtom(rhs)
        /\ \/ lhs[i].id > rhs[j].id
           \/ lhs[i].id = rhs[j].id /\ rhs[j].exp > quotient[i]
  /\ Return(FALSE)
  /\ UNCHANGED out

\* All of rhs has been found: collect what is left of lhs.
Collecting == Running("divide") /\ ~IsOne(rhs) /\ j > Len(rhs)

\* Mutant: factors with exponent zero are kept.
DivideCollectAll ==
  /\ Collecting
  /\ k <= Len(lhs)
  /\ Push([id |-> lhs[k].id, exp |-> quotient[k]])
  /\ k' = k + 1
  /\ UNCHANGED <<operands, i, j, quotient, result>>

\* Factors with exponent zero are dropped from the result.
DivideCollect ==
  /\ Collecting
  /\ k <= Len(lhs)
  /\ IF quotient[k] # 0 THEN Push([id |-> lhs[k].id, exp |-> quotient[k]]) ELSE UNCHANGED out
  /\ k' = k + 1
  /\ UNCHANGED <<operands, i, j, quotient, result>>

DivideReturn ==
  /\ Collecting
  /\ k > Len(lhs)
  /\ Return(TRUE)
  /\ UNCHANGED out

-----------------------------------------------------------------------------
\* RealNumber::deglex
Degree(list) == TotalDegree(Monomial(list))

\* Numbers that are no products: rationals are smaller than all others, which
\* are sorted by id.  They are smaller than products.
DeglexAtoms ==
  /\ Running("deglex")
  /\ ~(IsProduct(lhs) /\ IsProduct(rhs))
  /\ Return(IF IsProduct(lhs) THEN FALSE
            ELSE IF IsProduct(rhs) THEN TRUE
            ELSE IF IsOne(lhs) THEN ~IsOne(rhs)
            ELSE ~IsOne(rhs) /\ lhs[1].id < rhs[1].id)
  /\ UNCHANGED out

DeglexSame ==
  /\ Running("deglex")
  /\ IsProduct(lhs) /\ lhs = rhs
  /\ Return(FALSE)
  /\ UNCHANGED out

DeglexDegree ==
  /\ Running("deglex")
  /\ IsProduct(lhs) /\ IsProduct(rhs)
  /\ Degree(lhs) # Degree(rhs)
  /\ Return(Degree(lhs) < Degree(rhs))
  /\ UNCHANGED out

ComparingFactors ==
  /\ Running("deglex")
  /\ IsProduct(lhs) /\ IsProduct(rhs)
  /\ lhs # rhs
  /\ Degree(lhs) = Degree(rhs)

DeglexStep ==
  /\ ComparingFactors
  /\ i <= Len(lhs) /\ j <= Len(rhs)
  /\ lhs[i] = rhs[j]
  /\ i' = i + 1
  /\ j' = j + 1
  /\ UNCHANGED <<operands, k, quotient, out, result>>

\* Mutant: of two exponents, the smaller one is taken for the smaller monomial.
DeglexReturnSwapped ==
  /\ ComparingFactors
  /\ i <= Len(lhs) /\ j <= Len(rhs)
  /\ lhs[i] # rhs[j]
  /\ Return(\/ lhs[i].id < rhs[j].id
            \/ lhs[i].id = rhs[j].id /\ lhs[i].exp < rhs[j].exp)
  /\ UNCHANGED out

DeglexReturn ==
  /\ ComparingFactors
  /\ i <= Len(lhs) /\ j <= Len(rhs)
  /\ lhs[i] # rhs[j]
  /\ Return(\/ lhs[i].id < rhs[j].id
            \/ lhs[i].id = rhs[j].id /\ lhs[i].exp > rhs[j].exp)
  /\ UNCHANGED out

-----------------------------------------------------------------------------
Step ==
  \/ PersistStep \/ PersistReturn \/ PersistSquare
  \/ EqualStep \/ EqualMismatch \/ EqualReturn
  \/ DivideByOne \/ DivideStep \/ DivideSearch \/ DivideFail \/ DivideCollect \/ DivideReturn
  \/ DeglexAtoms \/ DeglexSame \/ DeglexDegree \/ DeglexStep \/ DeglexReturn

\* The calls: a key that is given by two operands is persisted or compared to a
\* key in the cache ...
PersistCall ==
  \E l, r \in Operands : Call("persist", OperandFactors(l), OperandFactors(r), <<>>)

EqualCall ==
  \E l, r \in Operands, c \in CachedKeys : Call("equal", OperandFactors(l), OperandFactors(r), c)

\* ... a product is divided, two numbers are compared.
DivideCall ==
  \E l \in Products(MaxExponent) :
    \/ Call("divide", l, <<>>, <<>>)
    \/ \E r \in Operands : Call("divide", l, OperandFactors(r), <<>>)

DeglexCall == \E l, r \in Factors(MaxExponent) : Call("deglex", l, r, <<>>)

Start ==
  /\ call = "none"
  /\ PersistCall \/ EqualCall \/ DivideCall \/ DeglexCall

Next == Start \/ Step \/ Done

\* A function that is running keeps running.
Spec == Init /\ [][Next]_vars /\ WF_vars(Step)
-----------------------------------------------------------------------------
\* The indices of the loops stay in range, the lists are lists of factors.
AreFactors(list) == \A n \in DOMAIN list : list[n].id \in Id /\ list[n].exp \in Nat

TypeOK ==
  /\ call \in {"none", "persist", "equal", "divide", "deglex"}
  /\ i \in 1 .. Len(lhs) + 1
  /\ j \in 1 .. Len(rhs) + 1
  /\ k \in 1 .. Len(IF call = "divide" THEN lhs ELSE cached) + 1
  /\ quotient \in Seq(Nat)
  /\ AreFactors(lhs) /\ AreFactors(rhs) /\ AreFactors(cached) /\ AreFactors(out)
  /\ Sorted(lhs) /\ Sorted(rhs) /\ Sorted(cached) /\ Sorted(out)
  /\ Len(result) <= 1

Returned(name) == call = name /\ result # <<>>
Value == result[1]

\* persist creates the product of its operands.
Merges ==
  Returned("persist") =>
    /\ Monomial(out) = Times(Monomial(lhs), Monomial(rhs))
    /\ IsProduct(out)

\* The hash that persist stores for it, computed from the hashes of the operands,
\* is the one that operator/ and load compute from the factors of the product.
PersistIsTimes ==
  /\ Merges
  /\ Returned("persist") => Value = HashOfFactors(out)

\* A product is found in the cache if and only if it is the product of the
\* operands.
Recognizes ==
  Returned("equal") => (Value <=> Monomial(cached) = Times(Monomial(lhs), Monomial(rhs)))

\* The two keys then have the same hash.
EqualIsTimes ==
  /\ Recognizes
  /\ Returned("equal") /\ Value => HashOfOperands(lhs, rhs) = HashOfFactors(cached)

\* operator/ finds the quotient if and only if there is one.
DivideIsQuotient ==
  Returned("divide") =>
    /\ Value <=> Divides(Monomial(rhs), Monomial(lhs))
    /\ Value => Monomial(out) = Quotient(Monomial(lhs), Monomial(rhs))

\* deglex computes a strict total order in which multiplying both sides by a
\* factor changes nothing, which is what polynomial division relies on.
DeglexIsMonomialOrder ==
  Returned("deglex") =>
    LET f == Monomial(lhs)
        g == Monomial(rhs)
        id == [m \in Id |-> m]
    IN  /\ Value <=> Deglex(id, f, g)
        /\ f = g \/ (Value <=> ~Deglex(id, g, f))
        /\ \A m \in Id : LET x == [n \in {m} |-> 1]
                         IN  Value <=> Deglex(id, Times(f, x), Times(g, x))

\* All the loops come to an end, without running into LIBEXACTREAL_UNREACHABLE.
Terminates == call # "none" ~> result # <<>>
=============================================================================
