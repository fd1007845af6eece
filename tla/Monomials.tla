----------------------------- MODULE Monomials -----------------------------
(***************************************************************************)
(* Monomials: products of powers of irrational real numbers, as functions  *)
(* from the factors to their positive exponents.  RealNumberProduct keeps  *)
(* them as two vectors, sorted by the ids of the factors; ProductKeys      *)
(* checks that its loops over these vectors compute what is defined here.  *)
(***************************************************************************)
EXTENDS Integers, Functions

Exponent(f, m) == IF m \in DOMAIN f THEN f[m] ELSE 0

\* The factors of a product: the merge of two lists of factors.
Times(f, g) == [m \in DOMAIN f \cup DOMAIN g |-> Exponent(f, m) + Exponent(g, m)]

Divides(g, f) == \A m \in DOMAIN g : g[m] <= Exponent(f, m)

\* Mutant: factors whose exponent drops to zero are kept.
QuotientKeepsZeros(f, g) ==
  [m \in {n \in DOMAIN f : f[n] >= Exponent(g, n)} |-> f[m] - Exponent(g, m)]

Quotient(f, g) ==
  [m \in {n \in DOMAIN f : f[n] > Exponent(g, n)} |-> f[m] - Exponent(g, m)]

\* Mutant: a single factor counts as a product.
IsNotEmpty(f) == DOMAIN f # {}

\* What is left is a product, i.e., neither 1 nor just one of the factors.
IsProper(f) == DOMAIN f # {} /\ ~ \E m \in DOMAIN f : DOMAIN f = {m} /\ f[m] = 1

TotalDegree(f) == FoldFunction(+, 0, f)

\* RealNumber::deglex: is f smaller than g when the factors are sorted by id?
\* Of two monomials of the same degree, the one with the larger exponent at the
\* first factor that tells them apart is the smaller one.
Deglex(id, f, g) ==
  \/ TotalDegree(f) < TotalDegree(g)
  \/ /\ TotalDegree(f) = TotalDegree(g)
     /\ \E m \in DOMAIN f :
          /\ f[m] > Exponent(g, m)
          /\ \A n \in DOMAIN f \cup DOMAIN g :
               id[n] < id[m] => Exponent(f, n) = Exponent(g, n)
=============================================================================
