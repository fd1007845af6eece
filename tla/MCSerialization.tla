-------------------------- MODULE MCSerialization --------------------------
(* A small instance of Serialization for TLC. *)
EXTENDS Serialization, TLC

CONSTANTS a, b, c

MCAtom == {a, b, c}

Square(d) == [e \in {d} |-> 2]

MCBasis == {{Linear(a), Linear(b)}, {Times(Linear(b), Linear(c)), Square(b)}}

\* Coefficients that tell the generators apart.
MCCoefficients == {<<1, 2>>}

\* Only atoms.
MCLinearBasis == {{Linear(a), Linear(b)}}
=============================================================================
