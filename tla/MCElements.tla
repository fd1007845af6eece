----------------------------- MODULE MCElements -----------------------------
(* Small instances of Elements for TLC: Elements.cfg has two irrational
   generators, ElementsLive.cfg only one. *)
EXTENDS Elements

MCAtom == {3, 7}

Linear(a) == [b \in {a} |-> 1]

MCBasis == {{}, {One, Linear(3)}, {Linear(3), Linear(7)}}

\* x *= 2, x *= 3/2, x /= -2/3, and x /= 0
MCRatio == {[num |-> 2, den |-> 1], [num |-> 3, den |-> 2], [num |-> 3, den |-> -2], [num |-> 1, den |-> 0]}

MCOneAtom == {3}
MCOneBasis == {{One, Linear(3)}}
=============================================================================
