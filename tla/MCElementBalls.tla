--------------------------- MODULE MCElementBalls ---------------------------
(* A small instance of ElementBalls for TLC. *)
EXTENDS ElementBalls

MCAtom == {3, 7}

\* Digits for which the elements below are decided before TLC's integers end.
Draw(m, n) == [a \in MCAtom |-> Dyadic(IF a = 3 THEN m ELSE n, -9)]
MCDrawn == {Draw(375, 497), Draw(419, 475), Draw(411, 479), Draw(263, 273)}

Linear(a) == [b \in {a} |-> 1]
Element3(c, d, e) == C!Element(<<C!One, Linear(3), Linear(7)>>, <<c, d, e>>)

\* Zero, integers, and sums in which leading digits cancel.
MCOperand ==
  {Element3(0, 0, 0), Element3(2, 0, 0), Element3(-2, 0, 0), Element3(1, 2, -2),
   Element3(3, -1, -2), Element3(0, 2, 1), Element3(0, 1, 1), Element3(0, -3, 1)}
MCRatio == {<<1, 1>>, <<-3, 2>>, <<2, 1>>}
=============================================================================
