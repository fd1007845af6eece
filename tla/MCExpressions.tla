--------------------------- MODULE MCExpressions ---------------------------
(* A small instance of Expressions for TLC: expressions of Arfs. *)
EXTENDS Expressions

CONSTANTS x, y

MCVariable == {x, y}
MCSetting == {"prec", "round"}

Leaves == {Terminal(v) : v \in MCVariable}
WithBoth(E, to) == {Call(Call(e, "prec", to), "round", to) : e \in E}
Sums == {Binary("minus", e, f) : e \in Leaves, f \in Leaves}
Inner == Leaves \cup {Negation(e) : e \in Leaves} \cup Sums \cup {Call(s, "prec", 1) : s \in Sums}
Outer == {Binary("plus", e, f) : e \in Inner, f \in Inner} \cup {Negation(e) : e \in Sums}

\* Expressions with all, some, or no settings.
Client == Outer \cup WithBoth(Outer, 2) \cup {Call(e, "round", 2) : e \in Outer} \cup WithBoth(WithBoth(Sums, 1), 2)
            \cup WithBoth(Leaves, 1)

Subtrees(e) ==
  CASE e.kind = "terminal" -> {}
    [] e.kind \in {"negate", "call"} -> {e.arg}
    [] OTHER -> {e.left, e.right}

Close(E) == E \cup UNION {Subtrees(e) : e \in E}

Formed == Close(Close(Close(Close(Close(Client)))))

MCTree == Formed
MCHeight ==
  LET height[e \in Formed] ==
        CASE e.kind = "terminal" -> 0
          [] e.kind \in {"negate", "call"} -> height[e.arg] + 1
          [] OTHER -> LET l == height[e.left]
                          r == height[e.right]
                      IN  (IF l < r THEN r ELSE l) + 1
  IN  height
MCTemporary == {"temporary1", "temporary2", "temporary3", "temporary4"}
=============================================================================
