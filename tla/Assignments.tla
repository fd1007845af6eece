---------------------------- MODULE Assignments ----------------------------
(***************************************************************************)
(* What assigning an expression to an Arb or an Arf promises: the variable *)
(* gets the value that the expression has for the values that its          *)
(* variables have before the assignment, also when the variable itself is  *)
(* among them.                                                             *)
(***************************************************************************)
EXTENDS ExpressionTrees

VARIABLES
  values,     \* the values of the variables
  expression  \* the expression that the client has formed last, or Nothing

\* The value of e within calls that fix the settings of outer, if its
\* variables have the values of the valuation.
Meaning(e, outer, valuation) ==
  LET meaning[x \in Tree \X Environment] ==
        LET f == x[1]
            env == x[2]
        IN  IF f.kind = "terminal" THEN valuation[f.of]
            ELSE IF f.kind = "negate" THEN Negated(meaning[<<f.arg, env>>])
            ELSE IF f.kind = "call" THEN meaning[<<f.arg, [env EXCEPT ![f.setting] = f.to]>>]
            ELSE Combined(f.kind, meaning[<<f.left, env>>], meaning[<<f.right, env>>], env)
  IN  meaning[<<e, outer>>]

Init ==
  /\ values = [v \in Variable |-> v]
  /\ expression = Nothing

Form(e) == expression' = e /\ UNCHANGED values

Change(v, value) == values' = [values EXCEPT ![v] = value] /\ UNCHANGED expression

\* v = expression
Assign(v) ==
  /\ Accepted(expression)
  /\ Change(v, Meaning(expression, NothingBound, values))

\* v @= expression, with the settings of the outermost calls.
InPlace(op, v) ==
  \E env \in InPlaceSettings(expression) :
    Change(v, Combined(op, values[v], Meaning(expression, NothingBound, values), env))

Next ==
  \/ \E e \in Tree : Form(e)
  \/ \E v \in Variable :
       \/ Change(v, Negated(v))
       \/ expression # Nothing /\ (Assign(v) \/ \E op \in Operator : InPlace(op, v))

Spec == Init /\ [][Next]_<<values, expression>>
=============================================================================
