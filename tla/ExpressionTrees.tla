-------------------------- MODULE ExpressionTrees --------------------------
(***************************************************************************)
(* The expressions that the operators of Arb and Arf build (ArbExpr and    *)
(* ArfExpr): trees whose leaves refer to variables.  A call (e)(64) or     *)
(* (e)(Arf::Round::NEAR) fixes a setting for everything in e, i.e., the    *)
(* precision or the rounding, unless a call further inside fixes it again. *)
(***************************************************************************)
EXTENDS Sequences, Naturals

CONSTANTS
  Variable,  \* the Arbs or Arfs of a client
  Tree,      \* expressions, with all their subexpressions
  Height,    \* how deep the operators and calls of an expression are nested
  Setting,   \* what an operation needs: {"prec"} for Arb, {"prec", "round"} for Arf
  Fixed,     \* the values that a call can fix a setting to
  Unbound,   \* a setting without a value
  Nothing    \* stands for: no expression has been formed

Terminal(v) == [kind |-> "terminal", of |-> v]
Negation(e) == [kind |-> "negate", arg |-> e]
Binary(op, e, f) == [kind |-> op, left |-> e, right |-> f]
Call(e, setting, to) == [kind |-> "call", arg |-> e, setting |-> setting, to |-> to]

\* Two of the four operators, which are all treated alike.
Operator == {"plus", "minus"}

IsBinary(e) == e.kind \notin {"terminal", "negate", "call"}

\* Terminals are variables here; numbers that are promoted to an Arb or Arf are
\* variables that do not change.
ASSUME VariableAssumption == Variable # {}

ASSUME TreeAssumption ==
  \A e \in Tree :
    /\ e.kind = "terminal" => e.of \in Variable
    /\ e.kind = "negate" => e.arg \in Tree
    /\ e.kind = "call" => e.arg \in Tree /\ e.setting \in Setting /\ e.to \in Fixed
    /\ IsBinary(e) => e.left \in Tree /\ e.right \in Tree

\* The types of expressions, and thus expressions, are finite.
ASSUME HeightAssumption ==
  /\ Height \in [Tree -> Nat]
  /\ \A e \in Tree :
       /\ e.kind \in {"negate", "call"} => Height[e.arg] < Height[e]
       /\ IsBinary(e) => Height[e.left] < Height[e] /\ Height[e.right] < Height[e]

\* An optional that holds a value has a value, see has_value().
ASSUME UnboundAssumption == Unbound \notin Fixed

\* What PrecTransformation and RoundTransformation find: the outermost of the
\* calls around an expression, as a set of at most one value.
Found(e, setting) ==
  LET found[f \in Tree] ==
        IF f.kind # "call" THEN {}
        ELSE IF f.setting = setting THEN {f.to} ELSE found[f.arg]
  IN  found[e]

\* The settings of v @= e: those of the outermost calls, if there are all of them.
InPlaceSettings(e) == {env \in [Setting -> Fixed] : \A s \in Setting : env[s] \in Found(e, s)}

\* The static assertions of an assignment: all settings are fixed by calls
\* around each binary operator.
Accepted(e) ==
  LET accepted[x \in Tree \X SUBSET Setting] ==
        LET f == x[1]
            bound == x[2]
        IN  \/ f.kind = "terminal"
            \/ f.kind = "negate" /\ accepted[<<f.arg, bound>>]
            \/ f.kind = "call" /\ accepted[<<f.arg, bound \cup {f.setting}>>]
            \/ IsBinary(f) /\ bound = Setting /\ accepted[<<f.left, bound>>] /\ accepted[<<f.right, bound>>]
  IN  accepted[<<e, {}>>]

\* The precision and the rounding of a transformation.
Environment == [Setting -> Fixed \cup {Unbound}]
NothingBound == [s \in Setting |-> Unbound]

\* Values are symbolic, as it does not matter here what operations compute: an
\* operation, what it has been applied to, and the settings it was called with.
Negated(value) == [op |-> "negate", args |-> <<value>>]
Combined(op, a, b, env) == [op |-> op, args |-> <<a, b>>, env |-> env]
=============================================================================
