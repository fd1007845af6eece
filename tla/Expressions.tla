---------------------------- MODULE Expressions ----------------------------
(***************************************************************************)
(* How expressions are evaluated: AssignTransformation walks the tree and  *)
(* writes all intermediate values of its left spine right into the         *)
(* variable that is being assigned to, while that variable may appear in   *)
(* the expression as well.  The recursion of the transformation is an      *)
(* agenda here: evaluate a tree into some location, or apply an operator   *)
(* to what is in a location already.                                       *)
(***************************************************************************)
EXTENDS ExpressionTrees

CONSTANTS
  Temporary, \* locations of the temporaries: Arb ret, Arf ret in eval
  MaxCalls   \* bound of the model: number of assignments

ASSUME LocationAssumption == Variable \cap Temporary = {}

ASSUME CallsAssumption == MaxCalls \in Nat

VARIABLES
  memory,     \* the values at all locations that are in use
  expression, \* the expression that the client has formed last, or Nothing
  agenda,     \* what is left to do for the running assignment
  target,     \* the variable that is being assigned to
  before,     \* history: the variables before the running assignment
  calls       \* the number of assignments so far

vars == <<memory, expression, agenda, target, before, calls>>

Location == Variable \cup Temporary

Evaluate(e, into, env) == [do |-> "evaluate", e |-> e, into |-> into, env |-> env]
Apply(op, into, with, env) == [do |-> "apply", op |-> op, into |-> into, with |-> with, env |-> env]
ApplyNegation(into) == [do |-> "negate", into |-> into]

Init ==
  /\ memory = [v \in Variable |-> v]
  /\ expression = Nothing
  /\ agenda = <<>>
  /\ target = CHOOSE v \in Variable : TRUE
  /\ before = memory
  /\ calls = 0

-----------------------------------------------------------------------------
(* The client. *)

\* The operators of Arb, Arf and of expressions; terminals are references.
Form(e) ==
  /\ agenda = <<>>
  /\ expression = Nothing
  /\ expression' = e
  /\ UNCHANGED <<memory, agenda, target, before, calls>>

\* An expression that has been formed but not evaluated sees changes.
Change(v) ==
  /\ agenda = <<>>
  /\ calls = 0
  /\ memory[v] = v
  /\ memory' = [memory EXCEPT ![v] = Negated(v)]
  /\ UNCHANGED <<expression, agenda, target, before, calls>>

Start(v, e, env) ==
  /\ agenda = <<>>
  /\ calls < MaxCalls
  /\ agenda' = <<Evaluate(e, v, env)>>
  /\ target' = v
  /\ before' = memory
  /\ calls' = calls + 1
  /\ UNCHANGED <<memory, expression>>

Assign(v) ==
  /\ expression # Nothing
  /\ Accepted(expression)
  /\ Start(v, expression, NothingBound)

\* inplace_binop: op(self, expr)(prec)(round)
InPlace(op, v) ==
  /\ expression # Nothing
  /\ \E env \in InPlaceSettings(expression) :
       Start(v, Binary(op, Terminal(v), expression), env)

-----------------------------------------------------------------------------
(* AssignTransformation. *)
Now == Head(agenda)
Then(items) == agenda' = items \o Tail(agenda)
Write(location, value) == memory' = [memory EXCEPT ![location] = value]

Evaluating == agenda # <<>> /\ Now.do = "evaluate"

EvaluateTerminal ==
  /\ Evaluating
  /\ Now.e.kind = "terminal"
  /\ Write(Now.into, memory[Now.e.of])
  /\ Then(<<>>)
  /\ UNCHANGED <<expression, target, before, calls>>

EvaluateCall ==
  /\ Evaluating
  /\ Now.e.kind = "call"
  /\ Then(<<Evaluate(Now.e.arg, Now.into, [Now.env EXCEPT ![Now.e.setting] = Now.e.to])>>)
  /\ UNCHANGED <<memory, expression, target, before, calls>>

EvaluateUnary ==
  /\ Evaluating
  /\ Now.e.kind = "negate"
  /\ Then(<<Evaluate(Now.e.arg, Now.into, Now.env), ApplyNegation(Now.into)>>)
  /\ UNCHANGED <<memory, expression, target, before, calls>>

Fresh == CHOOSE t \in Temporary : t \notin DOMAIN memory

\* Mutant: the left operand is written to the target before the right operand is read.
EvaluateBinaryLeftFirst ==
  /\ Evaluating
  /\ IsBinary(Now.e)
  /\ Temporary \ DOMAIN memory # {}
  /\ memory' = [l \in DOMAIN memory \cup {Fresh} |-> IF l = Fresh THEN 0 ELSE memory[l]]
  /\ Then(<<Evaluate(Now.e.left, Now.into, Now.env),
            Evaluate(Now.e.right, Fresh, Now.env),
            Apply(Now.e.kind, Now.into, Fresh, Now.env)>>)
  /\ UNCHANGED <<expression, target, before, calls>>

\* Mutant: eval does not pass the settings on.
EvaluateBinaryForgets ==
  /\ Evaluating
  /\ IsBinary(Now.e)
  /\ Temporary \ DOMAIN memory # {}
  /\ memory' = [l \in DOMAIN memory \cup {Fresh} |-> IF l = Fresh THEN 0 ELSE memory[l]]
  /\ Then(<<Evaluate(Now.e.right, Fresh, NothingBound),
            Evaluate(Now.e.left, Now.into, Now.env),
            Apply(Now.e.kind, Now.into, Fresh, Now.env)>>)
  /\ UNCHANGED <<expression, target, before, calls>>

\* The right operand is evaluated into a temporary, then the left one.
EvaluateBinary ==
  /\ Evaluating
  /\ IsBinary(Now.e)
  /\ Temporary \ DOMAIN memory # {}
  /\ memory' = [l \in DOMAIN memory \cup {Fresh} |-> IF l = Fresh THEN 0 ELSE memory[l]]
  /\ Then(<<Evaluate(Now.e.right, Fresh, Now.env),
            Evaluate(Now.e.left, Now.into, Now.env),
            Apply(Now.e.kind, Now.into, Fresh, Now.env)>>)
  /\ UNCHANGED <<expression, target, before, calls>>

ApplyUnary ==
  /\ agenda # <<>> /\ Now.do = "negate"
  /\ Write(Now.into, Negated(memory[Now.into]))
  /\ Then(<<>>)
  /\ UNCHANGED <<expression, target, before, calls>>

\* Mutant: the temporary stays alive.
ApplyBinaryLeaks ==
  /\ agenda # <<>> /\ Now.do = "apply"
  /\ memory' = [memory EXCEPT ![Now.into] = Combined(Now.op, memory[Now.into], memory[Now.with], Now.env)]
  /\ Then(<<>>)
  /\ UNCHANGED <<expression, target, before, calls>>

\* The operator, and the end of the life of the temporary.
ApplyBinary ==
  /\ agenda # <<>> /\ Now.do = "apply"
  /\ memory' = [l \in DOMAIN memory \ {Now.with} |->
                  IF l = Now.into THEN Combined(Now.op, memory[Now.into], memory[Now.with], Now.env)
                  ELSE memory[l]]
  /\ Then(<<>>)
  /\ UNCHANGED <<expression, target, before, calls>>

Step == EvaluateTerminal \/ EvaluateCall \/ EvaluateUnary \/ EvaluateBinary \/ ApplyUnary \/ ApplyBinary

Next ==
  \/ \E e \in Tree : Form(e)
  \/ \E v \in Variable : Change(v) \/ Assign(v) \/ \E op \in Operator : InPlace(op, v)
  \/ Step

Spec == Init /\ [][Next]_vars

-----------------------------------------------------------------------------
A == INSTANCE Assignments WITH
       values <- [v \in Variable |-> IF agenda = <<>> THEN memory[v] ELSE before[v]]

\* Although intermediate values go to the variable that is being assigned to,
\* the result is the value of the expression, with the settings of the
\* innermost calls around each operator; this also holds when the variable
\* appears in the expression, any number of times, and when the expression is
\* evaluated again.
ImplementsAssignments == A!Spec

\* When an operator is applied, the precision and the rounding are fixed; the
\* code dereferences them without a check.  For v @= e, only the calls around e
\* have been looked at.
SettingsAreBound ==
  \A n \in DOMAIN agenda : agenda[n].do = "apply" => \A s \in Setting : agenda[n].env[s] # Unbound

\* An assignment changes no other variable on its way, and leaves no temporary
\* behind.
EvaluationIsLocal ==
  /\ \A v \in Variable : agenda # <<>> /\ v # target => memory[v] = before[v]
  /\ agenda = <<>> => DOMAIN memory = Variable
=============================================================================
