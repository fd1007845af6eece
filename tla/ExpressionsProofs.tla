------------------------- MODULE ExpressionsProofs -------------------------
(***************************************************************************)
(* Evaluation is right for all expressions, variables and settings.        *)
(*                                                                         *)
(* It is local: every location that the agenda mentions is the target or a *)
(* temporary, and the temporaries in use are exactly those that an         *)
(* operator on the agenda is going to consume, each of them once.          *)
(*                                                                         *)
(* Operators have their settings: what is on the agenda has been accepted  *)
(* with the settings that it is going to be evaluated with.                *)
(*                                                                         *)
(* It computes the value of the expression: what is left on the agenda     *)
(* takes the memory, as it is now, to the memory that the assignment has   *)
(* to end with.                                                            *)
(***************************************************************************)
EXTENDS Expressions, SequenceTheorems, TLAPS

\* What gets evaluated: expressions, and what v @= e turns into.
Evaluated ==
  Tree \cup {Terminal(v) : v \in Variable}
       \cup {Binary(op, Terminal(v), e) : op \in Operator, v \in Variable, e \in Tree}

Kind == {e.kind : e \in Evaluated}

Item ==
  [do : {"evaluate"}, e : Evaluated, into : Location, env : Environment]
    \cup [do : {"apply"}, op : Kind, into : Location, with : Temporary, env : Environment]
    \cup [do : {"negate"}, into : Location]

TypeInv ==
  /\ agenda \in Seq(Item)
  /\ expression \in Tree \cup {Nothing}
  /\ target \in Variable

\* The operators that are to be applied, the temporaries that they consume,
\* and all that is written to.
Applies(items) == {n \in DOMAIN items : items[n].do = "apply"}
Withs(items) == {items[n].with : n \in Applies(items)}
Distinct(items) == \A m, n \in Applies(items) : items[m].with = items[n].with => m = n
Intos(items) == {items[n].into : n \in DOMAIN items}

IntoTarget == Intos(agenda) \subseteq Temporary \cup {target}

InUse ==
  /\ DOMAIN memory = Variable \cup Withs(agenda)
  /\ Distinct(agenda)

Untouched == agenda # <<>> => \A v \in Variable \ {target} : memory[v] = before[v]

\* EvaluationIsLocal alone is not inductive: it does not say where the items on
\* the agenda write to.
IInv == TypeInv /\ IntoTarget /\ InUse /\ Untouched

-----------------------------------------------------------------------------
(* Trees and agendas. *)

\* The operands of what gets evaluated get evaluated as well.
LEMMA Operands ==
  ASSUME NEW e \in Evaluated
  PROVE  /\ e.kind = "terminal" => e.of \in Variable
         /\ e.kind = "negate" => e.arg \in Evaluated
         /\ e.kind = "call" => e.arg \in Evaluated /\ e.setting \in Setting /\ e.to \in Fixed
         /\ IsBinary(e) => e.left \in Evaluated /\ e.right \in Evaluated
<1>1. CASE e \in Tree
  BY <1>1, TreeAssumption DEF Evaluated, IsBinary, TreeAssumption
<1>2. CASE \E v \in Variable : e = Terminal(v)
  BY <1>2 DEF Terminal, IsBinary
<1>3. CASE \E op \in Operator, v \in Variable, f \in Tree : e = Binary(op, Terminal(v), f)
  <2>1. PICK op \in Operator, v \in Variable, f \in Tree : e = Binary(op, Terminal(v), f)
    BY <1>3
  <2>2. e.kind = op /\ e.left = Terminal(v) /\ e.right = f
    BY <2>1 DEF Binary
  <2>3. e.left \in Evaluated /\ e.right \in Evaluated
    BY <2>2 DEF Evaluated
  <2> QED
    BY <2>2, <2>3 DEF Operator
<1> QED
  BY <1>1, <1>2, <1>3 DEF Evaluated

\* What two agendas write to and consume, one after the other.
LEMMA Concatenated ==
  ASSUME NEW S, NEW a \in Seq(S), NEW b \in Seq(S)
  PROVE  /\ a \o b \in Seq(S)
         /\ Intos(a \o b) = Intos(a) \cup Intos(b)
         /\ Withs(a \o b) = Withs(a) \cup Withs(b)
         /\ Distinct(a) /\ Distinct(b) /\ Withs(a) \cap Withs(b) = {} => Distinct(a \o b)
<1> DEFINE c == a \o b
<1>1. /\ Len(a) \in Nat /\ Len(b) \in Nat
      /\ DOMAIN a = 1 .. Len(a) /\ DOMAIN b = 1 .. Len(b)
  BY LenProperties
<1>2. /\ c \in Seq(S)
      /\ Len(c) = Len(a) + Len(b)
      /\ \A n \in 1 .. Len(a) + Len(b) : c[n] = IF n <= Len(a) THEN a[n] ELSE b[n - Len(a)]
  BY ConcatProperties
<1>3. DOMAIN c = 1 .. Len(a) + Len(b)
  BY <1>2, LenProperties
<1> HIDE DEF c
<1>4. \A n \in DOMAIN a : n \in DOMAIN c /\ c[n] = a[n]
  BY <1>1, <1>2, <1>3
<1>5. \A n \in DOMAIN b : n + Len(a) \in DOMAIN c /\ c[n + Len(a)] = b[n]
  <2> SUFFICES ASSUME NEW n \in DOMAIN b
               PROVE  n + Len(a) \in DOMAIN c /\ c[n + Len(a)] = b[n]
    OBVIOUS
  <2>1. n + Len(a) \in 1 .. Len(a) + Len(b) /\ ~(n + Len(a) <= Len(a)) /\ (n + Len(a)) - Len(a) = n
    BY <1>1
  <2> QED
    BY <1>2, <1>3, <2>1
<1>6. \A n \in DOMAIN c : \/ n \in DOMAIN a /\ c[n] = a[n]
                          \/ n - Len(a) \in DOMAIN b /\ c[n] = b[n - Len(a)] /\ n \notin DOMAIN a
  BY <1>1, <1>2, <1>3
<1>7. Intos(c) = Intos(a) \cup Intos(b)
  BY <1>4, <1>5, <1>6 DEF Intos
<1>8. Withs(c) = Withs(a) \cup Withs(b)
  BY <1>4, <1>5, <1>6 DEF Withs, Applies
<1>9. ASSUME Distinct(a), Distinct(b), Withs(a) \cap Withs(b) = {}
      PROVE  Distinct(c)
  <2> SUFFICES ASSUME NEW m \in Applies(c), NEW n \in Applies(c), c[m].with = c[n].with
               PROVE  m = n
    BY DEF Distinct
  <2>1. m \in DOMAIN c /\ n \in DOMAIN c /\ m \in Int /\ n \in Int
    BY <1>1, <1>3 DEF Applies
  <2>2. CASE m \in DOMAIN a /\ n \in DOMAIN a
    BY <1>4, <1>9, <2>1, <2>2 DEF Distinct, Applies
  <2>3. CASE m \notin DOMAIN a /\ n \notin DOMAIN a
    <3>1. m - Len(a) \in Applies(b) /\ n - Len(a) \in Applies(b)
      BY <1>6, <2>1, <2>3 DEF Applies
    <3>2. b[m - Len(a)].with = b[n - Len(a)].with
      BY <1>6, <2>1, <2>3
    <3>3. m - Len(a) = n - Len(a)
      BY <1>9, <3>1, <3>2 DEF Distinct
    <3> QED
      BY <1>1, <2>1, <3>3
  <2>4. ASSUME NEW x \in Applies(c)
        PROVE  IF x \in DOMAIN a THEN c[x].with \in Withs(a) ELSE c[x].with \in Withs(b)
    <3>1. x \in DOMAIN c /\ c[x].do = "apply"
      BY DEF Applies
    <3>2. CASE x \in DOMAIN a
      <4>1. x \in Applies(a) /\ a[x].with = c[x].with
        BY <1>4, <3>1, <3>2 DEF Applies
      <4> QED
        BY <3>2, <4>1 DEF Withs
    <3>3. CASE x \notin DOMAIN a
      <4>1. x - Len(a) \in Applies(b) /\ b[x - Len(a)].with = c[x].with
        BY <1>6, <3>1, <3>3 DEF Applies
      <4> QED
        BY <3>3, <4>1 DEF Withs
    <3> QED
      BY <3>2, <3>3
  <2>5. m \in DOMAIN a <=> n \in DOMAIN a
    BY <1>9, <2>4
  <2> QED
    BY <2>2, <2>3, <2>5
<1> QED
  BY <1>2, <1>7, <1>8, <1>9 DEF c

\* What an agenda writes to and consumes after its first item.
LEMMA Remaining ==
  ASSUME NEW S, NEW items \in Seq(S), items # <<>>
  PROVE  /\ Head(items) \in S /\ Tail(items) \in Seq(S)
         /\ Intos(items) = {Head(items).into} \cup Intos(Tail(items))
         /\ Head(items).do # "apply" => Withs(items) = Withs(Tail(items))
         /\ Head(items).do = "apply" => Withs(items) = {Head(items).with} \cup Withs(Tail(items))
         /\ Distinct(items) => Distinct(Tail(items))
         /\ Distinct(items) /\ Head(items).do = "apply" => Head(items).with \notin Withs(Tail(items))
<1> DEFINE t == Tail(items)
<1>1. /\ Head(items) \in S /\ t \in Seq(S)
      /\ Len(t) = Len(items) - 1
      /\ \A n \in 1 .. Len(t) : t[n] = items[n + 1]
  BY HeadTailProperties
<1>2. /\ Len(items) \in Nat \ {0}
      /\ DOMAIN items = 1 .. Len(items) /\ DOMAIN t = 1 .. Len(items) - 1
      /\ Head(items) = items[1]
  BY <1>1, LenProperties, EmptySeq
<1> HIDE DEF t
<1>3. \A n \in DOMAIN t : n \in Int /\ n + 1 \in DOMAIN items /\ n + 1 # 1 /\ t[n] = items[n + 1]
  BY <1>1, <1>2
<1>4. \A n \in DOMAIN items : n = 1 \/ (n - 1 \in DOMAIN t /\ items[n] = t[n - 1])
  <2> SUFFICES ASSUME NEW n \in DOMAIN items, n # 1
               PROVE  n - 1 \in DOMAIN t /\ items[n] = t[n - 1]
    OBVIOUS
  <2> DEFINE k == n - 1
  <2>1. k \in DOMAIN t /\ k + 1 = n
    BY <1>2
  <2> HIDE DEF k
  <2>2. t[k] = items[n]
    BY <1>3, <2>1
  <2> QED
    BY <2>1, <2>2 DEF k
<1>5. 1 \in DOMAIN items
  BY <1>2
<1>6. Intos(items) = {Head(items).into} \cup Intos(t)
  BY <1>2, <1>3, <1>4, <1>5 DEF Intos
<1>7. Withs(t) \subseteq Withs(items)
  <2> SUFFICES ASSUME NEW n \in Applies(t)
               PROVE  t[n].with \in Withs(items)
    BY DEF Withs
  <2>1. n + 1 \in Applies(items) /\ t[n].with = items[n + 1].with
    BY <1>3 DEF Applies
  <2> QED
    BY <2>1 DEF Withs
<1>8. \A n \in Applies(items) : n = 1 \/ items[n].with \in Withs(t)
  <2> SUFFICES ASSUME NEW n \in Applies(items), n # 1
               PROVE  items[n].with \in Withs(t)
    OBVIOUS
  <2>1. n - 1 \in Applies(t) /\ items[n].with = t[n - 1].with
    BY <1>4 DEF Applies
  <2> QED
    BY <2>1 DEF Withs
<1>10. /\ Head(items).do # "apply" => Withs(items) = Withs(t)
       /\ Head(items).do = "apply" => Withs(items) = {Head(items).with} \cup Withs(t)
  BY <1>2, <1>5, <1>7, <1>8 DEF Withs, Applies
<1>9. ASSUME Distinct(items)
      PROVE  /\ Distinct(t)
             /\ Head(items).do = "apply" => Head(items).with \notin Withs(t)
  <2>1. ASSUME NEW m \in Applies(t), NEW n \in Applies(t), t[m].with = t[n].with
        PROVE  m = n
    <3>1. m + 1 \in Applies(items) /\ n + 1 \in Applies(items) /\ m \in Int /\ n \in Int
      BY <1>3 DEF Applies
    <3>2. items[m + 1].with = items[n + 1].with
      BY <1>3, <2>1 DEF Applies
    <3>3. m + 1 = n + 1
      BY <1>9, <3>1, <3>2 DEF Distinct
    <3> QED
      BY <3>1, <3>3
  <2>2. ASSUME Head(items).do = "apply", NEW n \in Applies(t)
        PROVE  t[n].with # Head(items).with
    <3>1. n + 1 \in Applies(items) /\ 1 \in Applies(items) /\ n + 1 # 1 /\ t[n] = items[n + 1]
      BY <1>2, <1>3, <1>5, <2>2 DEF Applies
    <3> QED
      BY <1>2, <1>9, <3>1 DEF Distinct
  <2> QED
    BY <2>1, <2>2 DEF Distinct, Withs
<1> QED
  BY <1>1, <1>6, <1>9, <1>10 DEF t

\* The agendas of one item, and of the operands and the operator.
LEMMA Singleton ==
  ASSUME NEW S, NEW a \in S
  PROVE  /\ <<a>> \in Seq(S)
         /\ Intos(<<a>>) = {a.into}
         /\ a.do # "apply" => Withs(<<a>>) = {} /\ Distinct(<<a>>)
         /\ a.do = "apply" => Withs(<<a>>) = {a.with} /\ Distinct(<<a>>)
<1>1. DOMAIN <<a>> = {1} /\ <<a>>[1] = a /\ <<a>> \in Seq(S)
  OBVIOUS
<1> QED
  BY <1>1 DEF Intos, Withs, Distinct, Applies

LEMMA Pair ==
  ASSUME NEW S, NEW a \in S, NEW b \in S, a.do # "apply", b.do # "apply"
  PROVE  /\ <<a, b>> \in Seq(S)
         /\ Intos(<<a, b>>) = {a.into, b.into}
         /\ Withs(<<a, b>>) = {} /\ Distinct(<<a, b>>)
<1>1. /\ DOMAIN <<a, b>> = {1, 2} /\ <<a, b>> \in Seq(S)
      /\ <<a, b>>[1] = a /\ <<a, b>>[2] = b
  OBVIOUS
<1> QED
  BY <1>1 DEF Intos, Withs, Distinct, Applies

LEMMA Triple ==
  ASSUME NEW S, NEW a \in S, NEW b \in S, NEW c \in S,
         a.do # "apply", b.do # "apply", c.do = "apply"
  PROVE  /\ <<a, b, c>> \in Seq(S)
         /\ Intos(<<a, b, c>>) = {a.into, b.into, c.into}
         /\ Withs(<<a, b, c>>) = {c.with} /\ Distinct(<<a, b, c>>)
<1>1. /\ DOMAIN <<a, b, c>> = {1, 2, 3} /\ <<a, b, c>> \in Seq(S)
      /\ <<a, b, c>>[1] = a /\ <<a, b, c>>[2] = b /\ <<a, b, c>>[3] = c
  OBVIOUS
<1> QED
  BY <1>1 DEF Intos, Withs, Distinct, Applies

LEMMA Empty ==
  ASSUME NEW S
  PROVE  <<>> \in Seq(S) /\ Intos(<<>>) = {} /\ Withs(<<>>) = {} /\ Distinct(<<>>)
<1>1. DOMAIN <<>> = {} /\ <<>> \in Seq(S)
  OBVIOUS
<1> QED
  BY <1>1 DEF Intos, Withs, Distinct, Applies

-----------------------------------------------------------------------------
(* Steps. *)

\* What a step does to the agenda and the memory, for each kind of step.
LEMMA StepKeepsInv ==
  ASSUME IInv, agenda # <<>>, NEW front \in Seq(Item),
         agenda' = front \o Tail(agenda),
         Intos(front) \subseteq Temporary \cup {target},
         Distinct(front), Withs(front) \cap Withs(Tail(agenda)) = {},
         DOMAIN memory' = Variable \cup Withs(front) \cup Withs(Tail(agenda)),
         \A v \in Variable \ {target} : memory'[v] = memory[v],
         UNCHANGED <<expression, target, before>>
  PROVE  IInv'
<1>1. /\ Tail(agenda) \in Seq(Item)
      /\ Intos(Tail(agenda)) \subseteq Intos(agenda)
      /\ Distinct(Tail(agenda))
  BY Remaining DEF IInv, TypeInv, InUse
<1>2. /\ agenda' \in Seq(Item)
      /\ Intos(agenda') = Intos(front) \cup Intos(Tail(agenda))
      /\ Withs(agenda') = Withs(front) \cup Withs(Tail(agenda))
      /\ Distinct(agenda')
  <2> DEFINE rest == Tail(agenda)
  <2>1. rest \in Seq(Item) /\ Distinct(rest) /\ Withs(front) \cap Withs(rest) = {}
    BY <1>1
  <2> HIDE DEF rest
  <2>2. /\ front \o rest \in Seq(Item)
        /\ Intos(front \o rest) = Intos(front) \cup Intos(rest)
        /\ Withs(front \o rest) = Withs(front) \cup Withs(rest)
        /\ Distinct(front \o rest)
    BY <2>1, Concatenated
  <2>3. agenda' = front \o rest
    BY DEF rest
  <2>4. /\ agenda' \in Seq(Item)
        /\ Intos(agenda') = Intos(front) \cup Intos(rest)
        /\ Withs(agenda') = Withs(front) \cup Withs(rest)
        /\ Distinct(agenda')
    BY <2>2, <2>3
  <2> QED
    BY <2>4 DEF rest
<1>3. TypeInv'
  BY <1>2 DEF IInv, TypeInv
<1>4. IntoTarget'
  BY <1>1, <1>2 DEF IInv, IntoTarget
<1>5. InUse'
  BY <1>2 DEF InUse
<1>6. Untouched'
  BY DEF IInv, Untouched
<1> QED
  BY <1>3, <1>4, <1>5, <1>6 DEF IInv

\* An assignment starts with the target unchanged and no temporaries.
LEMMA StartKeepsInv ==
  ASSUME IInv, NEW v \in Variable, NEW e \in Evaluated, NEW env \in Environment, Start(v, e, env)
  PROVE  IInv'
<1> DEFINE item == Evaluate(e, v, env)
<1>1. item \in Item /\ item.into = v /\ item.do # "apply"
  BY DEF Evaluate, Item, Location
<1>2. agenda' = <<item>> /\ agenda = <<>> /\ target' = v /\ before' = memory /\ UNCHANGED <<memory, expression>>
  BY DEF Start
<1> HIDE DEF item
<1>3. agenda' \in Seq(Item) /\ Intos(agenda') = {v} /\ Withs(agenda') = {} /\ Distinct(agenda')
  BY <1>1, <1>2, Singleton
<1>4. Withs(agenda) = {}
  BY <1>2, Empty
<1>5. TypeInv' /\ IntoTarget'
  BY <1>2, <1>3 DEF IInv, TypeInv, IntoTarget
<1>6. InUse'
  BY <1>2, <1>3, <1>4 DEF IInv, InUse
<1>7. Untouched'
  BY <1>2 DEF Untouched
<1> QED
  BY <1>5, <1>6, <1>7 DEF IInv

\* The first item of the agenda, and what stays of the agenda.
LEMMA HeadOfAgenda ==
  ASSUME IInv, agenda # <<>>
  PROVE  /\ Now \in Item /\ Now.into \in Temporary \cup {target} /\ Now.into \in Location
         /\ Now.do = "evaluate" => Now.e \in Evaluated /\ Now.env \in Environment
         /\ Now.do = "apply" => Now.with \in Temporary /\ Now.with \notin Withs(Tail(agenda))
         /\ Now.do # "apply" => DOMAIN memory = Variable \cup Withs(Tail(agenda))
         /\ Now.do = "apply" => DOMAIN memory = Variable \cup {Now.with} \cup Withs(Tail(agenda))
<1>1. agenda \in Seq(Item) /\ Distinct(agenda) /\ Intos(agenda) \subseteq Temporary \cup {target}
  BY DEF IInv, TypeInv, InUse, IntoTarget
<1>2. /\ Now \in Item
      /\ Intos(agenda) = {Now.into} \cup Intos(Tail(agenda))
      /\ Now.do # "apply" => Withs(agenda) = Withs(Tail(agenda))
      /\ Now.do = "apply" => Withs(agenda) = {Now.with} \cup Withs(Tail(agenda))
      /\ Now.do = "apply" => Now.with \notin Withs(Tail(agenda))
  BY <1>1, Remaining DEF Now
<1>3. /\ Now.into \in Location
      /\ Now.do = "evaluate" => Now.e \in Evaluated /\ Now.env \in Environment
      /\ Now.do = "apply" => Now.with \in Temporary
  BY <1>2 DEF Item
<1>4. DOMAIN memory = Variable \cup Withs(agenda)
  BY DEF IInv, InUse
<1> QED
  BY <1>1, <1>2, <1>3, <1>4

LEMMA TerminalKeepsInv == ASSUME IInv, EvaluateTerminal PROVE IInv'
<1>1. agenda # <<>> /\ Now.do = "evaluate"
  BY DEF EvaluateTerminal, Evaluating
<1>2. agenda' = <<>> \o Tail(agenda)
  BY DEF EvaluateTerminal, Then
<1>3. DOMAIN memory' = DOMAIN memory
  BY DEF EvaluateTerminal, Write
<1>4. \A v \in Variable \ {target} : memory'[v] = memory[v]
  BY <1>1, HeadOfAgenda, LocationAssumption DEF EvaluateTerminal, Write, LocationAssumption, IInv, InUse
<1> QED
  BY <1>1, <1>2, <1>3, <1>4, HeadOfAgenda, Empty, StepKeepsInv DEF EvaluateTerminal

LEMMA CallKeepsInv == ASSUME IInv, EvaluateCall PROVE IInv'
<1> DEFINE item == Evaluate(Now.e.arg, Now.into, [Now.env EXCEPT ![Now.e.setting] = Now.e.to])
<1>1. agenda # <<>> /\ Now.do = "evaluate" /\ Now.e.kind = "call"
  BY DEF EvaluateCall, Evaluating
<1>2. agenda' = <<item>> \o Tail(agenda) /\ UNCHANGED <<memory, expression, target, before>>
  BY DEF EvaluateCall, Then
<1>3. [Now.env EXCEPT ![Now.e.setting] = Now.e.to] \in Environment
  BY <1>1, HeadOfAgenda, Operands DEF Environment
<1>4. item \in Item /\ item.into = Now.into /\ item.do # "apply"
  BY <1>1, <1>3, HeadOfAgenda, Operands DEF Item, Evaluate
<1> HIDE DEF item
<1>5. /\ DOMAIN memory' = Variable \cup Withs(Tail(agenda))
      /\ \A v \in Variable : memory'[v] = memory[v]
      /\ {Now.into} \subseteq Temporary \cup {target}
  BY <1>1, <1>2, HeadOfAgenda
<1>6. /\ <<item>> \in Seq(Item) /\ Distinct(<<item>>)
      /\ Intos(<<item>>) = {Now.into} /\ Withs(<<item>>) = {}
  BY <1>4, Singleton
<1> QED
  BY <1>1, <1>2, <1>5, <1>6, StepKeepsInv

LEMMA UnaryKeepsInv == ASSUME IInv, EvaluateUnary PROVE IInv'
<1> DEFINE first == Evaluate(Now.e.arg, Now.into, Now.env)
           second == ApplyNegation(Now.into)
<1>1. agenda # <<>> /\ Now.do = "evaluate" /\ Now.e.kind = "negate"
  BY DEF EvaluateUnary, Evaluating
<1>2. agenda' = <<first, second>> \o Tail(agenda) /\ UNCHANGED <<memory, expression, target, before>>
  BY DEF EvaluateUnary, Then
<1>3. /\ first \in Item /\ first.into = Now.into /\ first.do # "apply"
      /\ second \in Item /\ second.into = Now.into /\ second.do # "apply"
  BY <1>1, HeadOfAgenda, Operands DEF Item, Evaluate, ApplyNegation
<1> HIDE DEF first, second
<1>4. /\ <<first, second>> \in Seq(Item) /\ Distinct(<<first, second>>)
      /\ Intos(<<first, second>>) = {Now.into} /\ Withs(<<first, second>>) = {}
  BY <1>3, Pair
<1>5. /\ DOMAIN memory' = Variable \cup Withs(Tail(agenda))
      /\ \A v \in Variable : memory'[v] = memory[v]
      /\ {Now.into} \subseteq Temporary \cup {target}
  BY <1>1, <1>2, HeadOfAgenda
<1> QED
  BY <1>1, <1>2, <1>4, <1>5, StepKeepsInv

LEMMA BinaryKeepsInv == ASSUME IInv, EvaluateBinary PROVE IInv'
<1> DEFINE first == Evaluate(Now.e.right, Fresh, Now.env)
           second == Evaluate(Now.e.left, Now.into, Now.env)
           third == Apply(Now.e.kind, Now.into, Fresh, Now.env)
<1>1. agenda # <<>> /\ Now.do = "evaluate" /\ IsBinary(Now.e) /\ Temporary \ DOMAIN memory # {}
  BY DEF EvaluateBinary, Evaluating
<1>2. Fresh \in Temporary /\ Fresh \notin DOMAIN memory
  BY <1>1 DEF Fresh
<1>3. /\ agenda' = <<first, second, third>> \o Tail(agenda)
      /\ memory' = [l \in DOMAIN memory \cup {Fresh} |-> IF l = Fresh THEN 0 ELSE memory[l]]
      /\ UNCHANGED <<expression, target, before>>
  BY DEF EvaluateBinary, Then
<1>4. /\ first \in Item /\ first.into = Fresh /\ first.do # "apply"
      /\ second \in Item /\ second.into = Now.into /\ second.do # "apply"
      /\ third \in Item /\ third.into = Now.into /\ third.do = "apply" /\ third.with = Fresh
  BY <1>1, <1>2, HeadOfAgenda, Operands DEF Item, Evaluate, Apply, Kind, Location
<1> HIDE DEF first, second, third
<1>5. /\ <<first, second, third>> \in Seq(Item) /\ Distinct(<<first, second, third>>)
      /\ Intos(<<first, second, third>>) = {Fresh, Now.into}
      /\ Withs(<<first, second, third>>) = {Fresh}
  BY <1>4, Triple
<1>6. /\ DOMAIN memory = Variable \cup Withs(Tail(agenda))
      /\ Now.into \in Temporary \cup {target}
  BY <1>1, HeadOfAgenda
<1> HIDE DEF Fresh
<1>7. /\ DOMAIN memory' = Variable \cup {Fresh} \cup Withs(Tail(agenda))
      /\ \A v \in Variable : memory'[v] = memory[v]
      /\ {Fresh} \cap Withs(Tail(agenda)) = {}
  BY <1>2, <1>3, <1>6
<1> QED
  BY <1>1, <1>2, <1>3, <1>5, <1>6, <1>7, StepKeepsInv

LEMMA ApplyUnaryKeepsInv == ASSUME IInv, ApplyUnary PROVE IInv'
<1>1. agenda # <<>> /\ Now.do = "negate"
  BY DEF ApplyUnary
<1>2. agenda' = <<>> \o Tail(agenda)
  BY DEF ApplyUnary, Then
<1>3. DOMAIN memory' = DOMAIN memory
  BY DEF ApplyUnary, Write
<1>4. \A v \in Variable \ {target} : memory'[v] = memory[v]
  BY <1>1, HeadOfAgenda, LocationAssumption DEF ApplyUnary, Write, LocationAssumption, IInv, InUse
<1> QED
  BY <1>1, <1>2, <1>3, <1>4, HeadOfAgenda, Empty, StepKeepsInv DEF ApplyUnary

LEMMA ApplyBinaryKeepsInv == ASSUME IInv, ApplyBinary PROVE IInv'
<1>1. agenda # <<>> /\ Now.do = "apply"
  BY DEF ApplyBinary
<1>2. agenda' = <<>> \o Tail(agenda) /\ UNCHANGED <<expression, target, before>>
  BY DEF ApplyBinary, Then
<1>3. /\ DOMAIN memory = Variable \cup {Now.with} \cup Withs(Tail(agenda))
      /\ Now.with \in Temporary /\ Now.with \notin Withs(Tail(agenda))
      /\ Now.into \in Temporary \cup {target}
  BY <1>1, HeadOfAgenda
<1>4. DOMAIN memory' = DOMAIN memory \ {Now.with}
  BY DEF ApplyBinary
<1>5. \A v \in Variable \ {target} : memory'[v] = memory[v]
  BY <1>3, LocationAssumption DEF ApplyBinary, LocationAssumption
<1>6. DOMAIN memory' = Variable \cup Withs(Tail(agenda))
  BY <1>3, <1>4, LocationAssumption DEF LocationAssumption
<1> QED
  BY <1>1, <1>2, <1>5, <1>6, Empty, StepKeepsInv

-----------------------------------------------------------------------------
LEMMA InvariantInit == Init => IInv
<1> SUFFICES ASSUME Init PROVE IInv
  OBVIOUS
<1>1. agenda = <<>> /\ memory = [v \in Variable |-> v] /\ expression = Nothing
  BY DEF Init
<1>2. agenda \in Seq(Item) /\ Intos(agenda) = {} /\ Withs(agenda) = {} /\ Distinct(agenda)
  BY <1>1, Empty
<1>3. target \in Variable
  BY VariableAssumption DEF Init, VariableAssumption
<1> QED
  BY <1>1, <1>2, <1>3 DEF IInv, TypeInv, IntoTarget, InUse, Untouched

\* What an assignment starts with.
LEMMA StartOfAssign ==
  ASSUME IInv, NEW v \in Variable, Assign(v)
  PROVE  /\ expression \in Tree /\ expression \in Evaluated /\ NothingBound \in Environment
         /\ Start(v, expression, NothingBound)
<1>1. NothingBound \in Environment
  BY DEF NothingBound, Environment
<1> QED
  BY <1>1 DEF Assign, IInv, TypeInv, Evaluated

LEMMA StartOfInPlace ==
  ASSUME IInv, NEW v \in Variable, NEW op \in Operator, InPlace(op, v)
  PROVE  /\ expression \in Tree /\ Binary(op, Terminal(v), expression) \in Evaluated
         /\ \E env \in InPlaceSettings(expression) :
              /\ env \in [Setting -> Fixed] /\ env \in Environment
              /\ Start(v, Binary(op, Terminal(v), expression), env)
<1>1. expression \in Tree
  BY DEF InPlace, IInv, TypeInv
<1>2. Binary(op, Terminal(v), expression) \in Evaluated
  BY <1>1 DEF Evaluated
<1>3. \A env \in InPlaceSettings(expression) : env \in [Setting -> Fixed] /\ env \in Environment
  BY DEF InPlaceSettings, Environment
<1> QED
  BY <1>1, <1>2, <1>3 DEF InPlace

LEMMA InvariantStep == IInv /\ [Next]_vars => IInv'
<1> SUFFICES ASSUME IInv, [Next]_vars PROVE IInv'
  OBVIOUS
<1>1. CASE \E e \in Tree : Form(e)
  BY <1>1 DEF Form, IInv, TypeInv, IntoTarget, InUse, Untouched
<1>2. CASE \E v \in Variable : Change(v)
  BY <1>2 DEF Change, IInv, TypeInv, IntoTarget, InUse, Untouched
<1>3. ASSUME NEW v \in Variable, Assign(v)
      PROVE  IInv'
  BY <1>3, StartOfAssign, StartKeepsInv
<1>4. ASSUME NEW v \in Variable, NEW op \in Operator, InPlace(op, v)
      PROVE  IInv'
  BY <1>4, StartOfInPlace, StartKeepsInv
<1>5. CASE Step
  BY <1>5, TerminalKeepsInv, CallKeepsInv, UnaryKeepsInv, BinaryKeepsInv, ApplyUnaryKeepsInv,
     ApplyBinaryKeepsInv DEF Step
<1>6. CASE UNCHANGED vars
  BY <1>6 DEF vars, IInv, TypeInv, IntoTarget, InUse, Untouched
<1> QED
  BY <1>1, <1>2, <1>3, <1>4, <1>5, <1>6 DEF Next

THEOREM Invariance == Spec => []IInv
  BY InvariantInit, InvariantStep, PTL DEF Spec

\* An evaluation changes no variable but the one that is being assigned to, and
\* frees all its temporaries, whatever the expression is.
THEOREM EvaluationLocal == Spec => []EvaluationIsLocal
<1>1. IInv => EvaluationIsLocal
  <2> SUFFICES ASSUME IInv PROVE EvaluationIsLocal
    OBVIOUS
  <2>1. agenda = <<>> => DOMAIN memory = Variable
    BY Empty DEF IInv, InUse
  <2> QED
    BY <2>1 DEF IInv, Untouched, EvaluationIsLocal
<1> QED
  BY Invariance, <1>1, PTL

-----------------------------------------------------------------------------
(* What the static assertions accept. *)

\* The recursion of Accepted.
AcceptedIf(g, x) ==
  LET f == x[1]
      bound == x[2]
  IN  \/ f.kind = "terminal"
      \/ f.kind = "negate" /\ g[<<f.arg, bound>>]
      \/ f.kind = "call" /\ g[<<f.arg, bound \cup {f.setting}>>]
      \/ IsBinary(f) /\ bound = Setting /\ g[<<f.left, bound>>] /\ g[<<f.right, bound>>]

IsAccepted(g) ==
  g = [x \in Tree \X SUBSET Setting |->
         LET f == x[1]
             bound == x[2]
         IN  \/ f.kind = "terminal"
             \/ f.kind = "negate" /\ g[<<f.arg, bound>>]
             \/ f.kind = "call" /\ g[<<f.arg, bound \cup {f.setting}>>]
             \/ IsBinary(f) /\ bound = Setting /\ g[<<f.left, bound>>] /\ g[<<f.right, bound>>]]

AcceptedWithin == CHOOSE g : IsAccepted(g)

Acceptance == INSTANCE RecursiveFunctions WITH
  Argument <- LAMBDA p : Tree \X SUBSET Setting,
  Measure <- LAMBDA p, x : Height[x[1]],
  Value <- LAMBDA p, g, x : AcceptedIf(g, x)

LEMMA AcceptedWithinExists ==
  /\ IsAccepted(AcceptedWithin)
  /\ \A x \in Tree \X SUBSET Setting : AcceptedWithin[x] = AcceptedIf(AcceptedWithin, x)
<1>1. \A x \in Tree \X SUBSET Setting : Height[x[1]] \in Nat
  BY HeightAssumption DEF HeightAssumption
<1>2. Acceptance!Congruent(0)
  <2> SUFFICES ASSUME NEW x \in Tree \X SUBSET Setting, NEW g, NEW h,
                      \A y \in Tree \X SUBSET Setting : Height[y[1]] < Height[x[1]] => g[y] = h[y]
               PROVE  AcceptedIf(g, x) = AcceptedIf(h, x)
    BY DEF Acceptance!Congruent
  <2> DEFINE f == x[1]
             bound == x[2]
  <2>1. f \in Tree /\ bound \in SUBSET Setting
    OBVIOUS
  <2>2. ASSUME NEW e \in Tree, NEW b \in SUBSET Setting, Height[e] < Height[f]
        PROVE  g[<<e, b>>] = h[<<e, b>>]
    <3>1. <<e, b>> \in Tree \X SUBSET Setting /\ <<e, b>>[1] = e
      OBVIOUS
    <3> QED
      BY <2>2, <3>1
  <2> HIDE DEF f, bound
  <2>3. CASE f.kind = "terminal"
    BY <2>3 DEF AcceptedIf, f, bound
  <2>4. CASE f.kind = "negate"
    <3>1. f.arg \in Tree /\ Height[f.arg] < Height[f]
      BY <2>1, <2>4, TreeAssumption, HeightAssumption DEF TreeAssumption, HeightAssumption
    <3>2. g[<<f.arg, bound>>] = h[<<f.arg, bound>>]
      BY <2>1, <2>2, <3>1
    <3>3. (AcceptedIf(g, x) <=> g[<<f.arg, bound>>]) /\ (AcceptedIf(h, x) <=> h[<<f.arg, bound>>])
      BY <2>4 DEF AcceptedIf, f, bound, IsBinary
    <3>4. AcceptedIf(g, x) <=> AcceptedIf(h, x)
      BY <3>2, <3>3
    <3> QED
      BY <3>4 DEF AcceptedIf
  <2>5. CASE f.kind = "call"
    <3> DEFINE y == <<f.arg, bound \cup {f.setting}>>
    <3>1. f.arg \in Tree /\ Height[f.arg] < Height[f] /\ f.setting \in Setting
      BY <2>1, <2>5, TreeAssumption, HeightAssumption DEF TreeAssumption, HeightAssumption
    <3>2. g[y] = h[y]
      BY <2>1, <2>2, <3>1
    <3>3. (AcceptedIf(g, x) <=> g[y]) /\ (AcceptedIf(h, x) <=> h[y])
      BY <2>5 DEF AcceptedIf, f, bound, IsBinary
    <3> HIDE DEF y
    <3>4. AcceptedIf(g, x) <=> AcceptedIf(h, x)
      BY <3>2, <3>3
    <3> QED
      BY <3>4 DEF AcceptedIf
  <2>6. CASE IsBinary(f)
    <3>1. f.left \in Tree /\ Height[f.left] < Height[f] /\ f.right \in Tree /\ Height[f.right] < Height[f]
      BY <2>1, <2>6, TreeAssumption, HeightAssumption DEF TreeAssumption, HeightAssumption
    <3>2. g[<<f.left, bound>>] = h[<<f.left, bound>>] /\ g[<<f.right, bound>>] = h[<<f.right, bound>>]
      BY <2>1, <2>2, <3>1
    <3>3. /\ AcceptedIf(g, x) <=> bound = Setting /\ g[<<f.left, bound>>] /\ g[<<f.right, bound>>]
          /\ AcceptedIf(h, x) <=> bound = Setting /\ h[<<f.left, bound>>] /\ h[<<f.right, bound>>]
      BY <2>6 DEF AcceptedIf, f, bound, IsBinary
    <3>4. AcceptedIf(g, x) <=> AcceptedIf(h, x)
      BY <3>2, <3>3
    <3> QED
      BY <3>4 DEF AcceptedIf
  <2> QED
    BY <2>3, <2>4, <2>5, <2>6 DEF IsBinary
<1>3. \E f : f = [x \in Tree \X SUBSET Setting |-> AcceptedIf(f, x)]
  BY <1>1, <1>2, Acceptance!Exists
<1>4. \E f : IsAccepted(f)
  BY <1>3 DEF IsAccepted, AcceptedIf
<1>5. IsAccepted(AcceptedWithin)
  BY <1>4 DEF AcceptedWithin
<1>6. ASSUME NEW g, IsAccepted(g), NEW x \in Tree \X SUBSET Setting
      PROVE  g[x] = AcceptedIf(g, x)
  BY <1>6 DEF IsAccepted, AcceptedIf
<1> QED
  BY <1>5, <1>6

LEMMA AcceptedFacts ==
  /\ \A e : Accepted(e) = AcceptedWithin[<<e, {}>>]
  /\ \A e \in Tree, b \in SUBSET Setting :
       /\ e.kind = "negate" => (AcceptedWithin[<<e, b>>] <=> AcceptedWithin[<<e.arg, b>>])
       /\ e.kind = "call" => (AcceptedWithin[<<e, b>>] <=> AcceptedWithin[<<e.arg, b \cup {e.setting}>>])
       /\ IsBinary(e) /\ AcceptedWithin[<<e, b>>] => b = Setting
<1>1. ASSUME NEW e
      PROVE  Accepted(e) = AcceptedWithin[<<e, {}>>]
  BY DEF Accepted, AcceptedWithin, IsAccepted
<1>2. ASSUME NEW e \in Tree, NEW b \in SUBSET Setting
      PROVE  /\ e.kind = "negate" => (AcceptedWithin[<<e, b>>] <=> AcceptedWithin[<<e.arg, b>>])
             /\ e.kind = "call" => (AcceptedWithin[<<e, b>>] <=> AcceptedWithin[<<e.arg, b \cup {e.setting}>>])
             /\ IsBinary(e) /\ AcceptedWithin[<<e, b>>] => b = Setting
  <2>1. <<e, b>> \in Tree \X SUBSET Setting
    OBVIOUS
  <2>2. AcceptedWithin[<<e, b>>] = AcceptedIf(AcceptedWithin, <<e, b>>)
    BY <2>1, AcceptedWithinExists
  <2> QED
    BY <2>2 DEF AcceptedIf, IsBinary
<1> QED
  BY <1>1, <1>2

-----------------------------------------------------------------------------
(* Settings. *)

Bound(env) == {s \in Setting : env[s] # Unbound}

\* All operators in e get their settings, from calls in e or from env.
Suits(e, env) ==
  \/ Bound(env) = Setting
  \/ e \in Tree /\ AcceptedWithin[<<e, Bound(env)>>]

SettledItem ==
  {item \in Item :
     /\ item.do = "evaluate" => Suits(item.e, item.env)
     /\ item.do = "apply" => Bound(item.env) = Setting}

Settled == agenda \in Seq(SettledItem)

LEMMA CallBinds ==
  ASSUME NEW env \in Environment, NEW s \in Setting, NEW to \in Fixed
  PROVE  Bound([env EXCEPT ![s] = to]) = Bound(env) \cup {s}
  BY UnboundAssumption DEF Bound, Environment, UnboundAssumption

\* What suits an expression suits its operands, with the settings that they see.
LEMMA SuitsOperands ==
  ASSUME NEW e \in Evaluated, NEW env \in Environment, Suits(e, env)
  PROVE  /\ e.kind = "negate" => Suits(e.arg, env)
         /\ e.kind = "call" => Suits(e.arg, [env EXCEPT ![e.setting] = e.to])
         /\ IsBinary(e) => Bound(env) = Setting /\ Suits(e.left, env) /\ Suits(e.right, env)
<1>1. Bound(env) \in SUBSET Setting
  BY DEF Bound
<1>2. ASSUME e.kind = "call"
      PROVE  Suits(e.arg, [env EXCEPT ![e.setting] = e.to])
  <2> DEFINE inner == [env EXCEPT ![e.setting] = e.to]
  <2>1. Bound(inner) = Bound(env) \cup {e.setting}
    BY <1>2, CallBinds, Operands
  <2>2. e \in Tree => e.arg \in Tree
    BY <1>2, TreeAssumption DEF TreeAssumption
  <2> HIDE DEF inner
  <2>3. e \in Tree => (AcceptedWithin[<<e, Bound(env)>>] <=> AcceptedWithin[<<e.arg, Bound(inner)>>])
    BY <1>1, <1>2, <2>1, AcceptedFacts
  <2>4. Bound(env) = Setting => Bound(inner) = Setting
    BY <1>1, <1>2, <2>1, Operands
  <2>5. Suits(e.arg, inner)
    BY <2>2, <2>3, <2>4 DEF Suits
  <2> QED
    BY <2>5 DEF inner
<1>3. ASSUME e.kind = "negate"
      PROVE  Suits(e.arg, env)
  <2>1. e \in Tree => e.arg \in Tree
    BY <1>3, TreeAssumption DEF TreeAssumption
  <2> QED
    BY <1>1, <1>3, <2>1, AcceptedFacts DEF Suits
<1>4. ASSUME IsBinary(e)
      PROVE  Bound(env) = Setting
  BY <1>1, <1>4, AcceptedFacts DEF Suits
<1> QED
  BY <1>2, <1>3, <1>4 DEF Suits

\* Items replace the first item of an agenda.
LEMMA StepKeepsSettled ==
  ASSUME Settled, agenda # <<>>, NEW front \in Seq(SettledItem), agenda' = front \o Tail(agenda)
  PROVE  Settled'
<1> DEFINE rest == Tail(agenda)
<1>1. rest \in Seq(SettledItem)
  BY Remaining DEF Settled
<1> HIDE DEF rest
<1>2. front \o rest \in Seq(SettledItem)
  BY <1>1, Concatenated
<1> QED
  BY <1>2 DEF Settled, rest

LEMMA NowIsSettled ==
  ASSUME Settled, agenda # <<>>
  PROVE  Now \in SettledItem
  BY Remaining DEF Settled, Now

LEMMA SettledStep == IInv /\ Settled /\ [Next]_vars => Settled'
<1> SUFFICES ASSUME IInv, Settled, [Next]_vars
             PROVE  Settled'
  OBVIOUS
<1>1. ASSUME agenda' = agenda
      PROVE  Settled'
  BY <1>1 DEF Settled
<1>2. ASSUME NEW v \in Variable, NEW e \in Evaluated, NEW env \in Environment, Suits(e, env), Start(v, e, env)
      PROVE  Settled'
  <2> DEFINE item == Evaluate(e, v, env)
  <2>1. item \in SettledItem
    BY <1>2 DEF Evaluate, SettledItem, Item, Location
  <2> HIDE DEF item
  <2>2. <<item>> \in Seq(SettledItem)
    BY <2>1
  <2> QED
    BY <1>2, <2>2 DEF Start, Settled, item
<1>3. ASSUME NEW v \in Variable, Assign(v)
      PROVE  Settled'
  <2>1. Bound(NothingBound) = {}
    BY DEF Bound, NothingBound
  <2>2. Suits(expression, NothingBound)
    BY <1>3, <2>1, StartOfAssign, AcceptedFacts DEF Suits, Assign
  <2> QED
    BY <1>2, <1>3, <2>2, StartOfAssign
<1>4. ASSUME NEW v \in Variable, NEW op \in Operator, InPlace(op, v)
      PROVE  Settled'
  <2>1. PICK env \in InPlaceSettings(expression) :
          env \in [Setting -> Fixed] /\ env \in Environment /\ Start(v, Binary(op, Terminal(v), expression), env)
    BY <1>4, StartOfInPlace
  <2>2. Bound(env) = Setting
    BY <2>1, UnboundAssumption DEF Bound, UnboundAssumption
  <2>3. Suits(Binary(op, Terminal(v), expression), env)
    BY <2>2 DEF Suits
  <2> QED
    BY <1>2, <1>4, <2>1, <2>3, StartOfInPlace
<1>5. CASE EvaluateTerminal
  <2>1. agenda # <<>> /\ agenda' = <<>> \o Tail(agenda) /\ <<>> \in Seq(SettledItem)
    BY <1>5 DEF EvaluateTerminal, Evaluating, Then
  <2> QED
    BY <2>1, StepKeepsSettled
<1>6. CASE EvaluateCall
  <2> DEFINE item == Evaluate(Now.e.arg, Now.into, [Now.env EXCEPT ![Now.e.setting] = Now.e.to])
  <2>1. agenda # <<>> /\ Now.do = "evaluate" /\ Now.e.kind = "call" /\ agenda' = <<item>> \o Tail(agenda)
    BY <1>6 DEF EvaluateCall, Evaluating, Then
  <2>2. Suits(Now.e, Now.env) /\ Now.e \in Evaluated /\ Now.env \in Environment /\ Now.into \in Location
    BY <2>1, NowIsSettled, HeadOfAgenda DEF SettledItem
  <2>3. /\ [Now.env EXCEPT ![Now.e.setting] = Now.e.to] \in Environment
        /\ Now.e.arg \in Evaluated
    BY <2>1, <2>2, Operands DEF Environment
  <2>4. Suits(Now.e.arg, [Now.env EXCEPT ![Now.e.setting] = Now.e.to])
    BY <2>1, <2>2, SuitsOperands
  <2>5. item \in SettledItem
    BY <2>2, <2>3, <2>4 DEF Evaluate, SettledItem, Item
  <2> HIDE DEF item
  <2>6. <<item>> \in Seq(SettledItem)
    BY <2>5
  <2> QED
    BY <2>1, <2>6, StepKeepsSettled
<1>7. CASE EvaluateUnary
  <2> DEFINE first == Evaluate(Now.e.arg, Now.into, Now.env)
             second == ApplyNegation(Now.into)
  <2>1. agenda # <<>> /\ Now.do = "evaluate" /\ Now.e.kind = "negate" /\ agenda' = <<first, second>> \o Tail(agenda)
    BY <1>7 DEF EvaluateUnary, Evaluating, Then
  <2>2. Suits(Now.e, Now.env) /\ Now.e \in Evaluated /\ Now.env \in Environment /\ Now.into \in Location
    BY <2>1, NowIsSettled, HeadOfAgenda DEF SettledItem
  <2>3. Now.e.arg \in Evaluated /\ Suits(Now.e.arg, Now.env)
    BY <2>1, <2>2, Operands, SuitsOperands
  <2>4. first \in SettledItem /\ second \in SettledItem
    BY <2>2, <2>3 DEF Evaluate, ApplyNegation, SettledItem, Item
  <2> HIDE DEF first, second
  <2>5. <<first, second>> \in Seq(SettledItem)
    BY <2>4
  <2> QED
    BY <2>1, <2>5, StepKeepsSettled
<1>8. CASE EvaluateBinary
  <2> DEFINE first == Evaluate(Now.e.right, Fresh, Now.env)
             second == Evaluate(Now.e.left, Now.into, Now.env)
             third == Apply(Now.e.kind, Now.into, Fresh, Now.env)
  <2>1. /\ agenda # <<>> /\ Now.do = "evaluate" /\ IsBinary(Now.e) /\ Temporary \ DOMAIN memory # {}
        /\ agenda' = <<first, second, third>> \o Tail(agenda)
    BY <1>8 DEF EvaluateBinary, Evaluating, Then
  <2>2. Fresh \in Temporary
    BY <2>1 DEF Fresh
  <2>3. Suits(Now.e, Now.env) /\ Now.e \in Evaluated /\ Now.env \in Environment /\ Now.into \in Location
    BY <2>1, NowIsSettled, HeadOfAgenda DEF SettledItem
  <2>4. /\ Now.e.left \in Evaluated /\ Now.e.right \in Evaluated /\ Bound(Now.env) = Setting
        /\ Suits(Now.e.left, Now.env) /\ Suits(Now.e.right, Now.env)
    BY <2>1, <2>3, Operands, SuitsOperands
  <2>5. first \in SettledItem /\ second \in SettledItem /\ third \in SettledItem
    BY <2>2, <2>3, <2>4 DEF Evaluate, Apply, SettledItem, Item, Location, Kind
  <2> HIDE DEF first, second, third
  <2>6. <<first, second, third>> \in Seq(SettledItem)
    BY <2>5
  <2> QED
    BY <2>1, <2>6, StepKeepsSettled
<1>9. CASE ApplyUnary
  <2>1. agenda # <<>> /\ agenda' = <<>> \o Tail(agenda) /\ <<>> \in Seq(SettledItem)
    BY <1>9 DEF ApplyUnary, Then
  <2> QED
    BY <2>1, StepKeepsSettled
<1>10. CASE ApplyBinary
  <2>1. agenda # <<>> /\ agenda' = <<>> \o Tail(agenda) /\ <<>> \in Seq(SettledItem)
    BY <1>10 DEF ApplyBinary, Then
  <2> QED
    BY <2>1, StepKeepsSettled
<1>11. CASE \/ \E e \in Tree : Form(e)
            \/ \E v \in Variable : Change(v)
            \/ UNCHANGED vars
  BY <1>1, <1>11 DEF Form, Change, vars
<1> QED
  BY <1>3, <1>4, <1>5, <1>6, <1>7, <1>8, <1>9, <1>10, <1>11 DEF Next, Step

\* No operator is applied without a precision and a rounding: the static
\* assertions, or the settings that v @= e has found, are enough.
THEOREM SettingsStayBound == Spec => []SettingsAreBound
<1>1. Init => Settled
  BY DEF Init, Settled
<1>2. Settled => SettingsAreBound
  <2> SUFFICES ASSUME Settled, NEW n \in DOMAIN agenda, agenda[n].do = "apply", NEW s \in Setting
               PROVE  agenda[n].env[s] # Unbound
    BY DEF SettingsAreBound
  <2>1. agenda[n] \in SettledItem
    BY DEF Settled
  <2> QED
    BY <2>1 DEF SettledItem, Bound
<1> QED
  BY Invariance, SettledStep, <1>1, <1>2, PTL DEF Spec

-----------------------------------------------------------------------------
(* The value of an expression. *)

\* The recursion of Found.
FoundIf(setting, g, f) ==
  IF f.kind # "call" THEN {}
  ELSE IF f.setting = setting THEN {f.to} ELSE g[f.arg]

IsFound(setting, g) ==
  g = [f \in Tree |-> IF f.kind # "call" THEN {}
                      ELSE IF f.setting = setting THEN {f.to} ELSE g[f.arg]]

Finding == INSTANCE RecursiveFunctions WITH
  Argument <- LAMBDA p : Tree,
  Measure <- LAMBDA p, f : Height[f],
  Value <- LAMBDA p, g, f : FoundIf(p, g, f)

LEMMA FoundFacts ==
  ASSUME NEW e \in Tree, NEW s
  PROVE  /\ e.kind # "call" => Found(e, s) = {}
         /\ e.kind = "call" => Found(e, s) = IF e.setting = s THEN {e.to} ELSE Found(e.arg, s)
<1>1. \A f \in Tree : Height[f] \in Nat
  BY HeightAssumption DEF HeightAssumption
<1>2. Finding!Congruent(s)
  <2> SUFFICES ASSUME NEW f \in Tree, NEW g, NEW h, \A d \in Tree : Height[d] < Height[f] => g[d] = h[d]
               PROVE  FoundIf(s, g, f) = FoundIf(s, h, f)
    BY DEF Finding!Congruent
  <2>1. f.kind = "call" => f.arg \in Tree /\ Height[f.arg] < Height[f]
    BY TreeAssumption, HeightAssumption DEF TreeAssumption, HeightAssumption
  <2> QED
    BY <2>1 DEF FoundIf
<1>3. \E g : g = [f \in Tree |-> FoundIf(s, g, f)]
  BY <1>1, <1>2, Finding!Exists
<1>4. \E g : IsFound(s, g)
  BY <1>3 DEF IsFound, FoundIf
<1> DEFINE found == CHOOSE g : IsFound(s, g)
<1>5. IsFound(s, found)
  BY <1>4
<1>6. \A f : Found(f, s) = found[f]
  BY DEF Found, IsFound
<1> HIDE DEF found
<1>7. found[e] = FoundIf(s, found, e)
  BY <1>5 DEF IsFound, FoundIf
<1> QED
  BY <1>6, <1>7 DEF FoundIf

\* The recursion of Meaning.
MeaningIf(m, g, x) ==
  LET f == x[1]
      env == x[2]
  IN  IF f.kind = "terminal" THEN m[f.of]
      ELSE IF f.kind = "negate" THEN Negated(g[<<f.arg, env>>])
      ELSE IF f.kind = "call" THEN g[<<f.arg, [env EXCEPT ![f.setting] = f.to]>>]
      ELSE Combined(f.kind, g[<<f.left, env>>], g[<<f.right, env>>], env)

IsMeaning(m, g) ==
  g = [x \in Tree \X Environment |->
         LET f == x[1]
             env == x[2]
         IN  IF f.kind = "terminal" THEN m[f.of]
             ELSE IF f.kind = "negate" THEN Negated(g[<<f.arg, env>>])
             ELSE IF f.kind = "call" THEN g[<<f.arg, [env EXCEPT ![f.setting] = f.to]>>]
             ELSE Combined(f.kind, g[<<f.left, env>>], g[<<f.right, env>>], env)]

Meanings == INSTANCE RecursiveFunctions WITH
  Argument <- LAMBDA p : Tree \X Environment,
  Measure <- LAMBDA p, x : Height[x[1]],
  Value <- LAMBDA p, g, x : MeaningIf(p, g, x)

LEMMA MeaningIsRecursive ==
  ASSUME NEW m
  PROVE  Meanings!Congruent(m)
<1> SUFFICES ASSUME NEW x \in Tree \X Environment, NEW g, NEW h,
                    \A y \in Tree \X Environment : Height[y[1]] < Height[x[1]] => g[y] = h[y]
             PROVE  MeaningIf(m, g, x) = MeaningIf(m, h, x)
  BY DEF Meanings!Congruent
<1> DEFINE f == x[1]
           env == x[2]
<1>1. f \in Tree /\ env \in Environment
  OBVIOUS
<1>2. ASSUME NEW e \in Tree, NEW o \in Environment, Height[e] < Height[f]
      PROVE  g[<<e, o>>] = h[<<e, o>>]
  <2>1. <<e, o>> \in Tree \X Environment /\ <<e, o>>[1] = e
    OBVIOUS
  <2> QED
    BY <1>2, <2>1
<1> HIDE DEF f, env
<1>3. CASE f.kind = "terminal"
  BY <1>3 DEF MeaningIf, f, env
<1>4. CASE f.kind = "negate"
  <2>1. f.arg \in Tree /\ Height[f.arg] < Height[f]
    BY <1>1, <1>4, TreeAssumption, HeightAssumption DEF TreeAssumption, HeightAssumption
  <2>2. g[<<f.arg, env>>] = h[<<f.arg, env>>]
    BY <1>1, <1>2, <2>1
  <2> QED
    BY <1>4, <2>2 DEF MeaningIf, f, env
<1>5. CASE f.kind = "call"
  <2> DEFINE o == [env EXCEPT ![f.setting] = f.to]
  <2>1. f.arg \in Tree /\ Height[f.arg] < Height[f] /\ f.setting \in Setting /\ f.to \in Fixed
    BY <1>1, <1>5, TreeAssumption, HeightAssumption DEF TreeAssumption, HeightAssumption
  <2>2. o \in Environment
    BY <1>1, <2>1 DEF Environment
  <2> HIDE DEF o
  <2>3. g[<<f.arg, o>>] = h[<<f.arg, o>>]
    BY <1>2, <2>1, <2>2
  <2> QED
    BY <1>5, <2>3 DEF MeaningIf, f, env, o
<1>6. CASE IsBinary(f)
  <2>1. f.left \in Tree /\ Height[f.left] < Height[f] /\ f.right \in Tree /\ Height[f.right] < Height[f]
    BY <1>1, <1>6, TreeAssumption, HeightAssumption DEF TreeAssumption, HeightAssumption
  <2>2. g[<<f.left, env>>] = h[<<f.left, env>>] /\ g[<<f.right, env>>] = h[<<f.right, env>>]
    BY <1>1, <1>2, <2>1
  <2> QED
    BY <1>6, <2>2 DEF MeaningIf, f, env, IsBinary
<1> QED
  BY <1>3, <1>4, <1>5, <1>6 DEF IsBinary

LEMMA MeaningFacts ==
  ASSUME NEW e \in Tree, NEW env \in Environment, NEW m
  PROVE  /\ e.kind = "terminal" => A!Meaning(e, env, m) = m[e.of]
         /\ e.kind = "negate" => A!Meaning(e, env, m) = Negated(A!Meaning(e.arg, env, m))
         /\ e.kind = "call" => A!Meaning(e, env, m) = A!Meaning(e.arg, [env EXCEPT ![e.setting] = e.to], m)
         /\ IsBinary(e) => A!Meaning(e, env, m) =
                             Combined(e.kind, A!Meaning(e.left, env, m), A!Meaning(e.right, env, m), env)
<1>1. \A x \in Tree \X Environment : Height[x[1]] \in Nat
  BY HeightAssumption DEF HeightAssumption
<1>2. \E g : g = [x \in Tree \X Environment |-> MeaningIf(m, g, x)]
  BY <1>1, MeaningIsRecursive, Meanings!Exists
<1>3. \E g : IsMeaning(m, g)
  BY <1>2 DEF IsMeaning, MeaningIf
<1> DEFINE meaning == CHOOSE g : IsMeaning(m, g)
<1>4. IsMeaning(m, meaning)
  BY <1>3
<1>5. ASSUME NEW f, NEW o
      PROVE  A!Meaning(f, o, m) = meaning[<<f, o>>]
  BY DEF A!Meaning, A!Environment, A!Negated, A!Combined, IsMeaning, Environment, Negated, Combined
<1> HIDE DEF meaning
<1>6. <<e, env>> \in Tree \X Environment
  OBVIOUS
<1>7. ASSUME NEW g, IsMeaning(m, g), NEW x \in Tree \X Environment
      PROVE  g[x] = MeaningIf(m, g, x)
  BY <1>7 DEF IsMeaning, MeaningIf
<1>8. meaning[<<e, env>>] = MeaningIf(m, meaning, <<e, env>>)
  BY <1>4, <1>6, <1>7
<1>9. /\ e.kind = "terminal" => meaning[<<e, env>>] = m[e.of]
      /\ e.kind = "negate" => meaning[<<e, env>>] = Negated(meaning[<<e.arg, env>>])
      /\ e.kind = "call" => meaning[<<e, env>>] = meaning[<<e.arg, [env EXCEPT ![e.setting] = e.to]>>]
      /\ IsBinary(e) => meaning[<<e, env>>] =
                          Combined(e.kind, meaning[<<e.left, env>>], meaning[<<e.right, env>>], env)
  BY <1>8 DEF MeaningIf, IsBinary
<1> QED
  BY <1>5, <1>9

\* The settings around an expression do not matter if calls on its outside fix
\* them, as those that v @= e has found do.
LEMMA OutermostCallsDecide ==
  ASSUME NEW e \in Tree, NEW env \in Environment, NEW other \in Environment, NEW m,
         \A s \in Setting : env[s] = other[s] \/ Found(e, s) # {}
  PROVE  A!Meaning(e, env, m) = A!Meaning(e, other, m)
<1> DEFINE Agree(f, a, b) == \A s \in Setting : a[s] = b[s] \/ Found(f, s) # {}
           S == {n \in Nat : \A f \in Tree : Height[f] = n =>
                               \A a, b \in Environment : Agree(f, a, b) => A!Meaning(f, a, m) = A!Meaning(f, b, m)}
<1>1. ASSUME NEW n \in Nat, \A k \in Nat : k < n => k \in S
      PROVE  n \in S
  <2> SUFFICES ASSUME NEW f \in Tree, Height[f] = n, NEW a \in Environment, NEW b \in Environment, Agree(f, a, b)
               PROVE  A!Meaning(f, a, m) = A!Meaning(f, b, m)
    OBVIOUS
  <2>1. CASE f.kind # "call"
    <3>1. \A s \in Setting : a[s] = b[s]
      BY <2>1, FoundFacts
    <3>2. a = b
      BY <3>1 DEF Environment
    <3> QED
      BY <3>2
  <2>2. CASE f.kind = "call"
    <3> DEFINE inA == [a EXCEPT ![f.setting] = f.to]
               inB == [b EXCEPT ![f.setting] = f.to]
    <3>1. f.arg \in Tree /\ Height[f.arg] < Height[f] /\ f.setting \in Setting /\ f.to \in Fixed
      BY <2>2, TreeAssumption, HeightAssumption DEF TreeAssumption, HeightAssumption
    <3>2. inA \in Environment /\ inB \in Environment
      BY <3>1 DEF Environment
    <3>3. ASSUME NEW s \in Setting
          PROVE  inA[s] = inB[s] \/ Found(f.arg, s) # {}
      <4>1. CASE s = f.setting
        BY <3>1, <4>1 DEF Environment
      <4>2. CASE s # f.setting
        <5>1. inA[s] = a[s] /\ inB[s] = b[s]
          BY <4>2 DEF Environment
        <5>2. Found(f, s) = Found(f.arg, s)
          BY <2>2, <4>2, FoundFacts
        <5> QED
          BY <5>1, <5>2
      <4> QED
        BY <4>1, <4>2
    <3>4. A!Meaning(f, a, m) = A!Meaning(f.arg, inA, m) /\ A!Meaning(f, b, m) = A!Meaning(f.arg, inB, m)
      BY <2>2, MeaningFacts
    <3> HIDE DEF inA, inB
    <3>5. Height[f.arg] \in Nat
      BY <3>1, HeightAssumption DEF HeightAssumption
    <3>6. A!Meaning(f.arg, inA, m) = A!Meaning(f.arg, inB, m)
      <4>1. Height[f.arg] \in S
        BY <1>1, <3>1, <3>5
      <4>2. Agree(f.arg, inA, inB)
        BY <3>3
      <4> HIDE DEF Agree
      <4> QED
        BY <3>1, <3>2, <4>1, <4>2
    <3> QED
      BY <3>4, <3>6
  <2> QED
    BY <2>1, <2>2
<1> HIDE DEF S
<1>2. \A n \in Nat : n \in S
  BY <1>1, Acceptance!StrongInduct
<1>3. Height[e] \in S
  BY <1>2, HeightAssumption DEF HeightAssumption
<1> QED
  BY <1>3 DEF S

Values(mem) == [v \in Variable |-> mem[v]]

\* The value of what gets evaluated.
Sense(e, env, mem) ==
  IF e \in Tree THEN A!Meaning(e, env, Values(mem))
  ELSE IF e.kind = "terminal" THEN mem[e.of]
  ELSE Combined(e.kind, mem[e.left.of], A!Meaning(e.right, env, Values(mem)), env)

LEMMA SenseFacts ==
  ASSUME NEW e \in Evaluated, NEW env \in Environment, NEW mem
  PROVE  /\ e.kind = "terminal" => Sense(e, env, mem) = mem[e.of]
         /\ e.kind = "negate" => Sense(e, env, mem) = Negated(Sense(e.arg, env, mem))
         /\ e.kind = "call" => Sense(e, env, mem) = Sense(e.arg, [env EXCEPT ![e.setting] = e.to], mem)
         /\ IsBinary(e) => Sense(e, env, mem) = Combined(e.kind, Sense(e.left, env, mem), Sense(e.right, env, mem), env)
<1>1. CASE e \in Tree
  <2>1. /\ e.kind = "terminal" => e.of \in Variable
        /\ e.kind \in {"negate", "call"} => e.arg \in Tree
        /\ IsBinary(e) => e.left \in Tree /\ e.right \in Tree
    BY <1>1, TreeAssumption DEF TreeAssumption
  <2> DEFINE m == Values(mem)
  <2>2. e.kind = "terminal" => m[e.of] = mem[e.of]
    BY <2>1 DEF Values
  <2> HIDE DEF m
  <2>3. \A f \in Tree : \A o : Sense(f, o, mem) = A!Meaning(f, o, m)
    BY DEF Sense, m
  <2> QED
    BY <1>1, <2>1, <2>2, <2>3, MeaningFacts
<1>2. CASE e \notin Tree /\ \E v \in Variable : e = Terminal(v)
  BY <1>2 DEF Terminal, Sense, IsBinary
<1>3. CASE e \notin Tree /\ \E op \in Operator, v \in Variable, f \in Tree : e = Binary(op, Terminal(v), f)
  <2>1. PICK op \in Operator, v \in Variable, f \in Tree : e = Binary(op, Terminal(v), f)
    BY <1>3
  <2>2. e.kind = op /\ e.left = Terminal(v) /\ e.right = f
    BY <2>1 DEF Binary
  <2>3. Sense(e, env, mem) = Combined(op, mem[v], A!Meaning(f, env, Values(mem)), env)
    BY <1>3, <2>2 DEF Sense, Terminal, Operator
  <2>4. Sense(f, env, mem) = A!Meaning(f, env, Values(mem))
    BY DEF Sense
  <2>5. Terminal(v).kind = "terminal" /\ Terminal(v).of = v
    BY DEF Terminal
  <2>6. Sense(Terminal(v), env, mem) = mem[v]
    <3>1. CASE Terminal(v) \in Tree
      <4> DEFINE u == Terminal(v)
                 m == Values(mem)
      <4>1. Sense(u, env, mem) = A!Meaning(u, env, m)
        BY <3>1 DEF Sense
      <4>2. u \in Tree /\ u.kind = "terminal" /\ u.of = v
        BY <2>5, <3>1
      <4>3. m[v] = mem[v]
        BY DEF Values
      <4> HIDE DEF u, m
      <4>4. A!Meaning(u, env, m) = m[v]
        BY <4>2, MeaningFacts
      <4> QED
        BY <4>1, <4>3, <4>4 DEF u
    <3>2. CASE Terminal(v) \notin Tree
      BY <2>5, <3>2 DEF Sense
    <3> QED
      BY <3>1, <3>2
  <2> QED
    BY <2>2, <2>3, <2>4, <2>6 DEF Operator, IsBinary
<1> QED
  BY <1>1, <1>2, <1>3 DEF Evaluated

-----------------------------------------------------------------------------
(* Where an agenda leads to. *)

\* What the recursion of the transformation does to the memory altogether, for
\* an item on the agenda.
Performed(item, mem) ==
  IF item.do = "evaluate" THEN [mem EXCEPT ![item.into] = Sense(item.e, item.env, mem)]
  ELSE IF item.do = "negate" THEN [mem EXCEPT ![item.into] = Negated(mem[item.into])]
  ELSE [l \in DOMAIN mem \ {item.with} |->
          IF l = item.into THEN Combined(item.op, mem[item.into], mem[item.with], item.env) ELSE mem[l]]

\* The items of the agenda take the memory from mem to out.
IsRun(run, items, mem, out) ==
  /\ run[0] = mem
  /\ \A n \in DOMAIN items : items[n].into \in DOMAIN run[n - 1] /\ run[n] = Performed(items[n], run[n - 1])
  /\ run[Len(items)] = out

Leads(items, mem, out) == \E run : IsRun(run, items, mem, out)

LEMMA LeadsNowhere == \A mem, out : Leads(<<>>, mem, out) <=> mem = out
<1>1. ASSUME NEW mem, NEW out, Leads(<<>>, mem, out)
      PROVE  mem = out
  BY <1>1 DEF Leads, IsRun
<1>2. ASSUME NEW mem
      PROVE  Leads(<<>>, mem, mem)
  <2> DEFINE run == [n \in {0} |-> mem]
  <2>1. IsRun(run, <<>>, mem, mem)
    BY DEF IsRun
  <2> QED
    BY <2>1 DEF Leads
<1> QED
  BY <1>1, <1>2

LEMMA LeadsFirst ==
  ASSUME NEW S, NEW items \in Seq(S), items # <<>>, NEW mem, NEW out
  PROVE  Leads(items, mem, out) <=>
           /\ Head(items).into \in DOMAIN mem
           /\ Leads(Tail(items), Performed(Head(items), mem), out)
<1> DEFINE t == Tail(items)
           next == Performed(Head(items), mem)
<1>1. /\ t \in Seq(S) /\ Len(t) = Len(items) - 1
      /\ \A n \in 1 .. Len(t) : t[n] = items[n + 1]
  BY HeadTailProperties
<1>2. /\ Len(items) \in Nat \ {0} /\ Len(t) \in Nat
      /\ DOMAIN items = 1 .. Len(items) /\ DOMAIN t = 1 .. Len(t)
      /\ Head(items) = items[1]
  BY <1>1, LenProperties, EmptySeq
<1> HIDE DEF t, next
<1>3. ASSUME NEW run, IsRun(run, items, mem, out)
      PROVE  Head(items).into \in DOMAIN mem /\ Leads(t, next, out)
  <2> DEFINE rest == [n \in 0 .. Len(t) |-> run[n + 1]]
  <2>1. /\ run[0] = mem /\ run[Len(items)] = out
        /\ \A n \in 1 .. Len(items) :
             items[n].into \in DOMAIN run[n - 1] /\ run[n] = Performed(items[n], run[n - 1])
    BY <1>2, <1>3 DEF IsRun
  <2>2. 1 \in 1 .. Len(items) /\ 1 - 1 = 0
    BY <1>2
  <2>3. Head(items).into \in DOMAIN mem /\ run[1] = next
    BY <1>2, <2>1, <2>2 DEF next
  <2>4. rest[0] = next /\ rest[Len(t)] = out
    BY <1>1, <1>2, <2>1, <2>3
  <2>5. ASSUME NEW n \in 1 .. Len(t)
        PROVE  t[n].into \in DOMAIN rest[n - 1] /\ rest[n] = Performed(t[n], rest[n - 1])
    <3>1. n + 1 \in 1 .. Len(items) /\ (n + 1) - 1 = n /\ (n - 1) + 1 = n /\ n - 1 \in 0 .. Len(t) /\ n \in 0 .. Len(t)
      BY <1>1, <1>2
    <3>2. rest[n - 1] = run[n] /\ rest[n] = run[n + 1]
      BY <3>1
    <3>3. items[n + 1].into \in DOMAIN run[n] /\ run[n + 1] = Performed(items[n + 1], run[n])
      <4> DEFINE k == n + 1
      <4>1. k \in 1 .. Len(items) /\ k - 1 = n
        BY <3>1
      <4> HIDE DEF k
      <4>2. items[k].into \in DOMAIN run[n] /\ run[k] = Performed(items[k], run[n])
        BY <2>1, <4>1
      <4> QED
        BY <4>2 DEF k
    <3> QED
      BY <1>1, <3>2, <3>3
  <2> HIDE DEF rest
  <2>6. IsRun(rest, t, next, out)
    BY <1>2, <2>4, <2>5 DEF IsRun
  <2> QED
    BY <2>3, <2>6 DEF Leads
<1>4. ASSUME NEW rest, IsRun(rest, t, next, out), Head(items).into \in DOMAIN mem
      PROVE  Leads(items, mem, out)
  <2> DEFINE run == [n \in 0 .. Len(items) |-> IF n = 0 THEN mem ELSE rest[n - 1]]
  <2>1. /\ rest[0] = next /\ rest[Len(t)] = out
        /\ \A n \in 1 .. Len(t) : t[n].into \in DOMAIN rest[n - 1] /\ rest[n] = Performed(t[n], rest[n - 1])
    BY <1>2, <1>4 DEF IsRun
  <2>2. run[0] = mem /\ run[Len(items)] = out /\ run[1] = next
    BY <1>1, <1>2, <2>1
  <2>3. ASSUME NEW n \in 1 .. Len(items)
        PROVE  items[n].into \in DOMAIN run[n - 1] /\ run[n] = Performed(items[n], run[n - 1])
    <3>1. CASE n = 1
      BY <1>2, <1>4, <2>2, <3>1 DEF next
    <3>2. CASE n # 1
      <4> DEFINE k == n - 1
      <4>1. k \in 1 .. Len(t) /\ n = k + 1 /\ k \in 0 .. Len(items) /\ k # 0 /\ n # 0 /\ n \in 0 .. Len(items)
        BY <1>1, <1>2, <3>2
      <4>2. run[n] = rest[k] /\ run[k] = rest[k - 1]
        BY <4>1
      <4> HIDE DEF k, run
      <4>3. t[k] = items[n]
        BY <1>1, <4>1
      <4>4. items[n].into \in DOMAIN run[k] /\ run[n] = Performed(items[n], run[k])
        BY <2>1, <4>1, <4>2, <4>3
      <4> QED
        BY <4>4 DEF k
    <3> QED
      BY <3>1, <3>2
  <2> HIDE DEF run
  <2>4. IsRun(run, items, mem, out)
    BY <1>2, <2>2, <2>3 DEF IsRun
  <2> QED
    BY <2>4 DEF Leads
<1> QED
  BY <1>3, <1>4 DEF Leads, t, next

\* An item in front of an agenda.
LEMMA LeadsThen ==
  ASSUME NEW S, NEW first \in S, NEW rest \in Seq(S), NEW mem, NEW out
  PROVE  Leads(<<first>> \o rest, mem, out) <=>
           first.into \in DOMAIN mem /\ Leads(rest, Performed(first, mem), out)
<1> DEFINE items == <<first>> \o rest
<1>1. <<first>> \in Seq(S) /\ Len(<<first>>) = 1 /\ <<first>>[1] = first
  OBVIOUS
<1>2. /\ items \in Seq(S) /\ Len(items) = 1 + Len(rest) /\ Len(rest) \in Nat
      /\ \A n \in 1 .. 1 + Len(rest) : items[n] = IF n <= 1 THEN first ELSE rest[n - 1]
  BY <1>1, ConcatProperties, LenProperties
<1> HIDE DEF items
<1>3. items # <<>>
  BY <1>2, EmptySeq
<1>4. Head(items) = first
  BY <1>2, <1>3
<1>5. Tail(items) = rest
  <2>1. /\ Tail(items) \in Seq(S) /\ Len(Tail(items)) = Len(rest)
        /\ \A n \in 1 .. Len(rest) : Tail(items)[n] = items[n + 1]
    BY <1>2, <1>3, HeadTailProperties
  <2>2. ASSUME NEW n \in 1 .. Len(rest)
        PROVE  Tail(items)[n] = rest[n]
    <3>1. n + 1 \in 1 .. 1 + Len(rest) /\ ~(n + 1 <= 1) /\ (n + 1) - 1 = n
      BY <1>2
    <3> QED
      BY <1>2, <2>1, <3>1
  <2> QED
    BY <2>1, <2>2, SeqEqual
<1>6. Leads(items, mem, out) <=> first.into \in DOMAIN mem /\ Leads(rest, Performed(first, mem), out)
  BY <1>2, <1>3, <1>4, <1>5, LeadsFirst
<1> QED
  BY <1>6 DEF items

LEMMA Regrouped ==
  ASSUME NEW S
  PROVE  \A x \in Seq(S), y \in Seq(S), rest \in Seq(S) : (x \o y) \o rest = x \o (y \o rest)
<1> SUFFICES ASSUME NEW x \in Seq(S), NEW y \in Seq(S), NEW rest \in Seq(S)
             PROVE  (x \o y) \o rest = x \o (y \o rest)
  OBVIOUS
<1> QED
  BY ConcatAssociative, SMTT(30)

\* What is put in front of a sequence can be put there one by one.
LEMMA TwoInFront ==
  ASSUME NEW S
  PROVE  \A a \in S, b \in S, rest \in Seq(S) : <<a, b>> \o rest = <<a>> \o (<<b>> \o rest)
<1> SUFFICES ASSUME NEW a \in S, NEW b \in S, NEW rest \in Seq(S)
             PROVE  <<a, b>> \o rest = <<a>> \o (<<b>> \o rest)
  OBVIOUS
<1> DEFINE x == <<a>>
           y == <<b>>
           z == <<a, b>>
<1>1. x \in Seq(S) /\ y \in Seq(S) /\ z \in Seq(S) /\ Len(x) = 1 /\ Len(y) = 1 /\ Len(z) = 2
  OBVIOUS
<1>2. x[1] = z[1] /\ y[1] = z[2]
  OBVIOUS
<1> HIDE DEF x, y, z
<1>3. /\ x \o y \in Seq(S) /\ Len(x \o y) = Len(x) + Len(y)
      /\ \A n \in 1 .. Len(x) + Len(y) : (x \o y)[n] = IF n <= Len(x) THEN x[n] ELSE y[n - Len(x)]
  BY <1>1, ConcatProperties
<1>4. Len(x \o y) = 2 /\ \A n \in 1 .. 2 : (x \o y)[n] = z[n]
  <2>1. Len(x \o y) = 2 /\ 1 \in 1 .. Len(x) + Len(y) /\ 2 \in 1 .. Len(x) + Len(y)
    BY <1>1, <1>3
  <2>2. (x \o y)[1] = x[1] /\ (x \o y)[2] = y[1]
    BY <1>1, <1>3, <2>1
  <2>3. \A n \in 1 .. 2 : n = 1 \/ n = 2
    OBVIOUS
  <2> QED
    BY <1>2, <2>1, <2>2, <2>3
<1>5. x \o y = z
  BY <1>1, <1>3, <1>4, SeqEqual
<1>6. x \in Seq(S) /\ y \in Seq(S)
  BY <1>1
<1>7. (x \o y) \o rest = x \o (y \o rest)
  BY <1>6, Regrouped, SMTT(30)
<1>8. z \o rest = x \o (y \o rest)
  BY <1>5, <1>7, Zenon
<1> QED
  BY <1>8 DEF x, y, z

LEMMA ThreeInFront ==
  ASSUME NEW S
  PROVE  \A a \in S, b \in S, c \in S, rest \in Seq(S) : <<a, b, c>> \o rest = <<a>> \o (<<b, c>> \o rest)
<1> SUFFICES ASSUME NEW a \in S, NEW b \in S, NEW c \in S, NEW rest \in Seq(S)
             PROVE  <<a, b, c>> \o rest = <<a>> \o (<<b, c>> \o rest)
  OBVIOUS
<1> DEFINE x == <<a>>
           y == <<b, c>>
           z == <<a, b, c>>
<1>1. x \in Seq(S) /\ y \in Seq(S) /\ z \in Seq(S) /\ Len(x) = 1 /\ Len(y) = 2 /\ Len(z) = 3
  OBVIOUS
<1>2. x[1] = z[1] /\ y[1] = z[2] /\ y[2] = z[3]
  OBVIOUS
<1> HIDE DEF x, y, z
<1>3. /\ x \o y \in Seq(S) /\ Len(x \o y) = Len(x) + Len(y)
      /\ \A n \in 1 .. Len(x) + Len(y) : (x \o y)[n] = IF n <= Len(x) THEN x[n] ELSE y[n - Len(x)]
  BY <1>1, ConcatProperties
<1>4. Len(x \o y) = 3 /\ \A n \in 1 .. 3 : (x \o y)[n] = z[n]
  <2>1. Len(x \o y) = 3 /\ 1 \in 1 .. Len(x) + Len(y) /\ 2 \in 1 .. Len(x) + Len(y) /\ 3 \in 1 .. Len(x) + Len(y)
    BY <1>1, <1>3
  <2>2. (x \o y)[1] = x[1] /\ (x \o y)[2] = y[1] /\ (x \o y)[3] = y[2]
    BY <1>1, <1>3, <2>1
  <2>3. \A n \in 1 .. 3 : n = 1 \/ n = 2 \/ n = 3
    OBVIOUS
  <2> QED
    BY <1>2, <2>1, <2>2, <2>3
<1>5. x \o y = z
  BY <1>1, <1>3, <1>4, SeqEqual
<1>6. x \in Seq(S) /\ y \in Seq(S)
  BY <1>1
<1>7. (x \o y) \o rest = x \o (y \o rest)
  BY <1>6, Regrouped, SMTT(30)
<1>8. z \o rest = x \o (y \o rest)
  BY <1>5, <1>7, Zenon
<1> QED
  BY <1>8 DEF x, y, z

LEMMA LeadsThenTwo ==
  ASSUME NEW S, NEW a \in S, NEW b \in S, NEW rest \in Seq(S), NEW mem, NEW out,
         a.into \in DOMAIN mem, b.into \in DOMAIN Performed(a, mem),
         Leads(rest, Performed(b, Performed(a, mem)), out)
  PROVE  Leads(<<a, b>> \o rest, mem, out)
<1> DEFINE later == <<b>> \o rest
<1>1. later \in Seq(S) /\ Leads(later, Performed(a, mem), out)
  <2> DEFINE m == Performed(a, mem)
  <2>1. <<b>> \in Seq(S)
    OBVIOUS
  <2>2. later \in Seq(S)
    BY <2>1, ConcatProperties
  <2> HIDE DEF m
  <2>3. Leads(later, m, out)
    BY LeadsThen DEF m
  <2> QED
    BY <2>2, <2>3 DEF m
<1>2. <<a, b>> \o rest = <<a>> \o later
  BY TwoInFront, SMTT(30)
<1> HIDE DEF later
<1>3. Leads(<<a>> \o later, mem, out)
  BY <1>1, LeadsThen
<1> QED
  BY <1>2, <1>3

LEMMA LeadsThenThree ==
  ASSUME NEW S, NEW a \in S, NEW b \in S, NEW c \in S, NEW rest \in Seq(S), NEW mem, NEW out,
         a.into \in DOMAIN mem, b.into \in DOMAIN Performed(a, mem),
         c.into \in DOMAIN Performed(b, Performed(a, mem)),
         Leads(rest, Performed(c, Performed(b, Performed(a, mem))), out)
  PROVE  Leads(<<a, b, c>> \o rest, mem, out)
<1> DEFINE later == <<b, c>> \o rest
<1>1. later \in Seq(S) /\ Leads(later, Performed(a, mem), out)
  <2> DEFINE m == Performed(a, mem)
  <2>1. <<b, c>> \in Seq(S)
    OBVIOUS
  <2>2. later \in Seq(S)
    BY <2>1, ConcatProperties
  <2> HIDE DEF m
  <2>3. Leads(later, m, out)
    BY LeadsThenTwo DEF m
  <2> QED
    BY <2>2, <2>3 DEF m
<1>2. <<a, b, c>> \o rest = <<a>> \o later
  BY ThreeInFront, SMTT(30)
<1> HIDE DEF later
<1>3. Leads(<<a>> \o later, mem, out)
  BY <1>1, LeadsThen
<1> QED
  BY <1>2, <1>3

-----------------------------------------------------------------------------
(* Evaluation computes the value of the expression. *)

\* The value that the running assignment has to give to its target.
Due(value) ==
  /\ expression # Nothing
  /\ \/ /\ Accepted(expression)
        /\ value = A!Meaning(expression, NothingBound, Values(before))
     \/ \E op \in Operator, env \in InPlaceSettings(expression) :
          value = Combined(op, Values(before)[target], A!Meaning(expression, NothingBound, Values(before)), env)

\* The agenda leads there, although what it reads is changing.
Correct ==
  agenda # <<>> =>
    /\ DOMAIN before = Variable
    /\ \E value : Due(value) /\ Leads(agenda, memory, [before EXCEPT ![target] = value])

LEMMA TerminalLeads ==
  ASSUME IInv, EvaluateTerminal, NEW out, Leads(agenda, memory, out)
  PROVE  Leads(agenda', memory', out)
<1>1. agenda # <<>> /\ Now.do = "evaluate" /\ Now.e.kind = "terminal" /\ agenda \in Seq(Item)
  BY DEF EvaluateTerminal, Evaluating, IInv, TypeInv
<1>2. Leads(Tail(agenda), Performed(Now, memory), out) /\ Tail(agenda) \in Seq(Item)
  BY <1>1, LeadsFirst, HeadTailProperties DEF Now
<1>3. agenda' = Tail(agenda)
  BY <1>2, ConcatEmptySeq DEF EvaluateTerminal, Then
<1>4. memory' = Performed(Now, memory)
  <2>1. memory' = [memory EXCEPT ![Now.into] = memory[Now.e.of]]
    BY DEF EvaluateTerminal, Write
  <2>2. Now.e \in Evaluated /\ Now.env \in Environment
    BY <1>1, HeadOfAgenda
  <2>3. Sense(Now.e, Now.env, memory) = memory[Now.e.of]
    BY <1>1, <2>2, SenseFacts
  <2> QED
    BY <1>1, <2>1, <2>3 DEF Performed
<1> QED
  BY <1>2, <1>3, <1>4

LEMMA CallLeads ==
  ASSUME IInv, EvaluateCall, NEW out, Leads(agenda, memory, out)
  PROVE  Leads(agenda', memory', out)
<1> DEFINE inner == [Now.env EXCEPT ![Now.e.setting] = Now.e.to]
           item == Evaluate(Now.e.arg, Now.into, inner)
<1>1. /\ agenda # <<>> /\ Now.do = "evaluate" /\ Now.e.kind = "call" /\ agenda \in Seq(Item)
      /\ agenda' = <<item>> \o Tail(agenda) /\ memory' = memory
  BY DEF EvaluateCall, Evaluating, Then, IInv, TypeInv
<1>2. /\ Now.into \in DOMAIN memory
      /\ Leads(Tail(agenda), Performed(Now, memory), out) /\ Tail(agenda) \in Seq(Item)
  BY <1>1, LeadsFirst, HeadTailProperties DEF Now
<1>3. Now.e \in Evaluated /\ Now.env \in Environment /\ Now.into \in Location
  BY <1>1, HeadOfAgenda
<1>4. inner \in Environment /\ Now.e.arg \in Evaluated
  BY <1>1, <1>3, Operands DEF Environment
<1>5. Sense(Now.e, Now.env, memory) = Sense(Now.e.arg, inner, memory)
  BY <1>1, <1>3, SenseFacts
<1> HIDE DEF inner
<1>6. item \in Item /\ item.into = Now.into
  BY <1>3, <1>4 DEF Item, Evaluate
<1>7. Performed(item, memory) = Performed(Now, memory)
  BY <1>1, <1>5 DEF Performed, Evaluate
<1> HIDE DEF item
<1>8. Leads(<<item>> \o Tail(agenda), memory, out)
  BY <1>2, <1>6, <1>7, LeadsThen
<1> QED
  BY <1>1, <1>8

LEMMA UnaryLeads ==
  ASSUME IInv, EvaluateUnary, NEW out, Leads(agenda, memory, out)
  PROVE  Leads(agenda', memory', out)
<1> DEFINE first == Evaluate(Now.e.arg, Now.into, Now.env)
           second == ApplyNegation(Now.into)
           m == Performed(first, memory)
<1>1. /\ agenda # <<>> /\ Now.do = "evaluate" /\ Now.e.kind = "negate" /\ agenda \in Seq(Item)
      /\ agenda' = <<first, second>> \o Tail(agenda) /\ memory' = memory
  BY DEF EvaluateUnary, Evaluating, Then, IInv, TypeInv
<1>2. /\ Now.into \in DOMAIN memory
      /\ Leads(Tail(agenda), Performed(Now, memory), out) /\ Tail(agenda) \in Seq(Item)
  BY <1>1, LeadsFirst, HeadTailProperties DEF Now
<1>3. Now.e \in Evaluated /\ Now.env \in Environment /\ Now.into \in Location
  BY <1>1, HeadOfAgenda
<1>4. Now.e.arg \in Evaluated
  BY <1>1, <1>3, Operands
<1>5. Sense(Now.e, Now.env, memory) = Negated(Sense(Now.e.arg, Now.env, memory))
  BY <1>1, <1>3, SenseFacts
<1>6. first \in Item /\ first.into = Now.into /\ second \in Item /\ second.into = Now.into
  BY <1>3, <1>4 DEF Item, Evaluate, ApplyNegation
<1>7. m = [memory EXCEPT ![Now.into] = Sense(Now.e.arg, Now.env, memory)]
  BY DEF Performed, Evaluate
<1>8. Performed(second, m) = [m EXCEPT ![Now.into] = Negated(m[Now.into])]
  BY DEF Performed, ApplyNegation
<1>9. Performed(Now, memory) = [memory EXCEPT ![Now.into] = Negated(Sense(Now.e.arg, Now.env, memory))]
  BY <1>1, <1>5 DEF Performed
<1> HIDE DEF first, second, m
<1>10. DOMAIN m = DOMAIN memory /\ Performed(second, m) = Performed(Now, memory)
  BY <1>2, <1>7, <1>8, <1>9
<1>11. Leads(<<first, second>> \o Tail(agenda), memory, out)
  BY <1>2, <1>6, <1>10, LeadsThenTwo DEF m
<1> QED
  BY <1>1, <1>11

LEMMA BinaryLeads ==
  ASSUME IInv, EvaluateBinary, NEW out, Leads(agenda, memory, out)
  PROVE  Leads(agenda', memory', out)
<1> DEFINE first == Evaluate(Now.e.right, Fresh, Now.env)
           second == Evaluate(Now.e.left, Now.into, Now.env)
           third == Apply(Now.e.kind, Now.into, Fresh, Now.env)
           l == Sense(Now.e.left, Now.env, memory)
           r == Sense(Now.e.right, Now.env, memory)
           m == Performed(first, memory')
           n == Performed(second, m)
<1>1. /\ agenda # <<>> /\ Now.do = "evaluate" /\ IsBinary(Now.e) /\ agenda \in Seq(Item)
      /\ Temporary \ DOMAIN memory # {}
      /\ agenda' = <<first, second, third>> \o Tail(agenda)
      /\ memory' = [x \in DOMAIN memory \cup {Fresh} |-> IF x = Fresh THEN 0 ELSE memory[x]]
  BY DEF EvaluateBinary, Evaluating, Then, IInv, TypeInv
<1>2. /\ Now.into \in DOMAIN memory
      /\ Leads(Tail(agenda), Performed(Now, memory), out) /\ Tail(agenda) \in Seq(Item)
  BY <1>1, LeadsFirst, HeadTailProperties DEF Now
<1>3. Now.e \in Evaluated /\ Now.env \in Environment /\ Now.into \in Location
  BY <1>1, HeadOfAgenda
<1>4. Now.e.left \in Evaluated /\ Now.e.right \in Evaluated
  BY <1>1, <1>3, Operands
<1>5. Fresh \in Temporary /\ Fresh \notin DOMAIN memory /\ Fresh \notin Variable
  BY <1>1, LocationAssumption DEF Fresh, LocationAssumption
<1>6. Sense(Now.e, Now.env, memory) = Combined(Now.e.kind, l, r, Now.env)
  BY <1>1, <1>3, SenseFacts
<1>7. /\ first \in Item /\ first.into = Fresh
      /\ second \in Item /\ second.into = Now.into
      /\ third \in Item /\ third.into = Now.into
  BY <1>3, <1>4, <1>5 DEF Item, Evaluate, Apply, Location, Kind
<1>8. m = [memory' EXCEPT ![Fresh] = Sense(Now.e.right, Now.env, memory')]
  BY DEF Performed, Evaluate
<1>9. n = [m EXCEPT ![Now.into] = Sense(Now.e.left, Now.env, m)]
  BY DEF Performed, Evaluate
<1>10. Performed(third, n) =
         [x \in DOMAIN n \ {Fresh} |->
            IF x = Now.into THEN Combined(Now.e.kind, n[Now.into], n[Fresh], Now.env) ELSE n[x]]
  <2> HIDE DEF n
  <2>1. /\ third.do = "apply" /\ third.op = Now.e.kind /\ third.into = Now.into
        /\ third.with = Fresh /\ third.env = Now.env
    BY DEF Apply
  <2> HIDE DEF third
  <2> QED
    BY <2>1 DEF Performed
<1>11. Performed(Now, memory) = [memory EXCEPT ![Now.into] = Combined(Now.e.kind, l, r, Now.env)]
  BY <1>1, <1>6 DEF Performed
<1>12. Variable \subseteq DOMAIN memory
  BY DEF IInv, InUse
<1> HIDE DEF first, second, third, m, n, Fresh
<1>13. \A v \in Variable : memory'[v] = memory[v] /\ m[v] = memory[v]
  BY <1>1, <1>5, <1>8, <1>12
<1>14. ASSUME NEW e \in Evaluated
       PROVE  /\ Sense(e, Now.env, memory') = Sense(e, Now.env, memory)
              /\ Sense(e, Now.env, m) = Sense(e, Now.env, memory)
  <2>1. Values(memory') = Values(memory) /\ Values(m) = Values(memory)
    BY <1>13 DEF Values
  <2>2. e \notin Tree => \/ e.kind = "terminal" /\ e.of \in Variable
                         \/ e.kind # "terminal" /\ e.left.of \in Variable
    BY DEF Evaluated, Terminal, Binary, Operator
  <2> QED
    BY <1>13, <2>1, <2>2 DEF Sense
<1>15. m = [memory' EXCEPT ![Fresh] = r] /\ n = [m EXCEPT ![Now.into] = l]
  BY <1>4, <1>8, <1>9, <1>14
<1> HIDE DEF l, r
<1>16. /\ DOMAIN memory' = DOMAIN memory \cup {Fresh} /\ DOMAIN m = DOMAIN memory' /\ DOMAIN n = DOMAIN memory'
       /\ n[Fresh] = r /\ n[Now.into] = l
       /\ \A x \in DOMAIN memory : x # Now.into => n[x] = memory[x]
  BY <1>1, <1>2, <1>5, <1>15
<1>17. Performed(third, n) = Performed(Now, memory)
  <2>1. DOMAIN n \ {Fresh} = DOMAIN memory
    BY <1>5, <1>16
  <2>2. Performed(third, n) =
          [x \in DOMAIN memory |->
             IF x = Now.into THEN Combined(Now.e.kind, l, r, Now.env) ELSE n[x]]
    BY <1>10, <1>16, <2>1
  <2>3. \A x \in DOMAIN memory :
          (IF x = Now.into THEN Combined(Now.e.kind, l, r, Now.env) ELSE n[x])
            = (IF x = Now.into THEN Combined(Now.e.kind, l, r, Now.env) ELSE memory[x])
    BY <1>16
  <2> QED
    BY <1>11, <2>2, <2>3
<1>18. Leads(<<first, second, third>> \o Tail(agenda), memory', out)
  BY <1>2, <1>7, <1>16, <1>17, LeadsThenThree DEF m, n
<1> QED
  BY <1>1, <1>18

LEMMA ApplyUnaryLeads ==
  ASSUME IInv, ApplyUnary, NEW out, Leads(agenda, memory, out)
  PROVE  Leads(agenda', memory', out)
<1>1. agenda # <<>> /\ Now.do = "negate" /\ agenda \in Seq(Item)
  BY DEF ApplyUnary, IInv, TypeInv
<1>2. Leads(Tail(agenda), Performed(Now, memory), out) /\ Tail(agenda) \in Seq(Item)
  BY <1>1, LeadsFirst, HeadTailProperties DEF Now
<1>3. agenda' = Tail(agenda)
  BY <1>2, ConcatEmptySeq DEF ApplyUnary, Then
<1>4. memory' = Performed(Now, memory)
  BY <1>1 DEF ApplyUnary, Write, Performed
<1> QED
  BY <1>2, <1>3, <1>4

LEMMA ApplyBinaryLeads ==
  ASSUME IInv, ApplyBinary, NEW out, Leads(agenda, memory, out)
  PROVE  Leads(agenda', memory', out)
<1>1. agenda # <<>> /\ Now.do = "apply" /\ agenda \in Seq(Item)
  BY DEF ApplyBinary, IInv, TypeInv
<1>2. Leads(Tail(agenda), Performed(Now, memory), out) /\ Tail(agenda) \in Seq(Item)
  BY <1>1, LeadsFirst, HeadTailProperties DEF Now
<1>3. agenda' = Tail(agenda)
  BY <1>2, ConcatEmptySeq DEF ApplyBinary, Then
<1>4. memory' = Performed(Now, memory)
  BY <1>1 DEF ApplyBinary, Performed
<1> QED
  BY <1>2, <1>3, <1>4

LEMMA StepLeads ==
  ASSUME IInv, Step, NEW out, Leads(agenda, memory, out)
  PROVE  Leads(agenda', memory', out)
  BY TerminalLeads, CallLeads, UnaryLeads, BinaryLeads, ApplyUnaryLeads, ApplyBinaryLeads DEF Step

\* A step of an evaluation does not touch what an assignment starts from.
LEMMA StepFrame ==
  ASSUME Step
  PROVE  agenda # <<>> /\ UNCHANGED <<expression, target, before>>
  BY DEF Step, EvaluateTerminal, EvaluateCall, EvaluateUnary, EvaluateBinary, ApplyUnary, ApplyBinary, Evaluating

LEMMA StepKeepsDue ==
  ASSUME Step, NEW value, Due(value)
  PROVE  Due(value)'
  BY StepFrame DEF Due

\* An assignment that starts leads to the value of what it evaluates.
LEMMA StartLeads ==
  ASSUME IInv, NEW v \in Variable, NEW e \in Evaluated, NEW env \in Environment, Start(v, e, env)
  PROVE  /\ before' = memory /\ target' = v /\ DOMAIN before' = Variable /\ UNCHANGED expression
         /\ Leads(agenda', memory', [before' EXCEPT ![target'] = Sense(e, env, memory)])
<1> DEFINE item == Evaluate(e, v, env)
           out == [memory EXCEPT ![v] = Sense(e, env, memory)]
<1>1. item \in Item /\ item.into = v
  BY DEF Evaluate, Item, Location
<1>2. /\ agenda = <<>> /\ agenda' = <<item>> /\ target' = v /\ before' = memory
      /\ memory' = memory /\ expression' = expression
  BY DEF Start
<1>3. Performed(item, memory) = out
  BY DEF Performed, Evaluate
<1>4. DOMAIN memory = Variable
  BY <1>2, Empty DEF IInv, InUse
<1> HIDE DEF item, out
<1>5. Leads(<<item>> \o <<>>, memory, out)
  <2>1. <<>> \in Seq(Item)
    OBVIOUS
  <2>2. Leads(<<>>, out, out)
    BY LeadsNowhere
  <2> QED
    BY <1>1, <1>3, <1>4, <2>1, <2>2, LeadsThen
<1>6. <<item>> \o <<>> = <<item>>
  <2>1. <<item>> \in Seq(Item)
    BY <1>1
  <2> QED
    BY <2>1, ConcatEmptySeq
<1>7. Leads(agenda', memory', out)
  BY <1>2, <1>5, <1>6
<1> QED
  BY <1>2, <1>4, <1>7 DEF out

LEMMA CorrectStep == IInv /\ Correct /\ [Next]_vars => Correct'
<1> SUFFICES ASSUME IInv, Correct, [Next]_vars
             PROVE  Correct'
  OBVIOUS
<1>1. CASE Step
  <2> SUFFICES ASSUME agenda' # <<>>
               PROVE  /\ DOMAIN before' = Variable
                      /\ \E value : Due(value)' /\ Leads(agenda', memory', [before' EXCEPT ![target'] = value])
    BY DEF Correct
  <2>1. PICK value : Due(value) /\ Leads(agenda, memory, [before EXCEPT ![target] = value])
    BY <1>1, StepFrame DEF Correct
  <2>2. DOMAIN before = Variable /\ before' = before /\ target' = target
    BY <1>1, StepFrame DEF Correct
  <2>3. Leads(agenda', memory', [before EXCEPT ![target] = value])
    BY <1>1, <2>1, StepLeads
  <2> QED
    BY <1>1, <2>1, <2>2, <2>3, StepKeepsDue
<1>2. ASSUME NEW v \in Variable, Assign(v)
      PROVE  Correct'
  <2>0. PICK value : value = Sense(expression, NothingBound, memory)
    OBVIOUS
  <2>1. /\ expression \in Tree /\ expression \in Evaluated /\ NothingBound \in Environment
        /\ Start(v, expression, NothingBound) /\ expression # Nothing /\ Accepted(expression)
    BY <1>2, StartOfAssign DEF Assign
  <2>2. /\ before' = memory /\ DOMAIN before' = Variable /\ expression' = expression
        /\ Leads(agenda', memory', [before' EXCEPT ![target'] = value])
    BY <2>0, <2>1, StartLeads
  <2>3. value = A!Meaning(expression, NothingBound, Values(memory))
    BY <2>0, <2>1 DEF Sense
  <2>4. Due(value)'
    BY <2>1, <2>2, <2>3 DEF Due
  <2> QED
    BY <2>2, <2>4 DEF Correct
<1>3. ASSUME NEW v \in Variable, NEW op \in Operator, InPlace(op, v)
      PROVE  Correct'
  <2> DEFINE e == Binary(op, Terminal(v), expression)
  <2>1. /\ expression \in Tree /\ e \in Evaluated /\ expression # Nothing
    BY <1>3, StartOfInPlace DEF InPlace
  <2>2. PICK env \in InPlaceSettings(expression) :
          env \in [Setting -> Fixed] /\ env \in Environment /\ Start(v, e, env)
    BY <1>3, StartOfInPlace
  <2>3. IsBinary(e) /\ e.kind = op /\ e.left = Terminal(v) /\ e.right = expression
    BY DEF Binary, IsBinary, Operator
  <2> HIDE DEF e
  <2>0. PICK value : value = Sense(e, env, memory)
    OBVIOUS
  <2>4. value = Combined(op, Sense(Terminal(v), env, memory), Sense(expression, env, memory), env)
    <3>1. Sense(e, env, memory) =
            Combined(e.kind, Sense(e.left, env, memory), Sense(e.right, env, memory), env)
      BY <2>1, <2>2, <2>3, SenseFacts
    <3> QED
      BY <2>0, <2>3, <3>1
  <2>5. Sense(Terminal(v), env, memory) = Values(memory)[v]
    <3>1. Terminal(v) \in Evaluated /\ Terminal(v).kind = "terminal" /\ Terminal(v).of = v
      <4>1. Terminal(v) \in Evaluated
        BY DEF Evaluated
      <4>2. Terminal(v).kind = "terminal" /\ Terminal(v).of = v
        BY DEF Terminal
      <4> QED
        BY <4>1, <4>2
    <3>2. Sense(Terminal(v), env, memory) = memory[v]
      <4> DEFINE u == Terminal(v)
      <4>1. u \in Evaluated /\ u.kind = "terminal" /\ u.of = v
        BY <3>1
      <4> HIDE DEF u
      <4>2. Sense(u, env, memory) = memory[u.of]
        BY <2>2, <4>1, SenseFacts
      <4> QED
        BY <4>1, <4>2 DEF u
    <3> QED
      BY <3>2 DEF Values
  <2>6. Sense(expression, env, memory) = A!Meaning(expression, NothingBound, Values(memory))
    <3>1. NothingBound \in Environment
      BY DEF NothingBound, Environment
    <3>2. \A s \in Setting : Found(expression, s) # {}
      BY <2>2 DEF InPlaceSettings
    <3>3. A!Meaning(expression, env, Values(memory)) = A!Meaning(expression, NothingBound, Values(memory))
      BY <2>1, <2>2, <3>1, <3>2, OutermostCallsDecide
    <3> QED
      BY <2>1, <3>3 DEF Sense
  <2>7. /\ before' = memory /\ target' = v /\ DOMAIN before' = Variable /\ expression' = expression
        /\ Leads(agenda', memory', [before' EXCEPT ![target'] = value])
    BY <2>0, <2>1, <2>2, StartLeads
  <2>8. Due(value)'
    BY <2>1, <2>2, <2>4, <2>5, <2>6, <2>7 DEF Due
  <2> QED
    BY <2>7, <2>8 DEF Correct
<1>4. CASE \/ \E e \in Tree : Form(e)
           \/ \E v \in Variable : Change(v)
  BY <1>4 DEF Form, Change, Correct
<1>5. CASE UNCHANGED vars
  BY <1>5 DEF vars, Correct, Due
<1> QED
  BY <1>1, <1>2, <1>3, <1>4, <1>5 DEF Next

\* What the abstract specification sees of the variables.
Seen == [v \in Variable |-> IF agenda = <<>> THEN memory[v] ELSE before[v]]

LEMMA SameNotions ==
  /\ \A e : A!Accepted(e) = Accepted(e)
  /\ \A e : A!InPlaceSettings(e) = InPlaceSettings(e)
  /\ \A op, a, b, env : A!Combined(op, a, b, env) = Combined(op, a, b, env)
  /\ \A a : A!Negated(a) = Negated(a)
  /\ A!NothingBound = NothingBound /\ A!Operator = Operator
<1>1. ASSUME NEW e
      PROVE  A!Accepted(e) = Accepted(e)
  BY DEF A!Accepted, Accepted, A!IsBinary, IsBinary
<1>2. ASSUME NEW e, NEW s
      PROVE  A!Found(e, s) = Found(e, s)
  BY DEF A!Found, Found
<1>3. ASSUME NEW e
      PROVE  A!InPlaceSettings(e) = InPlaceSettings(e)
  BY <1>2 DEF A!InPlaceSettings, InPlaceSettings
<1> QED
  BY <1>1, <1>3 DEF A!Combined, Combined, A!Negated, Negated, A!NothingBound, NothingBound, A!Operator, Operator

LEMMA StepImplements ==
  ASSUME IInv, Correct, [Next]_vars
  PROVE  [A!Next]_<<Seen, expression>>
<1>1. CASE Step
  <2>1. PICK value : Due(value) /\ Leads(agenda, memory, [before EXCEPT ![target] = value])
    BY <1>1, StepFrame DEF Correct
  <2>2. agenda # <<>> /\ DOMAIN before = Variable /\ target \in Variable /\ UNCHANGED <<before, expression>>
    BY <1>1, StepFrame DEF Correct, IInv, TypeInv
  <2>3. Seen = Values(before)
    BY <2>2 DEF Seen, Values
  <2>4. CASE agenda' # <<>>
    <3>1. Seen' = Seen
      BY <2>2, <2>4 DEF Seen
    <3> QED
      BY <2>2, <3>1
  <2>5. CASE agenda' = <<>>
    <3>1. memory' = [before EXCEPT ![target] = value]
      <4>1. Leads(agenda', memory', [before EXCEPT ![target] = value])
        BY <1>1, <2>1, StepLeads
      <4> QED
        BY <2>5, <4>1, LeadsNowhere
    <3>2. PICK v \in Variable : v = target
      BY <2>2
    <3>3. Seen' = [Seen EXCEPT ![v] = value] /\ expression' = expression
      BY <2>2, <2>5, <3>1, <3>2 DEF Seen
    <3>4. expression # Nothing
      BY <2>1 DEF Due
    <3>5. CASE Accepted(expression) /\ value = A!Meaning(expression, NothingBound, Seen)
      <4>1. A!Assign(v)
        BY <3>3, <3>5, SameNotions DEF A!Assign, A!Change, Seen
      <4> QED
        BY <3>4, <4>1 DEF A!Next
    <3>6. ASSUME NEW op \in Operator, NEW env \in InPlaceSettings(expression),
                 value = Combined(op, Seen[v], A!Meaning(expression, NothingBound, Seen), env)
          PROVE  A!Next
      <4>1. A!InPlace(op, v)
        BY <3>3, <3>6, SameNotions DEF A!InPlace, A!Change, Seen
      <4>2. op \in A!Operator
        BY SameNotions
      <4> QED
        BY <3>4, <4>1, <4>2 DEF A!Next
    <3> QED
      BY <2>1, <2>3, <3>2, <3>5, <3>6 DEF Due
  <2> QED
    BY <2>4, <2>5
<1>2. ASSUME NEW v \in Variable, NEW e, NEW env, Start(v, e, env)
      PROVE  UNCHANGED <<Seen, expression>>
  <2>1. agenda = <<>> /\ agenda' # <<>> /\ before' = memory /\ expression' = expression
    BY <1>2 DEF Start
  <2> QED
    BY <2>1 DEF Seen
<1>3. CASE \E v \in Variable : Assign(v) \/ \E op \in Operator : InPlace(op, v)
  BY <1>2, <1>3 DEF Assign, InPlace
<1>4. ASSUME NEW e \in Tree, Form(e)
      PROVE  A!Next
  <2>1. Seen' = Seen
    BY <1>4 DEF Form, Seen
  <2>2. A!Form(e)
    BY <1>4, <2>1 DEF Form, A!Form, Seen
  <2> QED
    BY <2>2 DEF A!Next
<1>5. ASSUME NEW v \in Variable, Change(v)
      PROVE  A!Next
  <2>1. agenda = <<>> /\ agenda' = <<>> /\ memory' = [memory EXCEPT ![v] = Negated(v)] /\ expression' = expression
    BY <1>5 DEF Change
  <2>2. DOMAIN memory = Variable
    BY <2>1, Empty DEF IInv, InUse
  <2>3. Seen' = [Seen EXCEPT ![v] = Negated(v)]
    BY <2>1, <2>2 DEF Seen
  <2>4. A!Change(v, A!Negated(v))
    BY <2>1, <2>3, SameNotions DEF A!Change, Seen
  <2> QED
    BY <2>4 DEF A!Next
<1>6. CASE UNCHANGED vars
  BY <1>6 DEF vars, Seen
<1> QED
  BY <1>1, <1>3, <1>4, <1>5, <1>6 DEF Next

\* Writing intermediate values to the target, which the expression may read, is
\* the same as computing the value of the expression first.
THEOREM EvaluationIsAssignment == Spec => ImplementsAssignments
<1>1. Init => Correct
  BY DEF Init, Correct
<1>2. Init => A!Init
  BY DEF Init, A!Init
<1>3. IInv /\ Correct /\ [Next]_vars => [A!Next]_<<Seen, expression>>
  BY StepImplements
<1> QED
  BY Invariance, CorrectStep, <1>1, <1>2, <1>3, PTL DEF Spec, ImplementsAssignments, A!Spec, Seen
=============================================================================
