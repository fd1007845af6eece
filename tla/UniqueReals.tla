---------------------------- MODULE UniqueReals ----------------------------
(***************************************************************************)
(* What the factories of the real numbers promise to the code above them,  *)
(* which compares numbers by address (RealNumber::operator==) and sorts    *)
(* them by id (RealNumber::deglex, Module::make): at any time there is at  *)
(* most one object for each number and one number for each object, an      *)
(* object stays what it is while it lives, and the id of a new object is   *)
(* larger than all the ids the process has given out before.               *)
(***************************************************************************)
EXTENDS Integers

CONSTANT FirstId

VARIABLES
  named,  \* pairs <<number, id>>: the live objects
  issued  \* the ids from FirstId to issued - 1 have been given out

vars == <<named, issued>>

OneToOne(R) == \A p, q \in R : p[1] = q[1] <=> p[2] = q[2]

Init ==
  /\ named = {}
  /\ issued = FirstId

\* A call into the factories: some objects are created, others destroyed.
Call ==
  /\ issued' >= issued
  /\ OneToOne(named')
  /\ \A p \in named' \ named : issued <= p[2] /\ p[2] < issued'

\* A new process starts.
Restart ==
  /\ named' = {}
  /\ issued' = FirstId

Next == Call \/ Restart

Spec == Init /\ [][Next]_vars
=============================================================================
