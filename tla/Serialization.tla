--------------------------- MODULE Serialization ---------------------------
(***************************************************************************)
(* Saving elements of modules to an archive and loading them, later, in    *)
(* the same process or in another one.  The archive writes a shared        *)
(* pointer, to a module or to a real number, in full where it comes up     *)
(* first, and refers to it by its number in the archive later.             *)
(*                                                                         *)
(* The generators of a module are sorted by the ids of the real numbers    *)
(* they are made of, and ids are given out in the order in which real      *)
(* numbers come into being; the archive has no ids.  RealNumbers is about  *)
(* the numbers themselves, here their representation is abstracted away:   *)
(* an atom is a real number with a seed, a generator is a monomial.        *)
(***************************************************************************)
EXTENDS Naturals, Sequences, FiniteSets, Monomials, SequencesExt

CONSTANTS
  Atom,         \* the seeds of the random real numbers
  Basis,        \* the sets of generators that clients make modules from
  Coefficients, \* the lists of coefficients that clients use
  Nothing,      \* no element
  MaxId,        \* bound of the model: how many ids are given out
  MaxSaved      \* bound of the model: how many elements are saved

\* Generators are products of positive powers of finitely many atoms;
\* a rational generator, which is made of no atoms, is not modelled.
ASSUME BasisAssumption ==
  /\ IsFiniteSet(Atom)
  /\ \A gens \in Basis : IsFiniteSet(gens)
  /\ \A f \in UNION Basis :
       DOMAIN f # {} /\ DOMAIN f \subseteq Atom /\ f \in [DOMAIN f -> Nat \ {0}]

VARIABLES
  ids,      \* the ids of the atoms that are alive
  nextId,   \* the id of the next real number
  held,     \* the atoms that the client has pointers to
  kept,     \* the bases of the modules that the factory keeps alive; the factory of
            \* products does the same for factors, which is as if the client did
  element,  \* an element of the client
  writer,   \* the archive while it is written
  archive,  \* the elements in the archive, none until it is complete
  reader,   \* where reading the archive has got to
  saved     \* the polynomials that had been saved, and the ids of their atoms then

vars == <<ids, nextId, held, kept, element, writer, archive, reader, saved>>

Factors(gens) == UNION {DOMAIN f : f \in gens}

-----------------------------------------------------------------------------
(* Real numbers. *)

\* Mutant: every atom is created anew.
ObtainAgain(known, a) ==
  [ids |-> [b \in DOMAIN known.ids \cup {a} |-> IF b = a THEN known.next ELSE known.ids[b]],
   next |-> known.next + 1]

\* RealNumber::random(seed): an atom that is alive already keeps its id.
Obtain(known, a) ==
  IF a \in DOMAIN known.ids THEN known
  ELSE [ids |-> [b \in DOMAIN known.ids \cup {a} |-> IF b = a THEN known.next ELSE known.ids[b]],
        next |-> known.next + 1]

\* What the pointers in archives are.
Linear(a) == [b \in {a} |-> 1]
Number(f) == <<"number", f>>
Module(basis) == <<"module", basis>>
AtomsOf(p) == IF p[1] = "number" THEN DOMAIN p[2] ELSE Factors(ToSet(p[2]))

\* cereal keeps alive what it has written or read until the archive is closed.
SharedBy(w, r) == ToSet(w.shared) \cup {r.pointers[n] : n \in DOMAIN r.pointers}
Shared == SharedBy(writer, reader)

\* What clients, modules, and open archives have pointers to.
Owned(h, k, e, shared) ==
  h \cup Factors(UNION k) \cup (IF e = Nothing THEN {} ELSE Factors(ToSet(e.basis)))
    \cup UNION {AtomsOf(p) : p \in shared}

Sweep(h, k, e, shared) == [a \in DOMAIN ids \cap Owned(h, k, e, shared) |-> ids[a]]

\* Mutant: the generators stay in the order of the archive.
MakeUnsorted(i, basis) == basis

\* The elements of S as a list, sorted by less.
Sorted(S, less(_, _)) ==
  CHOOSE list \in [1 .. Cardinality(S) -> S] : \A m, n \in DOMAIN list : m < n => less(list[m], list[n])

\* Module::make
Make(i, basis) == Sorted(ToSet(basis), LAMBDA f, g : Deglex(i, f, g))

\* The polynomial that an element stands for.
Polynomial(e) ==
  [f \in ToSet(e.basis) |-> e.coefficients[CHOOSE n \in DOMAIN e.basis : e.basis[n] = f]]

-----------------------------------------------------------------------------
(* Writing: w has the pointers that have been written and what has been written
   of a list of pointers. *)

Registered(shared, p) == IF p \in ToSet(shared) THEN shared ELSE Append(shared, p)

\* A pointer in the archive: a reference, or its content.
Pointer(shared, p, content) ==
  IF p \in ToSet(shared) THEN [shared |-> CHOOSE n \in DOMAIN shared : shared[n] = p]
  ELSE [shared |-> Len(shared) + 1, content |-> content]

IsFirst(pointer) == "content" \in DOMAIN pointer

\* The factors of a product in the order of their addresses.
FactorsOf(address, f) == Sorted(DOMAIN f, LAMBDA a, b : address[a] < address[b])

SaveAtom(w, a) ==
  LET p == Number(Linear(a))
  IN  [shared |-> Registered(w.shared, p),
       list |-> Append(w.list, Pointer(w.shared, p, [kind |-> "random", seed |-> a]))]

\* Mutant: a product is registered after its factors have been written.
SaveNumberLate(address, w, f) ==
  LET p == Number(f)
      order == FactorsOf(address, f)
      factors == FoldLeft(SaveAtom, [shared |-> w.shared, list |-> <<>>], order)
      content == [kind |-> "product", factors |-> factors.list, exponents |-> [n \in DOMAIN order |-> f[order[n]]]]
  IN  IF f \in {Linear(a) : a \in Atom} THEN SaveAtom(w, CHOOSE a \in DOMAIN f : TRUE)
      ELSE [shared |-> IF p \in ToSet(w.shared) THEN w.shared ELSE Registered(factors.shared, p),
            list |-> Append(w.list, Pointer(w.shared, p, content))]

SaveNumber(address, w, f) ==
  LET p == Number(f)
      order == FactorsOf(address, f)
      factors == FoldLeft(SaveAtom, [shared |-> Registered(w.shared, p), list |-> <<>>], order)
      content == [kind |-> "product", factors |-> factors.list, exponents |-> [n \in DOMAIN order |-> f[order[n]]]]
  IN  IF f \in {Linear(a) : a \in Atom} THEN SaveAtom(w, CHOOSE a \in DOMAIN f : TRUE)
      ELSE [shared |-> IF p \in ToSet(w.shared) THEN w.shared ELSE factors.shared,
            list |-> Append(w.list, Pointer(w.shared, p, content))]

SaveBasis(address, w, basis) == FoldLeft(LAMBDA v, f : SaveNumber(address, v, f), w, basis)

SaveModule(address, shared, basis) ==
  LET p == Module(basis)
      numbers == SaveBasis(address, [shared |-> Registered(shared, p), list |-> <<>>], basis)
  IN  [shared |-> IF p \in ToSet(shared) THEN shared ELSE numbers.shared,
       pointer |-> Pointer(shared, p, numbers.list)]

-----------------------------------------------------------------------------
(* Reading: r has the real numbers that are known, the pointers that have been
   read, and what has been read of a list of numbers. *)

Remember(pointers, n, p) == [k \in DOMAIN pointers \cup {n} |-> IF k = n THEN p ELSE pointers[k]]

LoadReference(r, pointer) == [r EXCEPT !.list = Append(@, r.pointers[pointer.shared][2])]

LoadAtom(r, pointer) ==
  LET seed == pointer.content.seed
  IN  IF ~IsFirst(pointer) THEN LoadReference(r, pointer)
      ELSE [r EXCEPT !.known = Obtain(@, seed),
                     !.pointers = Remember(@, pointer.shared, Number(Linear(seed))),
                     !.list = Append(@, Linear(seed))]

LoadProduct(r, pointer) ==
  LET read == FoldLeft(LoadAtom, [r EXCEPT !.list = <<>>], pointer.content.factors)
      f == [a \in Factors(ToSet(read.list)) |->
              pointer.content.exponents[CHOOSE n \in DOMAIN read.list : a \in DOMAIN read.list[n]]]
  IN  [read EXCEPT !.pointers = Remember(@, pointer.shared, Number(f)),
                   !.list = Append(r.list, f)]

LoadNumber(r, pointer) ==
  IF ~IsFirst(pointer) THEN LoadReference(r, pointer)
  ELSE IF pointer.content.kind = "random" THEN LoadAtom(r, pointer) ELSE LoadProduct(r, pointer)

\* Mutant: the basis is read backwards.
LoadBasisReversed(r, list) == FoldLeft(LoadNumber, [r EXCEPT !.list = <<>>], Reverse(list))

LoadBasis(r, list) == FoldLeft(LoadNumber, [r EXCEPT !.list = <<>>], list)

LoadModule(r, pointer) ==
  LET read == LoadBasis(r, pointer.content)
      basis == Make(read.known.ids, read.list)
  IN  IF ~IsFirst(pointer) THEN [r EXCEPT !.list = r.pointers[pointer.shared][2]]
      ELSE [read EXCEPT !.pointers = Remember(@, pointer.shared, Module(basis)), !.list = basis]

-----------------------------------------------------------------------------
(* The client. *)

NoWriter == [shared |-> <<>>, elements |-> <<>>]
NoReader == [next |-> 1, pointers |-> <<>>]

Init ==
  /\ ids = <<>>
  /\ nextId = 0
  /\ held = {}
  /\ kept = {}
  /\ element = Nothing
  /\ writer = NoWriter
  /\ archive = <<>>
  /\ reader = NoReader
  /\ saved = <<>>

Random(a) ==
  /\ nextId < MaxId
  /\ a \notin held
  /\ LET known == Obtain([ids |-> ids, next |-> nextId], a)
     IN  ids' = known.ids /\ nextId' = known.next
  /\ held' = held \cup {a}
  /\ UNCHANGED <<kept, element, writer, archive, reader, saved>>

Release(a) ==
  /\ a \in held
  /\ held' = held \ {a}
  /\ ids' = Sweep(held', kept, element, Shared)
  /\ UNCHANGED <<nextId, kept, element, writer, archive, reader, saved>>

MakeElement(gens) ==
  /\ element = Nothing
  /\ Factors(gens) \subseteq held
  /\ \E basis \in [1 .. Cardinality(gens) -> gens], coefficients \in Coefficients :
       /\ ToSet(basis) = gens
       /\ Len(coefficients) = Cardinality(gens)
       /\ element' = [basis |-> Make(ids, basis), coefficients |-> coefficients]
  /\ kept' = kept \cup {gens}
  /\ UNCHANGED <<ids, nextId, held, writer, archive, reader, saved>>

ReleaseElement ==
  /\ element # Nothing
  /\ element' = Nothing
  /\ ids' = Sweep(held, kept, element', Shared)
  /\ UNCHANGED <<nextId, held, kept, writer, archive, reader, saved>>

\* Other modules push a module out of the factory (KeepSetAlive).
Expel(gens) ==
  /\ gens \in kept
  /\ kept' = kept \ {gens}
  /\ ids' = Sweep(held, kept', element, Shared)
  /\ UNCHANGED <<nextId, held, element, writer, archive, reader, saved>>

Save ==
  /\ element # Nothing
  /\ archive = <<>>
  /\ Len(saved) < MaxSaved
  /\ \E address \in [Atom -> 1 .. Cardinality(Atom)] :
       /\ IsInjective(address)
       /\ LET parent == SaveModule(address, writer.shared, element.basis)
          IN  writer' = [shared |-> parent.shared,
                         elements |-> Append(writer.elements, [parent |-> parent.pointer,
                                                               coefficients |-> element.coefficients])]
  /\ saved' = Append(saved, [value |-> Polynomial(element),
                             ids |-> [a \in Factors(ToSet(element.basis)) |-> ids[a]]])
  /\ UNCHANGED <<ids, nextId, held, kept, element, archive, reader>>

\* The end of serialize: the archive is complete once it has been closed.
Close ==
  /\ writer # NoWriter
  /\ archive' = writer.elements
  /\ writer' = NoWriter
  /\ ids' = Sweep(held, kept, element, SharedBy(NoWriter, reader))
  /\ UNCHANGED <<nextId, held, kept, element, reader, saved>>

Load ==
  /\ reader.next <= Len(archive)
  /\ element = Nothing
  /\ LET entry == archive[reader.next]
         read == LoadModule([known |-> [ids |-> ids, next |-> nextId], pointers |-> reader.pointers, list |-> <<>>],
                            entry.parent)
     IN  /\ read.known.next <= MaxId
         /\ ids' = read.known.ids
         /\ nextId' = read.known.next
         /\ reader' = [next |-> reader.next + 1, pointers |-> read.pointers]
         /\ element' = [basis |-> read.list, coefficients |-> entry.coefficients]
         /\ kept' = kept \cup {ToSet(read.list)}
  /\ UNCHANGED <<held, writer, archive, saved>>

\* The end of deserialize; the archive can be read again.
CloseReader ==
  /\ reader # NoReader
  /\ reader' = NoReader
  /\ ids' = Sweep(held, kept, element, SharedBy(writer, NoReader))
  /\ UNCHANGED <<nextId, held, kept, element, writer, archive, saved>>

\* The process ends, another one starts.
Restart ==
  /\ archive # <<>>
  /\ ids' = <<>>
  /\ nextId' = 0
  /\ held' = {}
  /\ kept' = {}
  /\ element' = Nothing
  /\ reader' = NoReader
  /\ UNCHANGED <<writer, archive, saved>>

Next ==
  \/ \E a \in Atom : Random(a) \/ Release(a)
  \/ \E gens \in Basis : MakeElement(gens) \/ Expel(gens)
  \/ ReleaseElement \/ Save \/ Close \/ Load \/ CloseReader \/ Restart

Spec == Init /\ [][Next]_vars

-----------------------------------------------------------------------------
\* Ids are given out once, and the generators of an element are alive and sorted.
TypeOK ==
  /\ IsInjective(ids)
  /\ \A a \in DOMAIN ids : ids[a] < nextId
  /\ Owned(held, kept, element, Shared) = DOMAIN ids
  /\ element # Nothing =>
       /\ Len(element.coefficients) = Len(element.basis)
       /\ \A m, n \in DOMAIN element.basis : m < n => Deglex(ids, element.basis[m], element.basis[n])

IsLinear(f) == TotalDegree(f) = 1

\* What is read next.
Original == saved[reader.next]

\* Whatever elements share, and in whichever order the archive writes modules,
\* products and factors, an element is loaded into the module that it had been
\* saved from: references are to what they had been to.
GeneratorsRestored == [][Load => ToSet(element'.basis) = DOMAIN Original.value]_vars

OrderedAlike(i, j) == \A a, b \in DOMAIN i : i[a] < i[b] <=> j[a] < j[b]

\* While the generators of the saved element stay alive, whatever else dies or
\* is created, the element comes back as it was, and so it does when its
\* generators are alive again with ids in the same order.
RestoredInSameProcess ==
  [][Load /\ DOMAIN Original.ids \subseteq DOMAIN ids /\ OrderedAlike(Original.ids, ids)
       => Polynomial(element') = Original.value]_vars

\* An element of a module without products comes back as it was in a process
\* that has none of its generators yet.
RestoredInNewProcess ==
  [][Load /\ DOMAIN Original.ids \cap DOMAIN ids = {} /\ (\A f \in DOMAIN Original.value : IsLinear(f))
       => Polynomial(element') = Original.value]_vars

\* Saving and loading restores the element.
LoadRestoresElement == [][Load => Polynomial(element') = Original.value]_vars
=============================================================================
