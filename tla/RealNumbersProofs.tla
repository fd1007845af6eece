------------------------- MODULE RealNumbersProofs -------------------------
(***************************************************************************)
(* The invariants of RealNumbers hold for any seeds, rationals, bounds and *)
(* limits, and RealNumbers implements UniqueReals.                         *)
(***************************************************************************)
EXTENDS RealNumbers, TLAPS

HeapOK(heap) == \A o \in DOMAIN heap : WellFormed(heap, heap[o])

\* The objects of the first heap are in the second one, unchanged.
Extends(h, heap) ==
  DOMAIN h \subseteq DOMAIN heap /\ \A o \in DOMAIN h : heap[o] = h[o]

-----------------------------------------------------------------------------
\* The kinds of keys exclude each other, and a key determines its components.
LEMMA KeyKinds ==
  /\ \A s : RandomKey(s).kind = "random" /\ RandomKey(s).seed = s
  /\ \A q : RationalKey(q).kind = "rational" /\ RationalKey(q).value = q
  /\ \A i, o : /\ ConstrainedKey(i, o).kind = "constrained"
               /\ ConstrainedKey(i, o).initial = i
               /\ ConstrainedKey(i, o).inner = o
  /\ \A f : ProductKey(f).kind = "product" /\ ProductKey(f).factors = f
BY DEF RandomKey, RationalKey, ConstrainedKey, ProductKey

\* Objects that are added to a heap do not make others ill-formed.
LEMMA WellFormedGrows ==
  ASSUME NEW h, NEW heap, Extends(h, heap), NEW k, WellFormed(h, k)
  PROVE  WellFormed(heap, k)
<1>1. CASE k.kind = "product"
  BY <1>1, KeyKinds DEF WellFormed, Extends, IsIrrationalAtom
<1>2. CASE k.kind # "product"
  BY <1>2, KeyKinds DEF WellFormed, Extends
<1> QED BY <1>1, <1>2

\* ... nor do they change the number that an object stands for.
LEMMA ValueGrows ==
  ASSUME NEW h, NEW heap, Extends(h, heap), HeapOK(h), NEW o \in DOMAIN h
  PROVE  /\ AtomValue(heap, o) = AtomValue(h, o)
         /\ Value(heap, o) = Value(h, o)
<1>1. ASSUME NEW m \in DOMAIN h
      PROVE  AtomValue(heap, m) = AtomValue(h, m)
  <2>1. heap[m] = h[m]
    BY DEF Extends
  <2>2. CASE h[m].kind = "constrained"
    <3>1. h[m].inner \in DOMAIN h
      BY <2>2, KeyKinds DEF HeapOK, WellFormed
    <3> QED BY <2>1, <3>1 DEF AtomValue, Extends
  <2> QED BY <2>1, <2>2 DEF AtomValue
<1>2. CASE IsProduct(h[o])
  <2>1. DOMAIN h[o].factors \subseteq DOMAIN h
    BY <1>2, KeyKinds DEF HeapOK, WellFormed, IsProduct
  <2>2. FactorValues(heap, h[o].factors) = FactorValues(h, h[o].factors)
    BY <1>1, <2>1 DEF FactorValues
  <2> QED BY <1>1, <1>2, <2>2 DEF Value, Extends
<1> QED BY <1>1, <1>2 DEF Value, Extends

\* UniqueFactory::get returns an object that has the key it was asked for.
LEMMA ObtainSound ==
  ASSUME NEW st, StoreOK(st), CacheMatches(st), NEW key, WellFormed(st.heap, key),
         FirstId \in Nat
  PROVE  /\ StoreOK(Obtain(st, key))
         /\ CacheMatches(Obtain(st, key))
         /\ Extends(st.heap, Obtain(st, key).heap)
         /\ key \in DOMAIN Obtain(st, key).cache
         /\ Obtain(st, key).cache[key] \in DOMAIN Obtain(st, key).heap
         /\ Obtain(st, key).heap[Obtain(st, key).cache[key]] = key
         /\ \A o \in DOMAIN Obtain(st, key).heap \ DOMAIN st.heap : o >= st.nextId
         /\ st.nextId <= Obtain(st, key).nextId
<1> DEFINE new == Obtain(st, key)
<1>1. CASE key \in DOMAIN st.cache
  BY <1>1 DEF Obtain, CacheMatches, Extends, StoreOK
<1>2. CASE key \notin DOMAIN st.cache
  <2>1. /\ new = [heap |-> new.heap, cache |-> new.cache, nextId |-> new.nextId]
        /\ new.heap = Extend(st.heap, st.nextId, key)
        /\ new.cache = Extend(st.cache, key, st.nextId)
        /\ new.nextId = st.nextId + 1
    BY <1>2 DEF Obtain
  <2>2. /\ DOMAIN new.heap = DOMAIN st.heap \cup {st.nextId}
        /\ DOMAIN new.cache = DOMAIN st.cache \cup {key}
        /\ new.heap = [o \in DOMAIN new.heap |-> new.heap[o]]
        /\ new.cache = [k \in DOMAIN new.cache |-> new.cache[k]]
    BY <2>1 DEF Extend
  <2>3. st.nextId \notin DOMAIN st.heap
    BY DEF StoreOK
  <2>4. /\ new.heap[st.nextId] = key
        /\ new.cache[key] = st.nextId
        /\ \A o \in DOMAIN st.heap : new.heap[o] = st.heap[o]
        /\ \A k \in DOMAIN st.cache : new.cache[k] = st.cache[k]
    BY <1>2, <2>1, <2>2, <2>3 DEF Extend
  <2>5. Extends(st.heap, new.heap)
    BY <2>2, <2>4 DEF Extends
  <2>6. \A o \in DOMAIN new.heap : o \in FirstId .. new.nextId - 1
    BY <2>1, <2>2 DEF StoreOK
  <2>7. \A o \in DOMAIN new.heap : WellFormed(new.heap, new.heap[o])
    BY <2>2, <2>4, <2>5, WellFormedGrows DEF StoreOK
  <2>8. StoreOK(new)
    <3> HIDE DEF new
    <3> QED BY <2>1, <2>2, <2>6, <2>7 DEF StoreOK
  <2>9. CacheMatches(new)
    <3> HIDE DEF new
    <3> QED BY <1>2, <2>2, <2>4 DEF CacheMatches
  <2> QED
    <3> HIDE DEF new
    <3>1. st.nextId <= new.nextId
      BY <2>1 DEF StoreOK
    <3>2. \A o \in DOMAIN new.heap \ DOMAIN st.heap : o >= st.nextId
      BY <2>2 DEF StoreOK
    <3>3. key \in DOMAIN new.cache /\ new.cache[key] \in DOMAIN new.heap
      BY <2>2, <2>4
    <3>4. new.heap[new.cache[key]] = key
      BY <2>4
    <3>5. /\ StoreOK(new) /\ CacheMatches(new) /\ Extends(st.heap, new.heap)
          /\ key \in DOMAIN new.cache /\ new.cache[key] \in DOMAIN new.heap
          /\ new.heap[new.cache[key]] = key
          /\ \A o \in DOMAIN new.heap \ DOMAIN st.heap : o >= st.nextId
          /\ st.nextId <= new.nextId
      BY <2>5, <2>8, <2>9, <3>1, <3>2, <3>3, <3>4
    <3> QED BY <3>5 DEF new
<1> QED BY <1>1, <1>2

\* Creating an atom from its value yields an object that stands for this value.
LEMMA ObtainAtomSound ==
  ASSUME NEW st, StoreOK(st), CacheMatches(st), NEW v, IsAtomValue(v), FirstId \in Nat
  PROVE  /\ StoreOK(ObtainAtom(st, v))
         /\ CacheMatches(ObtainAtom(st, v))
         /\ Extends(st.heap, ObtainAtom(st, v).heap)
         /\ AtomId(st, v) \in DOMAIN ObtainAtom(st, v).heap
         /\ AtomValue(ObtainAtom(st, v).heap, AtomId(st, v)) = v
         /\ ObtainAtom(st, v).heap[AtomId(st, v)].kind = v.kind
         /\ \A o \in DOMAIN ObtainAtom(st, v).heap \ DOMAIN st.heap : o >= st.nextId
         /\ st.nextId <= ObtainAtom(st, v).nextId
<1> DEFINE in == InnerStore(st, v)
           key == AtomKey(in, v)
           new == Obtain(in, key)
           x == new.cache[key]
<1>1. new = ObtainAtom(st, v) /\ x = AtomId(st, v)
  BY DEF ObtainAtom, AtomId
<1>2. CASE v.kind = "constrained"
  <2>1. PICK i \in Initial, s \in Seeds : v = ConstrainedKey(i, RandomKey(s))
    BY <1>2, KeyKinds DEF IsAtomValue
  <2>2. /\ in = Obtain(st, RandomKey(s))
        /\ key = ConstrainedKey(i, in.cache[RandomKey(s)])
    BY <1>2, <2>1, KeyKinds DEF InnerStore, AtomKey
  <2>3. WellFormed(st.heap, RandomKey(s))
    BY DEF WellFormed
  <2>4. /\ StoreOK(in) /\ CacheMatches(in) /\ Extends(st.heap, in.heap)
        /\ in.cache[RandomKey(s)] \in DOMAIN in.heap
        /\ in.heap[in.cache[RandomKey(s)]] = RandomKey(s)
        /\ \A o \in DOMAIN in.heap \ DOMAIN st.heap : o >= st.nextId
        /\ st.nextId <= in.nextId
    BY <2>2, <2>3, ObtainSound
  <2>5. WellFormed(in.heap, key)
    BY <2>2, <2>4, KeyKinds DEF WellFormed
  <2> HIDE DEF in, key
  <2>6. /\ StoreOK(new) /\ CacheMatches(new) /\ Extends(in.heap, new.heap)
        /\ x \in DOMAIN new.heap
        /\ new.heap[x] = key
        /\ \A o \in DOMAIN new.heap \ DOMAIN in.heap : o >= in.nextId
        /\ in.nextId <= new.nextId
    BY <2>4, <2>5, ObtainSound
  <2> HIDE DEF new, x
  <2>7. Extends(st.heap, new.heap)
    BY <2>4, <2>6 DEF Extends
  <2>8. new.heap[in.cache[RandomKey(s)]] = RandomKey(s)
    BY <2>4, <2>6 DEF Extends
  <2>9. AtomValue(new.heap, x) = v
    BY <2>1, <2>2, <2>6, <2>8, KeyKinds DEF AtomValue
  <2>10. new.heap[x].kind = v.kind
    BY <1>2, <2>2, <2>6, KeyKinds
  <2>11. \A o \in DOMAIN new.heap \ DOMAIN st.heap : o >= st.nextId
    BY <2>4, <2>6 DEF StoreOK
  <2>12. st.nextId <= new.nextId
    BY <2>4, <2>6 DEF StoreOK
  <2> QED BY <1>1, <2>6, <2>7, <2>9, <2>10, <2>11, <2>12
<1>3. CASE v.kind # "constrained"
  <2>1. in = st /\ key = v
    BY <1>3 DEF InnerStore, AtomKey
  <2>2. WellFormed(st.heap, v)
    BY <1>3, KeyKinds DEF IsAtomValue, WellFormed
  <2>3. new = Obtain(st, v) /\ x = Obtain(st, v).cache[v]
    BY <2>1
  <2> HIDE DEF in, key, new, x
  <2>4. /\ StoreOK(new) /\ CacheMatches(new) /\ Extends(st.heap, new.heap)
        /\ x \in DOMAIN new.heap
        /\ new.heap[x] = v
        /\ \A o \in DOMAIN new.heap \ DOMAIN st.heap : o >= st.nextId
        /\ st.nextId <= new.nextId
    BY <2>2, <2>3, ObtainSound
  <2>5. AtomValue(new.heap, x) = v
    BY <1>3, <2>4 DEF AtomValue
  <2> QED BY <1>1, <2>4, <2>5
<1> QED BY <1>2, <1>3

\* Destroying what is not reachable leaves a consistent store in which
\* everything that has a pointer to it lives, unchanged.
LEMMA SweepSound ==
  ASSUME NEW st, StoreOK(st), CacheMatches(st), NEW roots, roots \subseteq DOMAIN st.heap
  PROVE  /\ StoreOK(Sweep(st, roots))
         /\ CacheMatches(Sweep(st, roots))
         /\ Extends(Sweep(st, roots).heap, st.heap)
         /\ roots \subseteq DOMAIN Sweep(st, roots).heap
         /\ Sweep(st, roots).nextId = st.nextId
<1> DEFINE alive == Reach(st.heap, roots)
           new == Sweep(st, roots)
<1>1. /\ new = [heap |-> new.heap, cache |-> new.cache, nextId |-> new.nextId]
      /\ new.heap = Filter(st.heap, alive)
      /\ new.cache = Filter(st.cache, {k \in DOMAIN st.cache : st.cache[k] \in alive})
      /\ new.nextId = st.nextId
  BY DEF Sweep, StoreOK
<1>2. \A o \in DOMAIN st.heap : PartsOf(st.heap[o]) \subseteq DOMAIN st.heap
  BY KeyKinds DEF StoreOK, WellFormed, PartsOf
<1>3. alive \subseteq DOMAIN st.heap
  BY <1>2 DEF Reach, Parts
<1>4. /\ DOMAIN new.heap = alive
      /\ DOMAIN new.cache = {k \in DOMAIN st.cache : st.cache[k] \in alive}
      /\ new.heap = [o \in DOMAIN new.heap |-> new.heap[o]]
      /\ new.cache = [k \in DOMAIN new.cache |-> new.cache[k]]
      /\ \A o \in alive : new.heap[o] = st.heap[o]
      /\ \A k \in DOMAIN new.cache : new.cache[k] = st.cache[k]
  BY <1>1 DEF Filter
<1>5. \A o \in DOMAIN st.heap : \A p \in PartsOf(st.heap[o]) :
        st.heap[p].kind \in {"random", "constrained"}
  BY KeyKinds DEF StoreOK, WellFormed, PartsOf, IsIrrationalAtom
<1>6. \A o \in DOMAIN st.heap : st.heap[o].kind = "constrained" =>
        \A p \in PartsOf(st.heap[o]) : st.heap[p].kind = "random"
  BY KeyKinds DEF StoreOK, WellFormed, PartsOf
<1>7. \A o \in DOMAIN st.heap : st.heap[o].kind = "random" => PartsOf(st.heap[o]) = {}
  BY DEF PartsOf
<1>8. ASSUME NEW o \in alive
      PROVE  PartsOf(st.heap[o]) \subseteq alive
  <2>1. CASE o \in roots \cup Parts(st.heap, roots)
    BY <2>1 DEF Reach, Parts
  <2>2. CASE o \in Parts(st.heap, Parts(st.heap, roots))
    <3>1. PICK p \in Parts(st.heap, roots) : o \in PartsOf(st.heap[p])
      BY <2>2 DEF Parts
    <3>2. PICK r \in roots : p \in PartsOf(st.heap[r])
      BY <3>1 DEF Parts
    <3>3. p \in DOMAIN st.heap /\ st.heap[p].kind \in {"random", "constrained"}
      BY <1>2, <1>5, <3>2
    <3>4. o \in DOMAIN st.heap /\ st.heap[o].kind = "random"
      BY <1>2, <1>6, <1>7, <3>1, <3>3
    <3> QED BY <1>7, <3>4
  <2> QED BY <2>1, <2>2 DEF Reach
<1> HIDE DEF new
<1>9. \A o \in alive : WellFormed(new.heap, st.heap[o])
  <2> SUFFICES ASSUME NEW o \in alive PROVE WellFormed(new.heap, st.heap[o])
    OBVIOUS
  <2> HIDE DEF alive
  <2>1. WellFormed(st.heap, st.heap[o])
    BY <1>3 DEF StoreOK
  <2>2. CASE st.heap[o].kind = "product"
    <3>1. DOMAIN st.heap[o].factors \subseteq alive
      BY <1>8, <2>2 DEF PartsOf
    <3> QED BY <1>4, <2>1, <2>2, <3>1, KeyKinds DEF WellFormed
  <2>3. CASE st.heap[o].kind = "constrained"
    <3>1. st.heap[o].inner \in alive
      BY <1>8, <2>3 DEF PartsOf
    <3> QED BY <1>4, <2>1, <2>3, <3>1, KeyKinds DEF WellFormed
  <2>4. CASE st.heap[o].kind \notin {"product", "constrained"}
    BY <2>1, <2>4, KeyKinds DEF WellFormed
  <2> QED BY <2>2, <2>3, <2>4
<1>10. roots \subseteq alive
  BY DEF Reach
<1> HIDE DEF alive
<1>11. StoreOK(new)
  BY <1>1, <1>3, <1>4, <1>9 DEF StoreOK
<1>12. CacheMatches(new)
  BY <1>3, <1>4 DEF CacheMatches
<1>13. Extends(new.heap, st.heap)
  BY <1>3, <1>4 DEF Extends
<1> QED BY <1>1, <1>4, <1>10, <1>11, <1>12, <1>13 DEF new

-----------------------------------------------------------------------------
\* In a consistent store, objects that stand for the same number are the same.
LEMMA ConsistentIsUnique ==
  ASSUME NEW st, StoreOK(st), CacheMatches(st),
         NEW o \in DOMAIN st.heap, NEW p \in DOMAIN st.heap,
         Value(st.heap, o) = Value(st.heap, p)
  PROVE  o = p
<1> DEFINE heap == st.heap
<1>1. \A a, b \in DOMAIN heap : heap[a] = heap[b] => a = b
  BY DEF CacheMatches
<1>2. \A a \in DOMAIN heap : /\ AtomValue(heap, a).kind = heap[a].kind
                             /\ Value(heap, a).kind = heap[a].kind
  BY KeyKinds DEF AtomValue, Value, IsProduct
<1>3. ASSUME NEW a \in DOMAIN heap, NEW b \in DOMAIN heap,
             ~IsProduct(heap[a]), AtomValue(heap, a) = AtomValue(heap, b)
      PROVE  a = b
  <2>1. CASE heap[a].kind # "constrained"
    <3>1. heap[b].kind # "constrained"
      BY <1>2, <1>3, <2>1
    <3> QED BY <1>1, <1>3, <2>1, <3>1 DEF AtomValue
  <2>2. CASE heap[a].kind = "constrained"
    <3>1. heap[b].kind = "constrained"
      BY <1>2, <1>3, <2>2
    <3>2. PICK i \in Initial, in \in DOMAIN heap : heap[a] = ConstrainedKey(i, in)
      BY <2>2, KeyKinds DEF StoreOK, WellFormed
    <3>3. PICK j \in Initial, jn \in DOMAIN heap : heap[b] = ConstrainedKey(j, jn)
      BY <3>1, KeyKinds DEF StoreOK, WellFormed
    <3>4. /\ AtomValue(heap, a) = ConstrainedKey(i, heap[in])
          /\ AtomValue(heap, b) = ConstrainedKey(j, heap[jn])
      BY <2>2, <3>1, <3>2, <3>3, KeyKinds DEF AtomValue
    <3>5. ConstrainedKey(i, heap[in]) = ConstrainedKey(j, heap[jn])
      BY <1>3, <3>4
    <3>6. i = j /\ heap[in] = heap[jn]
      BY <3>5 DEF ConstrainedKey
    <3>7. in = jn
      BY <1>1, <3>6
    <3> QED BY <1>1, <3>2, <3>3, <3>6, <3>7
  <2> QED BY <2>1, <2>2
<1>4. CASE ~IsProduct(heap[o])
  <2>1. ~IsProduct(heap[p])
    BY <1>2, <1>4 DEF IsProduct
  <2> QED BY <1>3, <1>4, <2>1 DEF Value
<1>5. CASE IsProduct(heap[o])
  <2>1. IsProduct(heap[p])
    BY <1>2, <1>5 DEF IsProduct
  <2> DEFINE f == heap[o].factors
             g == heap[p].factors
  <2>2. /\ heap[o] = ProductKey(f) /\ heap[p] = ProductKey(g)
        /\ f \in [DOMAIN f -> Nat \ {0}] /\ g \in [DOMAIN g -> Nat \ {0}]
        /\ DOMAIN f \subseteq DOMAIN heap /\ DOMAIN g \subseteq DOMAIN heap
        /\ \A m \in DOMAIN f : ~IsProduct(heap[m])
        /\ \A m \in DOMAIN g : ~IsProduct(heap[m])
    BY <1>5, <2>1, KeyKinds DEF StoreOK, WellFormed, IsProduct, IsIrrationalAtom
  <2>3. FactorValues(heap, f) = FactorValues(heap, g)
    BY <1>5, <2>1, KeyKinds DEF Value
  <2> HIDE DEF f, g
  <2>4. \A m \in DOMAIN f : m \in DOMAIN g /\ g[m] = f[m]
    <3> SUFFICES ASSUME NEW m \in DOMAIN f PROVE m \in DOMAIN g /\ g[m] = f[m]
      OBVIOUS
    <3>1. <<AtomValue(heap, m), f[m]>> \in FactorValues(heap, g)
      BY <2>3 DEF FactorValues
    <3>2. PICK n \in DOMAIN g : <<AtomValue(heap, m), f[m]>> = <<AtomValue(heap, n), g[n]>>
      BY <3>1 DEF FactorValues
    <3>3. m = n
      BY <1>3, <2>2, <3>2
    <3> QED BY <3>2, <3>3
  <2>5. \A n \in DOMAIN g : n \in DOMAIN f
    <3> SUFFICES ASSUME NEW n \in DOMAIN g PROVE n \in DOMAIN f
      OBVIOUS
    <3>1. <<AtomValue(heap, n), g[n]>> \in FactorValues(heap, f)
      BY <2>3 DEF FactorValues
    <3>2. PICK m \in DOMAIN f : <<AtomValue(heap, n), g[n]>> = <<AtomValue(heap, m), f[m]>>
      BY <3>1 DEF FactorValues
    <3>3. n = m
      BY <1>3, <2>2, <3>2
    <3> QED BY <3>3
  <2>6. f = g
    BY <2>2, <2>4, <2>5
  <2> QED BY <1>1, <2>2, <2>6
<1> QED BY <1>4, <1>5

-----------------------------------------------------------------------------
\* What has been read and what is yet to be read make up the archived product.
ReadsArchive ==
  \A l \in loading : \E v \in archive :
    v = ProductKey(l.todo \cup {<<AtomValue(store.heap, p[1]), p[2]>> : p \in l.got})

\* The inductive invariant: the other properties follow from it.
IInv == TypeOK /\ CacheExact /\ ReadsArchive

\* A step within a process: live objects keep their value and new objects have
\* ids which had not been given out before.
Advances ==
  /\ store.nextId <= store'.nextId
  /\ \A o \in Alive' : IF o \in Alive THEN Value(store'.heap, o) = Value(store.heap, o)
                                      ELSE store.nextId <= o

\* What every step of the specification does.
Preserved == IInv' /\ (Advances \/ Restart)

\* A step creates objects, which gives the heap h, then it destroys others.
LEMMA AdvancesThrough ==
  ASSUME IInv, IInv', NEW h,
         Extends(store.heap, h), Extends(store'.heap, h),
         \A o \in DOMAIN h \ DOMAIN store.heap : o >= store.nextId,
         store.nextId <= store'.nextId
  PROVE  Advances
<1>1. HeapOK(store.heap) /\ HeapOK(store'.heap)
  BY DEF IInv, TypeOK, StoreOK, HeapOK
<1>2. ASSUME NEW o \in Alive', o \in Alive
      PROVE  Value(store'.heap, o) = Value(store.heap, o)
  BY <1>1, <1>2, ValueGrows DEF Alive
<1>3. ASSUME NEW o \in Alive', o \notin Alive
      PROVE  store.nextId <= o
  <2>1. o \in DOMAIN h \ DOMAIN store.heap
    BY <1>3 DEF Alive, Extends
  <2>2. o \in Int /\ store.nextId \in Int
    BY DEF IInv, TypeOK, StoreOK, Alive
  <2> QED BY <2>1, <2>2
<1> QED BY <1>2, <1>3 DEF Advances

\* ... or it leaves the store as it is.
LEMMA AdvancesUnchanged ==
  ASSUME IInv, store' = store
  PROVE  Advances
<1>1. store.nextId <= store'.nextId
  BY DEF IInv, TypeOK, StoreOK
<1> QED BY <1>1 DEF Advances, Alive

\* The part of an action that hands x, an object of the new store st, out.
LEMMA ReturnPreserves ==
  ASSUME IInv, NEW st, StoreOK(st), CacheMatches(st), Extends(store.heap, st.heap),
         \A o \in DOMAIN st.heap \ DOMAIN store.heap : o >= store.nextId,
         store.nextId <= st.nextId,
         NEW x \in DOMAIN st.heap, Return(st, x), kept' \subseteq kept \cup {x},
         nextSeed' \in Seeds
  PROVE  Preserved
<1> DEFINE roots == held' \cup kept'
           new == Sweep(st, roots)
<1>1. roots \subseteq DOMAIN st.heap
  BY DEF IInv, TypeOK, Alive, Return, Extends
<1>2. store' = new
  BY DEF Return
<1>3. /\ StoreOK(new) /\ CacheMatches(new)
      /\ roots \subseteq DOMAIN new.heap
      /\ Extends(new.heap, st.heap)
      /\ new.nextId = st.nextId
  BY <1>1, SweepSound
<1>4. loading' = {} /\ archive' = archive /\ st.nextId <= MaxId + 1
  BY DEF Return, Idle
<1> HIDE DEF new
<1>5. StoreOK(store') /\ CacheMatches(store') /\ store'.nextId <= MaxId + 1
  BY <1>2, <1>3, <1>4
<1>6. held' \cup kept' \cup Loaded' \subseteq Alive'
  BY <1>2, <1>3, <1>4 DEF Loaded, Alive
<1>7. IInv'
  BY <1>4, <1>5, <1>6 DEF IInv, TypeOK, CacheExact, ReadsArchive
<1>8. Extends(store'.heap, st.heap) /\ store.nextId <= store'.nextId
  BY <1>2, <1>3
<1>9. Advances
  BY <1>7, <1>8, AdvancesThrough
<1> QED BY <1>7, <1>9 DEF Preserved

\* ... of which the object may be an atom, created from its value
LEMMA ReturnAtomPreserves ==
  ASSUME IInv, NEW v, IsAtomValue(v), nextSeed' \in Seeds,
         ReturnAtom(ObtainAtom(store, v), AtomId(store, v))
  PROVE  Preserved
<1>1. /\ StoreOK(ObtainAtom(store, v)) /\ CacheMatches(ObtainAtom(store, v))
      /\ Extends(store.heap, ObtainAtom(store, v).heap)
      /\ AtomId(store, v) \in DOMAIN ObtainAtom(store, v).heap
      /\ \A o \in DOMAIN ObtainAtom(store, v).heap \ DOMAIN store.heap : o >= store.nextId
      /\ store.nextId <= ObtainAtom(store, v).nextId
  BY ObtainAtomSound, BoundAssumption DEF IInv, TypeOK, CacheExact, ReadsArchive
<1> QED BY <1>1, ReturnPreserves DEF ReturnAtom

\* ... or a product.
LEMMA ReturnProductPreserves ==
  ASSUME IInv, NEW key, WellFormed(store.heap, key), nextSeed' \in Seeds,
         ReturnProduct(Obtain(store, key), Obtain(store, key).cache[key])
  PROVE  Preserved
<1>1. /\ StoreOK(Obtain(store, key)) /\ CacheMatches(Obtain(store, key))
      /\ Extends(store.heap, Obtain(store, key).heap)
      /\ Obtain(store, key).cache[key] \in DOMAIN Obtain(store, key).heap
      /\ \A o \in DOMAIN Obtain(store, key).heap \ DOMAIN store.heap : o >= store.nextId
      /\ store.nextId <= Obtain(store, key).nextId
  BY ObtainSound, BoundAssumption DEF IInv, TypeOK, CacheExact, ReadsArchive
<1>2. /\ kept' \subseteq kept \cup {Obtain(store, key).cache[key]}
      /\ Return(Obtain(store, key), Obtain(store, key).cache[key])
  BY DEF ReturnProduct, KeepSetAlive
<1> QED BY <1>1, <1>2, ReturnPreserves

-----------------------------------------------------------------------------
\* A list of factors of objects in the heap.
AreFactors(heap, f) ==
  /\ f \in [DOMAIN f -> Nat \ {0}]
  /\ DOMAIN f \subseteq DOMAIN heap
  /\ \A m \in DOMAIN f : IsIrrationalAtom(heap[m])

\* A number that is not rational is a product of at least one factor.
LEMMA FactorsOfIrrational ==
  ASSUME NEW heap, HeapOK(heap), NEW o \in DOMAIN heap, ~IsRational(heap[o])
  PROVE  AreFactors(heap, FactorsOf(heap, o)) /\ DOMAIN FactorsOf(heap, o) # {}
<1>1. CASE IsProduct(heap[o])
  BY <1>1, KeyKinds DEF HeapOK, WellFormed, IsProduct, FactorsOf, AreFactors, IsProper
<1>2. CASE ~IsProduct(heap[o])
  <2>1. IsIrrationalAtom(heap[o])
    BY <1>2, KeyKinds DEF HeapOK, WellFormed, IsProduct, IsRational, IsIrrationalAtom
  <2> QED BY <1>2, <2>1 DEF FactorsOf, AreFactors
<1> QED BY <1>1, <1>2

\* The merged list of factors makes a product object.
LEMMA TimesWellFormed ==
  ASSUME NEW heap, NEW f, NEW g, AreFactors(heap, f), AreFactors(heap, g),
         DOMAIN f # {}, DOMAIN g # {}
  PROVE  WellFormed(heap, ProductKey(Times(f, g)))
<1> DEFINE h == Times(f, g)
<1>1. /\ DOMAIN h = DOMAIN f \cup DOMAIN g
      /\ \A m \in DOMAIN h : h[m] = Exponent(f, m) + Exponent(g, m)
      /\ h = [m \in DOMAIN h |-> h[m]]
  BY DEF Times
<1>2. \A m \in DOMAIN h : /\ Exponent(f, m) \in Nat /\ Exponent(g, m) \in Nat
                          /\ m \in DOMAIN f => Exponent(f, m) > 0
                          /\ m \in DOMAIN g => Exponent(g, m) > 0
  BY DEF AreFactors, Exponent
<1> HIDE DEF h
<1>3. h \in [DOMAIN h -> Nat \ {0}]
  BY <1>1, <1>2
<1>4. IsProper(h)
  <2>1. DOMAIN h # {}
    BY <1>1
  <2>2. ASSUME NEW m \in DOMAIN h, DOMAIN h = {m}, h[m] = 1
        PROVE  FALSE
    <3>1. m \in DOMAIN f /\ m \in DOMAIN g
      BY <1>1, <2>2
    <3> QED BY <1>1, <1>2, <2>2, <3>1
  <2> QED BY <2>1, <2>2 DEF IsProper
<1>5. /\ DOMAIN h \subseteq DOMAIN heap
      /\ \A m \in DOMAIN h : IsIrrationalAtom(heap[m])
  BY <1>1 DEF AreFactors
<1> QED BY <1>3, <1>4, <1>5, KeyKinds DEF WellFormed, h

\* What a division leaves over is a list of factors.
LEMMA QuotientFactors ==
  ASSUME NEW heap, NEW f, NEW g, AreFactors(heap, f), AreFactors(heap, g)
  PROVE  AreFactors(heap, Quotient(f, g))
<1> DEFINE h == Quotient(f, g)
<1>1. /\ DOMAIN h \subseteq DOMAIN f
      /\ \A m \in DOMAIN h : h[m] = f[m] - Exponent(g, m) /\ f[m] > Exponent(g, m)
      /\ h = [m \in DOMAIN h |-> h[m]]
  BY DEF Quotient
<1>2. \A m \in DOMAIN f : f[m] \in Nat /\ Exponent(g, m) \in Nat
  BY DEF AreFactors, Exponent
<1> HIDE DEF h
<1>3. h \in [DOMAIN h -> Nat \ {0}]
  BY <1>1, <1>2
<1> QED BY <1>1, <1>3 DEF AreFactors, h

\* An atom is determined by the number it stands for.
LEMMA AtomsAreUnique ==
  ASSUME NEW st, StoreOK(st), CacheMatches(st),
         NEW o \in DOMAIN st.heap, NEW p \in DOMAIN st.heap,
         IsIrrationalAtom(st.heap[o]), AtomValue(st.heap, o) = AtomValue(st.heap, p)
  PROVE  o = p
<1>1. \A a \in DOMAIN st.heap : AtomValue(st.heap, a).kind = st.heap[a].kind
  BY KeyKinds DEF AtomValue
<1>2. ~IsProduct(st.heap[o]) /\ ~IsProduct(st.heap[p])
  BY <1>1 DEF IsIrrationalAtom, IsProduct
<1> QED BY <1>2, ConsistentIsUnique DEF Value

\* What is written to an archive is a number.
LEMMA ArchivesNumbers ==
  ASSUME NEW st, StoreOK(st), CacheMatches(st), NEW o \in DOMAIN st.heap
  PROVE  IsValue(Value(st.heap, o))
<1> DEFINE heap == st.heap
<1>1. ASSUME NEW m \in DOMAIN heap, ~IsProduct(heap[m])
      PROVE  IsAtomValue(AtomValue(heap, m)) /\ AtomValue(heap, m).kind = heap[m].kind
  <2>1. CASE heap[m].kind = "constrained"
    <3>1. PICK i \in Initial, in \in DOMAIN heap :
            heap[in].kind = "random" /\ heap[m] = ConstrainedKey(i, in)
      BY <2>1, KeyKinds DEF StoreOK, WellFormed
    <3>2. PICK s \in Seeds : heap[in] = RandomKey(s)
      BY <3>1, KeyKinds DEF StoreOK, WellFormed
    <3>3. AtomValue(heap, m) = ConstrainedKey(i, RandomKey(s))
      BY <2>1, <3>1, <3>2, KeyKinds DEF AtomValue
    <3> QED BY <2>1, <3>3, KeyKinds DEF IsAtomValue
  <2>2. CASE heap[m].kind # "constrained"
    BY <1>1, <2>2, KeyKinds DEF StoreOK, WellFormed, AtomValue, IsAtomValue, IsProduct
  <2> QED BY <2>1, <2>2
<1>2. CASE ~IsProduct(heap[o])
  BY <1>1, <1>2 DEF Value, IsValue
<1>3. CASE IsProduct(heap[o])
  <2> DEFINE f == heap[o].factors
             F == FactorValues(heap, f)
  <2>1. /\ f \in [DOMAIN f -> Nat \ {0}]
        /\ DOMAIN f \subseteq DOMAIN heap
        /\ \A m \in DOMAIN f : IsIrrationalAtom(heap[m]) /\ ~IsProduct(heap[m])
        /\ IsProper(f)
    BY <1>3, KeyKinds DEF StoreOK, WellFormed, IsProduct, IsIrrationalAtom
  <2> HIDE DEF f
  <2>2. ASSUME NEW p \in F
        PROVE  /\ p = <<p[1], p[2]>>
               /\ IsAtomValue(p[1]) /\ IsIrrationalAtom(p[1])
               /\ p[2] \in Nat \ {0}
    <3>1. PICK m \in DOMAIN f : p = <<AtomValue(heap, m), f[m]>>
      BY DEF FactorValues
    <3> QED BY <1>1, <2>1, <3>1 DEF IsIrrationalAtom
  <2>3. ASSUME NEW p \in F, NEW q \in F, p[1] = q[1]
        PROVE  p = q
    <3>1. PICK m \in DOMAIN f : p = <<AtomValue(heap, m), f[m]>>
      BY DEF FactorValues
    <3>2. PICK n \in DOMAIN f : q = <<AtomValue(heap, n), f[n]>>
      BY DEF FactorValues
    <3>3. m = n
      BY <2>1, <2>3, <3>1, <3>2, AtomsAreUnique
    <3> QED BY <3>1, <3>2, <3>3
  <2>4. F # {}
    <3>1. PICK m : m \in DOMAIN f
      BY <2>1 DEF IsProper
    <3>2. <<AtomValue(heap, m), f[m]>> \in F
      BY <3>1 DEF FactorValues
    <3> QED BY <3>2
  <2>5. ASSUME NEW p \in F, F = {p}, p[2] = 1
        PROVE  FALSE
    <3>1. PICK m \in DOMAIN f : p = <<AtomValue(heap, m), f[m]>>
      BY DEF FactorValues
    <3>2. ASSUME NEW n \in DOMAIN f PROVE n = m
      <4>1. <<AtomValue(heap, n), f[n]>> \in F
        BY DEF FactorValues
      <4>2. AtomValue(heap, n) = AtomValue(heap, m)
        BY <2>5, <3>1, <4>1
      <4> QED BY <2>1, <4>2, AtomsAreUnique
    <3>3. DOMAIN f = {m} /\ f[m] = 1
      BY <2>5, <3>1, <3>2
    <3> QED BY <2>1, <3>3 DEF IsProper
  <2>6. AreFactorValues(F)
    <3> HIDE DEF F
    <3> QED BY <2>2, <2>3, <2>4, <2>5 DEF AreFactorValues
  <2>7. Value(heap, o) = ProductKey(F)
    BY <1>3 DEF Value, f
  <2> QED BY <2>6, <2>7, KeyKinds DEF IsValue
<1> QED BY <1>2, <1>3

\* What has been read from an archive are the factors of the archived product.
LEMMA LoadedWellFormed ==
  ASSUME NEW st, StoreOK(st), CacheMatches(st), NEW l, LoadingOK(st.heap, l), l.todo = {}
  PROVE  /\ WellFormed(st.heap, ProductKey(LoadedFactors(l.got)))
         /\ FactorValues(st.heap, LoadedFactors(l.got)) =
              {<<AtomValue(st.heap, p[1]), p[2]>> : p \in l.got}
<1> DEFINE heap == st.heap
           got == l.got
           F == {<<AtomValue(heap, p[1]), p[2]>> : p \in got}
           f == LoadedFactors(got)
<1>1. /\ \A p \in got : p = <<p[1], p[2]>> /\ p[1] \in DOMAIN heap
      /\ AreFactorValues(F)
  <2>1. l.todo \cup F = F
    OBVIOUS
  <2> QED BY <2>1 DEF LoadingOK
<1> HIDE DEF got
<1>2. \A p \in got : <<AtomValue(heap, p[1]), p[2]>> \in F
  OBVIOUS
<1>3. \A p, q \in got : p[1] = q[1] => p[2] = q[2]
  <2> SUFFICES ASSUME NEW p \in got, NEW q \in got, p[1] = q[1] PROVE p[2] = q[2]
    OBVIOUS
  <2>1. <<AtomValue(heap, p[1]), p[2]>> = <<AtomValue(heap, q[1]), q[2]>>
    <3>1. <<AtomValue(heap, p[1]), p[2]>>[1] = <<AtomValue(heap, q[1]), q[2]>>[1]
      OBVIOUS
    <3> QED BY <1>1, <1>2, <3>1 DEF AreFactorValues
  <2> QED BY <2>1
<1>4. /\ DOMAIN f = {p[1] : p \in got}
      /\ \A m \in DOMAIN f : f[m] = (CHOOSE p \in got : p[1] = m)[2]
      /\ f = [m \in DOMAIN f |-> f[m]]
  BY DEF LoadedFactors
<1> HIDE DEF f
<1>5. \A p \in got : p[1] \in DOMAIN f /\ f[p[1]] = p[2]
  BY <1>3, <1>4
<1>6. \A p \in got : /\ IsAtomValue(AtomValue(heap, p[1]))
                     /\ IsIrrationalAtom(AtomValue(heap, p[1]))
                     /\ p[2] \in Nat \ {0}
  <2> SUFFICES ASSUME NEW p \in got
               PROVE /\ IsAtomValue(AtomValue(heap, p[1]))
                     /\ IsIrrationalAtom(AtomValue(heap, p[1]))
                     /\ p[2] \in Nat \ {0}
    OBVIOUS
  <2>1. <<AtomValue(heap, p[1]), p[2]>> \in F
    BY <1>2
  <2> HIDE DEF F
  <2> QED BY <1>1, <2>1 DEF AreFactorValues
<1>7. f \in [DOMAIN f -> Nat \ {0}]
  BY <1>4, <1>5, <1>6
<1>8. /\ DOMAIN f \subseteq DOMAIN heap
      /\ \A m \in DOMAIN f : IsIrrationalAtom(heap[m])
  <2>1. \A o : IsIrrationalAtom(AtomValue(heap, o)) => IsIrrationalAtom(heap[o])
    BY KeyKinds DEF IsIrrationalAtom, AtomValue
  <2>2. \A p \in got : p[1] \in DOMAIN heap /\ IsIrrationalAtom(heap[p[1]])
    BY <1>1, <1>6, <2>1
  <2> QED BY <1>4, <2>2
<1>9. DOMAIN f # {}
  <2>1. PICK r : r \in F
    BY <1>1 DEF AreFactorValues
  <2>2. PICK p \in got : r = <<AtomValue(heap, p[1]), p[2]>>
    BY <2>1
  <2> QED BY <1>5, <2>2
<1>10. ASSUME NEW m \in DOMAIN f, DOMAIN f = {m}, f[m] = 1
       PROVE  FALSE
  <2>1. \A p \in got : p[1] = m /\ p[2] = 1
    BY <1>5, <1>10
  <2>2. F = {<<AtomValue(heap, m), 1>>}
    BY <1>9, <1>4, <2>1
  <2> HIDE DEF F
  <2> QED BY <1>1, <2>2 DEF AreFactorValues
<1>11. IsProper(f)
  BY <1>9, <1>10 DEF IsProper
<1>12. WellFormed(heap, ProductKey(f))
  BY <1>7, <1>8, <1>11, KeyKinds DEF WellFormed
<1>13. FactorValues(heap, f) = F
  BY <1>4, <1>5 DEF FactorValues
<1> QED BY <1>12, <1>13 DEF f, got

-----------------------------------------------------------------------------
\* The inductive invariant holds initially
LEMMA InitIInv == Init => IInv
<1> SUFFICES ASSUME Init PROVE IInv
  OBVIOUS
<1>1. EmptyFunction = [z \in DOMAIN EmptyFunction |-> EmptyFunction[z]] /\ DOMAIN EmptyFunction = {}
  BY DEF EmptyFunction
<1>2. StoreOK(EmptyStore) /\ CacheMatches(EmptyStore)
  BY <1>1, BoundAssumption DEF StoreOK, CacheMatches, EmptyStore
<1>3. EmptyStore.nextId <= MaxId + 1
  BY BoundAssumption DEF EmptyStore
<1> QED
  BY <1>2, <1>3, BoundAssumption, SeedAssumption
     DEF Init, IInv, TypeOK, CacheExact, ReadsArchive, Seeds, Loaded, Alive

\* ... and is preserved by all steps.
LEMMA NextIInv == IInv /\ [Next]_vars => Preserved
<1> SUFFICES ASSUME IInv, [Next]_vars PROVE Preserved
  OBVIOUS
<1>1. /\ StoreOK(store) /\ CacheMatches(store) /\ HeapOK(store.heap)
      /\ held \cup kept \cup Loaded \subseteq DOMAIN store.heap
      /\ nextSeed \in Seeds
  BY DEF IInv, TypeOK, CacheExact, StoreOK, HeapOK, Alive
<1>2. (nextSeed + 1) % SeedModulus \in Seeds
  BY <1>1, SeedAssumption DEF Seeds
<1>3. \A s \in Seeds : IsAtomValue(RandomKey(s))
  BY DEF IsAtomValue
<1>4. \A i \in Initial, s \in Seeds : IsAtomValue(ConstrainedKey(i, RandomKey(s)))
  BY DEF IsAtomValue
<1>5. \A q \in RationalValue : IsAtomValue(RationalKey(q))
  BY DEF IsAtomValue
<1>6. ASSUME NEW q \in RationalValue, Rational(q) PROVE Preserved
  <2>1. nextSeed' \in Seeds
    BY <1>1, <1>6 DEF Rational
  <2> QED BY <1>5, <1>6, <2>1, ReturnAtomPreserves DEF Rational
<1>7. CASE Random
  BY <1>1, <1>2, <1>3, <1>7, ReturnAtomPreserves DEF Random, DrawSeed
<1>8. ASSUME NEW s \in Seeds, RandomWithSeed(s) PROVE Preserved
  BY <1>1, <1>3, <1>8, ReturnAtomPreserves DEF RandomWithSeed
<1>9. ASSUME NEW i \in Initial, RandomBetween(i) PROVE Preserved
  BY <1>1, <1>2, <1>4, <1>9, ReturnAtomPreserves DEF RandomBetween, DrawSeed
<1>10. ASSUME NEW i \in Initial, NEW s \in Seeds, RandomBetweenWithSeed(i, s) PROVE Preserved
  BY <1>1, <1>4, <1>10, ReturnAtomPreserves DEF RandomBetweenWithSeed
<1>11. ASSUME NEW a \in held, NEW b \in held, MultiplyRationals(a, b) PROVE Preserved
  <2>1. store.heap[a].value \in RationalValue /\ store.heap[b].value \in RationalValue
    BY <1>1, <1>11, KeyKinds DEF MultiplyRationals, IsRational, HeapOK, WellFormed
  <2>2. store.heap[a].value * store.heap[b].value \in RationalValue
    BY <2>1, RationalAssumption
  <2> QED BY <1>6, <1>11, <2>2 DEF MultiplyRationals
<1>12. ASSUME NEW a \in held, NEW b \in held, Multiply(a, b) PROVE Preserved
  <2> DEFINE f == FactorsOf(store.heap, a)
             g == FactorsOf(store.heap, b)
  <2>1. a \in DOMAIN store.heap /\ b \in DOMAIN store.heap
    BY <1>1
  <2>2. AreFactors(store.heap, f) /\ DOMAIN f # {} /\ AreFactors(store.heap, g) /\ DOMAIN g # {}
    BY <1>1, <1>12, <2>1, FactorsOfIrrational DEF Multiply
  <2>3. WellFormed(store.heap, ProductKey(Times(f, g)))
    BY <2>2, TimesWellFormed
  <2>4. nextSeed' \in Seeds
    BY <1>1, <1>12 DEF Multiply
  <2> QED BY <1>12, <2>3, <2>4, ReturnProductPreserves DEF Multiply
<1>13. ASSUME NEW a \in held, NEW b \in held, Divide(a, b) PROVE Preserved
  <2> DEFINE f == FactorsOf(store.heap, a)
             g == FactorsOf(store.heap, b)
             q == Quotient(f, g)
  <2>1. a \in DOMAIN store.heap /\ b \in DOMAIN store.heap
    BY <1>1
  <2>2. AreFactors(store.heap, f) /\ AreFactors(store.heap, g)
    BY <1>1, <1>13, <2>1, FactorsOfIrrational DEF Divide
  <2>3. AreFactors(store.heap, q)
    BY <2>2, QuotientFactors
  <2>4. nextSeed' \in Seeds
    BY <1>1, <1>13 DEF Divide
  <2>5. CASE Rational(1)
    BY <1>6, <2>5, RationalAssumption
  <2>6. ASSUME NEW m \in DOMAIN q, ReturnAtom(store, m) PROVE Preserved
    <3>1. m \in DOMAIN store.heap
      BY <2>3 DEF AreFactors
    <3>2. Extends(store.heap, store.heap) /\ store.nextId <= store.nextId
      BY <1>1 DEF Extends, StoreOK
    <3> QED BY <1>1, <2>4, <2>6, <3>1, <3>2, ReturnPreserves DEF ReturnAtom
  <2>7. ASSUME IsProper(q),
               ReturnProduct(Obtain(store, ProductKey(q)),
                             Obtain(store, ProductKey(q)).cache[ProductKey(q)])
        PROVE  Preserved
    <3>1. WellFormed(store.heap, ProductKey(q))
      <4> HIDE DEF q
      <4> QED BY <2>3, <2>7, KeyKinds DEF AreFactors, WellFormed
    <3> QED BY <2>4, <2>7, <3>1, ReturnProductPreserves
  <2> QED BY <1>13, <2>5, <2>6, <2>7 DEF Divide
<1>14. ASSUME NEW a \in held, DivideRationals(a) PROVE Preserved
  BY <1>6, <1>14, RationalAssumption DEF DivideRationals
<1>15. ASSUME NEW S \in SUBSET held, Release(S) PROVE Preserved
  <2> DEFINE roots == held' \cup kept
  <2>1. roots \subseteq DOMAIN store.heap
    BY <1>1, <1>15 DEF Release
  <2>2. /\ store' = Sweep(store, roots) /\ kept' = kept /\ loading' = {} /\ loading = {}
        /\ archive' = archive /\ nextSeed' = nextSeed
    BY <1>15 DEF Release, Idle
  <2> HIDE DEF roots
  <2>3. /\ StoreOK(store') /\ CacheMatches(store') /\ store'.nextId = store.nextId
        /\ roots \subseteq DOMAIN store'.heap
        /\ Extends(store'.heap, store.heap)
    BY <1>1, <2>1, <2>2, SweepSound
  <2>4. held' \cup kept' \cup Loaded' \subseteq Alive'
    BY <2>2, <2>3 DEF Loaded, Alive, roots
  <2>5. IInv'
    BY <2>2, <2>3, <2>4 DEF IInv, TypeOK, CacheExact, ReadsArchive
  <2>6. Extends(store.heap, store.heap) /\ store.nextId <= store'.nextId
    BY <1>1, <2>3 DEF Extends, StoreOK
  <2>7. Advances
    BY <2>3, <2>5, <2>6, AdvancesThrough
  <2> QED BY <2>5, <2>7 DEF Preserved
<1>16. ASSUME NEW o \in held, Save(o) PROVE Preserved
  <2>1. IsValue(Value(store.heap, o))
    BY <1>1, <1>16, ArchivesNumbers
  <2>2. IInv'
    BY <1>16, <2>1 DEF Save, Idle, IInv, TypeOK, CacheExact, ReadsArchive, Loaded, Alive
  <2>3. Advances
    BY <1>16, AdvancesUnchanged DEF Save
  <2> QED BY <2>2, <2>3 DEF Preserved
<1>17. ASSUME NEW v \in archive, LoadAtom(v) PROVE Preserved
  <2>1. IsAtomValue(v)
    BY <1>17 DEF LoadAtom, IInv, TypeOK, IsValue, IsProduct
  <2> QED BY <1>1, <1>17, <2>1, ReturnAtomPreserves DEF LoadAtom
<1>18. ASSUME NEW v \in archive, LoadProduct(v) PROVE Preserved
  <2>1. AreFactorValues(v.factors)
    BY <1>18, KeyKinds DEF LoadProduct, IInv, TypeOK, IsValue, IsProduct, IsAtomValue
  <2>2. LoadingOK(store.heap, [todo |-> v.factors, got |-> {}])
    BY <2>1 DEF LoadingOK
  <2>3. Loaded' = {}
    BY <1>18 DEF LoadProduct, Loaded
  <2>4. v = ProductKey(v.factors \cup {})
    BY <1>18, KeyKinds DEF LoadProduct, IInv, TypeOK, IsValue, IsProduct, IsAtomValue
  <2>5. ReadsArchive'
    BY <1>18, <2>4 DEF LoadProduct, ReadsArchive
  <2>6. IInv'
    BY <1>18, <2>2, <2>3, <2>5 DEF LoadProduct, IInv, TypeOK, CacheExact, Alive
  <2>7. Advances
    BY <1>18, AdvancesUnchanged DEF LoadProduct
  <2> QED BY <2>6, <2>7 DEF Preserved
<1>19. CASE LoadFactor
  <2>0. PICK l \in loading : \E p \in l.todo :
          LET st == ObtainAtom(store, p[1])
          IN  /\ st.nextId <= MaxId + 1
              /\ loading' = {[todo |-> l.todo \ {p},
                              got |-> l.got \cup {<<AtomId(store, p[1]), p[2]>>}]}
              /\ store' = Sweep(st, held \cup kept \cup Loaded')
              /\ UNCHANGED <<nextSeed, held, kept, archive>>
    BY <1>19 DEF LoadFactor
  <2>1. PICK p \in l.todo :
          LET st == ObtainAtom(store, p[1])
          IN  /\ st.nextId <= MaxId + 1
              /\ loading' = {[todo |-> l.todo \ {p},
                              got |-> l.got \cup {<<AtomId(store, p[1]), p[2]>>}]}
              /\ store' = Sweep(st, held \cup kept \cup Loaded')
              /\ UNCHANGED <<nextSeed, held, kept, archive>>
    BY <2>0
  <2> DEFINE st == ObtainAtom(store, p[1])
             x == AtomId(store, p[1])
             new == [todo |-> l.todo \ {p}, got |-> l.got \cup {<<x, p[2]>>}]
             roots == held \cup kept \cup Loaded'
             Values(heap, got) == {<<AtomValue(heap, r[1]), r[2]>> : r \in got}
  <2>2. /\ l = [todo |-> l.todo, got |-> l.got]
        /\ \A r \in l.got : r = <<r[1], r[2]>> /\ r[1] \in DOMAIN store.heap
        /\ AreFactorValues(l.todo \cup Values(store.heap, l.got))
    BY DEF IInv, TypeOK, LoadingOK
  <2>3. p = <<p[1], p[2]>> /\ IsAtomValue(p[1])
    BY <2>2 DEF AreFactorValues
  <2>4. /\ StoreOK(st) /\ CacheMatches(st) /\ Extends(store.heap, st.heap)
        /\ x \in DOMAIN st.heap
        /\ AtomValue(st.heap, x) = p[1]
        /\ \A o \in DOMAIN st.heap \ DOMAIN store.heap : o >= store.nextId
        /\ store.nextId <= st.nextId
    BY <1>1, <2>3, ObtainAtomSound, BoundAssumption
  <2>5. Loaded' = {r[1] : r \in l.got} \cup {x}
    <3>1. loading' = {new}
      BY <2>1
    <3>2. Loaded' = {r[1] : r \in new.got}
      BY <3>1 DEF Loaded
    <3>3. new.got = l.got \cup {<<x, p[2]>>} /\ <<x, p[2]>>[1] = x
      OBVIOUS
    <3> HIDE DEF new, x
    <3> QED BY <3>2, <3>3
  <2> HIDE DEF st, x
  <2>6. roots \subseteq DOMAIN st.heap
    BY <1>1, <2>2, <2>4, <2>5 DEF Extends
  <2>7. store' = Sweep(st, roots)
    BY <2>1, <2>5 DEF st
  <2> HIDE DEF roots
  <2>8. /\ StoreOK(store') /\ CacheMatches(store') /\ Extends(store'.heap, st.heap)
        /\ roots \subseteq DOMAIN store'.heap
        /\ store'.nextId = st.nextId
    BY <2>4, <2>6, <2>7, SweepSound
  <2>9. HeapOK(store'.heap)
    BY <2>8 DEF StoreOK, HeapOK
  <2>10. \A r \in l.got : r[1] \in DOMAIN store'.heap
    BY <2>5, <2>8 DEF roots
  <2>11. x \in DOMAIN store'.heap
    BY <2>5, <2>8 DEF roots
  <2>12. \A o \in DOMAIN store'.heap : AtomValue(store'.heap, o) = AtomValue(st.heap, o)
    BY <2>8, <2>9, ValueGrows
  <2>13. \A o \in DOMAIN store.heap : AtomValue(st.heap, o) = AtomValue(store.heap, o)
    BY <1>1, <2>4, ValueGrows
  <2>14. Values(store'.heap, l.got) = Values(store.heap, l.got)
    BY <2>2, <2>10, <2>12, <2>13
  <2>15. AtomValue(store'.heap, x) = p[1]
    BY <2>4, <2>11, <2>12
  <2>16. Values(store'.heap, new.got) = Values(store'.heap, l.got) \cup {<<p[1], p[2]>>}
    <3>1. new.got = l.got \cup {<<x, p[2]>>} /\ <<x, p[2]>>[1] = x /\ <<x, p[2]>>[2] = p[2]
      OBVIOUS
    <3> HIDE DEF new
    <3> QED BY <2>15, <3>1
  <2>17. new.todo \cup Values(store'.heap, new.got) = l.todo \cup Values(store.heap, l.got)
    BY <2>3, <2>14, <2>16
  <2>18. LoadingOK(store'.heap, new)
    <3>1. new = [todo |-> new.todo, got |-> new.got]
      OBVIOUS
    <3>2. \A r \in new.got : r = <<r[1], r[2]>> /\ r[1] \in DOMAIN store'.heap
      BY <2>2, <2>10, <2>11
    <3>3. AreFactorValues(new.todo \cup Values(store'.heap, new.got))
      BY <2>2, <2>17
    <3> HIDE DEF new
    <3> QED BY <3>1, <3>2, <3>3 DEF LoadingOK
  <2>19. loading' = {new}
    BY <2>1 DEF x
  <2>20. held' \cup kept' \cup Loaded' \subseteq Alive'
    BY <2>1, <2>8 DEF Alive, roots
  <2>21. store'.nextId <= MaxId + 1
    BY <2>1, <2>8 DEF st
  <2>22. nextSeed' = nextSeed /\ archive' = archive
    BY <2>1
  <2>23. ReadsArchive'
    <3>1. PICK v \in archive : v = ProductKey(l.todo \cup Values(store.heap, l.got))
      BY DEF IInv, ReadsArchive
    <3>2. v = ProductKey(new.todo \cup Values(store'.heap, new.got))
      BY <2>17, <3>1
    <3> HIDE DEF new
    <3> QED BY <2>19, <2>22, <3>1, <3>2 DEF ReadsArchive
  <2> HIDE DEF new
  <2>24. IInv'
    BY <2>8, <2>18, <2>19, <2>20, <2>21, <2>22, <2>23 DEF IInv, TypeOK, CacheExact
  <2>25. store.nextId <= store'.nextId
    BY <2>4, <2>8
  <2>26. Advances
    BY <2>4, <2>8, <2>24, <2>25, AdvancesThrough
  <2> QED BY <2>24, <2>26 DEF Preserved
<1>20. CASE LoadFinish
  <2>1. PICK l \in loading :
          LET key == ProductKey(LoadedFactors(l.got))
              st == Obtain(store, key)
              x == st.cache[key]
          IN  /\ l.todo = {}
              /\ st.nextId <= MaxId + 1
              /\ loading' = {}
              /\ held' = held \cup {x}
              /\ \E K \in KeepSetAlive(x) : kept' = K
              /\ store' = Sweep(st, held' \cup kept')
              /\ UNCHANGED <<nextSeed, archive>>
    BY <1>20 DEF LoadFinish
  <2> DEFINE key == ProductKey(LoadedFactors(l.got))
             st == Obtain(store, key)
             x == st.cache[key]
             roots == held' \cup kept'
  <2>2. LoadingOK(store.heap, l)
    BY DEF IInv, TypeOK
  <2>3. WellFormed(store.heap, key)
    BY <1>1, <2>1, <2>2, LoadedWellFormed
  <2> HIDE DEF key
  <2>4. /\ StoreOK(st) /\ CacheMatches(st) /\ Extends(store.heap, st.heap)
        /\ x \in DOMAIN st.heap
        /\ \A o \in DOMAIN st.heap \ DOMAIN store.heap : o >= store.nextId
        /\ store.nextId <= st.nextId
    BY <1>1, <2>3, ObtainSound, BoundAssumption
  <2>5. roots \subseteq DOMAIN st.heap
    BY <1>1, <2>1, <2>4 DEF KeepSetAlive, Extends, key
  <2>6. store' = Sweep(st, roots)
    BY <2>1 DEF key
  <2> HIDE DEF st, roots
  <2>7. /\ StoreOK(store') /\ CacheMatches(store') /\ store'.nextId = st.nextId
        /\ roots \subseteq DOMAIN store'.heap
        /\ Extends(store'.heap, st.heap)
    BY <2>4, <2>5, <2>6, SweepSound
  <2>8. held' \cup kept' \cup Loaded' \subseteq Alive'
    BY <2>1, <2>7 DEF Loaded, Alive, roots
  <2>9. store'.nextId <= MaxId + 1
    BY <2>1, <2>7 DEF st, key
  <2>10. IInv'
    BY <2>1, <2>7, <2>8, <2>9 DEF IInv, TypeOK, CacheExact, ReadsArchive
  <2>11. store.nextId <= store'.nextId
    BY <2>4, <2>7
  <2>12. Advances
    BY <2>4, <2>7, <2>10, <2>11, AdvancesThrough
  <2> QED BY <2>10, <2>12 DEF Preserved
<1>21. CASE Restart
  <2>1. IInv'
    BY <1>21, BoundAssumption, SeedAssumption
       DEF Restart, IInv, TypeOK, CacheExact, ReadsArchive, StoreOK, CacheMatches, EmptyStore,
           EmptyFunction, Seeds, Loaded, Alive
  <2> QED BY <1>21, <2>1 DEF Preserved
<1>22. CASE UNCHANGED vars
  <2>1. IInv'
    BY <1>22 DEF vars, IInv, TypeOK, CacheExact, ReadsArchive, Loaded, Alive
  <2>2. Advances
    BY <1>22, AdvancesUnchanged DEF vars
  <2> QED BY <2>1, <2>2 DEF Preserved
<1>23. CASE RandomBetweenThrows
  <2>1. IInv'
    BY <1>2, <1>23 DEF RandomBetweenThrows, DrawSeed, IInv, TypeOK, CacheExact, ReadsArchive, Loaded, Alive
  <2>2. Advances
    BY <1>23, AdvancesUnchanged DEF RandomBetweenThrows
  <2> QED BY <2>1, <2>2 DEF Preserved
<1> QED
  BY <1>6, <1>7, <1>8, <1>9, <1>10, <1>11, <1>12, <1>13, <1>14, <1>15, <1>16, <1>17,
     <1>18, <1>19, <1>20, <1>21, <1>22, <1>23 DEF Next

-----------------------------------------------------------------------------
\* So it always holds.
LEMMA Invariance == Spec => []IInv
<1>1. IInv /\ [Next]_vars => IInv'
  BY NextIInv DEF Preserved
<1> QED BY InitIInv, <1>1, PTL DEF Spec

\* Type correctness: all objects are well-formed, nothing points to an object
\* that has been destroyed, interrupted loads and archives describe products.
THEOREM TypeCorrect == Spec => []TypeOK
<1>1. IInv => TypeOK
  BY DEF IInv
<1> QED BY Invariance, <1>1, PTL

\* The caches of the factories hold exactly the live objects, each under the
\* key it was created for.
THEOREM CachesAreExact == Spec => []CacheExact
<1>1. IInv => CacheExact
  BY DEF IInv
<1> QED BY Invariance, <1>1, PTL

\* There never are two objects for the same number: comparing addresses is
\* comparing numbers.
THEOREM NumbersAreUnique == Spec => []UniqueRepresentation
<1>1. IInv => UniqueRepresentation
  BY ConsistentIsUnique DEF IInv, TypeOK, CacheExact, UniqueRepresentation, Alive
<1> QED BY Invariance, <1>1, PTL

\* Dividing a product by one of the factors it was made of gives the other.
THEOREM DivisionIsExact == Spec => []DivisionUndoesMultiplication
<1>1. IInv => DivisionUndoesMultiplication
  <2> SUFFICES ASSUME IInv, NEW a \in Alive, NEW b \in Alive,
                      ~IsRational(store.heap[a]), ~IsRational(store.heap[b])
               PROVE  LET f == FactorsOf(store.heap, a)
                          g == FactorsOf(store.heap, b)
                      IN  Divides(g, Times(f, g)) /\ Quotient(Times(f, g), g) = f
    BY DEF DivisionUndoesMultiplication
  <2> DEFINE f == FactorsOf(store.heap, a)
             g == FactorsOf(store.heap, b)
             h == Times(f, g)
             q == Quotient(h, g)
  <2>1. HeapOK(store.heap)
    BY DEF IInv, TypeOK, StoreOK, HeapOK
  <2>2. AreFactors(store.heap, f) /\ AreFactors(store.heap, g)
    BY <2>1, FactorsOfIrrational DEF Alive
  <2> HIDE DEF f, g
  <2>3. /\ DOMAIN h = DOMAIN f \cup DOMAIN g
        /\ \A m \in DOMAIN h : h[m] = Exponent(f, m) + Exponent(g, m)
    BY DEF Times
  <2>4. /\ \A m \in DOMAIN f : f[m] \in Nat \ {0} /\ Exponent(f, m) = f[m]
        /\ \A m \in DOMAIN g : g[m] \in Nat \ {0} /\ Exponent(g, m) = g[m]
        /\ \A m : m \notin DOMAIN f => Exponent(f, m) = 0
        /\ \A m : m \notin DOMAIN g => Exponent(g, m) = 0
        /\ f = [m \in DOMAIN f |-> f[m]]
    BY <2>2 DEF AreFactors, Exponent
  <2> HIDE DEF h
  <2>5. Divides(g, h)
    BY <2>3, <2>4 DEF Divides, Exponent
  <2>6. /\ DOMAIN q = {n \in DOMAIN h : h[n] > Exponent(g, n)}
        /\ \A m \in DOMAIN q : q[m] = h[m] - Exponent(g, m)
        /\ q = [m \in DOMAIN q |-> q[m]]
    BY DEF Quotient
  <2> HIDE DEF q
  <2>7. DOMAIN q = DOMAIN f
    BY <2>3, <2>4, <2>6
  <2>8. \A m \in DOMAIN f : q[m] = f[m]
    BY <2>3, <2>4, <2>6, <2>7
  <2>9. q = f
    BY <2>4, <2>6, <2>7, <2>8
  <2> QED BY <2>5, <2>9 DEF f, g, h, q
<1> QED BY Invariance, <1>1, PTL

\* The factories implement UniqueReals: one object for a number, one number for
\* an object, and an id is never given out twice.
THEOREM Implementation == Spec => ImplementsUniqueReals
<1>1. Init => Abstract!Init
  BY DEF Init, Abstract!Init, Alive, EmptyStore, EmptyFunction
<1>2. IInv /\ IInv' /\ [Next]_vars => [Abstract!Next]_Abstract!vars
  <2> SUFFICES ASSUME IInv, IInv', [Next]_vars
               PROVE  [Abstract!Next]_Abstract!vars
    OBVIOUS
  <2> DEFINE named == {<<Value(store.heap, o), o>> : o \in Alive}
  <2>1. CASE Restart
    <3>1. named' = {} /\ store'.nextId = FirstId
      BY <2>1 DEF Restart, Alive, EmptyStore, EmptyFunction
    <3> QED BY <3>1 DEF Abstract!Next, Abstract!Restart
  <2>2. CASE Advances
    <3>1. \A o, p \in Alive' : Value(store'.heap, o) = Value(store'.heap, p) => o = p
      BY ConsistentIsUnique DEF IInv, TypeOK, CacheExact, Alive
    <3>2. Abstract!OneToOne(named')
      BY <3>1 DEF Abstract!OneToOne
    <3>3. ASSUME NEW o \in Alive', <<Value(store'.heap, o), o>> \notin named
          PROVE  store.nextId <= o /\ o < store'.nextId
      <4>1. o \notin Alive
        BY <2>2, <3>3 DEF Advances
      <4>2. o < store'.nextId
        BY DEF IInv, TypeOK, StoreOK, Alive
      <4> QED BY <2>2, <4>1, <4>2 DEF Advances
    <3>4. \A p \in named' \ named : store.nextId <= p[2] /\ p[2] < store'.nextId
      BY <3>3
    <3>5. store'.nextId >= store.nextId
      BY <2>2 DEF Advances, IInv, TypeOK, StoreOK
    <3> QED BY <3>2, <3>4, <3>5 DEF Abstract!Next, Abstract!Call
  <2> QED BY <2>1, <2>2, NextIInv DEF Preserved
<1> QED BY Invariance, <1>1, <1>2, PTL DEF Spec, ImplementsUniqueReals, Abstract!Spec

\* Loading a product, in whatever order its factors are read and whatever ids
\* they have in this process, ends with an object for the number that was saved.
THEOREM LoadIsExact == Spec => LoadRestoresValue
<1> DEFINE Restores ==
      \E v \in archive, x \in held' :
        /\ \E l \in loading : v.factors = {<<AtomValue(store.heap, p[1]), p[2]>> : p \in l.got}
        /\ x \in DOMAIN store'.heap
        /\ Value(store'.heap, x) = v
<1>1. ASSUME IInv, IInv', LoadFinish PROVE Restores
  <2>1. PICK l \in loading :
          LET key == ProductKey(LoadedFactors(l.got))
              st == Obtain(store, key)
              x == st.cache[key]
          IN  /\ l.todo = {}
              /\ held' = held \cup {x}
              /\ \E K \in KeepSetAlive(x) : kept' = K
              /\ store' = Sweep(st, held' \cup kept')
    BY <1>1 DEF LoadFinish
  <2> DEFINE f == LoadedFactors(l.got)
             key == ProductKey(f)
             st == Obtain(store, key)
             x == st.cache[key]
             roots == held' \cup kept'
             values == {<<AtomValue(store.heap, p[1]), p[2]>> : p \in l.got}
  <2>2. StoreOK(store) /\ CacheMatches(store) /\ HeapOK(store.heap) /\ LoadingOK(store.heap, l)
    BY <1>1 DEF IInv, TypeOK, CacheExact, StoreOK, HeapOK
  <2>3. WellFormed(store.heap, key)
    BY <2>1, <2>2, LoadedWellFormed
  <2>4. PICK v \in archive : v = ProductKey(values)
    BY <1>1, <2>1 DEF IInv, ReadsArchive
  <2> HIDE DEF key
  <2>5. /\ StoreOK(st) /\ CacheMatches(st) /\ Extends(store.heap, st.heap)
        /\ x \in DOMAIN st.heap /\ st.heap[x] = key
    BY <2>2, <2>3, ObtainSound, BoundAssumption
  <2>6. roots \subseteq DOMAIN st.heap
    BY <1>1, <2>1, <2>5 DEF IInv, TypeOK, Alive, KeepSetAlive, Extends, key
  <2>7. store' = Sweep(st, roots) /\ x \in held' /\ x \in roots
    BY <2>1 DEF key
  <2> HIDE DEF st, x, roots
  <2>8. Extends(store'.heap, st.heap) /\ roots \subseteq DOMAIN store'.heap
    BY <2>5, <2>6, <2>7, SweepSound
  <2>9. HeapOK(store'.heap)
    BY <1>1 DEF IInv, TypeOK, StoreOK, HeapOK
  <2>10. x \in DOMAIN store'.heap
    BY <2>7, <2>8
  <2>11. Value(store'.heap, x) = Value(st.heap, x)
    BY <2>8, <2>9, <2>10, ValueGrows
  <2>12. \A m \in DOMAIN store.heap : AtomValue(st.heap, m) = AtomValue(store.heap, m)
    BY <2>2, <2>5, ValueGrows
  <2>13. Value(st.heap, x) = ProductKey(FactorValues(st.heap, f))
    BY <2>5, KeyKinds DEF Value, IsProduct, key
  <2>14. FactorValues(st.heap, f) = values
    <3>1. FactorValues(store.heap, f) = values
      BY <2>1, <2>2, LoadedWellFormed
    <3>2. DOMAIN f \subseteq DOMAIN store.heap
      BY <2>2 DEF LoadedFactors, LoadingOK
    <3> HIDE DEF f, values
    <3>3. FactorValues(st.heap, f) = FactorValues(store.heap, f)
      BY <2>12, <3>2 DEF FactorValues
    <3> QED BY <3>1, <3>3
  <2>15. Value(store'.heap, x) = v
    BY <2>4, <2>11, <2>13, <2>14
  <2>16. v.factors = values
    BY <2>4, KeyKinds
  <2> QED BY <2>7, <2>10, <2>15, <2>16
<1>2. IInv /\ IInv' /\ [Next]_vars => [LoadFinish => Restores]_vars
  BY <1>1
<1> QED BY Invariance, <1>2, PTL DEF Spec, LoadRestoresValue
=============================================================================
