-------------------------- MODULE OwnershipProofs --------------------------
(***************************************************************************)
(* The pointers of the two stores, for every set of keys, every size of    *)
(* the heap and every allocator: no command and no run of the cron frees   *)
(* twice or leaves a pointer to freed memory, and memory is lost only      *)
(* where OnlyKnownLosses says.                                             *)
(***************************************************************************)
EXTENDS Ownership, FiniteSetTheorems, SequenceTheorems, TLAPS

Address == 1 .. HeapSize
Element == [key : Address, value : Address]
Store == [Keys -> Element \cup {NULL}]
Place == {"kv", "exp"} \X Keys \X {1, 2}

TypeOK ==
  /\ kv \in Store
  /\ exp \in Store
  /\ heap \in SUBSET Address

\* Without this, a SET EX of a new key could replace a deadline and lose it.
DeadlineHasKey == \A k \in Keys : exp[k] # NULL => kv[k] # NULL

\* The inductive invariant.
Inv == TypeOK /\ OwnedOnce /\ DeadlineHasKey

-----------------------------------------------------------------------------
(* The operators                                                           *)

LEMMA ElementIsNotNull == NULL \notin Element
BY NullAssumption, HeapAssumption DEF Element, Address

LEMMA AddressesAreFinite == IsFiniteSet(Address)
<1>1. 1 \in Int /\ HeapSize \in Int
  BY HeapAssumption
<1> QED BY <1>1, FS_Interval DEF Address

\* As long as there is room, malloc returns an address that is not allocated.
LEMMA MallocIsFree ==
  ASSUME NEW A \in SUBSET Address, Cardinality(Address \ A) >= 1
  PROVE  Malloc(A) \in Address \ A
<1>1. IsFiniteSet(Address \ A)
  BY AddressesAreFinite, FS_Subset
<1>2. Address \ A # {}
  BY <1>1, FS_EmptySet
<1> QED BY <1>2 DEF Malloc, Address

\* One malloc takes one address.
LEMMA RoomShrinks ==
  ASSUME NEW A \in SUBSET Address, NEW n \in Nat, Cardinality(Address \ A) >= n + 1
  PROVE  /\ Malloc(A) \in Address \ A
         /\ A \cup {Malloc(A)} \in SUBSET Address
         /\ Cardinality(Address \ (A \cup {Malloc(A)})) >= n
<1>1. IsFiniteSet(Address \ A)
  BY AddressesAreFinite, FS_Subset
<1>2. Cardinality(Address \ A) \in Nat
  BY <1>1, FS_CardinalityType
<1>3. Malloc(A) \in Address \ A
  BY <1>2, MallocIsFree
<1>4. Address \ (A \cup {Malloc(A)}) = (Address \ A) \ {Malloc(A)}
  OBVIOUS
<1>5. Cardinality((Address \ A) \ {Malloc(A)}) = Cardinality(Address \ A) - 1
  BY <1>1, <1>3, FS_RemoveElement
<1> QED BY <1>2, <1>3, <1>4, <1>5

\* A place of an element holds its key or its value.
LEMMA PointersOfElement ==
  ASSUME NEW store \in Store, NEW k \in Keys, NEW i \in {1, 2}, store[k] # NULL
  PROVE  /\ Pointers(store, k)[i] = IF i = 1 THEN store[k].key ELSE store[k].value
         /\ Pointers(store, k)[i] \in Address
BY DEF Pointers, Store, Element

LEMMA PutIntoStore ==
  ASSUME NEW store \in Store, NEW k \in Keys, NEW key \in Address, NEW value \in Address
  PROVE  /\ PutInto(store, k, key, value) \in Store
         /\ PutInto(store, k, key, value)[k] # NULL
         /\ Pointers(PutInto(store, k, key, value), k)[2] = value
         /\ Pointers(PutInto(store, k, key, value), k)[1] =
              IF store[k] = NULL THEN key ELSE Pointers(store, k)[1]
         /\ \A j \in Keys \ {k} : PutInto(store, k, key, value)[j] = store[j]
<1> DEFINE new == [key |-> IF store[k] = NULL THEN key ELSE store[k].key, value |-> value]
<1>1. new \in Element
  BY DEF Store, Element
<1>2. PutInto(store, k, key, value) = [store EXCEPT ![k] = new]
  BY DEF PutInto, Store
<1>3. /\ PutInto(store, k, key, value) \in Store
      /\ PutInto(store, k, key, value)[k] = new /\ new # NULL
      /\ \A j \in Keys \ {k} : PutInto(store, k, key, value)[j] = store[j]
  BY <1>1, <1>2, ElementIsNotNull DEF Store
<1> QED BY <1>3, PointersOfElement

-----------------------------------------------------------------------------
(* What a step does to the places that hold pointers                       *)

LEMMA HeldIsPlace ==
  ASSUME TypeOK, NEW p \in Held
  PROVE  p \in Place /\ At(p) \in Address
<1>1. /\ p \in Place /\ StoreOf(p)[p[2]] # NULL /\ StoreOf(p) \in Store
      /\ p[2] \in Keys /\ p[3] \in {1, 2}
  BY DEF Held, Place, StoreOf, TypeOK
<1>2. Pointers(StoreOf(p), p[2])[p[3]] \in Address
  BY <1>1, PointersOfElement
<1> QED BY <1>1, <1>2 DEF At

\* A place whose store keeps the element keeps its pointer.
LEMMA UntouchedPlace ==
  ASSUME NEW p \in Place, StoreOf(p)'[p[2]] = StoreOf(p)[p[2]]
  PROVE  (p \in Held' <=> p \in Held) /\ At(p)' = At(p)
BY DEF Place, Held, At, Pointers

\* A put fills the two places of its key; the first one keeps the pointer it has.
LEMMA PutPlaces ==
  ASSUME TypeOK, NEW k \in Keys, NEW key \in Address, NEW value \in Address,
         NEW store \in {"kv", "exp"}, NEW p \in Place, p[1] = store,
         IF store = "kv" THEN kv' = PutInto(kv, k, key, value)
                         ELSE exp' = PutInto(exp, k, key, value)
  PROVE  /\ p[2] # k => (p \in Held' <=> p \in Held) /\ At(p)' = At(p)
         /\ p[2] = k => p \in Held'
         /\ p[2] = k /\ p[3] = 2 => At(p)' = value
         /\ p[2] = k /\ p[3] = 1 => At(p)' = IF p \in Held THEN At(p) ELSE key
<1>1. /\ StoreOf(p) \in Store
      /\ StoreOf(p)' = PutInto(StoreOf(p), k, key, value)
      /\ p[2] \in Keys /\ p[3] \in {1, 2}
  BY DEF StoreOf, TypeOK, Place
<1>2. /\ StoreOf(p)'[k] # NULL
      /\ Pointers(StoreOf(p)', k)[2] = value
      /\ Pointers(StoreOf(p)', k)[1] =
           IF StoreOf(p)[k] = NULL THEN key ELSE Pointers(StoreOf(p), k)[1]
      /\ \A j \in Keys \ {k} : StoreOf(p)'[j] = StoreOf(p)[j]
  <2> DEFINE s == StoreOf(p)
             t == PutInto(s, k, key, value)
  <2>1. /\ t[k] # NULL /\ Pointers(t, k)[2] = value
        /\ Pointers(t, k)[1] = IF s[k] = NULL THEN key ELSE Pointers(s, k)[1]
        /\ \A j \in Keys \ {k} : t[j] = s[j]
    <3>1. s \in Store
      BY <1>1
    <3> HIDE DEF s
    <3> QED BY <3>1, PutIntoStore
  <2>2. StoreOf(p)' = t
    BY <1>1
  <2> HIDE DEF t
  <2> QED BY <2>1, <2>2
<1>3. p[2] # k => (p \in Held' <=> p \in Held) /\ At(p)' = At(p)
  BY <1>1, <1>2, UntouchedPlace
<1>4. p[2] = k => p \in Held' /\ (p \in Held <=> StoreOf(p)[k] # NULL)
  BY <1>2 DEF Held, Place
<1>5. p[2] = k => At(p)' = Pointers(StoreOf(p)', k)[p[3]] /\ At(p) = Pointers(StoreOf(p), k)[p[3]]
  BY DEF At
<1> QED BY <1>1, <1>2, <1>3, <1>4, <1>5

\* Places keep their pointer or get a fresh one each.
LEMMA FreshAddresses ==
  ASSUME OwnedOnce, at' = at, heap \subseteq heap',
         \A p \in Held' : (p \in Held /\ At(p)' = At(p)) \/ At(p)' \in heap' \ heap,
         \A p, q \in Held' : At(p)' = At(q)' /\ At(p)' \notin heap => p = q
  PROVE  OwnedOnce'
<1>1. ASSUME NEW p \in Held', NEW q \in Held'
      PROVE  At(p)' \in heap' /\ (At(p)' = At(q)' => p = q)
  BY <1>1 DEF OwnedOnce
<1> QED BY <1>1 DEF OwnedOnce

\* Nothing is lost when all places keep what they hold and what is fresh gets a place.
LEMMA NothingReplaced ==
  ASSUME OwnedOnce', heap \subseteq heap',
         \A p \in Held : p \in Held' /\ At(p)' = At(p),
         \A p \in Held' : p \in Held \/ At(p)' \in heap' \ heap,
         \A a \in heap' \ heap : \E p \in Held' : At(p)' = a
  PROVE  Lost' = Lost
<1>1. Lost' = heap' \ {At(p)' : p \in Held'}
  BY DEF Lost
<1>2. ASSUME NEW a \in Lost
      PROVE  a \in heap' \ {At(p)' : p \in Held'}
  BY <1>2 DEF Lost
<1>3. ASSUME NEW a \in heap', a \notin {At(p)' : p \in Held'}
      PROVE  a \in Lost
  BY <1>3 DEF Lost
<1> QED BY <1>1, <1>2, <1>3

\* What the places G held is freed, and they hold nothing any more.
LEMMA PlacesCleared ==
  ASSUME OwnedOnce, at' = at, NEW G \in SUBSET Held,
         Held' \subseteq Held \ G, \A p \in Held' : At(p)' = At(p),
         heap' = heap \ {At(p) : p \in G}
  PROVE  /\ OwnedOnce'
         /\ Held' = Held \ G => Lost' = Lost
<1>1. ASSUME NEW p \in Held \ G
      PROVE  At(p) \in heap'
  BY <1>1 DEF OwnedOnce
<1>2. OwnedOnce'
  BY <1>1 DEF OwnedOnce
<1>3. ASSUME Held' = Held \ G
      PROVE  Lost' = Lost
  <2>1. {At(p)' : p \in Held'} = {At(p) : p \in Held \ G}
    BY <1>3
  <2>2. Lost' = heap' \ {At(p)' : p \in Held'}
    BY DEF Lost
  <2> QED BY <1>1, <2>1, <2>2 DEF Lost
<1> QED BY <1>2, <1>3

\* The places of one key.
PlacesOf(stores, k) == {p \in Held : p[1] \in stores /\ p[2] = k}

LEMMA PointersOfStore ==
  ASSUME TypeOK, NEW store \in {"kv", "exp"}, NEW k \in Keys
  PROVE  /\ Pointers(StoreOf(<<store, k>>), k) \in Seq(Address)
         /\ Len(Pointers(StoreOf(<<store, k>>), k)) \in Nat
         /\ \A i \in 1 .. Len(Pointers(StoreOf(<<store, k>>), k)) :
              /\ <<store, k, i>> \in Held
              /\ At(<<store, k, i>>) = Pointers(StoreOf(<<store, k>>), k)[i]
         /\ \A p \in PlacesOf({store}, k) :
              /\ p[3] \in 1 .. Len(Pointers(StoreOf(<<store, k>>), k))
              /\ p = <<store, k, p[3]>>
<1> DEFINE s == StoreOf(<<store, k>>)
           pointers == Pointers(s, k)
           Goal == /\ pointers \in Seq(Address) /\ Len(pointers) \in Nat
                   /\ \A i \in 1 .. Len(pointers) :
                        <<store, k, i>> \in Held /\ At(<<store, k, i>>) = pointers[i]
                   /\ \A p \in PlacesOf({store}, k) :
                        p[3] \in 1 .. Len(pointers) /\ p = <<store, k, p[3]>>
<1>1. s \in Store /\ \A i : StoreOf(<<store, k, i>>) = s
  BY DEF TypeOK, StoreOf
<1>2. ASSUME s[k] = NULL
      PROVE  Goal
  <2>1. pointers = <<>> /\ Len(pointers) = 0 /\ pointers \in Seq(Address)
    BY <1>2 DEF Pointers
  <2>2. PlacesOf({store}, k) = {}
    BY <1>2 DEF PlacesOf, Held, StoreOf
  <2>3. \A i \in 1 .. Len(pointers) : FALSE
    BY <2>1
  <2>4. Len(pointers) \in Nat
    BY <2>1
  <2> HIDE DEF pointers
  <2> QED BY <2>1, <2>2, <2>3, <2>4, Zenon
<1>3. ASSUME s[k] # NULL
      PROVE  Goal
  <2>1. /\ s[k].key \in Address /\ s[k].value \in Address
        /\ pointers = <<s[k].key, s[k].value>>
    BY <1>1, <1>3 DEF Store, Element, Pointers
  <2> HIDE DEF pointers
  <2>2. pointers \in Seq(Address) /\ Len(pointers) = 2
    <3> HIDE DEF s
    <3> QED BY <2>1
  <2>3. ASSUME NEW i \in 1 .. 2
        PROVE  <<store, k, i>> \in Held /\ At(<<store, k, i>>) = pointers[i]
    BY <1>1, <1>3 DEF Held, At, pointers
  <2>4. ASSUME NEW p \in PlacesOf({store}, k)
        PROVE  p[3] \in 1 .. 2 /\ p = <<store, k, p[3]>>
    BY DEF PlacesOf, Held
  <2>5. 1 .. Len(pointers) = 1 .. 2 /\ Len(pointers) \in Nat
    BY <2>2
  <2> QED BY <2>2, <2>3, <2>4, <2>5, Zenon
<1>4. Goal
  BY <1>2, <1>3
<1> QED BY <1>4

\* Deleting a key from both stores frees what its places hold, each once.
LEMMA BothFreed ==
  ASSUME TypeOK, OwnedOnce, NEW k \in Keys
  PROVE  LET s == Pointers(kv, k) \o Pointers(exp, k)
         IN IsInjective(s) /\ ToSet(s) = {At(p) : p \in PlacesOf({"kv", "exp"}, k)}
<1> DEFINE a == Pointers(kv, k)
           b == Pointers(exp, k)
           s == a \o b
           place(i) == IF i <= Len(a) THEN <<"kv", k, i>> ELSE <<"exp", k, i - Len(a)>>
<1>1. /\ a \in Seq(Address) /\ Len(a) \in Nat
      /\ \A i \in 1 .. Len(a) : <<"kv", k, i>> \in Held /\ At(<<"kv", k, i>>) = a[i]
      /\ \A p \in PlacesOf({"kv"}, k) : p[3] \in 1 .. Len(a) /\ p = <<"kv", k, p[3]>>
  BY PointersOfStore DEF StoreOf
<1>2. /\ b \in Seq(Address) /\ Len(b) \in Nat
      /\ \A i \in 1 .. Len(b) : <<"exp", k, i>> \in Held /\ At(<<"exp", k, i>>) = b[i]
      /\ \A p \in PlacesOf({"exp"}, k) : p[3] \in 1 .. Len(b) /\ p = <<"exp", k, p[3]>>
  BY PointersOfStore DEF StoreOf
<1>3. /\ s \in Seq(Address) /\ Len(s) = Len(a) + Len(b)
      /\ \A i \in 1 .. Len(a) + Len(b) : s[i] = IF i <= Len(a) THEN a[i] ELSE b[i - Len(a)]
  BY <1>1, <1>2, ConcatProperties
<1>4. DOMAIN s = 1 .. Len(a) + Len(b)
  BY <1>3
<1> HIDE DEF a, b, s
<1>5. ASSUME NEW i \in DOMAIN s
      PROVE  place(i) \in PlacesOf({"kv", "exp"}, k) /\ At(place(i)) = s[i]
  <2>1. CASE i <= Len(a)
    <3>1. i \in 1 .. Len(a) /\ s[i] = a[i]
      BY <1>1, <1>2, <1>3, <1>4, <2>1
    <3> QED BY <1>1, <2>1, <3>1 DEF PlacesOf
  <2>2. CASE ~(i <= Len(a))
    <3>1. i - Len(a) \in 1 .. Len(b) /\ s[i] = b[i - Len(a)]
      BY <1>1, <1>2, <1>3, <1>4, <2>2
    <3> QED BY <1>2, <2>2, <3>1 DEF PlacesOf
  <2> QED BY <2>1, <2>2
<1>6. ASSUME NEW i \in DOMAIN s, NEW j \in DOMAIN s, place(i) = place(j)
      PROVE  i = j
  <2>1. i \in Int /\ j \in Int /\ Len(a) \in Int
    BY <1>1, <1>2, <1>4
  <2>2. i <= Len(a) <=> j <= Len(a)
    BY <1>6
  <2>3. CASE i <= Len(a)
    BY <1>6, <2>2, <2>3
  <2>4. CASE ~(i <= Len(a))
    <3>1. i - Len(a) = j - Len(a)
      BY <1>6, <2>2, <2>4
    <3> QED BY <2>1, <3>1
  <2> QED BY <2>3, <2>4
<1>7. IsInjective(s)
  <2>1. ASSUME NEW i \in DOMAIN s, NEW j \in DOMAIN s, s[i] = s[j]
        PROVE  i = j
    <3>1. place(i) \in Held /\ place(j) \in Held /\ At(place(i)) = At(place(j))
      BY <1>5, <2>1 DEF PlacesOf
    <3>2. place(i) = place(j)
      BY <3>1 DEF OwnedOnce
    <3> QED BY <1>6, <3>2
  <2> QED BY <2>1 DEF IsInjective
<1>8. ASSUME NEW p \in PlacesOf({"kv", "exp"}, k)
      PROVE  \E i \in DOMAIN s : s[i] = At(p)
  <2>1. CASE p[1] = "kv"
    <3>1. p[3] \in 1 .. Len(a) /\ p = <<"kv", k, p[3]>>
      BY <1>1, <2>1 DEF PlacesOf
    <3>2. p[3] \in DOMAIN s /\ s[p[3]] = a[p[3]]
      BY <1>1, <1>2, <1>3, <1>4, <3>1
    <3>3. At(p) = a[p[3]]
      BY <1>1, <3>1
    <3> QED BY <3>2, <3>3
  <2>2. CASE p[1] = "exp"
    <3>1. p[3] \in 1 .. Len(b) /\ p = <<"exp", k, p[3]>>
      BY <1>2, <2>2 DEF PlacesOf
    <3>2. Len(a) + p[3] \in DOMAIN s /\ s[Len(a) + p[3]] = b[p[3]]
      BY <1>1, <1>2, <1>3, <1>4, <3>1
    <3>3. At(p) = b[p[3]]
      BY <1>2, <3>1
    <3> QED BY <3>2, <3>3
  <2> QED BY <2>1, <2>2 DEF PlacesOf
<1>9. ToSet(s) = {At(p) : p \in PlacesOf({"kv", "exp"}, k)}
  BY <1>5, <1>8 DEF ToSet
<1> QED BY <1>7, <1>9 DEF s, a, b

\* The active expiry frees what the places of the deadline hold.
LEMMA DeadlineFreed ==
  ASSUME TypeOK, OwnedOnce, NEW k \in Keys
  PROVE  /\ IsInjective(Pointers(exp, k))
         /\ ToSet(Pointers(exp, k)) = {At(p) : p \in PlacesOf({"exp"}, k)}
<1> DEFINE b == Pointers(exp, k)
<1>1. /\ b \in Seq(Address) /\ Len(b) \in Nat
      /\ \A i \in 1 .. Len(b) : <<"exp", k, i>> \in Held /\ At(<<"exp", k, i>>) = b[i]
      /\ \A p \in PlacesOf({"exp"}, k) : p[3] \in 1 .. Len(b) /\ p = <<"exp", k, p[3]>>
  BY PointersOfStore DEF StoreOf
<1>2. DOMAIN b = 1 .. Len(b)
  BY <1>1
<1> HIDE DEF b
<1>3. IsInjective(b)
  <2>1. ASSUME NEW i \in DOMAIN b, NEW j \in DOMAIN b, b[i] = b[j]
        PROVE  i = j
    <3>1. /\ <<"exp", k, i>> \in Held /\ At(<<"exp", k, i>>) = b[i]
          /\ <<"exp", k, j>> \in Held /\ At(<<"exp", k, j>>) = b[j]
      BY <1>1, <1>2
    <3>2. <<"exp", k, i>> = <<"exp", k, j>>
      BY <2>1, <3>1 DEF OwnedOnce
    <3> QED BY <3>2
  <2> QED BY <2>1 DEF IsInjective
<1>4. ASSUME NEW i \in DOMAIN b
      PROVE  \E p \in PlacesOf({"exp"}, k) : b[i] = At(p)
  BY <1>1, <1>2 DEF PlacesOf
<1>5. ASSUME NEW p \in PlacesOf({"exp"}, k)
      PROVE  \E i \in DOMAIN b : b[i] = At(p)
  BY <1>1, <1>2
<1>6. ToSet(b) = {At(p) : p \in PlacesOf({"exp"}, k)}
  BY <1>4, <1>5 DEF ToSet
<1> QED BY <1>3, <1>6 DEF b

-----------------------------------------------------------------------------
(* The steps                                                               *)

\* SET without EX: two fresh addresses; the copy of the key is lost when the key was
\* stored, and so is the old value.
LEMMA SetStep ==
  ASSUME Inv, NEW k \in Keys, Set(k)
  PROVE  Inv' /\ (kv[k] = NULL => Lost' = Lost)
<1> DEFINE key == Malloc(heap)
           value == Malloc(heap \cup {key})
<1>1. /\ TypeOK /\ OwnedOnce /\ DeadlineHasKey
      /\ heap \in SUBSET Address /\ Cardinality(Address \ heap) >= 1 + 1
      /\ heap' = heap \cup {key, value} /\ kv' = PutInto(kv, k, key, value)
      /\ exp' = exp /\ at' = at
  BY DEF Inv, TypeOK, Set, Room, Address
<1>2. /\ key \in Address \ heap /\ heap \cup {key} \in SUBSET Address
      /\ Cardinality(Address \ (heap \cup {key})) >= 1
  BY <1>1, RoomShrinks
<1>3. value \in Address \ (heap \cup {key})
  BY <1>2, MallocIsFree
<1> HIDE DEF key, value
<1>4. TypeOK'
  BY <1>1, <1>2, <1>3, PutIntoStore DEF TypeOK
<1>5. ASSUME NEW p \in Place
      PROVE  /\ p[1] = "exp" \/ p[2] # k => (p \in Held' <=> p \in Held) /\ At(p)' = At(p)
             /\ p[1] = "kv" /\ p[2] = k =>
                  /\ p \in Held' /\ p = <<"kv", k, p[3]>>
                  /\ At(p)' = IF p[3] = 2 THEN value ELSE IF p \in Held THEN At(p) ELSE key
  <2>1. CASE p[1] = "exp"
    <3>1. StoreOf(p)' = StoreOf(p)
      BY <1>1, <2>1 DEF StoreOf
    <3> QED BY <2>1, <3>1, UntouchedPlace
  <2>2. CASE p[1] = "kv"
    <3>1. /\ p[2] # k => (p \in Held' <=> p \in Held) /\ At(p)' = At(p)
          /\ p[2] = k => p \in Held'
          /\ p[2] = k /\ p[3] = 2 => At(p)' = value
          /\ p[2] = k /\ p[3] = 1 => At(p)' = IF p \in Held THEN At(p) ELSE key
      BY <1>1, <1>2, <1>3, <2>2, PutPlaces
    <3>2. p[3] \in {1, 2} /\ p = <<p[1], p[2], p[3]>>
      BY DEF Place
    <3> QED BY <2>2, <3>1, <3>2
  <2> QED BY <2>1, <2>2 DEF Place
<1>6. \A p \in Held : p \in Place /\ At(p) \in heap
  BY <1>1, HeldIsPlace DEF OwnedOnce
<1>7. \A p \in Held' : p \in Place
  BY <1>4 DEF Held, Place
<1>8. OwnedOnce'
  <2>1. \A p \in Held' : (p \in Held /\ At(p)' = At(p)) \/ At(p)' \in heap' \ heap
    BY <1>1, <1>2, <1>3, <1>5, <1>7 DEF Place
  <2>2. \A p, q \in Held' : At(p)' = At(q)' /\ At(p)' \notin heap => p = q
    BY <1>1, <1>2, <1>3, <1>5, <1>6, <1>7 DEF Place
  <2> QED BY <1>1, <2>1, <2>2, FreshAddresses
<1>9. DeadlineHasKey'
  <2>1. kv'[k] # NULL /\ \A j \in Keys \ {k} : kv'[j] = kv[j]
    BY <1>1, <1>2, <1>3, PutIntoStore DEF TypeOK
  <2> QED BY <1>1, <2>1 DEF DeadlineHasKey
<1>10. ASSUME kv[k] = NULL
       PROVE  Lost' = Lost
  <2>1. \A p \in Place : p[1] = "kv" /\ p[2] = k => p \notin Held
    BY <1>10 DEF Held, StoreOf
  <2>2. \A p \in Held : p \in Held' /\ At(p)' = At(p)
    BY <1>5, <1>6, <2>1 DEF Place
  <2>3. \A p \in Held' : p \in Held \/ At(p)' \in heap' \ heap
    BY <1>1, <1>2, <1>3, <1>5, <1>7, <2>1 DEF Place
  <2>4. /\ <<"kv", k, 1>> \in Held' /\ At(<<"kv", k, 1>>)' = key
        /\ <<"kv", k, 2>> \in Held' /\ At(<<"kv", k, 2>>)' = value
    <3>1. <<"kv", k, 1>> \in Place /\ <<"kv", k, 2>> \in Place
      BY DEF Place
    <3> QED BY <1>5, <2>1, <3>1
  <2>5. \A a \in heap' \ heap : \E p \in Held' : At(p)' = a
    BY <1>1, <2>4
  <2> QED BY <1>1, <1>8, <2>2, <2>3, <2>5, NothingReplaced
<1> QED BY <1>4, <1>8, <1>9, <1>10 DEF Inv

\* SET with EX: four fresh addresses, one for each place of the key.
LEMMA SetExStep ==
  ASSUME Inv, NEW k \in Keys, SetEx(k)
  PROVE  Inv' /\ (kv[k] = NULL => Lost' = Lost)
<1> DEFINE key == Malloc(heap)
           value == Malloc(heap \cup {key})
           deadline == Malloc(heap \cup {key, value})
           copy == Malloc(heap \cup {key, value, deadline})
<1>1. /\ TypeOK /\ OwnedOnce /\ DeadlineHasKey
      /\ heap \in SUBSET Address /\ Cardinality(Address \ heap) >= 3 + 1
      /\ heap' = heap \cup {key, value, deadline, copy}
      /\ kv' = PutInto(kv, k, key, value) /\ exp' = PutInto(exp, k, copy, deadline)
      /\ at' = at
  BY DEF Inv, TypeOK, SetEx, Room, Address
<1>2. /\ key \in Address \ heap /\ heap \cup {key} \in SUBSET Address
      /\ Cardinality(Address \ (heap \cup {key})) >= 2 + 1
  BY <1>1, RoomShrinks
<1>3. /\ value \in Address \ (heap \cup {key})
      /\ heap \cup {key} \cup {value} \in SUBSET Address
      /\ Cardinality(Address \ (heap \cup {key} \cup {value})) >= 1 + 1
  BY <1>2, RoomShrinks
<1>4. heap \cup {key} \cup {value} = heap \cup {key, value}
  OBVIOUS
<1>5. /\ deadline \in Address \ (heap \cup {key, value})
      /\ heap \cup {key, value} \cup {deadline} \in SUBSET Address
      /\ Cardinality(Address \ (heap \cup {key, value} \cup {deadline})) >= 1
  BY <1>3, <1>4, RoomShrinks
<1>6. heap \cup {key, value} \cup {deadline} = heap \cup {key, value, deadline}
  OBVIOUS
<1>7. copy \in Address \ (heap \cup {key, value, deadline})
  BY <1>5, <1>6, MallocIsFree
<1> HIDE DEF key, value, deadline, copy
<1>8. TypeOK'
  BY <1>1, <1>2, <1>3, <1>5, <1>7, PutIntoStore DEF TypeOK
<1>9. ASSUME NEW p \in Place
      PROVE  /\ p[2] # k => (p \in Held' <=> p \in Held) /\ At(p)' = At(p)
             /\ p[2] = k =>
                  /\ p \in Held' /\ p = <<p[1], k, p[3]>>
                  /\ p[3] = 2 => At(p)' = IF p[1] = "kv" THEN value ELSE deadline
                  /\ p[3] = 1 =>
                       At(p)' = IF p \in Held THEN At(p) ELSE IF p[1] = "kv" THEN key ELSE copy
  <2>1. p[1] \in {"kv", "exp"} /\ p[3] \in {1, 2} /\ p = <<p[1], p[2], p[3]>>
    BY DEF Place
  <2>2. CASE p[1] = "kv"
    <3>1. /\ p[2] # k => (p \in Held' <=> p \in Held) /\ At(p)' = At(p)
          /\ p[2] = k => p \in Held'
          /\ p[2] = k /\ p[3] = 2 => At(p)' = value
          /\ p[2] = k /\ p[3] = 1 => At(p)' = IF p \in Held THEN At(p) ELSE key
      BY <1>1, <1>2, <1>3, <2>2, PutPlaces
    <3> QED BY <2>1, <2>2, <3>1
  <2>3. CASE p[1] = "exp"
    <3>1. /\ p[2] # k => (p \in Held' <=> p \in Held) /\ At(p)' = At(p)
          /\ p[2] = k => p \in Held'
          /\ p[2] = k /\ p[3] = 2 => At(p)' = deadline
          /\ p[2] = k /\ p[3] = 1 => At(p)' = IF p \in Held THEN At(p) ELSE copy
      BY <1>1, <1>5, <1>7, <2>3, PutPlaces
    <3> QED BY <2>1, <2>3, <3>1
  <2> QED BY <2>1, <2>2, <2>3
<1>10. /\ \A p \in Held : p \in Place /\ At(p) \in heap
       /\ \A p \in Held' : p \in Place
       /\ \A p \in Place : p[1] \in {"kv", "exp"} /\ p[3] \in {1, 2} /\ p = <<p[1], p[2], p[3]>>
  BY <1>1, <1>8, HeldIsPlace DEF OwnedOnce, Held, Place
<1>11. OwnedOnce'
  <2>1. \A p \in Held' : (p \in Held /\ At(p)' = At(p)) \/ At(p)' \in heap' \ heap
    BY <1>1, <1>2, <1>3, <1>5, <1>7, <1>9, <1>10
  <2>2. \A p, q \in Held' : At(p)' = At(q)' /\ At(p)' \notin heap => p = q
    BY <1>1, <1>2, <1>3, <1>5, <1>7, <1>9, <1>10
  <2> QED BY <1>1, <2>1, <2>2, FreshAddresses
<1>12. DeadlineHasKey'
  <2>1. kv'[k] # NULL /\ \A j \in Keys \ {k} : kv'[j] = kv[j]
    BY <1>1, <1>2, <1>3, PutIntoStore DEF TypeOK
  <2>2. \A j \in Keys \ {k} : exp'[j] = exp[j]
    <3>1. exp \in Store /\ copy \in Address /\ deadline \in Address
      BY <1>1, <1>5, <1>7 DEF TypeOK
    <3> HIDE DEF copy, deadline
    <3> QED BY <1>1, <3>1, PutIntoStore
  <2> QED BY <1>1, <2>1, <2>2 DEF DeadlineHasKey
<1>13. ASSUME kv[k] = NULL
       PROVE  Lost' = Lost
  <2>1. \A p \in Place : p[2] = k => p \notin Held
    BY <1>1, <1>13 DEF DeadlineHasKey, Held, StoreOf, Place
  <2>2. \A p \in Held : p \in Held' /\ At(p)' = At(p)
    BY <1>9, <1>10, <2>1
  <2>3. \A p \in Held' : p \in Held \/ At(p)' \in heap' \ heap
    BY <1>1, <1>2, <1>3, <1>5, <1>7, <1>9, <1>10, <2>1
  <2>4. /\ <<"kv", k, 1>> \in Held' /\ At(<<"kv", k, 1>>)' = key
        /\ <<"kv", k, 2>> \in Held' /\ At(<<"kv", k, 2>>)' = value
    <3>1. <<"kv", k, 1>> \in Place /\ <<"kv", k, 2>> \in Place
      BY DEF Place
    <3> QED BY <1>9, <2>1, <3>1
  <2>5. /\ <<"exp", k, 1>> \in Held' /\ At(<<"exp", k, 1>>)' = copy
        /\ <<"exp", k, 2>> \in Held' /\ At(<<"exp", k, 2>>)' = deadline
    <3>1. <<"exp", k, 1>> \in Place /\ <<"exp", k, 2>> \in Place
      BY DEF Place
    <3> QED BY <1>9, <2>1, <3>1
  <2>6. \A a \in heap' \ heap : \E p \in Held' : At(p)' = a
    BY <1>1, <2>4, <2>5
  <2> QED BY <1>1, <1>11, <2>2, <2>3, <2>6, NothingReplaced
<1> QED BY <1>8, <1>11, <1>12, <1>13 DEF Inv

\* A key that leaves both stores takes along the four places it had, or none.
LEMMA Unlinked ==
  ASSUME TypeOK, NEW k \in Keys,
         kv' = [kv EXCEPT ![k] = NULL], exp' = [exp EXCEPT ![k] = NULL]
  PROVE  /\ kv' \in Store /\ exp' \in Store
         /\ Held' = Held \ PlacesOf({"kv", "exp"}, k)
         /\ \A p \in Held' : At(p)' = At(p)
         /\ DeadlineHasKey => DeadlineHasKey'
<1>1. /\ kv' \in Store /\ exp' \in Store /\ kv'[k] = NULL /\ exp'[k] = NULL
      /\ \A j \in Keys \ {k} : kv'[j] = kv[j] /\ exp'[j] = exp[j]
  BY DEF TypeOK, Store
<1>2. ASSUME NEW p \in Place
      PROVE  /\ p[2] = k => p \notin Held'
             /\ p[2] # k => (p \in Held' <=> p \in Held) /\ At(p)' = At(p)
             /\ p[1] \in {"kv", "exp"}
  <2>1. p[1] \in {"kv", "exp"} /\ p[2] \in Keys
    BY DEF Place
  <2>2. p[2] = k => p \notin Held'
    BY <1>1, <2>1 DEF Held, StoreOf
  <2>3. p[2] # k => StoreOf(p)'[p[2]] = StoreOf(p)[p[2]]
    BY <1>1, <2>1 DEF StoreOf
  <2> QED BY <2>1, <2>2, <2>3, UntouchedPlace
<1>3. /\ \A p \in Held : p \in Place
      /\ \A p \in Held' : p \in Place
  BY DEF Held, Place
<1>4. Held' = Held \ PlacesOf({"kv", "exp"}, k)
  BY <1>2, <1>3 DEF PlacesOf
<1>5. \A p \in Held' : At(p)' = At(p)
  BY <1>2, <1>3
<1>6. DeadlineHasKey => DeadlineHasKey'
  BY <1>1 DEF DeadlineHasKey
<1> QED BY <1>1, <1>4, <1>5, <1>6

\* DEL, and GET of an expired key: nothing is freed twice and nothing is lost.
LEMMA ForgetStep ==
  ASSUME Inv, NEW k \in Keys, Forget(k)
  PROVE  Inv' /\ Lost' = Lost
<1> DEFINE G == PlacesOf({"kv", "exp"}, k)
           s == Pointers(kv, k) \o Pointers(exp, k)
<1>1. /\ TypeOK /\ OwnedOnce /\ DeadlineHasKey
      /\ kv' = [kv EXCEPT ![k] = NULL] /\ exp' = [exp EXCEPT ![k] = NULL]
      /\ heap' = heap \ ToSet(s)
      /\ at' = IF ToSet(s) \subseteq heap /\ IsInjective(s) THEN at ELSE "fault"
  BY DEF Inv, Forget, FreeAll
<1>2. IsInjective(s) /\ ToSet(s) = {At(p) : p \in G}
  BY <1>1, BothFreed
<1> HIDE DEF s
<1>3. G \in SUBSET Held
  BY DEF PlacesOf
<1>4. /\ kv' \in Store /\ exp' \in Store /\ Held' = Held \ G
      /\ \A p \in Held' : At(p)' = At(p)
      /\ DeadlineHasKey'
  BY <1>1, Unlinked
<1> HIDE DEF G
<1>5. ToSet(s) \subseteq heap
  BY <1>1, <1>2, <1>3 DEF OwnedOnce
<1>6. at' = at /\ heap' = heap \ {At(p) : p \in G}
  BY <1>1, <1>2, <1>5
<1>7. OwnedOnce' /\ Lost' = Lost
  BY <1>1, <1>3, <1>4, <1>6, PlacesCleared
<1>8. TypeOK'
  BY <1>1, <1>4 DEF TypeOK
<1> QED BY <1>4, <1>7, <1>8 DEF Inv

\* The active expiry frees the deadline only; the key and its value are lost.
LEMMA CollectStep ==
  ASSUME Inv, NEW k \in Keys, Collect(k)
  PROVE  Inv'
<1> DEFINE G == PlacesOf({"exp"}, k)
           s == Pointers(exp, k)
<1>1. /\ TypeOK /\ OwnedOnce /\ DeadlineHasKey
      /\ kv' = [kv EXCEPT ![k] = NULL] /\ exp' = [exp EXCEPT ![k] = NULL]
      /\ heap' = heap \ ToSet(s)
      /\ at' = IF ToSet(s) \subseteq heap /\ IsInjective(s) THEN at ELSE "fault"
  BY DEF Inv, Collect, FreeAll
<1>2. IsInjective(s) /\ ToSet(s) = {At(p) : p \in G}
  BY <1>1, DeadlineFreed
<1> HIDE DEF s
<1>3. G \in SUBSET Held /\ G \subseteq PlacesOf({"kv", "exp"}, k)
  BY DEF PlacesOf
<1>4. /\ kv' \in Store /\ exp' \in Store /\ Held' = Held \ PlacesOf({"kv", "exp"}, k)
      /\ \A p \in Held' : At(p)' = At(p)
      /\ DeadlineHasKey'
  BY <1>1, Unlinked
<1> HIDE DEF G
<1>5. ToSet(s) \subseteq heap
  BY <1>1, <1>2, <1>3 DEF OwnedOnce
<1>6. at' = at /\ heap' = heap \ {At(p) : p \in G} /\ Held' \subseteq Held \ G
  BY <1>1, <1>2, <1>3, <1>4, <1>5
<1>7. OwnedOnce'
  BY <1>1, <1>3, <1>4, <1>6, PlacesCleared
<1>8. TypeOK'
  BY <1>1, <1>4 DEF TypeOK
<1> QED BY <1>4, <1>7, <1>8 DEF Inv

-----------------------------------------------------------------------------
(* The theorems                                                            *)

LEMMA StepKeepsInv ==
  ASSUME Inv, [Next]_vars
  PROVE  Inv'
<1>1. CASE UNCHANGED vars
  <2>1. Held' = Held /\ \A p : At(p)' = At(p)
    BY <1>1 DEF vars, Held, At, StoreOf
  <2> QED BY <1>1, <2>1 DEF vars, Inv, TypeOK, OwnedOnce, DeadlineHasKey
<1>2. ASSUME NEW k \in Keys, Set(k) \/ SetEx(k) \/ GetExpired(k) \/ Del(k) \/ Collect(k)
      PROVE  Inv'
  BY <1>2, SetStep, SetExStep, ForgetStep, CollectStep DEF GetExpired, Del
<1>3. CASE OutOfMemory
  <2>1. Held' = Held /\ \A p : At(p)' = At(p)
    BY <1>3 DEF OutOfMemory, Held, At, StoreOf
  <2> QED BY <1>3, <2>1 DEF OutOfMemory, Inv, TypeOK, OwnedOnce, DeadlineHasKey
<1> QED BY <1>1, <1>2, <1>3 DEF Next

\* The inductive invariant holds in every reachable state.
THEOREM Invariance == Spec => []Inv
<1>1. Init => Inv
  <2> SUFFICES ASSUME Init
               PROVE  Inv
    OBVIOUS
  <2>1. Held = {}
    BY DEF Init, Held, StoreOf
  <2> QED BY <2>1 DEF Init, Inv, TypeOK, Store, OwnedOnce, DeadlineHasKey
<1>2. Inv /\ [Next]_vars => Inv'
  BY StepKeepsInv
<1> QED BY <1>1, <1>2, PTL DEF Spec

\* No pointer of a store is freed twice, dangles or is shared, in whatever order SET,
\* DEL, GET of an expired key and the active expiry get hold of a key.
THEOREM EachPointerItsOwn == Spec => []OwnedOnce
<1>1. Inv => OwnedOnce
  BY DEF Inv
<1> QED BY <1>1, Invariance, PTL

\* Memory is lost by a SET of a stored key and by the active expiry alone.
THEOREM LossesAreKnown == Spec => OnlyKnownLosses
<1> DEFINE Known == \E k \in Keys : (kv[k] # NULL /\ (Set(k) \/ SetEx(k))) \/ Collect(k)
<1>1. Inv /\ [Next]_vars => [Lost' # Lost => Known]_vars
  <2> SUFFICES ASSUME Inv, Next, Lost' # Lost
               PROVE  Known
    BY DEF vars
  <2>1. ~OutOfMemory
    BY DEF OutOfMemory, Lost, Held, At, StoreOf
  <2>2. PICK k \in Keys : Set(k) \/ SetEx(k) \/ GetExpired(k) \/ Del(k) \/ Collect(k)
    BY <2>1 DEF Next
  <2>3. ~GetExpired(k) /\ ~Del(k)
    BY ForgetStep DEF GetExpired, Del
  <2>4. kv[k] # NULL \/ Collect(k)
    BY <2>2, <2>3, SetStep, SetExStep
  <2> QED BY <2>2, <2>3, <2>4
<1> QED BY <1>1, Invariance, PTL DEF Spec, OnlyKnownLosses
=============================================================================
