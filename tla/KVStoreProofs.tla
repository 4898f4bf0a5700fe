--------------------------- MODULE KVStoreProofs ---------------------------
(***************************************************************************)
(* The hash table of KVStore for every set of keys and values, every hash  *)
(* function and every initial size: the invariants of the rehash, the      *)
(* number of elements, and that the table implements the map of KVMap.     *)
(***************************************************************************)
EXTENDS ScanStep, FiniteSetTheorems, TLAPS

\* The inductive invariant.  OneNodePerKey needs WellPlaced (a search sees every
\* node with its key); the last step of a rehash needs DrainedStayEmpty (the
\* primary table holds nothing outside the bucket just moved); TypeOK needs
\* UsedCounts (used is not decremented below zero).
Inv ==
  /\ TypeOK
  /\ RehashShape
  /\ WellPlaced
  /\ OneNodePerKey
  /\ DrainedStayEmpty
  /\ UsedCounts

-----------------------------------------------------------------------------
(* Lemmas about the operators                                              *)

\* hash & mask is a bucket number of the table.
LEMMA IndexRange ==
  ASSUME NEW k \in Keys, NEW n \in Nat \ {0}
  PROVE  Index(k, n) \in 0 .. n-1
<1>1. Hash[k] \in Nat
  BY HashAssumption
<1> QED BY <1>1 DEF Index

\* The NULL pointer is no table with buckets.
LEMMA NullTableIsEmpty ==
  ASSUME NEW n \in Nat
  PROVE  /\ EmptyTable(n) \in Table(n)
         /\ NullTable \in Table(0)
         /\ \A t \in Table(n) : n > 0 => t # NullTable
         /\ \A t \in Table(0) : t = NullTable
<1>1. EmptyTable(n) \in Table(n) /\ NullTable \in Table(0)
  BY DEF EmptyTable, Table, NullTable
<1>2. ASSUME NEW t \in Table(n), n > 0
      PROVE  t # NullTable
  <2>1. 0 \in DOMAIN t
    BY <1>2 DEF Table
  <2>2. 0 \notin DOMAIN NullTable
    BY DEF NullTable, EmptyTable
  <2> QED BY <2>1, <2>2
<1>3. ASSUME NEW t \in Table(0)
      PROVE  t = NullTable
  BY <1>3 DEF Table, NullTable, EmptyTable
<1> QED BY <1>1, <1>2, <1>3

\* What the three updates of one chain do to the chain of any key.
LEMMA SearchAfterUpdate ==
  ASSUME NEW n \in Nat \ {0}, NEW t \in Table(n), NEW k \in Keys, NEW v \in Values,
         NEW node \in Node, NEW j \in Keys, node.key = k
  PROVE  /\ Replace(t, n, k, node, v) \in Table(n)
         /\ Push(t, n, k, v) \in Table(n)
         /\ Unlink(t, n, k, node) \in Table(n)
         /\ SearchInBuckets(Replace(t, n, k, node, v), n, j) =
              IF j = k THEN (SearchInBuckets(t, n, k) \ {node}) \cup {[key |-> k, value |-> v]}
              ELSE SearchInBuckets(t, n, j)
         /\ SearchInBuckets(Push(t, n, k, v), n, j) =
              IF j = k THEN SearchInBuckets(t, n, k) \cup {[key |-> k, value |-> v]}
              ELSE SearchInBuckets(t, n, j)
         /\ SearchInBuckets(Unlink(t, n, k, node), n, j) =
              IF j = k THEN SearchInBuckets(t, n, k) \ {node}
              ELSE SearchInBuckets(t, n, j)
<1>1. Index(k, n) \in 0 .. n-1 /\ Index(j, n) \in 0 .. n-1
  BY IndexRange
<1>2. [key |-> k, value |-> v] \in Node /\ [key |-> k, value |-> v].key = k
  BY DEF Node
<1>3. /\ Replace(t, n, k, node, v) \in Table(n)
      /\ Push(t, n, k, v) \in Table(n)
      /\ Unlink(t, n, k, node) \in Table(n)
  BY <1>1, <1>2 DEF Replace, Push, Unlink, Table
<1>4. SearchInBuckets(Replace(t, n, k, node, v), n, j) =
        IF j = k THEN (SearchInBuckets(t, n, k) \ {node}) \cup {[key |-> k, value |-> v]}
        ELSE SearchInBuckets(t, n, j)
  BY <1>1, <1>2 DEF SearchInBuckets, Replace, Table
<1>5. SearchInBuckets(Push(t, n, k, v), n, j) =
        IF j = k THEN SearchInBuckets(t, n, k) \cup {[key |-> k, value |-> v]}
        ELSE SearchInBuckets(t, n, j)
  BY <1>1, <1>2 DEF SearchInBuckets, Push, Table
<1>6. SearchInBuckets(Unlink(t, n, k, node), n, j) =
        IF j = k THEN SearchInBuckets(t, n, k) \ {node}
        ELSE SearchInBuckets(t, n, j)
  BY <1>1, <1>2 DEF SearchInBuckets, Unlink, Table
<1> QED BY <1>3, <1>4, <1>5, <1>6

\* A search in a chain finds nodes with that key, and all of them.
LEMMA SearchFindsKey ==
  ASSUME NEW n \in Nat \ {0}, NEW t \in Table(n), NEW k \in Keys
  PROVE  \A node \in SearchInBuckets(t, n, k) : node \in Node /\ node.key = k
<1>1. Index(k, n) \in 0 .. n-1
  BY IndexRange
<1> QED BY <1>1 DEF SearchInBuckets, Table

LEMMA SearchEmptyTable ==
  ASSUME NEW n \in Nat \ {0}, NEW k \in Keys
  PROVE  SearchInBuckets(EmptyTable(n), n, k) = {}
BY IndexRange DEF SearchInBuckets, EmptyTable

\* What the type invariant and the shape of the rehash say of the two tables.
LEMMA TwoTables ==
  ASSUME TypeOK, RehashShape
  PROVE  /\ size \in Nat \ {0} /\ buckets \in Table(size)
         /\ RehashActive => newSize \in Nat \ {0} /\ new \in Table(newSize)
         /\ \A k \in Keys : InPrimary(k) \subseteq Node /\ InNew(k) \subseteq Node
         /\ \A k \in Keys : \A node \in InPrimary(k) \cup InNew(k) : node.key = k
<1>1. size \in Nat \ {0} /\ buckets \in Table(size)
  BY DEF TypeOK
<1>2. RehashActive => newSize \in Nat \ {0} /\ new \in Table(newSize)
  BY DEF TypeOK, RehashShape
<1>3. ASSUME NEW k \in Keys
      PROVE  \A node \in InPrimary(k) \cup InNew(k) : node \in Node /\ node.key = k
  BY <1>1, <1>2, SearchFindsKey DEF InPrimary, InNew
<1> QED BY <1>1, <1>2, <1>3

\* The updates of one chain leave every node where searches look for it; those
\* that do not add a node leave an empty chain empty.
LEMMA PlacedAfterUpdate ==
  ASSUME NEW n \in Nat \ {0}, NEW t \in Table(n), NEW k \in Keys, NEW v \in Values,
         NEW node \in Node, Placed(t, n)
  PROVE  /\ Placed(Replace(t, n, k, node, v), n)
         /\ Placed(Push(t, n, k, v), n)
         /\ Placed(Unlink(t, n, k, node), n)
         /\ \A i \in 0 .. n-1 : t[i] = {} => Unlink(t, n, k, node)[i] = {}
         /\ \A i \in 0 .. n-1 : t[i] = {} /\ node \in SearchInBuckets(t, n, k)
                                 => Replace(t, n, k, node, v)[i] = {}
<1>1. Index(k, n) \in 0 .. n-1
  BY IndexRange
<1>2. [key |-> k, value |-> v].key = k
  OBVIOUS
<1>3. Placed(Replace(t, n, k, node, v), n)
  BY <1>1, <1>2 DEF Placed, Replace, Table
<1>4. Placed(Push(t, n, k, v), n)
  BY <1>1, <1>2 DEF Placed, Push, Table
<1>5. Placed(Unlink(t, n, k, node), n)
  BY <1>1 DEF Placed, Unlink, Table
<1>6. \A i \in 0 .. n-1 : t[i] = {} => Unlink(t, n, k, node)[i] = {}
  BY <1>1 DEF Unlink, Table
<1>7. \A i \in 0 .. n-1 : t[i] = {} /\ node \in SearchInBuckets(t, n, k)
                           => Replace(t, n, k, node, v)[i] = {}
  BY <1>1 DEF Replace, Table, SearchInBuckets
<1> QED BY <1>3, <1>4, <1>5, <1>6, <1>7

-----------------------------------------------------------------------------
(* What each action does to the nodes of every key                         *)

\* Activating a rehash adds an empty table: no search notices it.
LEMMA ActivateEffect ==
  ASSUME Inv, NEW u \in Nat, ActivateIfNeeded(u), UNCHANGED size
  PROVE  /\ newSize' \in Nat /\ new' \in Table(newSize') /\ rehashIdx' \in Nat
         /\ RehashShape'
         /\ \A k \in Keys : InNew(k)' = InNew(k)
         /\ Placed(new', newSize')
         /\ RehashActive => UNCHANGED <<new, newSize, rehashIdx>>
         /\ ~RehashActive => rehashIdx' = 0
<1>1. CASE ~RehashActive /\ Overloaded(u)
  <2>1. newSize' = 2 * size /\ new' = EmptyTable(newSize') /\ rehashIdx' = 0
    BY <1>1 DEF ActivateIfNeeded, StartRehash
  <2>2. newSize' \in Nat \ {0} /\ rehashIdx' < size'
    BY <2>1 DEF Inv, TypeOK
  <2>3. new' \in Table(newSize') /\ RehashActive'
    BY <2>1, <2>2, NullTableIsEmpty DEF RehashActive
  <2>4. RehashShape'
    BY <2>1, <2>2, <2>3 DEF RehashShape
  <2>5. \A k \in Keys : InNew(k) = {} /\ InNew(k)' = {}
    BY <1>1, <2>1, <2>2, SearchEmptyTable DEF InNew
  <2>6. Placed(new', newSize')
    BY <2>1 DEF EmptyTable, Placed
  <2> QED BY <1>1, <2>1, <2>2, <2>3, <2>4, <2>5, <2>6
<1>2. CASE ~(~RehashActive /\ Overloaded(u))
  <2>1. UNCHANGED <<rehashIdx, newSize, new>>
    BY <1>2 DEF ActivateIfNeeded
  <2>2. RehashShape' /\ (\A k \in Keys : InNew(k)' = InNew(k))
    BY <2>1 DEF Inv, RehashShape, RehashActive, InNew
  <2> QED BY <2>1, <2>2 DEF Inv, TypeOK, WellPlaced, RehashShape
<1> QED BY <1>1, <1>2

LEMMA PutOverwriteEffect ==
  ASSUME Inv, NEW k \in Keys, NEW v \in Values, PutOverwrite(k, v)
  PROVE  /\ TypeOK' /\ RehashShape' /\ WellPlaced' /\ DrainedStayEmpty'
         /\ UNCHANGED used
         /\ \/ /\ InPrimary(k) # {}
               /\ InPrimary(k)' = {[key |-> k, value |-> v]}
               /\ InNew(k)' = InNew(k)
            \/ /\ InPrimary(k) = {} /\ InNew(k) # {}
               /\ InPrimary(k)' = {}
               /\ InNew(k)' = {[key |-> k, value |-> v]}
         /\ \A j \in Keys \ {k} : InPrimary(j)' = InPrimary(j) /\ InNew(j)' = InNew(j)
<1>0. /\ TypeOK /\ RehashShape /\ WellPlaced /\ OneNodePerKey /\ DrainedStayEmpty
      /\ UNCHANGED <<used, size, newSize, rehashIdx>>
  BY DEF Inv, PutOverwrite
<1>1. /\ size \in Nat \ {0} /\ buckets \in Table(size)
      /\ RehashActive => newSize \in Nat \ {0} /\ new \in Table(newSize)
  BY <1>0, TwoTables
<1>2. ASSUME NEW node \in InPrimary(k), UNCHANGED new,
             buckets' = Replace(buckets, size, k, node, v)
      PROVE  /\ InPrimary(k) # {}
             /\ InPrimary(k)' = {[key |-> k, value |-> v]}
             /\ buckets' \in Table(size) /\ Placed(buckets', size)
             /\ \A i \in 0 .. size-1 : buckets[i] = {} => buckets'[i] = {}
             /\ \A j \in Keys \ {k} : InPrimary(j)' = InPrimary(j)
  <2>1. node \in Node /\ node.key = k /\ node \in SearchInBuckets(buckets, size, k)
    BY <1>0, TwoTables DEF InPrimary
  <2>2. InPrimary(k) = {node}
    BY <1>0, <1>2 DEF OneNodePerKey, Search
  <2>3. InPrimary(k)' = {[key |-> k, value |-> v]}
    BY <1>0, <1>1, <1>2, <2>1, <2>2, SearchAfterUpdate DEF InPrimary
  <2>4. \A j \in Keys \ {k} : InPrimary(j)' = InPrimary(j)
    BY <1>0, <1>1, <1>2, <2>1, SearchAfterUpdate DEF InPrimary
  <2>5. buckets' \in Table(size) /\ Placed(buckets', size)
    BY <1>0, <1>1, <1>2, <2>1, SearchAfterUpdate, PlacedAfterUpdate DEF WellPlaced
  <2>6. \A i \in 0 .. size-1 : buckets[i] = {} => buckets'[i] = {}
    BY <1>0, <1>1, <1>2, <2>1, PlacedAfterUpdate DEF WellPlaced
  <2> QED BY <1>2, <2>3, <2>4, <2>5, <2>6
<1>3. ASSUME InPrimary(k) = {}, UNCHANGED buckets, NEW node \in Search(k),
             new' = Replace(new, newSize, k, node, v)
      PROVE  /\ RehashActive /\ RehashActive'
             /\ InNew(k) # {}
             /\ InNew(k)' = {[key |-> k, value |-> v]}
             /\ new' \in Table(newSize) /\ Placed(new', newSize)
             /\ \A j \in Keys \ {k} : InNew(j)' = InNew(j)
  <2>1. RehashActive /\ node \in InNew(k) /\ InNew(k) = SearchInBuckets(new, newSize, k)
    BY <1>3 DEF Search, InNew
  <2>2. node \in Node /\ node.key = k
    BY <1>0, <2>1, TwoTables
  <2>3. InNew(k) = {node}
    BY <1>0, <1>3, <2>1 DEF OneNodePerKey, Search
  <2>4. new' \in Table(newSize) /\ Placed(new', newSize)
    BY <1>0, <1>1, <1>3, <2>1, <2>2, SearchAfterUpdate, PlacedAfterUpdate DEF WellPlaced
  <2>5. RehashActive'
    BY <1>1, <2>1, <2>4, NullTableIsEmpty DEF RehashActive
  <2>6. InNew(k)' = {[key |-> k, value |-> v]}
    BY <1>0, <1>1, <1>3, <2>1, <2>2, <2>3, <2>5, SearchAfterUpdate DEF InNew
  <2>7. \A j \in Keys \ {k} : InNew(j)' = InNew(j)
    BY <1>0, <1>1, <1>3, <2>1, <2>2, <2>5, SearchAfterUpdate DEF InNew
  <2> QED BY <2>1, <2>4, <2>5, <2>6, <2>7
<1>4. CASE UNCHANGED new /\ \E node \in InPrimary(k) :
             buckets' = Replace(buckets, size, k, node, v)
  <2>1. \A j \in Keys : InNew(j)' = InNew(j)
    BY <1>0, <1>4 DEF InNew, RehashActive
  <2>2. TypeOK' /\ RehashShape' /\ WellPlaced'
    BY <1>0, <1>2, <1>4 DEF TypeOK, RehashShape, RehashActive, WellPlaced
  <2>3. DrainedStayEmpty'
    BY <1>0, <1>2, <1>4 DEF DrainedStayEmpty, RehashActive
  <2> QED BY <1>0, <1>2, <1>4, <2>1, <2>2, <2>3
<1>5. CASE InPrimary(k) = {} /\ UNCHANGED buckets /\ \E node \in Search(k) :
             new' = Replace(new, newSize, k, node, v)
  <2>1. \A j \in Keys : InPrimary(j)' = InPrimary(j)
    BY <1>0, <1>5 DEF InPrimary
  <2>2. TypeOK' /\ RehashShape' /\ WellPlaced'
    BY <1>0, <1>3, <1>5 DEF TypeOK, RehashShape, WellPlaced
  <2>3. DrainedStayEmpty'
    BY <1>0, <1>3, <1>5 DEF DrainedStayEmpty
  <2> QED BY <1>0, <1>3, <1>5, <2>1, <2>2, <2>3
<1> QED BY <1>4, <1>5 DEF PutOverwrite

LEMMA PutInsertEffect ==
  ASSUME Inv, NEW k \in Keys, NEW v \in Values, PutInsert(k, v)
  PROVE  /\ TypeOK' /\ RehashShape' /\ WellPlaced' /\ DrainedStayEmpty'
         /\ used' = used + 1
         /\ InPrimary(k) = {} /\ InNew(k) = {}
         /\ \/ InPrimary(k)' = {[key |-> k, value |-> v]} /\ InNew(k)' = {}
            \/ InPrimary(k)' = {} /\ InNew(k)' = {[key |-> k, value |-> v]}
         /\ \A j \in Keys \ {k} : InPrimary(j)' = InPrimary(j) /\ InNew(j)' = InNew(j)
<1>0. /\ TypeOK /\ RehashShape /\ WellPlaced /\ DrainedStayEmpty
      /\ used' = used + 1 /\ UNCHANGED size /\ used \in Nat
      /\ InPrimary(k) = {} /\ InNew(k) = {}
  BY DEF Inv, TypeOK, PutInsert, Search
<1>1. /\ size \in Nat \ {0} /\ buckets \in Table(size)
      /\ RehashActive => newSize \in Nat \ {0} /\ new \in Table(newSize)
  BY <1>0, TwoTables
<1>2. PICK node \in Node : node.key = k
  <2>1. [key |-> k, value |-> v] \in Node /\ [key |-> k, value |-> v].key = k
    BY DEF Node
  <2> QED BY <2>1
<1>3. CASE /\ RehashActive
           /\ new' = Push(new, newSize, k, v)
           /\ UNCHANGED <<buckets, newSize, rehashIdx>>
  <2>1. new' \in Table(newSize) /\ Placed(new', newSize)
    BY <1>0, <1>1, <1>2, <1>3, SearchAfterUpdate, PlacedAfterUpdate DEF WellPlaced
  <2>2. RehashActive'
    BY <1>1, <1>3, <2>1, NullTableIsEmpty DEF RehashActive
  <2>3. InNew(k)' = {[key |-> k, value |-> v]}
    BY <1>0, <1>1, <1>2, <1>3, <2>2, SearchAfterUpdate DEF InNew
  <2>4. \A j \in Keys \ {k} : InNew(j)' = InNew(j)
    BY <1>0, <1>1, <1>2, <1>3, <2>2, SearchAfterUpdate DEF InNew
  <2>5. \A j \in Keys : InPrimary(j)' = InPrimary(j)
    BY <1>0, <1>3 DEF InPrimary
  <2>6. TypeOK' /\ RehashShape' /\ WellPlaced' /\ DrainedStayEmpty'
    BY <1>0, <1>3, <2>1, <2>2 DEF TypeOK, RehashShape, WellPlaced, DrainedStayEmpty
  <2> QED BY <1>0, <2>3, <2>4, <2>5, <2>6
<1>4. CASE /\ ~RehashActive
           /\ buckets' = Push(buckets, size, k, v)
           /\ ActivateIfNeeded(used + 1)
  <2>1. /\ newSize' \in Nat /\ new' \in Table(newSize') /\ rehashIdx' \in Nat
        /\ RehashShape' /\ Placed(new', newSize') /\ rehashIdx' = 0
        /\ \A j \in Keys : InNew(j)' = InNew(j)
    BY <1>0, <1>4, ActivateEffect
  <2>2. buckets' \in Table(size) /\ Placed(buckets', size)
    BY <1>0, <1>1, <1>2, <1>4, SearchAfterUpdate, PlacedAfterUpdate DEF WellPlaced
  <2>3. InPrimary(k)' = {[key |-> k, value |-> v]}
    BY <1>0, <1>1, <1>2, <1>4, SearchAfterUpdate DEF InPrimary
  <2>4. \A j \in Keys \ {k} : InPrimary(j)' = InPrimary(j)
    BY <1>0, <1>1, <1>2, <1>4, SearchAfterUpdate DEF InPrimary
  <2>5. TypeOK' /\ WellPlaced' /\ DrainedStayEmpty'
    BY <1>0, <1>1, <2>1, <2>2 DEF TypeOK, WellPlaced, DrainedStayEmpty
  <2> QED BY <1>0, <2>1, <2>3, <2>4, <2>5
<1> QED BY <1>3, <1>4 DEF PutInsert

LEMMA StoredIsFinite ==
  ASSUME Inv
  PROVE  /\ IsFiniteSet(Stored)
         /\ used = Cardinality(Stored)
         /\ \A k \in Keys : Search(k) # {} => used \in Nat \ {0}
<1>1. IsFiniteSet(Stored) /\ used = Cardinality(Stored) /\ used \in Nat
  BY KeysAssumption, FS_Subset DEF Stored, Inv, UsedCounts, TypeOK
<1>2. ASSUME NEW k \in Keys, Search(k) # {}
      PROVE  used # 0
  <2>1. Stored # {}
    BY <1>2 DEF Stored
  <2> QED BY <1>1, <2>1, FS_EmptySet
<1> QED BY <1>1, <1>2

LEMMA DeleteEffect ==
  ASSUME Inv, NEW k \in Keys, Delete(k)
  PROVE  /\ TypeOK' /\ RehashShape' /\ WellPlaced' /\ DrainedStayEmpty'
         /\ used' = used - 1
         /\ InPrimary(k) # {} \/ InNew(k) # {}
         /\ InPrimary(k)' = {} /\ InNew(k)' = {}
         /\ \A j \in Keys \ {k} : InPrimary(j)' = InPrimary(j) /\ InNew(j)' = InNew(j)
<1>0. /\ TypeOK /\ RehashShape /\ WellPlaced /\ OneNodePerKey /\ DrainedStayEmpty
      /\ used' = used - 1 /\ UNCHANGED size
      /\ InPrimary(k) # {} \/ InNew(k) # {}
  BY DEF Inv, Delete
<1>1. /\ size \in Nat \ {0} /\ buckets \in Table(size)
      /\ RehashActive => newSize \in Nat \ {0} /\ new \in Table(newSize)
  BY <1>0, TwoTables
<1>2. used \in Nat \ {0} /\ used - 1 \in Nat
  BY <1>0, StoredIsFinite DEF Search
<1>3. ASSUME NEW node \in InPrimary(k), buckets' = Unlink(buckets, size, k, node),
             ActivateIfNeeded(used - 1)
      PROVE  /\ TypeOK' /\ RehashShape' /\ WellPlaced' /\ DrainedStayEmpty'
             /\ InPrimary(k)' = {} /\ InNew(k)' = {}
             /\ \A j \in Keys \ {k} : InPrimary(j)' = InPrimary(j) /\ InNew(j)' = InNew(j)
  <2>1. node \in Node /\ node.key = k
    BY <1>0, TwoTables
  <2>2. InPrimary(k) = {node} /\ InNew(k) = {}
    BY <1>0, <1>3 DEF OneNodePerKey, Search
  <2>3. /\ newSize' \in Nat /\ new' \in Table(newSize') /\ rehashIdx' \in Nat
        /\ RehashShape' /\ Placed(new', newSize')
        /\ \A j \in Keys : InNew(j)' = InNew(j)
        /\ RehashActive => UNCHANGED <<new, newSize, rehashIdx>>
        /\ ~RehashActive => rehashIdx' = 0
    BY <1>0, <1>2, <1>3, ActivateEffect
  <2>4. /\ buckets' \in Table(size) /\ Placed(buckets', size)
        /\ \A i \in 0 .. size-1 : buckets[i] = {} => buckets'[i] = {}
    <3>1. Values # {}
      BY <2>1 DEF Node
    <3> QED BY <1>0, <1>1, <1>3, <2>1, <3>1, SearchAfterUpdate, PlacedAfterUpdate
            DEF WellPlaced
  <2>5. InPrimary(k)' = {} /\ \A j \in Keys \ {k} : InPrimary(j)' = InPrimary(j)
    <3>1. Values # {}
      BY <2>1 DEF Node
    <3> QED BY <1>0, <1>1, <1>3, <2>1, <2>2, <3>1, SearchAfterUpdate DEF InPrimary
  <2>6. TypeOK' /\ WellPlaced'
    BY <1>0, <1>1, <1>2, <2>3, <2>4 DEF TypeOK, WellPlaced
  <2>7. DrainedStayEmpty'
    BY <1>0, <1>1, <2>3, <2>4 DEF DrainedStayEmpty, RehashActive
  <2> QED BY <2>2, <2>3, <2>5, <2>6, <2>7
<1>4. ASSUME InPrimary(k) = {}, NEW node \in InNew(k),
             new' = Unlink(new, newSize, k, node),
             UNCHANGED <<buckets, newSize, rehashIdx>>
      PROVE  /\ TypeOK' /\ RehashShape' /\ WellPlaced' /\ DrainedStayEmpty'
             /\ InPrimary(k)' = {} /\ InNew(k)' = {}
             /\ \A j \in Keys \ {k} : InPrimary(j)' = InPrimary(j) /\ InNew(j)' = InNew(j)
  <2>1. node \in Node /\ node.key = k /\ RehashActive /\ Values # {}
    BY <1>0, <1>4, TwoTables DEF InNew, Node
  <2>2. InNew(k) = {node}
    BY <1>0, <1>4 DEF OneNodePerKey, Search
  <2>3. new' \in Table(newSize) /\ Placed(new', newSize)
    BY <1>0, <1>1, <1>4, <2>1, SearchAfterUpdate, PlacedAfterUpdate DEF WellPlaced
  <2>4. RehashActive'
    BY <1>1, <1>4, <2>1, <2>3, NullTableIsEmpty DEF RehashActive
  <2>5. InNew(k)' = {} /\ \A j \in Keys \ {k} : InNew(j)' = InNew(j)
    BY <1>0, <1>1, <1>4, <2>1, <2>2, <2>4, SearchAfterUpdate DEF InNew
  <2>6. \A j \in Keys : InPrimary(j)' = InPrimary(j)
    BY <1>0, <1>4 DEF InPrimary
  <2>7. TypeOK' /\ RehashShape' /\ WellPlaced' /\ DrainedStayEmpty'
    BY <1>0, <1>2, <1>4, <2>1, <2>3, <2>4
    DEF TypeOK, RehashShape, WellPlaced, DrainedStayEmpty
  <2> QED BY <1>4, <2>5, <2>6, <2>7
<1> QED BY <1>0, <1>3, <1>4 DEF Delete

LEMMA RehashActivateEffect ==
  ASSUME Inv, RehashActivateIfNeeded
  PROVE  /\ TypeOK' /\ RehashShape' /\ WellPlaced' /\ DrainedStayEmpty'
         /\ UNCHANGED used
         /\ \A j \in Keys : InPrimary(j)' = InPrimary(j) /\ InNew(j)' = InNew(j)
<1>1. /\ TypeOK /\ WellPlaced /\ DrainedStayEmpty /\ UNCHANGED <<buckets, used, size>>
      /\ used \in Nat /\ ActivateIfNeeded(used)
  BY DEF Inv, TypeOK, RehashActivateIfNeeded
<1>2. /\ newSize' \in Nat /\ new' \in Table(newSize') /\ rehashIdx' \in Nat
      /\ RehashShape' /\ Placed(new', newSize')
      /\ \A j \in Keys : InNew(j)' = InNew(j)
      /\ RehashActive => UNCHANGED <<new, newSize, rehashIdx>>
      /\ ~RehashActive => rehashIdx' = 0
  BY <1>1, ActivateEffect
<1>3. \A j \in Keys : InPrimary(j)' = InPrimary(j)
  BY <1>1 DEF InPrimary
<1>4. TypeOK' /\ WellPlaced' /\ DrainedStayEmpty'
  BY <1>1, <1>2 DEF TypeOK, WellPlaced, DrainedStayEmpty, RehashActive
<1> QED BY <1>1, <1>2, <1>3, <1>4

\* Scattering moves the nodes of the keys of bucket rehashIdx and no others.
LEMMA ScatteredEffect ==
  ASSUME Inv, RehashActive
  PROVE  /\ Scattered \in Table(newSize)
         /\ Placed(Scattered, newSize)
         /\ \A j \in Keys : SearchInBuckets(Scattered, newSize, j) =
              InNew(j) \cup IF Index(j, size) = rehashIdx THEN InPrimary(j) ELSE {}
<1>1. /\ size \in Nat \ {0} /\ buckets \in Table(size) /\ Placed(buckets, size)
      /\ newSize \in Nat \ {0} /\ new \in Table(newSize) /\ Placed(new, newSize)
      /\ rehashIdx \in 0 .. size-1
  BY TwoTables DEF Inv, TypeOK, WellPlaced, RehashShape
<1>2. Scattered \in Table(newSize)
  BY <1>1 DEF Scattered, Table
<1>3. Placed(Scattered, newSize)
  BY <1>1 DEF Scattered, Placed
<1>4. ASSUME NEW j \in Keys
      PROVE  SearchInBuckets(Scattered, newSize, j) =
               InNew(j) \cup IF Index(j, size) = rehashIdx THEN InPrimary(j) ELSE {}
  <2>1. Index(j, newSize) \in 0 .. newSize-1
    BY <1>1, IndexRange
  <2>2. SearchInBuckets(Scattered, newSize, j) =
          InNew(j) \cup {node \in buckets[rehashIdx] : node.key = j}
    BY <2>1 DEF SearchInBuckets, Scattered, InNew
  <2>3. {node \in buckets[rehashIdx] : node.key = j} =
          IF Index(j, size) = rehashIdx THEN InPrimary(j) ELSE {}
    BY <1>1 DEF Placed, InPrimary, SearchInBuckets
  <2> QED BY <2>2, <2>3
<1> QED BY <1>2, <1>3, <1>4

LEMMA RehashStepEffect ==
  ASSUME Inv, RehashStep
  PROVE  /\ TypeOK' /\ RehashShape' /\ WellPlaced' /\ DrainedStayEmpty'
         /\ UNCHANGED used
         /\ \A j \in Keys :
              \/ InPrimary(j)' = InPrimary(j) /\ InNew(j)' = InNew(j)
              \/ InPrimary(j)' = {} /\ InNew(j)' = InPrimary(j) \cup InNew(j)
              \/ InPrimary(j)' = InPrimary(j) \cup InNew(j) /\ InNew(j)' = {}
<1>1. /\ size \in Nat \ {0} /\ buckets \in Table(size) /\ Placed(buckets, size)
      /\ newSize \in Nat \ {0} /\ newSize = 2 * size
      /\ rehashIdx \in 0 .. size-1 /\ used \in Nat
      /\ RehashActive /\ UNCHANGED used /\ DrainedStayEmpty
  BY TwoTables DEF Inv, TypeOK, WellPlaced, RehashShape, RehashStep
<1>2. /\ Scattered \in Table(newSize) /\ Placed(Scattered, newSize)
      /\ \A j \in Keys : SearchInBuckets(Scattered, newSize, j) =
            InNew(j) \cup IF Index(j, size) = rehashIdx THEN InPrimary(j) ELSE {}
  BY <1>1, ScatteredEffect
<1>3. CASE /\ ~LastBucket
           /\ buckets' = [buckets EXCEPT ![rehashIdx] = {}]
           /\ new' = Scattered
           /\ rehashIdx' = rehashIdx + 1
           /\ UNCHANGED <<size, newSize>>
  <2>1. buckets' \in Table(size) /\ Placed(buckets', size)
    BY <1>1, <1>3 DEF Table, Placed
  <2>2. RehashActive'
    BY <1>1, <1>2, <1>3, NullTableIsEmpty DEF RehashActive
  <2>3. TypeOK' /\ RehashShape' /\ WellPlaced'
    BY <1>1, <1>2, <1>3, <2>1, <2>2 DEF LastBucket, TypeOK, RehashShape, WellPlaced
  <2>4. DrainedStayEmpty'
    BY <1>1, <1>3, <2>2 DEF DrainedStayEmpty, Table
  <2>5. ASSUME NEW j \in Keys
        PROVE  /\ InNew(j)' = InNew(j) \cup IF Index(j, size) = rehashIdx THEN InPrimary(j) ELSE {}
               /\ InPrimary(j)' = IF Index(j, size) = rehashIdx THEN {} ELSE InPrimary(j)
    <3>1. Index(j, size) \in 0 .. size-1
      BY <1>1, IndexRange
    <3>2. InPrimary(j)' = IF Index(j, size) = rehashIdx THEN {} ELSE InPrimary(j)
      BY <1>1, <1>3, <3>1 DEF InPrimary, SearchInBuckets, Table
    <3>3. InNew(j)' = SearchInBuckets(Scattered, newSize, j)
      BY <1>3, <2>2 DEF InNew
    <3> QED BY <1>2, <3>2, <3>3
  <2> QED BY <1>1, <2>3, <2>4, <2>5
<1>4. CASE /\ LastBucket
           /\ buckets' = Scattered
           /\ size' = newSize
           /\ new' = NullTable
           /\ newSize' = 0
           /\ rehashIdx' = 0
  <2>1. ~RehashActive' /\ new' \in Table(0)
    BY <1>4, NullTableIsEmpty DEF RehashActive
  <2>2. TypeOK' /\ RehashShape' /\ WellPlaced'
    BY <1>1, <1>2, <1>4, <2>1 DEF TypeOK, RehashShape, WellPlaced, Placed
  <2>3. DrainedStayEmpty'
    BY <2>1 DEF DrainedStayEmpty
  <2>4. ASSUME NEW j \in Keys
        PROVE  InPrimary(j)' = InPrimary(j) \cup InNew(j) /\ InNew(j)' = {}
    <3>1. Index(j, size) \in 0 .. size-1
      BY <1>1, IndexRange
    <3>2. Index(j, size) # rehashIdx => InPrimary(j) = {}
      BY <1>1, <1>4, <3>1 DEF LastBucket, DrainedStayEmpty, InPrimary, SearchInBuckets
    <3>3. InPrimary(j)' = SearchInBuckets(Scattered, newSize, j)
      BY <1>4 DEF InPrimary
    <3>4. InNew(j)' = {}
      BY <2>1 DEF InNew
    <3> QED BY <1>2, <3>2, <3>3, <3>4
  <2> QED BY <1>1, <2>2, <2>3, <2>4
<1> QED BY <1>3, <1>4 DEF RehashStep

-----------------------------------------------------------------------------
(* The invariants                                                          *)

\* Whatever an action does to the nodes of one key, the number of stored keys
\* follows: it is the same when the same keys are found, and differs by one when
\* one key is found or lost.
LEMMA CountFollows ==
  ASSUME Inv, NEW k \in Keys, \A j \in Keys \ {k} : Search(j)' = Search(j)
  PROVE  /\ (Search(k)' # {} <=> Search(k) # {})
              => Cardinality(Stored)' = Cardinality(Stored)
         /\ Search(k) = {} /\ Search(k)' # {}
              => Cardinality(Stored)' = Cardinality(Stored) + 1
         /\ Search(k) # {} /\ Search(k)' = {}
              => Cardinality(Stored)' = Cardinality(Stored) - 1
<1>1. IsFiniteSet(Stored)
  BY StoredIsFinite
<1>2. ASSUME Search(k)' # {} <=> Search(k) # {}
      PROVE  Stored' = Stored
  BY <1>2 DEF Stored
<1>3. ASSUME Search(k) = {}, Search(k)' # {}
      PROVE  k \notin Stored /\ Stored' = Stored \cup {k}
  BY <1>3 DEF Stored
<1>4. ASSUME Search(k) # {}, Search(k)' = {}
      PROVE  k \in Stored /\ Stored' = Stored \ {k}
  BY <1>4 DEF Stored
<1> QED BY <1>1, <1>2, <1>3, <1>4, FS_AddElement, FS_RemoveElement

\* A put leaves exactly the new pair for its key and touches no other key.
LEMMA PutSearch ==
  ASSUME Inv, NEW k \in Keys, NEW v \in Values, Put(k, v)
  PROVE  /\ Inv'
         /\ Search(k)' = {[key |-> k, value |-> v]}
         /\ \A j \in Keys \ {k} : Search(j)' = Search(j)
         /\ used' = IF Search(k) = {} THEN used + 1 ELSE used
<1>1. /\ OneNodePerKey
      /\ used = Cardinality(Stored)
  BY DEF Inv, UsedCounts
<1>2. CASE PutOverwrite(k, v)
  <2>1. /\ TypeOK' /\ RehashShape' /\ WellPlaced' /\ DrainedStayEmpty'
        /\ UNCHANGED used
        /\ \/ /\ InPrimary(k) # {}
              /\ InPrimary(k)' = {[key |-> k, value |-> v]}
              /\ InNew(k)' = InNew(k)
           \/ /\ InPrimary(k) = {} /\ InNew(k) # {}
              /\ InPrimary(k)' = {}
              /\ InNew(k)' = {[key |-> k, value |-> v]}
        /\ \A j \in Keys \ {k} : InPrimary(j)' = InPrimary(j) /\ InNew(j)' = InNew(j)
    BY <1>2, PutOverwriteEffect
  <2>2. /\ Search(k)' = {[key |-> k, value |-> v]} /\ Search(k) # {}
        /\ \A j \in Keys \ {k} : Search(j)' = Search(j)
    BY <2>1 DEF Search
  <2>3. OneNodePerKey'
    BY <1>1, <2>1, <2>2 DEF OneNodePerKey
  <2>4. UsedCounts'
    BY <1>1, <2>1, <2>2, CountFollows DEF UsedCounts
  <2> QED BY <2>1, <2>2, <2>3, <2>4 DEF Inv
<1>3. CASE PutInsert(k, v)
  <2>1. /\ TypeOK' /\ RehashShape' /\ WellPlaced' /\ DrainedStayEmpty'
        /\ used' = used + 1
        /\ InPrimary(k) = {} /\ InNew(k) = {}
        /\ \/ InPrimary(k)' = {[key |-> k, value |-> v]} /\ InNew(k)' = {}
           \/ InPrimary(k)' = {} /\ InNew(k)' = {[key |-> k, value |-> v]}
        /\ \A j \in Keys \ {k} : InPrimary(j)' = InPrimary(j) /\ InNew(j)' = InNew(j)
    BY <1>3, PutInsertEffect
  <2>2. /\ Search(k)' = {[key |-> k, value |-> v]} /\ Search(k) = {}
        /\ \A j \in Keys \ {k} : Search(j)' = Search(j)
    BY <2>1 DEF Search
  <2>3. OneNodePerKey'
    BY <1>1, <2>1, <2>2 DEF OneNodePerKey
  <2>4. UsedCounts'
    BY <1>1, <2>1, <2>2, CountFollows DEF UsedCounts
  <2> QED BY <2>1, <2>2, <2>3, <2>4 DEF Inv
<1> QED BY <1>2, <1>3 DEF Put

\* A delete removes its key, which was stored, and touches no other key.
LEMMA DeleteSearch ==
  ASSUME Inv, NEW k \in Keys, Delete(k)
  PROVE  /\ Inv'
         /\ Search(k) # {} /\ Search(k)' = {}
         /\ \A j \in Keys \ {k} : Search(j)' = Search(j)
         /\ used' = used - 1
<1>1. /\ OneNodePerKey
      /\ used = Cardinality(Stored)
  BY DEF Inv, UsedCounts
<1>2. /\ TypeOK' /\ RehashShape' /\ WellPlaced' /\ DrainedStayEmpty'
      /\ used' = used - 1
      /\ InPrimary(k) # {} \/ InNew(k) # {}
      /\ InPrimary(k)' = {} /\ InNew(k)' = {}
      /\ \A j \in Keys \ {k} : InPrimary(j)' = InPrimary(j) /\ InNew(j)' = InNew(j)
  BY DeleteEffect
<1>3. /\ Search(k) # {} /\ Search(k)' = {}
      /\ \A j \in Keys \ {k} : Search(j)' = Search(j)
  BY <1>2 DEF Search
<1>4. OneNodePerKey'
  BY <1>1, <1>2, <1>3 DEF OneNodePerKey
<1>5. UsedCounts'
  BY <1>1, <1>2, <1>3, CountFollows DEF UsedCounts
<1> QED BY <1>2, <1>3, <1>4, <1>5 DEF Inv

\* The steps of the rehash change what no search finds.
LEMMA RehashSearch ==
  ASSUME Inv, RehashActivateIfNeeded \/ RehashStep \/ UNCHANGED vars
  PROVE  /\ Inv'
         /\ \A j \in Keys : Search(j)' = Search(j)
         /\ UNCHANGED used
<1>1. OneNodePerKey
  BY DEF Inv
<1>2. CASE UNCHANGED vars
  <2>1. \A j \in Keys : InPrimary(j)' = InPrimary(j) /\ InNew(j)' = InNew(j)
    BY <1>2 DEF vars, InPrimary, InNew, RehashActive
  <2>2. \A j \in Keys : Search(j)' = Search(j)
    BY <2>1 DEF Search
  <2>3. OneNodePerKey' /\ UsedCounts'
    BY <1>1, <1>2, <2>1, <2>2 DEF Inv, vars, OneNodePerKey, UsedCounts, Stored
  <2> QED BY <1>2, <2>2, <2>3
          DEF vars, Inv, TypeOK, RehashShape, RehashActive, WellPlaced, DrainedStayEmpty
<1>3. CASE RehashActivateIfNeeded \/ RehashStep
  <2>1. /\ TypeOK' /\ RehashShape' /\ WellPlaced' /\ DrainedStayEmpty'
        /\ UNCHANGED used
        /\ \A j \in Keys :
             \/ InPrimary(j)' = InPrimary(j) /\ InNew(j)' = InNew(j)
             \/ InPrimary(j)' = {} /\ InNew(j)' = InPrimary(j) \cup InNew(j)
             \/ InPrimary(j)' = InPrimary(j) \cup InNew(j) /\ InNew(j)' = {}
    BY <1>3, RehashActivateEffect, RehashStepEffect
  <2>2. \A j \in Keys : Search(j)' = Search(j)
    BY <1>1, <2>1 DEF Search, OneNodePerKey
  <2>3. OneNodePerKey'
    BY <1>1, <2>1, <2>2 DEF OneNodePerKey
  <2>4. UsedCounts'
    BY <2>1, <2>2 DEF Inv, UsedCounts, Stored
  <2> QED BY <2>1, <2>2, <2>3, <2>4 DEF Inv
<1> QED BY <1>2, <1>3

\* What the callback of a scan deletes is gone from both tables, and nothing else is.
LEMMA DeleteAllSearch ==
  ASSUME Inv, NEW D \in SUBSET Stored, DeleteAll(D)
  PROVE  /\ Inv'
         /\ \A k \in Keys : Search(k)' = IF k \in D THEN {} ELSE Search(k)
<1>1. /\ TypeOK /\ RehashShape /\ WellPlaced /\ OneNodePerKey /\ DrainedStayEmpty
      /\ size \in Nat \ {0} /\ size' = size /\ buckets \in Table(size)
      /\ newSize \in Nat /\ new \in Table(newSize)
      /\ D \subseteq Keys
  BY DEF Inv, TypeOK, DeleteAll, Stored
<1>2. ASSUME NEW n \in Nat, NEW t \in Table(n)
      PROVE  /\ Without(t, D) \in Table(n)
             /\ Placed(t, n) => Placed(Without(t, D), n)
             /\ \A i \in 0 .. n-1 : t[i] = {} => Without(t, D)[i] = {}
             /\ n > 0 => \A k \in Keys : SearchInBuckets(Without(t, D), n, k) =
                           IF k \in D THEN {} ELSE SearchInBuckets(t, n, k)
  <2>1. Without(t, D) \in Table(n) /\ DOMAIN t = 0 .. n-1
    BY DEF Without, Table
  <2>2. Placed(t, n) => Placed(Without(t, D), n)
    BY <2>1 DEF Without, Placed
  <2>3. ASSUME NEW k \in Keys, n > 0
        PROVE  SearchInBuckets(Without(t, D), n, k) =
                 IF k \in D THEN {} ELSE SearchInBuckets(t, n, k)
    BY <2>1, <2>3, IndexRange DEF Without, SearchInBuckets
  <2> QED BY <2>1, <2>2, <2>3 DEF Without
<1>3. /\ IsFiniteSet(Stored) /\ used = Cardinality(Stored) /\ used \in Nat
      /\ IsFiniteSet(D) /\ Cardinality(D) \in Nat
      /\ Cardinality(Stored \ D) = used - Cardinality(D)
      /\ D # {} => used - 1 \in Nat
  <2>1. IsFiniteSet(Stored) /\ used = Cardinality(Stored) /\ used \in Nat
    BY <1>1, StoredIsFinite DEF TypeOK
  <2>2. IsFiniteSet(D) /\ Cardinality(D) \in Nat /\ Stored \cap D = D
    BY <2>1, FS_Subset, FS_CardinalityType
  <2>3. Cardinality(Stored \ D) = used - Cardinality(D)
    BY <2>1, <2>2, FS_Difference
  <2>4. D # {} => Stored # {}
    OBVIOUS
  <2>5. D # {} => used # 0
    BY <2>1, <2>4, FS_EmptySet
  <2> QED BY <2>1, <2>2, <2>3, <2>5
<1>4. /\ buckets' \in Table(size) /\ Placed(buckets', size)
      /\ \A i \in 0 .. size-1 : buckets[i] = {} => buckets'[i] = {}
      /\ \A k \in Keys : InPrimary(k)' = IF k \in D THEN {} ELSE InPrimary(k)
  BY <1>1, <1>2 DEF DeleteAll, WellPlaced, InPrimary
<1>5. /\ newSize' \in Nat /\ new' \in Table(newSize') /\ rehashIdx' \in Nat
      /\ RehashShape' /\ Placed(new', newSize') /\ DrainedStayEmpty'
      /\ \A k \in Keys : InNew(k)' = IF k \in D THEN {} ELSE InNew(k)
  <2>1. CASE RehashActive
    <3>1. new' = Without(new, D) /\ newSize' = newSize /\ rehashIdx' = rehashIdx
      BY <2>1 DEF DeleteAll
    <3>2. newSize > 0 /\ newSize = 2 * size /\ rehashIdx < size /\ rehashIdx \in Nat
      BY <1>1, <2>1 DEF RehashShape, TypeOK
    <3>3. new' \in Table(newSize') /\ RehashActive' /\ Placed(new', newSize')
      BY <1>1, <1>2, <3>1, <3>2, NullTableIsEmpty DEF RehashActive, WellPlaced
    <3>4. \A k \in Keys : InNew(k)' = IF k \in D THEN {} ELSE InNew(k)
      BY <1>1, <1>2, <2>1, <3>1, <3>2, <3>3 DEF InNew
    <3>5. RehashShape' /\ DrainedStayEmpty'
      BY <1>1, <1>4, <2>1, <3>1, <3>2, <3>3 DEF RehashShape, DrainedStayEmpty
    <3> QED BY <1>1, <3>1, <3>2, <3>3, <3>4, <3>5
  <2>2. CASE ~RehashActive
    <3>1. CASE D # {}
      <4>1. ActivateIfNeeded(used - 1) /\ used - 1 \in Nat
        BY <1>3, <2>2, <3>1 DEF DeleteAll
      <4>2. /\ newSize' \in Nat /\ new' \in Table(newSize') /\ rehashIdx' \in Nat
            /\ RehashShape' /\ Placed(new', newSize') /\ rehashIdx' = 0
            /\ \A k \in Keys : InNew(k)' = InNew(k)
        BY <1>1, <2>2, <4>1, ActivateEffect
      <4>3. \A k \in Keys : InNew(k) = {}
        BY <2>2 DEF InNew
      <4> QED BY <1>1, <4>2, <4>3 DEF DrainedStayEmpty
    <3>2. CASE D = {}
      <4>1. UNCHANGED <<new, newSize, rehashIdx>>
        BY <2>2, <3>2 DEF DeleteAll
      <4>2. RehashShape' /\ DrainedStayEmpty' /\ \A k \in Keys : InNew(k)' = InNew(k)
        BY <1>1, <2>2, <4>1 DEF RehashShape, DrainedStayEmpty, RehashActive, InNew
      <4> QED BY <1>1, <3>2, <4>1, <4>2 DEF TypeOK, WellPlaced
    <3> QED BY <3>1, <3>2
  <2> QED BY <2>1, <2>2
<1>6. \A k \in Keys : Search(k)' = IF k \in D THEN {} ELSE Search(k)
  BY <1>4, <1>5 DEF Search
<1>7. Stored' = Stored \ D
  BY <1>6 DEF Stored
<1>8. used' = Cardinality(Stored \ D) /\ used' \in Nat
  <2>1. used' = used - Cardinality(D)
    BY DEF DeleteAll
  <2>2. Cardinality(Stored \ D) \in Nat
    BY <1>3, FS_Subset, FS_CardinalityType
  <2> QED BY <1>3, <2>1, <2>2
<1>9. TypeOK' /\ WellPlaced'
  BY <1>1, <1>4, <1>5, <1>8 DEF TypeOK, WellPlaced
<1>10. OneNodePerKey'
  BY <1>1, <1>4, <1>5, <1>6 DEF OneNodePerKey
<1>11. UsedCounts'
  BY <1>7, <1>8 DEF UsedCounts
<1> QED BY <1>5, <1>6, <1>9, <1>10, <1>11 DEF Inv

LEMMA InitInv ==
  ASSUME Init
  PROVE  Inv /\ \A k \in Keys : Search(k) = {}
<1>1. /\ size \in Nat \ {0} /\ size = InitSize /\ buckets = EmptyTable(size)
      /\ new = NullTable /\ newSize = 0 /\ rehashIdx = 0 /\ used = 0
      /\ ~RehashActive
  BY InitSizeAssumption DEF Init, RehashActive
<1>2. TypeOK
  BY <1>1, NullTableIsEmpty DEF TypeOK
<1>3. RehashShape /\ DrainedStayEmpty
  BY <1>1 DEF RehashShape, DrainedStayEmpty
<1>4. WellPlaced
  BY <1>1 DEF WellPlaced, Placed, EmptyTable
<1>5. \A k \in Keys : InPrimary(k) = {} /\ InNew(k) = {}
  BY <1>1, SearchEmptyTable DEF InPrimary, InNew
<1>6. OneNodePerKey /\ \A k \in Keys : Search(k) = {}
  BY <1>5 DEF OneNodePerKey, Search
<1>7. UsedCounts
  BY <1>1, <1>6, FS_EmptySet DEF UsedCounts, Stored
<1> QED BY <1>2, <1>3, <1>4, <1>6, <1>7 DEF Inv

\* Every step preserves the invariant.
LEMMA NextInv ==
  ASSUME Inv, [Next]_vars
  PROVE  Inv'
BY PutSearch, DeleteSearch, RehashSearch DEF Next

THEOREM Invariance == Spec => []Inv
<1>1. Init => Inv
  BY InitInv
<1>2. Inv /\ [Next]_vars => Inv'
  BY NextInv
<1> QED BY <1>1, <1>2, PTL DEF Spec

\* The tables always have the sizes the code indexes them with.
THEOREM TypeCorrect == Spec => []TypeOK
<1>1. Inv => TypeOK
  BY DEF Inv
<1> QED BY <1>1, Invariance, PTL

\* A rehash fills a table of twice the size and its index stays inside the
\* primary table, also when a delete or the cron activates the next rehash.
THEOREM RehashIsShaped == Spec => []RehashShape
<1>1. Inv => RehashShape
  BY DEF Inv
<1> QED BY <1>1, Invariance, PTL

\* Every node stays where searches for its key look, through any number of
\* rehashes.
THEOREM NodesAreWellPlaced == Spec => []WellPlaced
<1>1. Inv => WellPlaced
  BY DEF Inv
<1> QED BY <1>1, Invariance, PTL

\* No interleaving of puts, deletes and rehash steps stores a key twice.
THEOREM OneNode == Spec => []OneNodePerKey
<1>1. Inv => OneNodePerKey
  BY DEF Inv
<1> QED BY <1>1, Invariance, PTL

\* No put lands in a bucket the rehash has already moved.
THEOREM DrainedBuckets == Spec => []DrainedStayEmpty
<1>1. Inv => DrainedStayEmpty
  BY DEF Inv
<1> QED BY <1>1, Invariance, PTL

\* The element counter, on which growing depends, is exact.
THEOREM UsedIsExact == Spec => []UsedCounts
<1>1. Inv => UsedCounts
  BY DEF Inv
<1> QED BY <1>1, Invariance, PTL

-----------------------------------------------------------------------------
(* The table implements the map                                            *)

\* With one node to find, a get returns its value.
LEMMA ValueOfNode ==
  ASSUME NEW k, NEW v
  PROVE  ValueOf({[key |-> k, value |-> v]}) = v
<1> DEFINE node == [key |-> k, value |-> v]
<1>1. (CHOOSE x \in {node} : TRUE) \in {node}
  OBVIOUS
<1>2. (CHOOSE x \in {node} : TRUE) = node
  BY <1>1
<1> QED BY <1>2 DEF ValueOf

\* A get tells stored keys from the others: a stored value is never Absent.
LEMMA GetOfSearch ==
  ASSUME Inv, NEW k \in Keys
  PROVE  /\ Get(k) = Absent <=> Search(k) = {}
         /\ \A v \in Values : Search(k) = {[key |-> k, value |-> v]} => Get(k) = v
<1>1. Search(k) \subseteq Node
  BY TwoTables DEF Inv, Search
<1>2. ASSUME Search(k) # {}
      PROVE  Get(k) \in Values
  <2>1. (CHOOSE node \in Search(k) : TRUE) \in Node
    BY <1>1, <1>2
  <2> QED BY <1>2, <2>1 DEF Get, ValueOf, Node
<1>3. ASSUME NEW v \in Values, Search(k) = {[key |-> k, value |-> v]}
      PROVE  Get(k) = v
  BY <1>3, ValueOfNode DEF Get
<1> QED BY <1>2, <1>3, AbsentAssumption DEF Get, ValueOf

LEMMA InitRefines ==
  ASSUME Init
  PROVE  Abstract!Init
BY InitInv DEF Abstract!Init, Get, ValueOf, Init

\* What a step does to the map, from what it does to the value of every key.
LEMMA MapUpdate ==
  ASSUME NEW k \in Keys, NEW r, Get(k)' = r, \A j \in Keys \ {k} : Get(j)' = Get(j)
  PROVE  [j \in Keys |-> Get(j)]' = [[j \in Keys |-> Get(j)] EXCEPT ![k] = r]
<1>1. \A j \in Keys : Get(j)' = IF j = k THEN r ELSE Get(j)
  OBVIOUS
<1>2. [j \in Keys |-> Get(j)]' = [j \in Keys |-> IF j = k THEN r ELSE Get(j)]
  BY <1>1
<1> QED BY <1>2

LEMMA NextRefines ==
  ASSUME Inv, Inv', [Next]_vars
  PROVE  [Abstract!Next]_(Abstract!vars)
<1>1. ASSUME NEW k \in Keys, NEW v \in Values, Put(k, v)
      PROVE  Abstract!Put(k, v)
  <2>1. /\ Search(k)' = {[key |-> k, value |-> v]}
        /\ \A j \in Keys \ {k} : Search(j)' = Search(j)
        /\ used' = IF Search(k) = {} THEN used + 1 ELSE used
    BY <1>1, PutSearch
  <2>2. Get(k)' = v
    BY <2>1, ValueOfNode DEF Get
  <2>3. \A j \in Keys \ {k} : Get(j)' = Get(j)
    BY <2>1 DEF Get
  <2>4. used' = IF Get(k) = Absent THEN used + 1 ELSE used
    BY <2>1, GetOfSearch
  <2> QED BY <2>2, <2>3, <2>4, MapUpdate DEF Abstract!Put
<1>2. ASSUME NEW k \in Keys, Delete(k)
      PROVE  Abstract!Delete(k)
  <2>1. /\ Search(k) # {} /\ Search(k)' = {}
        /\ \A j \in Keys \ {k} : Search(j)' = Search(j)
        /\ used' = used - 1
    BY <1>2, DeleteSearch
  <2>2. Get(k) # Absent /\ Get(k)' = Absent
    BY <2>1, GetOfSearch DEF Get, ValueOf
  <2>3. \A j \in Keys \ {k} : Get(j)' = Get(j)
    BY <2>1 DEF Get
  <2> QED BY <2>1, <2>2, <2>3, MapUpdate DEF Abstract!Delete
<1>3. ASSUME RehashActivateIfNeeded \/ RehashStep \/ UNCHANGED vars
      PROVE  UNCHANGED Abstract!vars
  <2>1. UNCHANGED used /\ \A j \in Keys : Get(j)' = Get(j)
    BY <1>3, RehashSearch DEF Get
  <2>2. [j \in Keys |-> Get(j)]' = [j \in Keys |-> Get(j)]
    BY <2>1
  <2> QED BY <2>1, <2>2 DEF Abstract!vars
<1> QED BY <1>1, <1>2, <1>3 DEF Next, Abstract!Next

\* Whatever the interleaving of puts, deletes and rehash steps, callers see a map
\* from keys to values and the number of its elements.
THEOREM Refinement == Spec => RefinesKVMap
<1>1. Init => Abstract!Init
  BY InitRefines
<1>2. Inv /\ Inv' /\ [Next]_vars => [Abstract!Next]_(Abstract!vars)
  BY NextRefines
<1> QED BY <1>1, <1>2, Invariance, PTL DEF Spec, RefinesKVMap, Abstract!Spec
=============================================================================
