------------------------------ MODULE KVStore ------------------------------
(***************************************************************************)
(* The hash table of archke_kvstore_basic_hash.c: chained buckets and an   *)
(* incremental rehash that moves one bucket per step into a table of twice *)
(* the size while puts, gets and deletes go on.                            *)
(*                                                                         *)
(* The program is single-threaded, so each API function is one action.     *)
(* Abstractions: a chain is the set of its nodes (no caller of this        *)
(* component sees the order of a chain; where the C code takes the first   *)
(* node that matches, the model takes any); hash(key) & (size - 1) is      *)
(* Hash[key] % size, the same number because sizes are powers of two; a    *)
(* failed malloc in rchkKVStorePut returns -1 with nothing changed, which  *)
(* is a stuttering step; a failed calloc ends the process.                 *)
(***************************************************************************)
EXTENDS Integers, FiniteSets

CONSTANTS
  Keys,       \* the keys callers use
  Values,     \* the values callers store
  Absent,     \* result of a get that finds nothing (NULL)
  Hash,       \* the hash function of the store
  InitSize    \* number of buckets of a new store

ASSUME KeysAssumption     == IsFiniteSet(Keys)
ASSUME AbsentAssumption   == Absent \notin Values
ASSUME HashAssumption     == Hash \in [Keys -> Nat]
ASSUME InitSizeAssumption == InitSize \in Nat \ {0}

VARIABLES
  buckets,    \* primary table: bucket number -> set of nodes
  new,        \* table being filled by the rehash, NullTable when there is none
  used,       \* total number of elements
  size,       \* number of buckets of the primary table
  newSize,    \* number of buckets of the new table
  rehashIdx   \* next bucket to move during a rehash step

vars == <<buckets, new, used, size, newSize, rehashIdx>>

Node == [key : Keys, value : Values]
Table(n) == [0 .. n-1 -> SUBSET Node]
EmptyTable(n) == [i \in 0 .. n-1 |-> {}]

\* The NULL pointer of the field "new": a table without buckets.
NullTable == EmptyTable(0)

RehashActive == new # NullTable

Index(k, n) == Hash[k] % n

-----------------------------------------------------------------------------
(* Searching.  SearchInBuckets gives the nodes with key k in the one chain *)
(* the code walks; Search goes on to the new table when the primary one    *)
(* has no such node.                                                       *)

SearchInBuckets(table, n, k) == {node \in table[Index(k, n)] : node.key = k}

InPrimary(k) == SearchInBuckets(buckets, size, k)
InNew(k) == IF RehashActive THEN SearchInBuckets(new, newSize, k) ELSE {}

\* A slip: the new table is forgotten.
SearchPrimaryOnly(k) == InPrimary(k)

Search(k) == IF InPrimary(k) # {} THEN InPrimary(k) ELSE InNew(k)

\* rchkKVStoreGet: the value of the node found, NULL when there is none.
ValueOf(found) == IF found = {} THEN Absent ELSE (CHOOSE node \in found : TRUE).value

Get(k) == ValueOf(Search(k))

-----------------------------------------------------------------------------
Init ==
  /\ buckets = EmptyTable(InitSize)
  /\ new = NullTable
  /\ used = 0
  /\ size = InitSize
  /\ newSize = 0
  /\ rehashIdx = 0

\* A slip: one element too many is tolerated.
OverloadedLate(u) == u > size

\* The condition to grow, with u elements in the store.
Overloaded(u) == u >= size

\* A slip: the size of the new table is taken for that of the primary one.
StartRehashSameSize ==
  /\ rehashIdx' = 0
  /\ newSize' = 2 * size
  /\ new' = EmptyTable(size)

StartRehash ==
  /\ rehashIdx' = 0
  /\ newSize' = 2 * size
  /\ new' = EmptyTable(2 * size)

\* A slip: a rehash in progress is started again.
ActivateAgain(u) ==
  IF Overloaded(u) THEN StartRehash ELSE UNCHANGED <<rehashIdx, newSize, new>>

\* rchkKVStoreRehashActivateIfNeeded, called by a function that has already
\* brought the number of elements to u.
ActivateIfNeeded(u) ==
  IF ~RehashActive /\ Overloaded(u)
  THEN StartRehash
  ELSE UNCHANGED <<rehashIdx, newSize, new>>

Replace(table, n, k, old, v) ==
  [table EXCEPT ![Index(k, n)] = (@ \ {old}) \cup {[key |-> k, value |-> v]}]

Push(table, n, k, v) ==
  [table EXCEPT ![Index(k, n)] = @ \cup {[key |-> k, value |-> v]}]

Unlink(table, n, k, node) ==
  [table EXCEPT ![Index(k, n)] = @ \ {node}]

\* rchkKVStorePut of a key that Search finds: its value is replaced in place.
PutOverwrite(k, v) ==
  /\ UNCHANGED <<used, size, newSize, rehashIdx>>
  /\ \/ \E node \in InPrimary(k) :
          /\ buckets' = Replace(buckets, size, k, node, v)
          /\ UNCHANGED new
     \/ /\ InPrimary(k) = {}
        /\ \E node \in Search(k) :
             /\ new' = Replace(new, newSize, k, node, v)
             /\ UNCHANGED buckets

\* A slip: elements go to the primary table whatever the rehash has drained.
PutInsertPrimary(k, v) ==
  /\ Search(k) = {}
  /\ used' = used + 1
  /\ buckets' = Push(buckets, size, k, v)
  /\ ActivateIfNeeded(used + 1)
  /\ UNCHANGED size

\* rchkKVStorePut of a key that Search does not find: a rehash in progress
\* receives it in the new table, so that drained buckets stay empty.
PutInsert(k, v) ==
  /\ Search(k) = {}
  /\ used' = used + 1
  /\ UNCHANGED size
  /\ \/ /\ RehashActive
        /\ new' = Push(new, newSize, k, v)
        /\ UNCHANGED <<buckets, newSize, rehashIdx>>
     \/ /\ ~RehashActive
        /\ buckets' = Push(buckets, size, k, v)
        /\ ActivateIfNeeded(used + 1)

Put(k, v) == PutOverwrite(k, v) \/ PutInsert(k, v)

\* A slip: an element deleted from the new table is still counted.
DeleteUncounted(k) ==
  /\ UNCHANGED size
  /\ \/ \E node \in InPrimary(k) :
          /\ buckets' = Unlink(buckets, size, k, node)
          /\ used' = used - 1
          /\ ActivateIfNeeded(used - 1)
     \/ /\ InPrimary(k) = {}
        /\ \E node \in InNew(k) : new' = Unlink(new, newSize, k, node)
        /\ UNCHANGED <<buckets, used, newSize, rehashIdx>>

\* rchkKVStoreDelete2: the primary table first, then the new one.
Delete(k) ==
  /\ used' = used - 1
  /\ UNCHANGED size
  /\ \/ \E node \in InPrimary(k) :
          /\ buckets' = Unlink(buckets, size, k, node)
          /\ ActivateIfNeeded(used - 1)
     \/ /\ InPrimary(k) = {}
        /\ \E node \in InNew(k) :
             /\ new' = Unlink(new, newSize, k, node)
             /\ UNCHANGED <<buckets, newSize, rehashIdx>>

\* rchkKVStoreRehashActivateIfNeeded as rchkIncrementalRehashing calls it.
RehashActivateIfNeeded ==
  /\ ActivateIfNeeded(used)
  /\ UNCHANGED <<buckets, used, size>>

\* A slip: the nodes are scattered with the mask of the primary table.
ScatteredOldMask ==
  [j \in 0 .. newSize-1 |->
     new[j] \cup {node \in buckets[rehashIdx] : Index(node.key, size) = j}]

\* A slip: the first moved node of a chain cuts off the nodes already there.
ScatteredCutOff ==
  [j \in 0 .. newSize-1 |->
     LET moved == {node \in buckets[rehashIdx] : Index(node.key, newSize) = j}
     IN IF moved = {} THEN new[j] ELSE moved]

\* The new table after the chain of bucket rehashIdx was scattered over it.
Scattered ==
  [j \in 0 .. newSize-1 |->
     new[j] \cup {node \in buckets[rehashIdx] : Index(node.key, newSize) = j}]

\* A slip: the last bucket is looked for one position too far.
LastBucketLate == rehashIdx + 1 > size

LastBucket == rehashIdx + 1 >= size

\* rchkKVStoreRehashStep: move one bucket; after the last one the new table
\* becomes the primary one.
RehashStep ==
  /\ RehashActive
  /\ UNCHANGED used
  /\ \/ /\ ~LastBucket
        /\ buckets' = [buckets EXCEPT ![rehashIdx] = {}]
        /\ new' = Scattered
        /\ rehashIdx' = rehashIdx + 1
        /\ UNCHANGED <<size, newSize>>
     \/ /\ LastBucket
        /\ buckets' = Scattered
        /\ size' = newSize
        /\ new' = NullTable
        /\ newSize' = 0
        /\ rehashIdx' = 0

Next ==
  \/ \E k \in Keys :
       \/ \E v \in Values : Put(k, v)
       \/ Delete(k)
  \/ RehashActivateIfNeeded
  \/ RehashStep

Spec == Init /\ [][Next]_vars

\* serverCron runs every 200 ms while the server lives, and each time
\* rchkIncrementalRehashing activates the rehash if needed and then takes at
\* least one step of it.
Fairness == WF_vars(RehashActivateIfNeeded) /\ WF_vars(RehashStep)

FairSpec == Spec /\ Fairness

-----------------------------------------------------------------------------
(* Invariants                                                              *)

\* Every table has as many buckets as the size the code keeps beside it; the
\* masks that index it are computed from that size.
TypeOK ==
  /\ size \in Nat \ {0}
  /\ newSize \in Nat
  /\ used \in Nat
  /\ rehashIdx \in Nat
  /\ buckets \in Table(size)
  /\ new \in Table(newSize)

\* A rehash in progress fills a table of twice the size, and the bucket its next
\* step moves is inside the primary table: one past it is memory of another owner.
RehashShape ==
  IF RehashActive
  THEN newSize = 2 * size /\ rehashIdx < size
  ELSE newSize = 0 /\ rehashIdx = 0

\* Each node is in the chain that a search for its key walks, in both tables.
\* A node anywhere else is lost to every get, put and delete although it is
\* still counted and scanned.
Placed(table, n) ==
  \A i \in 0 .. n-1 : \A node \in table[i] : Index(node.key, n) = i

WellPlaced == Placed(buckets, size) /\ Placed(new, newSize)

\* A key has at most one node, in whichever table, however puts, deletes and
\* rehash steps interleave: with two, a delete would bring an old value back.
OneNodePerKey ==
  \A k \in Keys :
    /\ \A a, b \in Search(k) : a = b
    /\ InPrimary(k) = {} \/ InNew(k) = {}

\* Buckets the rehash has moved stay empty until it ends: the last step frees
\* the primary table without looking at them again.
DrainedStayEmpty ==
  \A i \in 0 .. size-1 : RehashActive /\ i < rehashIdx => buckets[i] = {}

\* used is the number of stored keys: growing is decided by it.
Stored == {k \in Keys : Search(k) # {}}
UsedCounts == used = Cardinality(Stored)

-----------------------------------------------------------------------------
(* What the callers see                                                    *)

\* The store implements the map of KVMap: at every moment rchkKVStoreGet gives
\* what the last put or delete of the key left, and no rehash step, activation
\* or change of tables can be told from outside.
Abstract == INSTANCE KVMap WITH map <- [k \in Keys |-> Get(k)], count <- used

RefinesKVMap == Abstract!Spec

\* A rehash ends although puts and deletes go on between its steps.
RehashEnds == RehashActive ~> ~RehashActive

\* An overloaded table is relieved.  The step that ends a rehash does not look
\* at the load again: a store that filled up meanwhile waits for the next
\* activation.
LoadRelieved == used >= size ~> used < size
=============================================================================
