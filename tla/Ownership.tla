----------------------------- MODULE Ownership -----------------------------
(***************************************************************************)
(* Who frees what.  The stores keep pointers: server.kvstore to a copy of  *)
(* the key and a copy of the value, server.expire to another copy of the   *)
(* key and a deadline.  The commands and the cron allocate and free them,  *)
(* the hash tables free their nodes alone.  Which keys have expired is     *)
(* left open: any deadline may have passed.                                *)
(***************************************************************************)
EXTENDS Integers, FiniteSets, SequencesExt

CONSTANTS
  Keys,
  HeapSize,    \* bound: the allocations that fit into memory
  NULL

ASSUME HeapAssumption == HeapSize \in Nat
ASSUME NullAssumption == NULL \notin [key : Nat, value : Nat]

VARIABLES
  kv,      \* server.kvstore: key -> the pointers of its element, or NULL
  exp,     \* server.expire, likewise
  heap,    \* the addresses that are allocated
  at       \* "running", "exited" (rchkExitFailure) or "fault" (a bad free)

vars == <<kv, exp, heap, at>>

Init ==
  /\ kv = [k \in Keys |-> NULL] /\ exp = [k \in Keys |-> NULL]
  /\ heap = {}
  /\ at = "running"

-----------------------------------------------------------------------------
\* What malloc returns when the addresses in A are allocated.  No property tells one
\* free address from another; TLC takes the lowest, soon one that was freed.
Malloc(A) == CHOOSE a \in 1 .. HeapSize : a \notin A

Room(n) == Cardinality((1 .. HeapSize) \ heap) >= n

\* rchkKVStorePut: an element that is there gets the value and keeps its own key.
PutInto(store, k, key, value) ==
  [store EXCEPT ![k] = [key |-> IF @ = NULL THEN key ELSE @.key, value |-> value]]

\* What rchkKVStoreDelete2 gives its callback to free.
Pointers(store, k) == IF store[k] = NULL THEN <<>> ELSE <<store[k].key, store[k].value>>

FreeAll(pointers) ==
  /\ heap' = heap \ ToSet(pointers)
  /\ at' = IF ToSet(pointers) \subseteq heap /\ IsInjective(pointers) THEN at ELSE "fault"

-----------------------------------------------------------------------------
\* setCommand without EX: rchkDuplicate of the key and of the value.
Set(k) ==
  LET key == Malloc(heap)
      value == Malloc(heap \cup {key})
  IN /\ Room(2)
     /\ heap' = heap \cup {key, value}
     /\ kv' = PutInto(kv, k, key, value)
     /\ UNCHANGED <<exp, at>>

\* A slip: the copy of the key is given to both stores.
SetExShared(k) ==
  LET key == Malloc(heap)
      value == Malloc(heap \cup {key})
      deadline == Malloc(heap \cup {key, value})
  IN /\ Room(3)
     /\ heap' = heap \cup {key, value, deadline}
     /\ kv' = PutInto(kv, k, key, value)
     /\ exp' = PutInto(exp, k, key, deadline)
     /\ UNCHANGED at

\* setCommand with EX: rchkSetExpireTime allocates the deadline and a second copy of
\* the key.
SetEx(k) ==
  LET key == Malloc(heap)
      value == Malloc(heap \cup {key})
      deadline == Malloc(heap \cup {key, value})
      copy == Malloc(heap \cup {key, value, deadline})
  IN /\ Room(4)
     /\ heap' = heap \cup {key, value, deadline, copy}
     /\ kv' = PutInto(kv, k, key, value)
     /\ exp' = PutInto(exp, k, copy, deadline)
     /\ UNCHANGED at

\* A malloc of a SET fails.
OutOfMemory ==
  /\ ~Room(4)
  /\ at' = "exited"
  /\ UNCHANGED <<kv, exp, heap>>

\* A slip: the value is deleted with rchkKVStoreDelete, which frees nothing.
ForgetUnfreed(k) ==
  /\ FreeAll(Pointers(exp, k))
  /\ kv' = [kv EXCEPT ![k] = NULL] /\ exp' = [exp EXCEPT ![k] = NULL]

\* rchkRemoveExpireTime and rchkKVStoreDelete2 with rchkDelFreeKeyValue.
Forget(k) ==
  /\ FreeAll(Pointers(kv, k) \o Pointers(exp, k))
  /\ kv' = [kv EXCEPT ![k] = NULL] /\ exp' = [exp EXCEPT ![k] = NULL]

\* getCommand of an expired key.
GetExpired(k) == kv[k] # NULL /\ exp[k] # NULL /\ Forget(k)

Del(k) == Forget(k)

\* activeExpiryCallback: rchkKVStoreDelete frees neither key nor value.
Collect(k) ==
  /\ exp[k] # NULL
  /\ FreeAll(Pointers(exp, k))
  /\ kv' = [kv EXCEPT ![k] = NULL] /\ exp' = [exp EXCEPT ![k] = NULL]

Next ==
  /\ at = "running"
  /\ \/ \E k \in Keys : Set(k) \/ SetEx(k) \/ GetExpired(k) \/ Del(k) \/ Collect(k)
     \/ OutOfMemory

Spec == Init /\ [][Next]_vars

-----------------------------------------------------------------------------
\* The places of the stores that hold a pointer: <<store, key, 1 or 2>>.
StoreOf(place) == IF place[1] = "kv" THEN kv ELSE exp
Held == {place \in {"kv", "exp"} \X Keys \X {1, 2} : StoreOf(place)[place[2]] # NULL}
At(place) == Pointers(StoreOf(place), place[2])[place[3]]

\* Allocated, and reachable from no store.
Lost == heap \ {At(place) : place \in Held}

\* Every pointer in the stores is to memory of its own that is allocated, so that
\* nothing is freed twice or read after it was freed, in whatever order commands and
\* the active expiry get hold of a key.
OwnedOnce ==
  /\ at # "fault"
  /\ \A p, q \in Held : At(p) \in heap /\ (At(p) = At(q) => p = q)

\* Memory is lost by a SET of a key that is stored and by the active expiry, and by
\* nothing else: DEL and the GET of an expired key give back all they unlink.
OnlyKnownLosses ==
  [][Lost' # Lost =>
       \E k \in Keys : (kv[k] # NULL /\ (Set(k) \/ SetEx(k))) \/ Collect(k)]_vars
=============================================================================
