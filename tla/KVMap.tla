------------------------------- MODULE KVMap -------------------------------
(***************************************************************************)
(* What archke_kvstore.h promises its callers, with no hash table in it:   *)
(* a partial map from keys to values and the number of its elements.       *)
(* Incremental rehashing does not exist at this level: KVStore shows that  *)
(* every rehashing step of the hash table is a stuttering step here.       *)
(***************************************************************************)
EXTENDS Naturals

CONSTANTS
  Keys,     \* the keys callers use
  Values,   \* the values callers store
  Absent    \* what a get of a key that is not stored returns (NULL)

VARIABLES
  map,      \* key -> stored value, or Absent
  count     \* number of stored elements

vars == <<map, count>>

Init ==
  /\ map = [k \in Keys |-> Absent]
  /\ count = 0

\* rchkKVStorePut: overwrite the value of a stored key, or add the key.
Put(k, v) ==
  /\ map' = [map EXCEPT ![k] = v]
  /\ count' = IF map[k] = Absent THEN count + 1 ELSE count

\* rchkKVStoreDelete2 on a stored key; on any other key nothing changes.
Delete(k) ==
  /\ map[k] # Absent
  /\ map' = [map EXCEPT ![k] = Absent]
  /\ count' = count - 1

Next ==
  \E k \in Keys :
    \/ \E v \in Values : Put(k, v)
    \/ Delete(k)

Spec == Init /\ [][Next]_vars
=============================================================================
