----------------------------- MODULE ScanStep ------------------------------
(***************************************************************************)
(* One call of rchkKVStoreScan: what it reports, the cursor it returns, and *)
(* what is left of a store whose elements its callback deletes.  The       *)
(* cursor is a bucket number that is counted up with its bits reversed, so *)
(* that buckets a growing table splits stay on the side of the cursor they *)
(* were on.  Sizes are powers of two here.                                 *)
(***************************************************************************)
EXTENDS KVStore, ReverseCursor

ASSUME SizeIsPowerOfTwo == \E b \in 0 .. MaxBits : InitSize = 2^b

Invalid == 2^(MaxBits + 1)    \* (uint64_t) -1, larger than any table

-----------------------------------------------------------------------------
\* A slip: one bucket of the new table and no loop.
VisitOnce(c) == [visited |-> {c}, next |-> RevIncremented(c, newSize)]

\* The do-while loop over the new table: the buckets it visits, and the cursor it
\* ends with, which is the first one that names a bucket of the primary table.
Visit(c) ==
  LET loop[j \in 0 .. newSize-1] ==
        LET next == RevIncremented(j, newSize)
        IN IF next < size
           THEN [visited |-> {j}, next |-> next]
           ELSE [visited |-> {j} \cup loop[next].visited, next |-> loop[next].next]
  IN loop[c]

\* The keys of the nodes in the buckets B of a table.
KeysIn(table, B) == {node.key : node \in UNION {table[i] : i \in B}}

\* A slip: the new table is not scanned.
ReportedPrimaryOnly(c) == IF c >= size THEN {} ELSE KeysIn(buckets, {c})

\* The keys a call with cursor c gives the callback; none outside the table.
Reported(c) ==
  IF c >= size THEN {}
  ELSE KeysIn(buckets, {c}) \cup
         IF RehashActive THEN KeysIn(new, Visit(c).visited) ELSE {}

\* The cursor a call with cursor c returns: a pass ends at the size of the table,
\* a cursor above it is refused.
NextCursor(c) ==
  IF c > size THEN Invalid
  ELSE IF c = size THEN 0
  ELSE IF RehashActive THEN Visit(c).next
  ELSE RevIncremented(c, size)

-----------------------------------------------------------------------------
\* The store without the keys in D.
Without(table, D) == [i \in DOMAIN table |-> {node \in table[i] : node.key \notin D}]

\* The callback deletes the keys of D one after the other.  Only the first
\* delete from the primary table can start a rehash: used goes down with each.
DeleteAll(D) ==
  /\ buckets' = Without(buckets, D)
  /\ used' = used - Cardinality(D)
  /\ UNCHANGED size
  /\ \/ /\ RehashActive
        /\ new' = Without(new, D)
        /\ UNCHANGED <<newSize, rehashIdx>>
     \/ /\ ~RehashActive /\ D # {}
        /\ ActivateIfNeeded(used - 1)
     \/ /\ ~RehashActive /\ D = {}
        /\ UNCHANGED <<new, newSize, rehashIdx>>
=============================================================================
