--------------------------- MODULE ReverseCursor ---------------------------
(***************************************************************************)
(* How rchkKVStoreScan counts buckets: the cursor is incremented with its  *)
(* bits reversed.  That the bit operations of the code, in ReverseBits,    *)
(* compute this is CodeIsRevIncremented of KVScan.                         *)
(***************************************************************************)
EXTENDS Integers, FiniteSetsExt

CONSTANT MaxBits    \* tables have at most 2^MaxBits buckets

\* A slip: an ordinary increment.
Incremented(c, n) == (c + 1) % n

\* "cursor |= ~mask; rev; cursor++; rev" for a table of n buckets: an increment
\* that carries downwards from the highest bit under the mask.
RevIncremented(c, n) ==
  LET clear == {b \in 0 .. MaxBits : 2^b < n /\ (c \div 2^b) % 2 = 0}
  IN IF clear = {} THEN 0 ELSE (c % 2^Max(clear)) + 2^Max(clear)
=============================================================================
