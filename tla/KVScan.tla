------------------------------ MODULE KVScan -------------------------------
(***************************************************************************)
(* rchkKVStoreScan: the iteration over a store that keeps nothing in the   *)
(* store but a cursor in the caller's hands.  The active expiry of the     *)
(* server steps it with a callback that deletes some of the keys it is     *)
(* given, while puts, deletes and rehash steps go on between the calls.    *)
(***************************************************************************)
EXTENDS ScanStep, ReverseBits

\* A bound of the arithmetic: the bits of a cursor are enough for the largest table
\* that the keys make the store grow to.
ASSUME MaxBitsAssumption == MaxBits \in Nat /\ 2 * Cardinality(Keys) <= 2^MaxBits

VARIABLES
  cursor,    \* what the caller passes to the next call
  seen,      \* history: the keys reported since the pass began
  stable     \* history: the keys stored without a break since the pass began

scanVars == <<cursor, seen, stable>>
allVars == <<vars, scanVars>>

\* One call; the callback deletes D.
Scan ==
  \E D \in SUBSET Reported(cursor) :
    /\ DeleteAll(D)
    /\ cursor' = NextCursor(cursor)
    /\ seen' = Reported(cursor) \cup IF cursor = 0 THEN {} ELSE seen
    /\ stable' = (IF cursor = 0 THEN Stored ELSE stable) \ D

\* What other callers and the cron do to the store between two calls.
ScanPut == (\E k \in Keys, v \in Values : Put(k, v)) /\ UNCHANGED scanVars
ScanDelete ==
  \E k \in Keys : Delete(k) /\ stable' = stable \ {k} /\ UNCHANGED <<cursor, seen>>
ScanRehash == (RehashActivateIfNeeded \/ RehashStep) /\ UNCHANGED scanVars

ScanInit == Init /\ cursor = 0 /\ seen = {} /\ stable = {}

ScanNext == Scan \/ ScanPut \/ ScanDelete \/ ScanRehash

ScanSpec == ScanInit /\ [][ScanNext]_allVars

\* serverCron calls rchkKVStoreScan at least once every time it runs.
FairScanSpec == ScanSpec /\ WF_allVars(Scan)

-----------------------------------------------------------------------------
\* The cursor a call returns names a bucket of the primary table as it is at the
\* next call, however far the table has grown in between: the early returns for
\* other cursors are never taken.
CursorInTable == cursor \in 0 .. size-1

\* "When the returned cursor is 0, the iteration is complete": every key that was
\* in the store during the whole pass was reported, although the table doubled
\* and the callback deleted keys on the way.
ScanComplete == cursor = 0 => stable \subseteq seen

\* The next call reports no such key again.
StableReportedOnce == cursor \in 1 .. size-1 => Reported(cursor) \cap seen \cap stable = {}

\* The bit operations of the code compute the reversed increment of ReverseCursor,
\* which stands for them in ScanStep: for the cursor and every table of up to
\* 2^MaxBits buckets it may meet.
CodeIsRevIncremented ==
  \A b \in 0 .. MaxBits :
    cursor < 2^b =>
      CursorAfter(WordOf(cursor), WordOf(2^b - 1)) = WordOf(RevIncremented(cursor, 2^b))

\* A pass ends: the table cannot outgrow the cursor for ever.
PassEnds == cursor # 0 ~> cursor = 0
=============================================================================
