----------------------------- MODULE MCKVStore -----------------------------
(* Constants of the TLC runs of KVStore.                                    *)
EXTENDS KVStore, TLC

CONSTANTS k1, k2, k3, k4, v1, v2

\* k1 and k2 share a chain in tables of up to 4 buckets and part at 8; k3 and
\* k4 share one in tables of up to 2 and part at 4.
MCHash == k1 :> 0 @@ k2 :> 4 @@ k3 :> 1 @@ k4 :> 3

MCKeys == {k1, k2, k3, k4}

=============================================================================
