---------------------------- MODULE MCKeyspace -----------------------------
(* Constants of the TLC runs of Keyspace.                                   *)
EXTENDS Keyspace, TLC

CONSTANTS k1, k2, v1, v2

\* Two keys in the first and the last of three slots.
MCSlot == k1 :> 0 @@ k2 :> 2
=============================================================================
