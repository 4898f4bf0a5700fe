------------------------------ MODULE MCServer ------------------------------
(* Constants of the TLC runs of Server.                                     *)
EXTENDS Server, TLC

CONSTANTS k1, k2, v1

\* The keys share a chain in a table of 2 buckets and part in one of 4.
MCHash == k1 :> 1 @@ k2 :> 3
=============================================================================
