---------------------------- MODULE MCCollectClient ----------------------------
(* Three sessions that share a bucket at sizes 2 and 4; size 8 parts them. *)
EXTENDS CollectClient, TLC

CONSTANTS k1, k2, k3

MCHash == (k1 :> 0) @@ (k2 :> 4) @@ (k3 :> 8)
================================================================================
