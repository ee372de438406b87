------------------------------- MODULE MCSessions -------------------------------
(* Every connection is one of the same AP, which reconnects. *)
EXTENDS Sessions

CONSTANTS m1, s1, w1, w2

MCMac == [s \in Sockets |-> m1]
MCWorkerOf == [s \in Sockets |-> IF s = s1 \/ w2 \notin Workers THEN w1 ELSE w2]
MCMaxMsgs == [s \in Sockets |-> IF s = s1 THEN 2 ELSE 1]
================================================================================
