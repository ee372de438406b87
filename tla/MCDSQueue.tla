------------------------------- MODULE MCDSQueue -------------------------------
(* DSQueue on an instance small enough for TLC: the ring wraps around, and   *)
(* Word is the least one that pos + length still fits into.                  *)
EXTENDS DSQueue
================================================================================
