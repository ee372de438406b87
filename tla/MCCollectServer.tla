---------------------------- MODULE MCCollectServer ----------------------------
(* CollectServer on an instance small enough for TLC. *)
EXTENDS CollectServer
================================================================================
