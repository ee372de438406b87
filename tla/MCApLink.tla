-------------------------------- MODULE MCApLink --------------------------------
(* ApLink on an instance small enough for TLC. *)
EXTENDS ApLink
================================================================================
