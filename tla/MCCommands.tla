------------------------------- MODULE MCCommands -------------------------------
(* Commands on an instance small enough for TLC. *)
EXTENDS Commands
================================================================================
