------------------------------ MODULE MCVapControl ------------------------------
EXTENDS VapControl, TLC

CONSTANTS a1, a2, a3, m1, m2, u1

MCApMac == [a \in Agents |-> IF a = a2 THEN m2 ELSE m1]
MCStaMac == [st \in Stations |-> u1]
CopySymmetry == Permutations(Copies)
================================================================================
