------------------------------ MODULE MCGoals ------------------------------
(* Goals on a small instance for TLC.                                      *)
EXTENDS Goals, TLC

CONSTANTS loop, agent

OneLoop    == [a \in Actors |-> loop]
TwoThreads == [a \in Actors |-> IF a \in Tooling THEN loop ELSE agent]
=============================================================================
