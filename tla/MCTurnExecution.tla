-------------------------- MODULE MCTurnExecution --------------------------
(* Requests of one session: two or three retries of one turn, the others   *)
(* of a second turn, served by one process or by two.                      *)
EXTENDS TurnExecution, TLC

CONSTANTS r1, r2, r3, p1, p2, k1, k2

OneProc == [r \in Requests |-> p1]
TwoProcs == [r \in Requests |-> IF r = r2 THEN p2 ELSE p1]
OneKey == [r \in Requests |-> k1]
TwoKeys == [r \in Requests |-> IF r = r3 THEN k2 ELSE k1]
=============================================================================
