--------------------------- MODULE MCTurnPipeline ---------------------------
(***************************************************************************)
(* Two turns beside each other, one of them an audit and one streamed, or  *)
(* one turn alone, which may be an audit: its writes may fail, it is tried *)
(* again, and it has more budgets.                                         *)
(***************************************************************************)
EXTENDS TurnPipeline, TLC

CONSTANTS
    LoneTurns,      \* the turns that come alone
    LoneFallible    \* the writes of them that may fail

\* An audit leaves the cap to its budget, the others ask for one.
MCAsked == [t \in Turns |-> IF t \in AuditTurns THEN 0 ELSE 512]

\* A turn is tried again, and its writes fail, where it is alone.
MCAttempts == [t \in Turns |-> IF t \in LoneTurns THEN 2 ELSE 1]
MCFallible == [t \in Turns |-> IF t \in LoneTurns THEN LoneFallible ELSE {}]
MCBudgets == [t \in Turns |-> IF t \in LoneTurns THEN {100, 300} ELSE {256}]

\* Turns that come: the two of a pair, or a lone one.
Arrivals == {Turns \ LoneTurns} \cup {{t} : t \in LoneTurns}
=============================================================================
