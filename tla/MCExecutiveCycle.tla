------------------------- MODULE MCExecutiveCycle -------------------------
(* ExecutiveCycle on a small instance for TLC.                             *)
EXTENDS ExecutiveCycle, TLC

Agent(plan, planned, dry) ==
    [chat |-> FALSE, dry |-> dry, planned |-> planned, plan |-> plan,
     nodes |-> {}, long |-> FALSE, followups |-> planned]
Chat(plan, planned, nodes, long) ==
    [chat |-> TRUE, dry |-> FALSE, planned |-> planned, plan |-> plan,
     nodes |-> nodes, long |-> long, followups |-> TRUE]

CONSTANTS c1, c2

(* The first cycle may be any, the second shares the long-horizon task.    *)
Long ==
    {Chat({"reason", "memory_query"}, TRUE, TurnNodes, TRUE),
     Chat({"reason", "learn"}, FALSE, TurnNodes, TRUE)}
MCRequests == [c \in {c1, c2} |->
    IF c = c2 THEN {Chat({"reason", "learn"}, FALSE, TurnNodes, TRUE)}
    ELSE Long \cup
        {Agent({"reason", "memory_query"}, TRUE, FALSE),
         Agent({"reason", "memory_query"}, TRUE, TRUE),
         Agent({"reason", "research", "learn"}, TRUE, FALSE),
         Agent({"reason", "learn"}, FALSE, FALSE),
         Chat({"reason", "memory_query", "action"}, TRUE, {}, FALSE),
         Chat({"reason", "memory_query"}, TRUE, {"use_kg"}, FALSE)}]
=============================================================================
