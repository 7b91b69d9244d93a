-------------------------- MODULE ExecutiveCycle --------------------------
(***************************************************************************)
(* One cycle of the executive controller and the two graphs it works on.   *)
(*                                                                         *)
(* The planner's TaskGraph lives in memory: the reasoning loop takes its   *)
(* tasks one by one, marks them, adds follow-ups and gives up at a step    *)
(* limit or a timeout.  The ExecutionGraph of the world knowledge lives in *)
(* the database: the chat turn may build one before it hands over to the   *)
(* agent, the cycle resumes it or makes its own out of the plan, and when  *)
(* the cycle is over its nodes are marked from the cycle's outcome, each   *)
(* with a row in wk_execution_effects that makes the node done for good.   *)
(*                                                                         *)
(* Cycles of several workers run side by side and share the effects of a   *)
(* long-horizon task; a worker may die between any two writes.             *)
(***************************************************************************)
EXTENDS Naturals, FiniteSets

CONSTANTS
    Cycles,       \* cycles of the controller, each run once
    Requests,     \* what each cycle may be asked
    MaxSteps,     \* max_steps of the request
    LongTask,     \* the long-horizon task the user's chat turns work on
    CrashLimit    \* bound: crashes of the process

PlanTypes == {"reason", "memory_query", "research", "learn", "action"}

(* A follow-up is a task of its own, of a type the plan may have as well.  *)
FollowUps == {"more_research", "more_learn"}
Tasks     == PlanTypes \cup FollowUps

(* The nodes apply_knowledge_to_decision puts into the graph of a turn.    *)
TurnNodes == {"verify_stale", "use_kg"}

(* What a cycle is asked: the agent's own request, maybe a dry run, or a   *)
(* hand-off of a chat turn, which may have built a graph of its own nodes  *)
(* and may be about a long-horizon task.  The plan is never only analysis; *)
(* the selected goal may forbid follow-ups.                                *)
Asks ==
    {a \in [chat: BOOLEAN, dry: BOOLEAN, planned: BOOLEAN, plan: SUBSET PlanTypes,
            nodes: SUBSET TurnNodes, long: BOOLEAN, followups: BOOLEAN] :
        /\ "reason" \in a.plan /\ a.plan # {"reason"}
        /\ a.dry => ~a.chat
        /\ a.nodes # {} => a.chat
        /\ a.long => a.nodes # {}}

ASSUME ExecAssumption ==
    /\ Requests \in [Cycles -> SUBSET Asks]
    /\ MaxSteps \in Nat \ {0}
    /\ CrashLimit \in Nat
    /\ {LongTask, "nobody"} \cap Cycles = {}

Nodes     == PlanTypes \cup TurnNodes
Keys      == (Cycles \cup {LongTask}) \X Nodes
Nobody    == "nobody"
TaskState == {"absent", "pending", "running", "completed", "failed", "skipped"}
NodeState == {"absent", "pending", "completed", "failed"}
Phases    == {"idle", "decided", "handed", "planning", "looping", "executing",
              "light", "marking", "inserting", "saving", "failing", "done", "dead"}

VARIABLES
    phase,     \* [Cycles -> Phases] where the cycle is
    ask,       \* [Cycles -> Asks] what the cycle was asked
    task,      \* [Cycles -> [Tasks -> TaskState]] TaskGraph.nodes, in memory
    executed,  \* [Cycles -> Nat] steps of the reasoning loop
    ok,        \* [Cycles -> BOOLEAN] ExecutionResult.ok
    graph,     \* [Cycles -> Graphs] the rows of wk_execution_graphs
    held,      \* [Cycles -> Graphs] the ExecutionGraph object a cycle works on
    at,        \* [Cycles -> Nodes] the node the cycle is marking
    effect,    \* [Keys -> Cycles or nobody] wk_execution_effects: who recorded it
    crashes    \* how often the process has crashed

execVars == <<phase, ask, task, executed, ok, graph, held, at, effect, crashes>>
loopVars == <<task, executed>>
wkVars   == <<graph, held, at, effect>>

NoGraph == [status |-> "none", node |-> [n \in Nodes |-> "absent"], replans |-> 0]
Graphs  == [status: {"none", "pending", "running", "completed", "failed"},
            node: [Nodes -> NodeState], replans: 0 .. 2]

NewGraph(nodes) == [status |-> "pending", replans |-> 0,
                    node |-> [n \in Nodes |-> IF n \in nodes THEN "pending" ELSE "absent"]]

(* The idempotency key of a node: the task's or the turn's for a graph the *)
(* turn has built, the cycle's own for a graph made out of the plan.       *)
Key(c, n) == <<IF ask[c].long THEN LongTask ELSE c, n>>

Done(c, n) == effect[Key(c, n)] # Nobody
In(g, s)   == {n \in Nodes : g.node[n] = s}

ExecInit ==
    /\ phase = [c \in Cycles |-> "idle"]
    /\ ask \in {a \in [Cycles -> Asks] : \A c \in Cycles : a[c] \in Requests[c]}
    /\ task = [c \in Cycles |-> [t \in Tasks |-> "absent"]]
    /\ executed = [c \in Cycles |-> 0]
    /\ ok = [c \in Cycles |-> FALSE]
    /\ graph = [c \in Cycles |-> NoGraph]
    /\ held = [c \in Cycles |-> NoGraph]
    /\ at = [c \in Cycles |-> "reason"]
    /\ effect = [k \in Keys |-> Nobody]
    /\ crashes = 0

Goto(c, p) == phase' = [phase EXCEPT ![c] = p]

-----------------------------------------------------------------------------
(* The durable graph.                                                      *)

(* resume_execution: nodes whose effect is recorded are done, and so is a  *)
(* graph with nothing pending unless it has failed.                        *)
Resumed(c) ==
    LET node == [n \in Nodes |-> IF graph[c].node[n] # "absent" /\ Done(c, n)
                                 THEN "completed" ELSE graph[c].node[n]]
        open == \E n \in Nodes : node[n] = "pending"
    IN  [graph[c] EXCEPT
            !.node = node,
            !.status = IF ~open /\ @ # "failed" THEN "completed"
                       ELSE IF @ \in {"pending", "running"} THEN "running" ELSE @]

Save(c, g) == /\ graph' = [graph EXCEPT ![c] = g]
              /\ held' = [held EXCEPT ![c] = g]

(* mark_node_completed after its effect is there: the node is completed,   *)
(* and the graph when nothing is pending any more.                         *)
Marked(g, n) ==
    LET node == [g.node EXCEPT ![n] = "completed"]
    IN  [g EXCEPT !.node = node,
                  !.status = IF \E m \in Nodes : node[m] = "pending"
                             THEN "running" ELSE "completed"]

(* fail_node_and_replan with a transient error and no alternative tool.    *)
Failed(g, n) ==
    LET node == [g.node EXCEPT ![n] = "failed"]
    IN  IF g.replans >= 2
        THEN [g EXCEPT !.node = node, !.status = "failed"]
        ELSE [g EXCEPT !.node = node, !.status = "running", !.replans = @ + 1]

-----------------------------------------------------------------------------
(* The way to the loop.                                                    *)

(* A chat turn decides; when planning is recommended and the knowledge has *)
(* something to check, it saves a graph of its own nodes.                  *)
Decide(c) ==
    /\ phase[c] = "idle" /\ ask[c].chat
    /\ IF ask[c].nodes = {} THEN UNCHANGED <<graph, held>>
                            ELSE Save(c, NewGraph(ask[c].nodes))
    /\ Goto(c, "decided")
    /\ UNCHANGED <<ask, loopVars, ok, at, effect, crashes>>

(* The turn stays in the chat: nobody comes back to its graph.             *)
StayInChat(c) ==
    /\ phase[c] = "decided"
    /\ Goto(c, "done")
    /\ UNCHANGED <<ask, loopVars, ok, wkVars, crashes>>

(* The hand-off resumes the turn's graph before it calls the controller.   *)
HandOff(c) ==
    /\ phase[c] = "decided"
    /\ IF graph[c].status = "none" THEN UNCHANGED <<graph, held>>
                                   ELSE Save(c, Resumed(c))
    /\ Goto(c, "handed")
    /\ UNCHANGED <<ask, loopVars, ok, at, effect, crashes>>

Entered(c) == phase[c] = "handed" \/ (phase[c] = "idle" /\ ~ask[c].chat)

(* The plan of the cycle, and its binding to a durable graph: the turn's   *)
(* is resumed a second time, otherwise the plan becomes one.               *)
Bind(c) ==
    /\ Entered(c)
    /\ task' = [task EXCEPT ![c] = [t \in Tasks |->
                    IF t \in ask[c].plan THEN "pending" ELSE "absent"]]
    /\ IF graph[c].status # "none"
       THEN Save(c, Resumed(c))
       ELSE Save(c, [NewGraph(ask[c].plan) EXCEPT !.status = "running"])
    /\ Goto(c, IF ask[c].dry THEN "marking"
               ELSE IF ask[c].planned THEN "looping" ELSE "light")
    /\ ok' = [ok EXCEPT ![c] = ask[c].dry]
    /\ UNCHANGED <<ask, executed, at, effect, crashes>>

-----------------------------------------------------------------------------
(* The reasoning loop over the task graph.                                 *)

(* The order of the planner's tasks, by priority as well as in the lists.  *)
Place == [verify_stale |-> 1, use_kg |-> 2, reason |-> 1, memory_query |-> 2,
          research |-> 3, learn |-> 4, action |-> 5]

(* Every planned task waits for the first one; a follow-up waits for none. *)
DependsOn(t) == IF t = "reason" \/ t \in FollowUps THEN {} ELSE {"reason"}

Having(c, s) == {t \in Tasks : task[c][t] = s}
Ready(c)     == {t \in Having(c, "pending") : DependsOn(t) \subseteq Having(c, "completed")}

(* next_ready_task takes the lowest priority number.  The goal's urgency   *)
(* moves planned tasks past the fixed numbers of the follow-ups, so a      *)
(* follow-up may come at any place.                                        *)
Next1(c) == {t \in Ready(c) : \/ t \in FollowUps
                              \/ \A u \in Ready(c) \ FollowUps : Place[t] <= Place[u]}

HasPending(c) == Having(c, "pending") \cup Having(c, "running") # {}
AtLimit(c)    == executed[c] >= MaxSteps

RunTask(c) ==
    /\ phase[c] = "looping"
    /\ HasPending(c) /\ ~AtLimit(c)
    /\ \E t \in Next1(c) : task' = [task EXCEPT ![c][t] = "running"]
    /\ Goto(c, "executing")
    /\ UNCHANGED <<ask, executed, ok, wkVars, crashes>>

(* mark_complete: what depends on a failed task, directly or not, can      *)
(* never become ready and is skipped.                                      *)
MarkComplete(c, t, good) ==
    [u \in Tasks |->
        IF u = t THEN (IF good THEN "completed" ELSE "failed")
        ELSE IF ~good /\ task[c][u] = "pending" /\ t \in DependsOn(u) THEN "skipped"
        ELSE task[c][u]]

(* The follow-ups a result calls for: an empty memory asks for research, a *)
(* research with facts asks for learning them.                             *)
Wanted(t, found) ==
    CASE t = "memory_query" /\ ~found                      -> {"more_research"}
      [] t \in {"research", "more_research"} /\ found      -> {"more_learn"}
      [] OTHER                                             -> {}

SameType(t) == IF t = "more_research" THEN {"research", "more_research"}
                                      ELSE {"learn", "more_learn"}

(* A variant of FollowUp: it does not look at what the graph already has.  *)
FollowUpAlways(state, t, found) == Wanted(t, found)

(* _generate_next_step adds one unless the graph has a task of that type   *)
(* that is waiting, running or completed.                                  *)
FollowUp(state, t, found) ==
    {f \in Wanted(t, found) : \A u \in SameType(f) :
        state[u] \notin {"pending", "running", "completed"}}

TaskEnds(c) ==
    /\ phase[c] = "executing"
    /\ \E t \in Having(c, "running"), good \in BOOLEAN, found \in BOOLEAN :
          LET state == MarkComplete(c, t, good)
              more  == IF ask[c].followups THEN FollowUp(state, t, found /\ good) ELSE {}
          IN  task' = [task EXCEPT ![c] = [u \in Tasks |->
                           IF u \in more THEN "pending" ELSE state[u]]]
    /\ executed' = [executed EXCEPT ![c] = @ + 1]
    /\ Goto(c, "looping")
    /\ UNCHANGED <<ask, ok, wkVars, crashes>>

(* The loop is over: nothing is left, the limit is reached, the timeout is *)
(* found to have passed, or nothing that is left is ready.  The result is  *)
(* ok when no task has failed, whatever is left.                           *)
LoopEnds(c) ==
    /\ phase[c] = "looping"
    /\ \/ ~HasPending(c)
       \/ AtLimit(c)
       \/ executed[c] > 0       \* the timeout: at least a second, some task ran
       \/ Next1(c) = {}
    /\ ok' = [ok EXCEPT ![c] = Having(c, "failed") = {}]
    /\ Goto(c, "marking")
    /\ UNCHANGED <<ask, loopVars, wkVars, crashes>>

(* The other strategies visit every planned task once and then run a tick  *)
(* or a direct cycle, whose outcome alone is the result.                   *)
LightPass(c) ==
    /\ phase[c] = "light"
    /\ \E bad \in SUBSET (ask[c].plan \cap {"memory_query", "learn"}), good \in BOOLEAN :
          /\ task' = [task EXCEPT ![c] = [t \in Tasks |->
                          IF t \in bad THEN "failed"
                          ELSE IF t \in ask[c].plan THEN "completed" ELSE "absent"]]
          /\ ok' = [ok EXCEPT ![c] = good]
    /\ Goto(c, "marking")
    /\ UNCHANGED <<ask, executed, wkVars, crashes>>

(* A tool raises what the loop does not catch, or the turn's timeout       *)
(* cancels the cycle at an await: the graph stays as it was saved.         *)
AbandonGraph(c) ==
    /\ phase[c] \in {"executing", "light"}
    /\ Goto(c, "dead")
    /\ UNCHANGED <<ask, loopVars, ok, wkVars, crashes>>

-----------------------------------------------------------------------------
(* The marking of the durable graph from the outcome of the cycle.         *)

Open(c) == In(held[c], "pending")


(* The nodes are marked in the order of the graph's list.                  *)
FirstOpen(c) == {n \in Open(c) : \A m \in Open(c) : Place[n] <= Place[m]}

(* An ok cycle marks the next pending node; when its effect is recorded    *)
(* already the node is only synchronised.                                  *)
MarkKnown(c) ==
    /\ phase[c] = "marking" /\ ok[c]
    /\ \E n \in FirstOpen(c) : Done(c, n) /\ Save(c, Marked(held[c], n))
    /\ UNCHANGED <<phase, ask, loopVars, ok, at, effect, crashes>>

MarkNew(c) ==
    /\ phase[c] = "marking" /\ ok[c]
    /\ \E n \in FirstOpen(c) : ~Done(c, n) /\ at' = [at EXCEPT ![c] = n]
    /\ Goto(c, "inserting")
    /\ UNCHANGED <<ask, loopVars, ok, graph, held, effect, crashes>>

(* record_effect inserts under the unique index of the key.                *)
RecordEffect(c) ==
    /\ phase[c] = "inserting"
    /\ ~Done(c, at[c])
    /\ effect' = [effect EXCEPT ![Key(c, at[c])] = c]
    /\ Goto(c, "saving")
    /\ UNCHANGED <<ask, loopVars, ok, graph, held, at, crashes>>

(* Another worker was faster between the look and the insert: the error    *)
(* ends the marking, the other nodes stay as they are.                     *)
InsertConflict(c) ==
    /\ phase[c] = "inserting"
    /\ Done(c, at[c])
    /\ Goto(c, "done")
    /\ UNCHANGED <<ask, loopVars, ok, wkVars, crashes>>

SaveNode(c) ==
    /\ phase[c] = "saving"
    /\ Save(c, Marked(held[c], at[c]))
    /\ Goto(c, "marking")
    /\ UNCHANGED <<ask, loopVars, ok, at, effect, crashes>>

(* A cycle that is not ok fails the first pending node.                    *)
FailNode(c) ==
    /\ phase[c] = "marking" /\ ~ok[c]
    /\ \E n \in FirstOpen(c) : Save(c, Failed(held[c], n))
    /\ Goto(c, "done")
    /\ UNCHANGED <<ask, loopVars, ok, at, effect, crashes>>

Finish(c) ==
    /\ phase[c] = "marking"
    /\ Open(c) = {}
    /\ Goto(c, "done")
    /\ UNCHANGED <<ask, loopVars, ok, wkVars, crashes>>

(* The process dies: what the cycles hold in memory is gone, and nothing   *)
(* comes back to their graphs.                                             *)
ExecCrash ==
    /\ crashes < CrashLimit
    /\ crashes' = crashes + 1
    /\ phase' = [c \in Cycles |-> IF phase[c] \in {"idle", "done"} THEN phase[c] ELSE "dead"]
    /\ UNCHANGED <<ask, loopVars, ok, wkVars>>

Step(c) ==
    \/ Decide(c) \/ StayInChat(c) \/ HandOff(c) \/ Bind(c)
    \/ RunTask(c) \/ TaskEnds(c) \/ LoopEnds(c) \/ LightPass(c) \/ AbandonGraph(c)
    \/ MarkKnown(c) \/ MarkNew(c) \/ RecordEffect(c) \/ InsertConflict(c)
    \/ SaveNode(c) \/ FailNode(c) \/ Finish(c)

ExecNext == ExecCrash \/ \E c \in Cycles : Step(c)

ExecSpec == ExecInit /\ [][ExecNext]_execVars

(* A cycle that runs goes on: its coroutine is scheduled, a tool answers   *)
(* or is cancelled by the turn's timeout.                                  *)
ExecFairSpec == ExecSpec /\ \A c \in Cycles : WF_execVars(phase[c] # "idle" /\ Step(c))

-----------------------------------------------------------------------------
(* Every variable has its shape (the type invariant of this module).       *)
ExecTypeOK ==
    /\ phase \in [Cycles -> Phases]
    /\ \A c \in Cycles : ask[c] \in Requests[c]
    /\ task \in [Cycles -> [Tasks -> TaskState]]
    /\ executed \in [Cycles -> 0 .. MaxSteps]
    /\ ok \in [Cycles -> BOOLEAN]
    /\ graph \in [Cycles -> Graphs]
    /\ held \in [Cycles -> Graphs]
    /\ at \in [Cycles -> Nodes]
    /\ effect \in [Keys -> Cycles \cup {Nobody}]
    /\ crashes \in 0 .. CrashLimit

(* The branch "pending tasks without ready node" of the reasoning loop is  *)
(* never taken: whatever fails and whatever is added, a task that is left  *)
(* can be run (reasoning_engine.py, the deadlock branch of run).           *)
NeverDeadlocked ==
    \A c \in Cycles : phase[c] = "looping" /\ HasPending(c) => Next1(c) # {}

(* No work is done twice in a cycle: when a follow-up completes, the task  *)
(* of its type in the plan has not, and the other way round               *)
(* (_generate_next_step and next_ready_task).                              *)
NoWorkTwice ==
    \A c \in Cycles, f \in FollowUps :
        Cardinality(SameType(f) \cap Having(c, "completed")) <= 1

(* A node saved as completed has its effect recorded, also when the cycle  *)
(* died in the middle of the marking: what resume_execution finds done     *)
(* includes what the graph says (mark_node_completed, resume_execution).   *)
CompletedHasEffect ==
    \A c \in Cycles : \A n \in In(graph[c], "completed") : Done(c, n)

(* The status of a saved graph agrees with its nodes: completed means that *)
(* nothing is pending, and when nothing is pending and nothing failed a    *)
(* graph that was marked says completed (_finalize_wk_execution_graph).    *)
StatusAgrees ==
    \A c \in Cycles :
        /\ graph[c].status = "completed" => In(graph[c], "pending") = {}
        /\ graph[c].status = "running" => In(graph[c], "pending") \cup In(graph[c], "failed") # {}

(* An effect is recorded only by a cycle whose result is ok, so a failed   *)
(* cycle can never make a node count as done for the next one that shares  *)
(* its key (_finalize_wk_execution_graph, resume_execution).               *)
EffectOfSuccess ==
    \A k \in Keys : effect[k] # Nobody => ok[effect[k]]

(* What a cycle has done, in its tasks, its saved graph and the table of   *)
(* effects, is told the same way by all three.                             *)
CycleAgrees ==
    /\ ExecTypeOK
    /\ NoWorkTwice /\ NeverDeadlocked
    /\ CompletedHasEffect /\ StatusAgrees /\ EffectOfSuccess

(* Every cycle that has begun ends, whatever its tools and the cycles it   *)
(* shares effects with do (run_cycle, the reasoning loop and the marking). *)
CyclesEnd ==
    \A c \in Cycles : phase[c] # "idle" ~> phase[c] \in {"done", "dead"}

(* A dry run "planned graph generated (no execution)" leaves nothing in    *)
(* wk_execution_effects (executive_controller.py, the dry_run branches).   *)
DryRunHasNoEffect ==
    \A k \in Keys : effect[k] # Nobody => ~ask[effect[k]].dry
=============================================================================
