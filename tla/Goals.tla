------------------------------- MODULE Goals -------------------------------
(***************************************************************************)
(* The persistent goals of a user and everyone who changes them: the       *)
(* executive cycles, which expire, create, activate and select goals       *)
(* before they run and link their result to the selected goal afterwards,  *)
(* and the goal tools, which a chat turn calls in between.                 *)
(*                                                                         *)
(* Every change goes through update_goal, which reads the row, validates   *)
(* the transition against what it read and then writes the whole row.      *)
(* The engine is synchronous: actors of one event loop cannot interleave   *)
(* within a call, actors of different threads can between any two queries. *)
(***************************************************************************)
EXTENDS Naturals, FiniteSets

CONSTANTS
    GoalIds,      \* rows the goals table may get
    Titles,       \* similar goals share a title
    Cycling,      \* executive cycles
    Tooling,      \* calls of the goal tools
    GoalThreads,  \* the event loop, the agent's worker thread
    ThreadOf,     \* [Actors -> GoalThreads]
    Full,         \* bound: the steps of progress to 1.0
    Again         \* bound: how often a cycle is run

Actors == Cycling \cup Tooling

ASSUME GoalsAssumption ==
    /\ IsFiniteSet(GoalIds)
    /\ Cycling \cap Tooling = {}
    /\ ThreadOf \in [Actors -> GoalThreads]
    /\ Full \in Nat \ {0}
    /\ Again \in Nat

Open      == {"proposed", "active", "blocked", "scheduled"}
Working   == {"active", "blocked", "scheduled"}
Closed    == {"completed", "failed", "expired", "cancelled"}
Statuses  == Open \cup Closed

(* A variant of Allowed: whatever is closed may be opened again.           *)
AllowedReopening(s) ==
    {s} \cup IF s \in Closed THEN {"active"} ELSE Statuses \ {"proposed"}

(* _ALLOWED_TRANSITIONS; a status may always be written over itself.       *)
Allowed(s) ==
    {s} \cup
    CASE s = "proposed"  -> {"active", "scheduled", "cancelled", "expired"}
      [] s = "scheduled" -> {"active", "blocked", "cancelled", "expired"}
      [] s = "active"    -> {"blocked", "scheduled", "completed", "failed",
                             "cancelled", "expired"}
      [] s = "blocked"   -> {"active", "scheduled", "failed", "cancelled", "expired"}
      [] OTHER           -> {}

NoGoal == [status |-> "none", title |-> "none", progress |-> 0, errors |-> 0]
Rows   == [status: Statuses \cup {"none"}, title: Titles \cup {"none"},
           progress: 0 .. Full, errors: 0 .. 3]

None == "none"

(* An update: for every column the value to write, or nothing to keep it.  *)
Updates == [goal: GoalIds, status: SUBSET Statuses, progress: SUBSET (0 .. Full),
            errors: SUBSET (0 .. 3)]
NoUpdate == [goal |-> None]
Keep     == {}
Pick(new, old) == IF new = Keep THEN old ELSE CHOOSE v \in new : TRUE

VARIABLES
    goal,      \* [GoalIds -> Rows] the rows of the table goals
    pc,        \* [Actors -> STRING] where an actor is
    overdue,   \* [Actors -> SUBSET GoalIds] rows expire_goals has fetched
    chosen,    \* [Actors -> GoalIds or none] the created or the selected goal
    found,     \* [Actors -> Rows] the row an actor holds outside update_goal
    upd,       \* [Actors -> Updates] the update under way
    seen,      \* [Actors -> Rows] the row update_goal has read
    runs,      \* [Cycling -> Nat] cycles run so far
    failures   \* [GoalIds -> Nat] failed cycles linked to a goal

goalVars == <<goal, pc, overdue, chosen, found, upd, seen, runs, failures>>

(* The points where an actor awaits: everywhere else it holds its thread.  *)
Awaiting == {"idle", "running"}

HasThread(a) == \A b \in Actors \ {a} :
    ThreadOf[b] = ThreadOf[a] => pc[b] \in Awaiting

GoalsInit ==
    /\ goal = [g \in GoalIds |-> NoGoal]
    /\ pc = [a \in Actors |-> "idle"]
    /\ overdue = [a \in Actors |-> {}]
    /\ chosen = [a \in Actors |-> None]
    /\ found = [a \in Actors |-> NoGoal]
    /\ upd = [a \in Actors |-> NoUpdate]
    /\ seen = [a \in Actors |-> NoGoal]
    /\ runs = [c \in Cycling |-> 0]
    /\ failures = [g \in GoalIds |-> 0]

Goto(a, p) == pc' = [pc EXCEPT ![a] = p]

-----------------------------------------------------------------------------
(* update_goal, called from several places.  "back" names the step after.  *)

Begin(a, u, back) ==
    /\ upd' = [upd EXCEPT ![a] = u]
    /\ Goto(a, back)

Update(g, s, p, e) == [goal |-> g, status |-> s, progress |-> p, errors |-> e]

(* The places with an update under way, and what follows it.               *)
After == [expire |-> "expiring", dedupe |-> "activating", activate |-> "selecting",
          link |-> "idle", tool |-> "idle"]

(* The caller goes on; at the end of its call it holds nothing any more.   *)
End(a) ==
    /\ Goto(a, After[pc[a]])
    /\ upd' = [upd EXCEPT ![a] = NoUpdate]
    /\ found' = [found EXCEPT ![a] = NoGoal]
    /\ chosen' = [chosen EXCEPT ![a] = IF After[pc[a]] = "idle" THEN None ELSE @]

ReadRow(a) ==
    /\ pc[a] \in DOMAIN After /\ seen[a] = NoGoal /\ HasThread(a)
    /\ LET row == goal[upd[a].goal]
           to  == Pick(upd[a].status, row.status)
       IN  IF to \in Allowed(row.status)
           THEN /\ seen' = [seen EXCEPT ![a] = row]
                /\ UNCHANGED <<pc, upd>>
                /\ UNCHANGED <<chosen, found>>
           ELSE End(a) /\ UNCHANGED seen          \* ValueError, the caller goes on
    /\ UNCHANGED <<goal, overdue, runs, failures>>

WriteRow(a) ==
    /\ pc[a] \in DOMAIN After /\ seen[a] # NoGoal /\ HasThread(a)
    /\ goal' = [goal EXCEPT ![upd[a].goal] =
            [title    |-> @.title,
             status   |-> Pick(upd[a].status, seen[a].status),
             progress |-> Pick(upd[a].progress, seen[a].progress),
             errors   |-> Pick(upd[a].errors, seen[a].errors)]]
    /\ End(a)
    /\ seen' = [seen EXCEPT ![a] = NoGoal]
    /\ UNCHANGED <<overdue, runs, failures>>

-----------------------------------------------------------------------------
(* build_goal_context.                                                     *)

(* expire_goals fetches the open goals whose time has passed, any of them. *)
StartCycle(c) ==
    /\ pc[c] = "idle" /\ HasThread(c) /\ runs[c] < Again
    /\ runs' = [runs EXCEPT ![c] = @ + 1]
    /\ \E due \in SUBSET {g \in GoalIds : goal[g].status \in Open} :
          overdue' = [overdue EXCEPT ![c] = due]
    /\ Goto(c, "expiring")
    /\ UNCHANGED <<goal, chosen, found, upd, seen, failures>>

ExpireOne(c) ==
    /\ pc[c] = "expiring" /\ overdue[c] # {} /\ HasThread(c)
    /\ \E g \in overdue[c] :
          /\ overdue' = [overdue EXCEPT ![c] = @ \ {g}]
          /\ Begin(c, Update(g, {"expired"}, Keep, Keep), "expire")
    /\ UNCHANGED <<goal, chosen, found, seen, runs, failures>>

(* The event suggests no goal: the cycle goes on to the selection.         *)
NoCandidate(c) ==
    /\ pc[c] = "expiring" /\ overdue[c] = {} /\ HasThread(c)
    /\ Goto(c, "selecting")
    /\ UNCHANGED <<goal, overdue, chosen, found, upd, seen, runs, failures>>

(* A variant of Similar: only goals that are worked on count.              *)
SimilarWorking(t) == {g \in GoalIds : goal[g].title = t /\ goal[g].status \in Working}

Similar(t) == {g \in GoalIds : goal[g].title = t /\ goal[g].status \in Open}
Unused     == {g \in GoalIds : goal[g] = NoGoal}

(* create_goal looks for a similar open goal.  A goal it finds is updated  *)
(* with its metadata as it was found.                                      *)
LookFor(a, t) ==
    IF Similar(t) = {}
    THEN /\ found' = [found EXCEPT ![a] = [NoGoal EXCEPT !.title = t, !.status = "proposed"]]
         /\ Goto(a, "inserting")
         /\ UNCHANGED <<chosen, upd>>
    ELSE \E g \in Similar(t) :
            /\ chosen' = [chosen EXCEPT ![a] = g]
            /\ Begin(a, Update(g, Keep, Keep, {goal[g].errors}),
                     IF a \in Cycling THEN "dedupe" ELSE "tool")
            /\ UNCHANGED found

Candidate(c) ==
    /\ pc[c] = "expiring" /\ overdue[c] = {} /\ HasThread(c)
    /\ \E t \in Titles : LookFor(c, t)
    /\ UNCHANGED <<goal, overdue, seen, runs, failures>>

InsertGoal(a) ==
    /\ pc[a] = "inserting" /\ HasThread(a)
    /\ \E g \in Unused :
          /\ goal' = [goal EXCEPT ![g] = found[a]]
          /\ chosen' = [chosen EXCEPT ![a] = IF a \in Cycling THEN g ELSE None]
    /\ found' = [found EXCEPT ![a] = NoGoal]
    /\ Goto(a, IF a \in Cycling THEN "activating" ELSE "idle")
    /\ UNCHANGED <<overdue, upd, seen, runs, failures>>

(* A goal that is still proposed is activated, when the candidate is sure  *)
(* enough.                                                                 *)
Activate(c) ==
    /\ pc[c] = "activating" /\ HasThread(c)
    /\ goal[chosen[c]].status = "proposed"
    /\ Begin(c, Update(chosen[c], {"active"}, Keep, Keep), "activate")
    /\ UNCHANGED <<goal, overdue, chosen, found, seen, runs, failures>>

LeaveProposed(c) ==
    /\ pc[c] = "activating" /\ HasThread(c)
    /\ Goto(c, "selecting")
    /\ UNCHANGED <<goal, overdue, chosen, found, upd, seen, runs, failures>>

(* select_goal_for_cycle: the best of the goals under work, by its score.  *)
Select(c) ==
    /\ pc[c] = "selecting" /\ HasThread(c)
    /\ LET working == {g \in GoalIds : goal[g].status \in Working}
       IN  IF working = {}
           THEN chosen' = [chosen EXCEPT ![c] = None] /\ Goto(c, "idle")
           ELSE /\ \E g \in working : chosen' = [chosen EXCEPT ![c] = g]
                /\ Goto(c, "running")
    /\ UNCHANGED <<goal, overdue, found, upd, seen, runs, failures>>

-----------------------------------------------------------------------------
(* link_goal_to_result, after the cycle has run.                           *)

LinkReads(c) ==
    /\ pc[c] = "running" /\ HasThread(c)
    /\ found' = [found EXCEPT ![c] = goal[chosen[c]]]
    /\ Goto(c, "linking")
    /\ UNCHANGED <<goal, overdue, chosen, upd, seen, runs, failures>>

Grown(p, delta) == IF p + delta >= Full THEN Full ELSE p + delta

(* The result is ok: progress grows by what the cycle did, never all of it *)
(* at once, and at its end the goal is completed.                          *)
LinkSuccess(c) ==
    /\ pc[c] = "linking" /\ HasThread(c)
    /\ \E delta \in 0 .. Full - 1 :
          LET p == Grown(found[c].progress, delta)
          IN  Begin(c, Update(chosen[c], IF p >= Full THEN {"completed"} ELSE Keep, {p}, Keep),
                    "link")
    /\ UNCHANGED <<goal, overdue, chosen, found, seen, runs, failures>>

ErrorCount(n) == IF n >= 3 THEN 3 ELSE n

ErrorsAfter(row) == ErrorCount(row.errors + 1)

(* The result is not ok: the second error blocks the goal, the third fails *)
(* it.  fail_goal writes only the status, so the count stays at two.       *)
LinkFailure(c) ==
    /\ pc[c] = "linking" /\ HasThread(c)
    /\ failures' = [failures EXCEPT ![chosen[c]] = ErrorCount(@ + 1)]
    /\ LET n == ErrorsAfter(found[c])
       IN  Begin(c, IF n >= 3 THEN Update(chosen[c], {"failed"}, Keep, Keep)
                    ELSE Update(chosen[c], IF n >= 2 THEN {"blocked"} ELSE {found[c].status},
                                Keep, {n}),
                 "link")
    /\ UNCHANGED <<goal, overdue, chosen, found, seen, runs>>

-----------------------------------------------------------------------------
(* The goal tools: goal.create, goal.update, goal.complete, goal.fail.     *)

ToolCreates(a) ==
    /\ pc[a] = "idle" /\ HasThread(a)
    /\ \E t \in Titles : LookFor(a, t)
    /\ UNCHANGED <<goal, overdue, seen, runs, failures>>

ToolUpdates(a) ==
    /\ pc[a] = "idle" /\ HasThread(a)
    /\ \E g \in GoalIds \ Unused :
          \/ \E s \in Statuses :
                Begin(a, Update(g, {s}, Keep, Keep), "tool")
          \/ Begin(a, Update(g, {"completed"}, {Full}, Keep), "tool")
    /\ UNCHANGED <<goal, overdue, chosen, found, seen, runs, failures>>

GoalsNext ==
    \/ \E a \in Actors : ReadRow(a) \/ WriteRow(a) \/ InsertGoal(a)
    \/ \E c \in Cycling :
          \/ StartCycle(c) \/ ExpireOne(c) \/ NoCandidate(c) \/ Candidate(c)
          \/ Activate(c) \/ LeaveProposed(c) \/ Select(c)
          \/ LinkReads(c) \/ LinkSuccess(c) \/ LinkFailure(c)
    \/ \E a \in Tooling : ToolCreates(a) \/ ToolUpdates(a)

GoalsSpec == GoalsInit /\ [][GoalsNext]_goalVars

-----------------------------------------------------------------------------
(* Every variable has its shape (the type invariant of this module).       *)
GoalsTypeOK ==
    /\ goal \in [GoalIds -> Rows]
    /\ pc \in [Actors -> {"idle", "expiring", "expire", "dedupe", "inserting", "activating",
                          "activate", "selecting", "running", "linking", "link", "tool"}]
    /\ overdue \in [Actors -> SUBSET GoalIds]
    /\ chosen \in [Actors -> GoalIds \cup {None}]
    /\ found \in [Actors -> Rows]
    /\ upd \in [Actors -> Updates \cup {NoUpdate}]
    /\ seen \in [Actors -> Rows]
    /\ runs \in [Cycling -> 0 .. Again]
    /\ failures \in [GoalIds -> 0 .. 3]

(* A goal that is completed, failed, expired or cancelled stays so: a      *)
(* cycle that ends late or a tool called late does not open it again       *)
(* (_ALLOWED_TRANSITIONS, link_goal_to_result).                            *)
ClosedStaysClosed ==
    [][\A g \in GoalIds : goal[g].status \in Closed
                              => goal'[g].status = goal[g].status]_goalVars

(* At most one open goal has a given title, however often its candidate    *)
(* comes back and however its predecessors ended (create_goal).            *)
OneOpenPerTitle ==
    \A g, h \in GoalIds :
        /\ goal[g].status \in Open /\ goal[h].status \in Open
        /\ goal[g].title = goal[h].title
        => g = h

(* A goal's error count never exceeds the failed cycles linked to it, so   *)
(* no goal is blocked or given up for errors it did not have, whichever    *)
(* updates get lost (link_goal_to_result, update_goal, create_goal).       *)
ErrorsAreReal ==
    \A g \in GoalIds : goal[g].errors <= failures[g]

(* What the planner reads of the goals is one goal per title with the      *)
(* errors it really had.                                                   *)
GoalsAgree == GoalsTypeOK /\ OneOpenPerTitle /\ ErrorsAreReal
=============================================================================
