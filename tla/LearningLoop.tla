----------------------------- MODULE LearningLoop -----------------------------
(***************************************************************************)
(* What a user's turns teach (aihub/adaptive_learning): the outcome of      *)
(* each turn, the feedback that a later message gives to an earlier turn,  *)
(* the lessons with their reinforcement and decay, the metrics, and the    *)
(* replay of stored turns (replay.py, run by scripts/replay_turns.py).     *)
(*                                                                         *)
(* process_turn_learning has no await: in one process it starts for one turn *)
(* at a time.  It may break off between any two of its statements, by a    *)
(* crash or by an exception, which it swallows; and a turn whose gate did  *)
(* not record its end is run again by a retry, with the same turn_id.      *)
(* Rewards are not modelled, only whether feedback has moved them;         *)
(* confidences are steps up and down.                                      *)
(***************************************************************************)
EXTENDS Naturals, FiniteSets

CONSTANTS
    TurnCount,      \* the turns of the session are 1 .. TurnCount
    Starts,         \* bound on the starts of a turn
    Lessons,        \* the lessons that attributions can propose
    Ceiling,        \* the ceiling of a lesson's confidence (0.95)
    Low             \* below it a lesson is suppressed (0.2)

ASSUME LearningAssumption ==
    TurnCount \in Nat /\ Starts \in Nat /\ Ceiling \in Nat \ {0} /\ Low \in 0 .. Ceiling

VARIABLES
    says,           \* what the message of each turn says of an earlier one
    outcomes,       \* turn_outcomes
    feedback,       \* delayed_feedback: the turns that a row has as its target
    lesson,         \* learned_lessons
    sampled,        \* the turns that the metrics have counted, once or more
    learner,        \* what process_turn_learning is doing
    starts,         \* how often the learning of each turn has started
    rewritten,      \* history: turns whose outcome was written again
    orphaned        \* history: turns fed by a run that broke off right after

learnVars ==
    <<says, outcomes, feedback, lesson, sampled, learner, starts, rewritten, orphaned>>

Heard == 1 .. TurnCount
Unlearned == [at |-> "none"]
Free == [at |-> "free"]
Seasoned == 3       \* reinforcements after which decay never suppresses

Outcomes == {t \in Heard : outcomes[t] # "none"}

LearnInit ==
    /\ says = [t \in Heard |-> "unsaid"]
    /\ outcomes = [t \in Heard |-> "none"]
    /\ feedback = {}
    /\ lesson = [l \in Lessons |-> Unlearned]
    /\ sampled = {}
    /\ learner = Free
    /\ starts = [t \in Heard |-> 0]
    /\ rewritten = {} /\ orphaned = {}

\* The learner at its first statement.  A replay's turn_id is the turn's with
\* the prefix "replay:".
Learning(t, replay) ==
    [at |-> "detect", turn |-> t, replay |-> replay, target |-> 0, todo |-> {}]

LearnAt(at) == learner' = [learner EXCEPT !.at = at]

---------------------------------------------------------------------------
(***************************************************************************)
(* The starts.                                                               *)
(***************************************************************************)
\* The write-back of a turn begins: of the next turn, or of one whose end was
\* not recorded.  What a message says does not change when it is retried.
StartTurn(t) ==
    /\ learner = Free /\ starts[t] < Starts
    /\ t > 1 => starts[t - 1] > 0
    /\ starts' = [starts EXCEPT ![t] = @ + 1]
    /\ \E s \in {"nothing", "verdict"} :
          /\ says[t] \in {"unsaid", s}
          /\ says' = [says EXCEPT ![t] = s]
    /\ learner' = Learning(t, FALSE)
    /\ UNCHANGED <<outcomes, feedback, lesson, sampled, rewritten, orphaned>>

\* replay_user_turns, one stored outcome after the other, mode "evaluation".
StartReplay(t) ==
    /\ learner = Free /\ t \in Outcomes
    /\ learner' = Learning(t, TRUE)
    /\ UNCHANGED <<says, outcomes, feedback, lesson, sampled, starts, rewritten, orphaned>>

LearningEnds ==
    /\ learner # Free
    /\ learner' = Free
    /\ orphaned' = orphaned \cup {t \in {learner.target} : learner.at = "record"}
    /\ UNCHANGED <<says, outcomes, feedback, lesson, sampled, starts, rewritten>>

---------------------------------------------------------------------------
(***************************************************************************)
(* detect_delayed_feedback and apply_delayed_feedback.                     *)
(***************************************************************************)
\* The recent outcomes of the session but the giver's own: a replay's
\* turn_id is never that of an outcome.  Their ranking is not modelled.
Candidates == {t \in Outcomes : learner.replay \/ t # learner.turn}

Detect ==
    /\ learner.at = "detect"
    /\ IF says[learner.turn] = "nothing" \/ Candidates = {}
       THEN LearnAt("save")
       ELSE \E t \in Candidates :
               learner' = [learner EXCEPT !.at = "apply", !.target = t]
    /\ UNCHANGED <<says, outcomes, feedback, lesson, sampled, starts, rewritten, orphaned>>

\* A variant of Fed that moves the reward and leaves the mark out.
FedUnmarked(o) == o

\* An outcome after feedback: its reward has moved, and it says so.
Fed(o) == "fed"

ApplyFeedback ==
    /\ learner.at = "apply"
    /\ outcomes' = [outcomes EXCEPT ![learner.target] = Fed(@)]
    /\ LearnAt("record")
    /\ UNCHANGED <<says, feedback, lesson, sampled, starts, rewritten, orphaned>>

\* insert_delayed_feedback: a row per giver and target, whose second insert is
\* ignored.  The givers are left out.
RecordFeedback ==
    /\ learner.at = "record"
    /\ feedback' = feedback \cup {learner.target}
    /\ LearnAt("save")
    /\ UNCHANGED <<says, outcomes, lesson, sampled, starts, rewritten, orphaned>>

---------------------------------------------------------------------------
(***************************************************************************)
(* The outcome of the turn, its lessons and metrics.                       *)
(***************************************************************************)
\* upsert_turn_outcome writes the whole row, over an earlier one of the turn.
\* A replay evaluates, and ends here.
SaveOutcome ==
    /\ learner.at = "save"
    /\ IF learner.replay
       THEN /\ learner' = Free
            /\ UNCHANGED <<outcomes, rewritten, orphaned>>
       ELSE /\ outcomes' = [outcomes EXCEPT ![learner.turn] = "saved"]
            /\ rewritten' = rewritten \cup (Outcomes \cap {learner.turn})
            /\ \E ls \in SUBSET Lessons :
                  learner' = [learner EXCEPT !.at = "lessons", !.todo = ls]
    /\ UNCHANGED <<says, feedback, lesson, sampled, starts, orphaned>>

\* upsert_lesson, for each candidate.  An archived lesson is refused; one on
\* record is reinforced, and is shown again when decay had suppressed it: it
\* would take three contradictions, and nothing calls contradict_lesson.
Reinforced(l) ==
    [l EXCEPT !.conf = IF @ < Ceiling THEN @ + 1 ELSE Ceiling,
              !.reinf = IF @ < Seasoned THEN @ + 1 ELSE Seasoned,
              !.hidden = FALSE, !.stale = FALSE]

Upserted(l) ==
    IF lesson[l] = Unlearned
    THEN [at |-> "learned", conf |-> Ceiling - 1, reinf |-> 1, hidden |-> FALSE,
          stale |-> FALSE, expired |-> FALSE]
    ELSE IF lesson[l].at = "archived" THEN lesson[l]
    ELSE Reinforced(lesson[l])

UpsertLesson(l) ==
    /\ learner.at = "lessons" /\ l \in learner.todo
    /\ lesson' = [lesson EXCEPT ![l] = Upserted(l)]
    /\ learner' = [learner EXCEPT !.todo = @ \ {l}]
    /\ UNCHANGED <<says, outcomes, feedback, sampled, starts, rewritten, orphaned>>

\* What decay_lessons selects: suppressed lessons are never looked at again.
Decaying == {l \in Lessons : lesson[l] # Unlearned /\ lesson[l].at = "learned"
                             /\ ~lesson[l].hidden}

StartDecay ==
    /\ learner.at = "lessons" /\ learner.todo = {}
    /\ learner' = [learner EXCEPT !.at = "decay", !.todo = Decaying]
    /\ UNCHANGED <<says, outcomes, feedback, lesson, sampled, starts, rewritten, orphaned>>

\* A lesson that decay suppresses.
Faint(l, conf) == conf < Low /\ l.reinf < Seasoned

\* One lesson of the pass: archived when it has expired, weakened when it was
\* not touched for a week, by as much as its age says.
Decayed(l) ==
    IF l.expired THEN {[l EXCEPT !.at = "archived", !.stale = FALSE]}
    ELSE IF l.stale
    THEN {[l EXCEPT !.conf = c, !.hidden = Faint(l, c), !.stale = FALSE] :
             c \in 0 .. (IF l.conf > 0 THEN l.conf - 1 ELSE 0)}
    ELSE {l}

DecayLesson(l) ==
    /\ learner.at = "decay" /\ l \in learner.todo
    /\ \E d \in Decayed(lesson[l]) : lesson' = [lesson EXCEPT ![l] = d]
    /\ learner' = [learner EXCEPT !.todo = @ \ {l}]
    /\ UNCHANGED <<says, outcomes, feedback, sampled, starts, rewritten, orphaned>>

\* The metrics of the turn's strategy and planner, the self model and the
\* patterns of failure and success: each row is read, increased and written.
CountTurn ==
    /\ learner.at = "decay" /\ learner.todo = {}
    /\ sampled' = sampled \cup {learner.turn}
    /\ learner' = Free
    /\ UNCHANGED <<says, outcomes, feedback, lesson, starts, rewritten, orphaned>>

\* Time passes between starts: a week without a touch, or the 45 days after
\* which a lesson expires, however often it was reinforced.
GrowOld(l) ==
    /\ learner = Free /\ lesson[l] # Unlearned /\ lesson[l].at = "learned"
    /\ \/ lesson' = [lesson EXCEPT ![l].stale = TRUE]
       \/ lesson' = [lesson EXCEPT ![l].stale = TRUE, ![l].expired = TRUE]
    /\ UNCHANGED <<says, outcomes, feedback, sampled, learner, starts, rewritten, orphaned>>

LearnNext ==
    \/ \E t \in Heard : StartTurn(t) \/ StartReplay(t)
    \/ Detect \/ ApplyFeedback \/ RecordFeedback \/ SaveOutcome
    \/ \E l \in Lessons : UpsertLesson(l) \/ DecayLesson(l) \/ GrowOld(l)
    \/ StartDecay \/ CountTurn \/ LearningEnds

LearnSpec == LearnInit /\ [][LearnNext]_learnVars

---------------------------------------------------------------------------
(***************************************************************************)
(* Properties                                                              *)
(***************************************************************************)
\* The tables and the learner have the shape their code gives them.
LearnTypeOK ==
    /\ says \in [Heard -> {"unsaid", "nothing", "verdict"}]
    /\ outcomes \in [Heard -> {"none", "saved", "fed"}]
    /\ feedback \subseteq Heard
    /\ lesson \in [Lessons -> {Unlearned} \cup
                     [at: {"learned", "archived"}, conf: 0 .. Ceiling,
                      reinf: 1 .. Seasoned, hidden: BOOLEAN, stale: BOOLEAN,
                      expired: BOOLEAN]]
    /\ sampled \subseteq Heard
    /\ learner = Free \/
       learner \in [at: {"detect", "apply", "record", "save", "lessons", "decay"},
                    turn: Heard, replay: BOOLEAN, target: Heard \cup {0},
                    todo: SUBSET Lessons]
    /\ starts \in [Heard -> 0 .. Starts]
    /\ rewritten \subseteq Heard /\ orphaned \subseteq Heard

\* Feedback on record has moved its target's reward, and a reward that was
\* moved has its feedback on record: the exceptions are a target that a retry
\* evaluated afresh, which forgets the feedback it had, and a run that broke
\* off between the two statements (apply_delayed_feedback).
FeedbackIsFelt ==
    /\ \A t \in feedback : outcomes[t] = "fed" \/ t \in rewritten
    /\ \A t \in Outcomes : outcomes[t] = "fed" =>
          \/ t \in feedback
          \/ t \in orphaned
          \/ learner # Free /\ learner.at = "record" /\ learner.target = t

\* A lesson that was learned three times is never hidden by its age
\* (decay_lessons reads a count that upsert_lesson keeps).
SeasonedStaysVisible ==
    \A l \in Lessons :
        lesson[l] # Unlearned /\ lesson[l].reinf = Seasoned => ~lesson[l].hidden

\* The metrics count no turn whose outcome is not on record, whatever breaks
\* off and is run again (process_turn_learning).
CountedIsRecorded == sampled \subseteq Outcomes

\* What the learner reports of itself follows from what is on record: rewards
\* from feedback, metrics from outcomes, hidden lessons from few repetitions.
LearningAgrees == LearnTypeOK /\ FeedbackIsFelt /\ CountedIsRecorded /\ SeasonedStaysVisible

\* An archived lesson is archived for good, reinforced or not: what its
\* content hash stands for cannot be learned again (upsert_lesson).
ArchivedForGood ==
    [][\A l \in Lessons :
          lesson[l] # Unlearned /\ lesson[l].at = "archived" =>
              lesson'[l].at = "archived" /\ lesson'[l].conf = lesson[l].conf]_learnVars

\* A replay changes nothing that is stored ("Replay stored turn outcomes
\* through learning evaluators (no side effects)", replay.py:24).
ReplayHasNoEffect ==
    [][learner # Free /\ learner.replay =>
          UNCHANGED <<outcomes, feedback, lesson, sampled>>]_learnVars
===============================================================================
