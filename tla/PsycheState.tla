----------------------------- MODULE PsycheState -----------------------------
(***************************************************************************)
(* The mood of one user: the compact row of psyche_engine.py with its      *)
(* idempotency keys (psyche_core.py), and the state, profile, habits and   *)
(* events of psyche_v2_service.py and psyche_v2_repository.py.             *)
(*                                                                         *)
(* A writer is a thread that runs one call: the outcome of a turn, an      *)
(* event of a tool or of HTTP, a reflection, a durable event.  Each        *)
(* statement is a transaction of its own, so a step is one statement and   *)
(* what the thread computes after it.  Rows are read, changed and written  *)
(* whole.                                                                  *)
(*                                                                         *)
(* The scalars of a row are abstracted to what decides a branch: whether   *)
(* there is pressure to recover from, and the mode that they suggest.      *)
(***************************************************************************)
EXTENDS Naturals, Sequences, SequencesExt, FiniteSets

CONSTANTS
    Writers,        \* threads
    Modes,          \* the modes of the state, "neutral" among them
    StreakRequired, \* MODE_SWITCH_STREAK_REQUIRED
    Keys,           \* idempotency keys of durable events
    TurnOutcomes,   \* the kinds of outcomes that turns report
    CallBound,      \* bound on the calls
    FaultBound      \* bound on the statements that fail

ASSUME PsycheAssumption ==
    /\ "neutral" \in Modes /\ "" \notin Modes
    /\ StreakRequired \in Nat \ {0}
    /\ "evolve" \notin Keys
    /\ TurnOutcomes \subseteq {"success", "failure", "timeout", "degraded", "progress"}
    /\ CallBound \in Nat /\ FaultBound \in Nat

VARIABLES
    mind,       \* the row of psyche_v2_state
    bond,       \* the row of psyche_v2_profile
    habits,     \* for each name, how often each of its rows was reinforced
    events,     \* psyche_v2_events, in the order of their insertion
    feeling,    \* the row of psyche_state: the evolutions that it is made of
    claimed,    \* the keys in psyche_idempotency
    todo,       \* the statements that each writer has still to execute
    held,       \* the row each writer has read
    why,        \* the call each writer is in: the outcome, event or key
    psyCalls,   \* how many calls were made
    psyFaults,  \* how many statements have failed
    judged,     \* history: how often each mode was suggested
    evolutions, \* history: how often each key was applied
    learned     \* history: the outcomes that have reinforced each row of a habit, and
                \* those that have changed the relation

psyRows == <<mind, bond, habits, events, feeling, claimed>>
psyVars == <<psyRows, todo, held, why, psyCalls, psyFaults,
             judged, evolutions, learned>>
psyHistory == <<judged, evolutions, learned>>

Missing == [there |-> FALSE]
FreshMind == [there |-> TRUE, pressed |-> FALSE, mode |-> "neutral", pending |-> "", streak |-> 0]
FreshBond == [there |-> TRUE, trust |-> 0, friction |-> 0, traits |-> 0]
Caution == "caution"
Confidence == "confidence"
HabitNames == {Caution, Confidence}

\* The events an outcome is filed as, and the two of tools that matter here.
EventOf(outcome) ==
    CASE outcome = "success" -> "interaction_complete"
      [] outcome = "failure" -> "tool_failure"
      [] outcome = "timeout" -> "mode_transition"
      [] outcome = "degraded" -> "confidence_shift"
      [] outcome = "progress" -> "user_feedback_positive"
      [] OTHER -> outcome
EventKinds == {"web_research_triggered", "tool_failure"}

PsycheInit ==
    /\ mind = Missing /\ bond = Missing
    /\ habits = [n \in HabitNames |-> <<>>]
    /\ events = <<>>
    /\ feeling = <<>>
    /\ claimed = {}
    /\ todo = [w \in Writers |-> <<>>]
    /\ held = [w \in Writers |-> Missing]
    /\ why = [w \in Writers |-> ""]
    /\ psyCalls = 0 /\ psyFaults = 0
    /\ judged = [m \in Modes |-> 0]
    /\ evolutions = [k \in Keys |-> 0]
    /\ learned = [habits |-> [n \in HabitNames |-> <<>>], relations |-> 0]

---------------------------------------------------------------------------
\* The statements of apply_event, after those of the outcome it belongs to.
EventSteps == <<"profile", "mind", "insert", "judge">>

\* update_relations_from_outcome
RelationSteps == <<"profile", "relate">>

\* apply_outcome_event, as far as its outcome decides.
OutcomeSteps(outcome) ==
    (CASE outcome = "timeout" -> <<"profile", "mind", "press", "habit", "reinforce">>
       [] outcome = "failure" -> <<"profile", "mind", "press", "habit", "reinforce">>
       [] outcome \in {"success", "progress"} ->
              <<"profile", "mind", "recover", "habit", "reinforce">>
       [] OTHER -> <<>>)
    \o RelationSteps \o EventSteps

HabitOf(outcome) == IF outcome \in {"success", "progress"} THEN Confidence ELSE Caution

\* A call begins in a thread that has none.
Call(w, cause, steps) ==
    /\ todo[w] = <<>> /\ psyCalls < CallBound
    /\ psyCalls' = psyCalls + 1
    /\ todo' = [todo EXCEPT ![w] = steps]
    /\ why' = [why EXCEPT ![w] = cause]
    /\ UNCHANGED <<psyRows, held, psyFaults, psyHistory>>

\* A turn ends, a tool or an HTTP caller reports, a user asks for a reflection.
Outcome(w) == \E o \in TurnOutcomes : Call(w, o, OutcomeSteps(o))
Event(w) == \E e \in EventKinds : Call(w, e, EventSteps)
Reflection(w) == Call(w, "reflect", <<"profile", "adapt">>)

\* A durable event, which may be delivered again, and a message of the agent.
Deliver(w) == \E k \in Keys : Call(w, k, <<"claim", "feel", "evolve">>)
Evolution(w) == Call(w, "evolve", <<"feel", "evolve">>)

---------------------------------------------------------------------------
Doing(w, statement) == todo[w] # <<>> /\ Head(todo[w]) = statement
Proceed(w, steps) ==
    /\ todo' = [todo EXCEPT ![w] = steps]
    /\ why' = [why EXCEPT ![w] = IF steps = <<>> THEN "" ELSE @]
Advance(w) == Proceed(w, Tail(todo[w]))
Quit(w) == Proceed(w, <<>>)
Keep(w, row) == held' = [held EXCEPT ![w] = row]
Drop(w) == Keep(w, Missing)

\* ensure_psyche_profile: the SELECT, and the INSERT where there was no row,
\* which fails where another thread was first.
EnsureProfile(w) ==
    /\ Doing(w, "profile")
    /\ \/ /\ bond.there
          /\ Advance(w) /\ Keep(w, bond)
       \/ /\ ~bond.there
          /\ Proceed(w, <<"newProfile">> \o Tail(todo[w]))
          /\ UNCHANGED held
    /\ UNCHANGED <<psyCalls, psyRows, psyFaults, psyHistory>>
NewProfile(w) ==
    /\ Doing(w, "newProfile")
    /\ \/ ~bond.there /\ bond' = FreshBond /\ Advance(w) /\ Keep(w, FreshBond)
       \/ bond.there /\ Quit(w) /\ UNCHANGED <<bond, held>>
    /\ UNCHANGED <<psyCalls, mind, habits, events, feeling, claimed, psyFaults, psyHistory>>

\* ensure_psyche_state, in the same two steps.
EnsureState(w) ==
    /\ Doing(w, "mind")
    /\ \/ /\ mind.there
          /\ Advance(w) /\ Keep(w, mind)
       \/ /\ ~mind.there
          /\ Proceed(w, <<"newMind">> \o Tail(todo[w]))
          /\ UNCHANGED held
    /\ UNCHANGED <<psyCalls, psyRows, psyFaults, psyHistory>>
NewState(w) ==
    /\ Doing(w, "newMind")
    /\ \/ ~mind.there /\ mind' = FreshMind /\ Advance(w) /\ Keep(w, FreshMind)
       \/ mind.there /\ Quit(w) /\ UNCHANGED <<mind, held>>
    /\ UNCHANGED <<psyCalls, bond, habits, events, feeling, claimed, psyFaults, psyHistory>>

\* update_psyche_state and update_psyche_profile log an error and return FALSE,
\* which nobody reads.
Stored(var, row) ==
    \/ var' = row /\ UNCHANGED psyFaults
    \/ psyFaults < FaultBound /\ psyFaults' = psyFaults + 1 /\ UNCHANGED var

\* The pressure that a timeout or a failure adds.
Press(w) ==
    /\ Doing(w, "press") /\ Advance(w) /\ Drop(w)
    /\ Stored(mind, [held[w] EXCEPT !.pressed = TRUE])
    /\ UNCHANGED <<psyCalls, bond, habits, events, feeling, claimed, psyHistory>>

\* The recovery that a success brings, where there is pressure.
Recover(w) ==
    /\ Doing(w, "recover") /\ Advance(w) /\ Drop(w)
    /\ \/ /\ held[w].pressed
          /\ \E p \in BOOLEAN : Stored(mind, [held[w] EXCEPT !.pressed = p])
       \/ ~held[w].pressed /\ UNCHANGED <<mind, psyFaults>>
    /\ UNCHANGED <<psyCalls, bond, habits, events, feeling, claimed, psyHistory>>

\* get_habit_by_name: one of the rows of this name, or none.
ReadHabit(w) ==
    /\ Doing(w, "habit") /\ Advance(w)
    /\ LET rows == habits[HabitOf(why[w])] IN
          \/ rows = <<>> /\ Keep(w, [row |-> 0, count |-> 0])
          \/ \E i \in DOMAIN rows : Keep(w, [row |-> i, count |-> rows[i]])
    /\ UNCHANGED <<psyCalls, psyRows, psyFaults, psyHistory>>

\* reinforce_or_create_habit: the row that was read, or a new one.
Reinforce(w) ==
    /\ Doing(w, "reinforce") /\ Advance(w) /\ Drop(w)
    /\ LET n == HabitOf(why[w])
           i == held[w].row IN
       \/ /\ habits' = [habits EXCEPT ![n] = IF i = 0 THEN Append(@, 1)
                                             ELSE [@ EXCEPT ![i] = held[w].count + 1]]
          /\ learned' = [learned EXCEPT !.habits[n] =
                             IF i = 0 THEN Append(@, 1)
                             ELSE [@ EXCEPT ![i] = learned.habits[n][i] + 1]]
          /\ UNCHANGED psyFaults
       \/ /\ psyFaults < FaultBound /\ psyFaults' = psyFaults + 1
          /\ UNCHANGED <<habits, learned>>
    /\ UNCHANGED <<psyCalls, mind, bond, events, feeling, claimed, judged, evolutions>>

\* apply_relation_outcome_long_horizon, in units of its cap.
Related(p, outcome) ==
    CASE outcome \in {"success", "progress"} -> [p EXCEPT !.trust = @ + 1]
      [] outcome \in {"failure", "timeout"} -> [p EXCEPT !.friction = @ + 1]
      [] OTHER -> p
Relate(w) ==
    /\ Doing(w, "relate") /\ Advance(w) /\ Drop(w)
    /\ Stored(bond, Related(held[w], why[w]))
    /\ learned' = [learned EXCEPT !.relations = @ + 1]
    /\ UNCHANGED <<psyCalls, mind, habits, events, feeling, claimed, judged, evolutions>>

\* insert_psyche_event
InsertEvent(w) ==
    /\ Doing(w, "insert") /\ Advance(w)
    /\ Stored(events, Append(events, EventOf(why[w])))
    /\ UNCHANGED <<psyCalls, mind, bond, habits, feeling, claimed, held, psyHistory>>

\* A variant of Hysteresis that counts any suggestion, not the same one again.
HysteresisOfAny(row, candidate) ==
    IF candidate \in {"", row.mode} THEN [row EXCEPT !.pending = "", !.streak = 0]
    ELSE IF row.streak + 1 >= StreakRequired
        THEN [row EXCEPT !.mode = candidate, !.pending = "", !.streak = 0]
    ELSE [row EXCEPT !.pending = candidate, !.streak = @ + 1]

\* apply_mode_hysteresis
Hysteresis(row, candidate) ==
    LET streak == IF candidate = row.pending THEN row.streak + 1 ELSE 1 IN
    IF candidate \in {"", row.mode} THEN [row EXCEPT !.pending = "", !.streak = 0]
    ELSE IF streak >= StreakRequired
        THEN [row EXCEPT !.mode = candidate, !.pending = "", !.streak = 0]
    ELSE [row EXCEPT !.pending = candidate, !.streak = streak]

\* apply_event: the row that was read, with the mode that its scalars suggest.
Judge(w) ==
    /\ Doing(w, "judge") /\ Advance(w) /\ Drop(w)
    /\ \E candidate \in Modes \cup {""} :
          /\ Stored(mind, Hysteresis(held[w], candidate))
          /\ judged' = [m \in Modes |-> judged[m] + (IF m = candidate THEN 1 ELSE 0)]
    /\ UNCHANGED <<psyCalls, bond, habits, events, feeling, claimed, evolutions, learned>>

---------------------------------------------------------------------------
\* adapt_profile_from_events: enough of one kind moves a trait by more than the
\* threshold.  It changes the profile it is given and returns the same.
Adapted(p) ==
    IF events # <<>> /\ ToSet(events) = {"web_research_triggered"}
        THEN [p EXCEPT !.traits = @ + 1] ELSE p

\* _profile_changed
ProfileChanged(old, new) == old.traits # new.traits

\* reflect_user: old and new are one object.
Adapt(w) ==
    /\ Doing(w, "adapt") /\ Advance(w) /\ Drop(w)
    /\ LET profile == Adapted(held[w]) IN
          IF ProfileChanged(profile, profile) THEN Stored(bond, profile)
                                              ELSE UNCHANGED <<bond, psyFaults>>
    /\ UNCHANGED <<psyCalls, mind, habits, events, feeling, claimed, psyHistory>>

\* A variant of ClaimKey that looks for an evolution that has been completed.
ClaimCompleted(w) ==
    /\ Doing(w, "claim")
    /\ IF evolutions[why[w]] > 0 THEN Quit(w) /\ UNCHANGED claimed
                                 ELSE Advance(w) /\ claimed' = claimed \cup {why[w]}
    /\ UNCHANGED <<psyCalls, mind, bond, habits, events, feeling, held, psyFaults, psyHistory>>

\* evolve_once: the key is inserted before the event is applied.
ClaimKey(w) ==
    /\ Doing(w, "claim")
    /\ IF why[w] \in claimed THEN Quit(w) /\ UNCHANGED claimed
                             ELSE Advance(w) /\ claimed' = claimed \cup {why[w]}
    /\ UNCHANGED <<psyCalls, mind, bond, habits, events, feeling, held, psyFaults, psyHistory>>

\* evolve: the row is read, and written whole.
Feel(w) ==
    /\ Doing(w, "feel") /\ Advance(w)
    /\ Keep(w, [of |-> feeling])
    /\ UNCHANGED <<psyCalls, psyRows, psyFaults, psyHistory>>
Evolve(w) ==
    /\ Doing(w, "evolve") /\ Advance(w) /\ Drop(w)
    /\ feeling' = Append(held[w].of, why[w])
    /\ evolutions' = [k \in Keys |-> evolutions[k] + (IF k = why[w] THEN 1 ELSE 0)]
    /\ UNCHANGED <<psyCalls, mind, bond, habits, events, claimed, psyFaults, judged, learned>>

\* The process stops, and all of its threads with it.
PsycheCrash ==
    /\ \E w \in Writers : todo[w] # <<>>
    /\ psyFaults < FaultBound /\ psyFaults' = psyFaults + 1
    /\ todo' = [w \in Writers |-> <<>>]
    /\ held' = [w \in Writers |-> Missing]
    /\ why' = [w \in Writers |-> ""]
    /\ UNCHANGED <<psyRows, psyCalls, psyHistory>>

PsycheNext ==
    \/ \E w \in Writers :
          \/ Outcome(w) \/ Event(w) \/ Reflection(w) \/ Deliver(w) \/ Evolution(w)
          \/ EnsureProfile(w) \/ NewProfile(w) \/ EnsureState(w) \/ NewState(w)
          \/ Press(w) \/ Recover(w) \/ ReadHabit(w) \/ Reinforce(w) \/ Relate(w)
          \/ InsertEvent(w) \/ Judge(w) \/ Adapt(w) \/ ClaimKey(w) \/ Feel(w) \/ Evolve(w)
    \/ PsycheCrash

PsycheSpec == PsycheInit /\ [][PsycheNext]_psyVars

---------------------------------------------------------------------------
Minds == [there : {TRUE}, pressed : BOOLEAN, mode : Modes, pending : Modes \cup {""},
          streak : 0 .. StreakRequired - 1]
Bonds == [there : {TRUE}, trust : Nat, friction : Nat, traits : Nat]
PsycheTypeOK ==
    /\ mind \in Minds \cup {Missing} /\ bond \in Bonds \cup {Missing}
    /\ claimed \subseteq Keys
    /\ judged \in [Modes -> Nat] /\ evolutions \in [Keys -> Nat]

\* A mode is entered, and a streak counted, only where as many events have
\* suggested it, however the whole-row writes of the threads overtake each other.
ModeIsEarned ==
    mind.there =>
        /\ mind.mode # "neutral" => judged[mind.mode] >= StreakRequired
        /\ mind.pending # "" => judged[mind.pending] >= mind.streak

\* Durable events are evolved at most once, delivered as often as they may be,
\* and the row never has one of them twice.
EvolvedOnce ==
    /\ \A k \in Keys : evolutions[k] <= 1
    /\ \A k \in Keys : Cardinality({i \in DOMAIN feeling : feeling[i] = k}) <= 1

\* Trust, friction and the rows of habits grow by no more than what outcomes have
\* brought them: a stale write may lose a step and never counts one twice.
GrowthIsEarned ==
    /\ bond.there => bond.trust + bond.friction <= learned.relations
    /\ \A n \in HabitNames :
          /\ DOMAIN habits[n] = DOMAIN learned.habits[n]
          /\ \A i \in DOMAIN habits[n] : habits[n][i] <= learned.habits[n][i]

\* Modes, evolutions, trust and habits are earned.
MindIsEarned == PsycheTypeOK /\ ModeIsEarned /\ EvolvedOnce /\ GrowthIsEarned

\* "Apply a durable event once, including after worker restart"
\* (psyche_core.py): a key that is claimed, with nobody working on it, has been
\* applied.
DurableIsApplied ==
    \A k \in claimed : (\A w \in Writers : todo[w] = <<>>) => evolutions[k] >= 1

\* "Updates profile based on accumulated patterns" (psyche_v2_service.py): a
\* reflection on events that move a trait stores the profile.
ReflectionAdaptsStep ==
    \A w \in Writers :
        Doing(w, "adapt") /\ todo'[w] = <<>> /\ psyFaults' = psyFaults /\ Adapted(held[w]) # held[w]
            => bond'.traits > held[w].traits
ReflectionAdapts == [][ReflectionAdaptsStep]_psyVars
=============================================================================
