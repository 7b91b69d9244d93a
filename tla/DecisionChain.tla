---------------------------- MODULE DecisionChain ----------------------------
(***************************************************************************)
(* The decision of one chat turn: strategy_selector.py chooses a strategy  *)
(* and whether the web is needed, the stages of decision_pre_exec.py       *)
(* correct it one after the other, guardrails and clamps pull simple turns *)
(* back, capability escalation opens what the user has asked for, and in   *)
(* pipeline.py the blocker stops, lowers or passes the turn before it is   *)
(* handed to the agent or answered in the chat.                            *)
(*                                                                         *)
(* A message is what its words trigger.  What a stage reads in the stores  *)
(* (experience, memory, policy, lessons, claims) is any answer they can    *)
(* give, or none where the stage fails: every stage swallows its errors.   *)
(* The confidence is only compared by the blocker, where it is chosen.     *)
(***************************************************************************)
EXTENDS Integers

CONSTANTS
    Messages,   \* the messages: records [kind, cues, wants, past]
    Signals     \* what the blocker may find in the core, see NoSignal

Strategies == {"instant", "direct", "contextual", "research", "agentic"}
Light == {"instant", "direct"}
Heavy == {"research", "agentic"}
Kinds == {"plain", "meta", "prior", "greeting"}
\* The words of a message that a rule looks for.
Cues == {"store", "agentic", "goal", "url", "research", "trigger", "fresh",
         "listing", "followup", "howto", "context", "attached", "status",
         "recall", "long", "doIt"}
\* detect_capability_intents
Wants == {"freshness", "verify", "remember", "ingest", "image", "execute", "planOnly"}

\* A turn with nothing against it, in hundredths.
NoSignal == [conf |-> 70, sens |-> 0, severity |-> 0, recurring |-> FALSE,
             avoid |-> 0, penalize |-> 0, boost |-> 0, risk |-> 0, mixed |-> FALSE,
             skip |-> FALSE]

ASSUME DecisionAssumption ==
    /\ \A m \in Messages :
          /\ m.kind \in Kinds /\ m.cues \subseteq Cues /\ m.wants \subseteq Wants
          /\ m.past \in Nat
    /\ \A s \in Signals :
          /\ DOMAIN s = DOMAIN NoSignal
          /\ \A f \in {"conf", "sens", "severity", "avoid", "penalize", "boost", "risk"} :
                s[f] \in Int
          \* A profile has one hint for an action, and a message that skips the
          \* experience has no failures.
          /\ \A v, w \in {"avoid", "penalize", "boost"} : s[v] > 0 /\ s[w] > 0 => v = w
          /\ s.skip => s.severity = 0 /\ ~s.recurring /\ ~s.mixed

VARIABLES
    msg,        \* the message of the turn
    stage,      \* the stage that comes next
    core,       \* decision_core
    verdict,    \* the verdict of the blocker
    handoff     \* whether the turn goes to the agent

decVars == <<msg, stage, core, verdict, handoff>>

NewCore == [strategy |-> "instant", web |-> "off", demoted |-> FALSE,
            degraded |-> FALSE, conflict |-> FALSE, goal |-> FALSE,
            mode |-> "direct", tools |-> FALSE, required |-> FALSE, execute |-> FALSE]
NoVerdict == [hard |-> FALSE, resolution |-> "none", next |-> "", grave |-> FALSE]

DecisionInit ==
    /\ msg \in Messages
    /\ stage = "select"
    /\ core = NewCore
    /\ verdict = NoVerdict
    /\ handoff = FALSE

Is(cue) == cue \in msg.cues
Asks(want) == want \in msg.wants
Meta == msg.kind \in {"meta", "prior"}

\* listing_copy_no_web_intent, short_followup_no_web_intent
Local == (Is("listing") \/ Is("followup")) /\ ~Is("url")
\* Where a local turn falls back to.
Backward == IF msg.past >= 2 THEN "contextual" ELSE "instant"

\* Rules are tried in their order: which is the first that applies, and its value.
FirstRule(rules) ==
    CHOOSE i \in DOMAIN rules : rules[i][1] /\ \A j \in DOMAIN rules : rules[j][1] => i <= j
FirstOf(rules) == rules[FirstRule(rules)][2]

To(c, s) == [c EXCEPT !.strategy = s]
NotInstant(c) == IF c.strategy = "instant" THEN To(c, "contextual") ELSE c
Optional(c) == IF c.web = "off" THEN [c EXCEPT !.web = "optional"] ELSE c

---------------------------------------------------------------------------
\* StrategySelector.select_strategy
Classified(goals, memory) ==
    FirstOf(<<
        <<msg.kind = "meta", "instant">>,
        <<msg.kind = "prior", "direct">>,
        <<Is("store"), "contextual">>,
        <<Is("agentic"), "agentic">>,
        <<goals /\ Is("goal"), "agentic">>,
        <<Is("url"), "research">>,
        <<Is("research") /\ ~Is("howto"), "research">>,
        <<Is("context") \/ msg.past >= 2 \/ memory, "contextual">>,
        <<~Is("long"), "instant">>,
        <<TRUE, "contextual">> >>)

\* What select_strategy corrects: triggers, explicit research, local turns.
Routed(s0) ==
    LET s1 == IF Is("trigger") /\ ~Local /\ ~Is("howto") THEN "research" ELSE s0
        s2 == IF s1 = "agentic" /\ (Is("url") \/ (~Is("howto") /\ (Is("fresh") \/ Is("research"))))
              THEN "research" ELSE s1
    IN IF Local /\ s2 \in Heavy THEN Backward ELSE s2

\* Whether the web is needed.
WebFor(s) ==
    FirstOf(<<
        <<Local \/ Is("howto"), "off">>,
        <<Is("url") \/ s = "research", "required">>,
        <<s = "agentic", "optional">>,
        <<TRUE, "off">> >>)

\* apply_pragmatics_to_strategy
Read(c, reading) ==
    CASE reading = "web" -> [c EXCEPT !.strategy = "research", !.web = "required"]
      [] reading = "deixis" /\ c.strategy = "research" ->
            [c EXCEPT !.strategy = "contextual", !.web = "off", !.demoted = TRUE]
      [] reading \in {"ambiguous", "planner"} -> NotInstant(c)
      [] OTHER -> c

\* The selection, and the guard for questions about the assistant.
Selection ==
    /\ stage = "select"
    /\ \E goals, memory, missed \in BOOLEAN,
          reading \in {"none", "web", "deixis", "ambiguous", "planner"} :
          LET s == Routed(Classified(goals /\ ~Meta, memory))
              chosen == [core EXCEPT
                  !.strategy = IF Is("howto") /\ ~Local /\ s = "research" THEN Backward ELSE s,
                  !.web = WebFor(s), !.degraded = missed, !.goal = goals /\ ~Meta]
              heard == Read(chosen, reading)
          IN core' = IF ~Meta THEN heard
                     ELSE [heard EXCEPT !.web = "off", !.strategy =
                              IF @ \in Light THEN @
                              ELSE IF msg.kind = "prior" THEN "direct" ELSE "instant"]
    /\ stage' = IF Meta THEN "guardrails" ELSE "experience"
    /\ UNCHANGED <<msg, verdict, handoff>>

\* The selection fails: the fallback of the handler.
SelectionFails ==
    /\ stage = "select"
    /\ \E goals \in BOOLEAN :
          core' = [core EXCEPT !.degraded = TRUE, !.goal = goals /\ ~Meta]
    /\ stage' = IF Meta THEN "guardrails" ELSE "experience"
    /\ UNCHANGED <<msg, verdict, handoff>>

---------------------------------------------------------------------------
\* A stage leads to one of its outcomes, or fails and leaves the core.
Stage(here, next, outcomes) ==
    /\ stage = here /\ stage' = next
    /\ core' \in outcomes \cup {core}
    /\ UNCHANGED <<msg, verdict, handoff>>

\* Similar turns recommend a strategy; grave failures rule out an instant one.
Similar ==
    Stage("experience", "memory",
          {To(core, s) : s \in Strategies} \cup {NotInstant(To(core, s)) : s \in Strategies})

\* Contradictions of memory; psyche moves only the confidence.
MemoryV2 == Stage("memory", "policy", {NotInstant(core)})

ActionOf(s) == CASE s = "contextual" -> "memory_search" [] s = "research" -> "research"
                 [] s = "agentic" -> "action" [] OTHER -> "reason"
StrategyOf(a) == CASE a = "memory_search" -> "contextual" [] a = "research" -> "research"
                   [] a = "action" -> "agentic" [] OTHER -> "instant"
Actions == {"reason", "memory_search", "research", "action"}

\* Feedback against the action of the strategy shifts it to a better one.
Policy ==
    Stage("policy", "simulation",
          {To(core, StrategyOf(a)) : a \in Actions \ {ActionOf(core.strategy)}})

\* ALTERNATIVES of SimulationEngine
Alternatives(a) ==
    CASE a = "memory_search" -> {"research", "reason"}
      [] a = "research" -> {"memory_search", "reason"}
      [] a = "action" -> {"research", "reason", "memory_search"}
      [] a = "reason" -> {"memory_search", "research"}

\* A better variant overrides the strategy, unless the selection is degraded.
\* A direct strategy is simulated as instant, and becomes it.
Simulation ==
    Stage("simulation", "consistency",
          IF core.degraded THEN {}
          ELSE {To(core, StrategyOf(a)) :
                   a \in {ActionOf(core.strategy)} \cup Alternatives(ActionOf(core.strategy))})

\* A message that contradicts what is known is not answered at once.
Consistency ==
    Stage("consistency", "cognition", {[NotInstant(core) EXCEPT !.conflict = TRUE]})

\* apply_cognitive_to_decision
Cognition ==
    Stage("cognition", "learning",
          {NotInstant(core), Optional(core), NotInstant(Optional(core))})

\* apply_learning_influences_to_decision.  The bias of the metrics comes first;
\* what follows looks at the strategy after the bias, not at what the steps
\* before it have made of that.
Biased ==
    {core} \cup {To(core, s) : s \in IF core.web = "required" THEN {"contextual"} \cup Heavy
                                    ELSE Strategies \ {"direct"}}
WeakDomain(c) ==
    IF c.strategy # "instant" THEN c
    ELSE To(c, IF c.web # "off" THEN "research" ELSE "contextual")
\* s is the strategy after the bias.
FailureMemory(c, s) == IF s = "instant" THEN To(Optional(c), "contextual") ELSE Optional(c)
\* apply_machine_actions, of one lesson.
Lesson(c, action) ==
    CASE action = "avoid_instant" -> IF c.web # "required" THEN NotInstant(c) ELSE c
      [] action = "prefer_research" ->
            IF c.strategy = "instant" \/ c.web = "off" THEN Optional(To(c, "research")) ELSE c
      [] action = "prefer_planner" -> NotInstant(c)
      [] OTHER -> c
\* The status of a long task, and the prior of the self evaluation.
LongTask(c) == IF Is("status") /\ c.strategy \in Light THEN To(c, "agentic") ELSE c
SelfEvaluated(c) ==
    LET w == IF Is("fresh") THEN Optional(c) ELSE c IN
    IF Is("recall") /\ w.strategy \in Light THEN To(w, "contextual") ELSE w

Learning ==
    Stage("learning", "knowledge",
          UNION {LET b1 == IF weak THEN WeakDomain(b) ELSE b
                     b2 == IF failed THEN FailureMemory(b1, b.strategy) ELSE b1
                     b3 == Lesson(b2, action)
                     b4 == IF task THEN LongTask(b3) ELSE b3
                 IN {b4, SelfEvaluated(b4)} :
                     b \in Biased, weak \in BOOLEAN, failed \in BOOLEAN, task \in BOOLEAN,
                     action \in {"none", "avoid_instant", "prefer_research", "prefer_planner"}})

\* apply_knowledge_influences_to_decision
Knowledge ==
    Stage("knowledge", "guardrails",
          {NotInstant(core), Optional(core), NotInstant(Optional(core))})

---------------------------------------------------------------------------
\* Words that the model must not answer from its training.
FreshnessNeeded ==
    Is("fresh") /\ ~Is("howto") /\ ~Is("store") /\ ~Is("attached") /\ ~core.demoted

\* _local_non_research_guardrails
Guarded(c) ==
    FirstOf(<<
        <<Meta, [To(c, IF msg.kind = "prior" THEN "direct" ELSE "instant") EXCEPT !.web = "off"]>>,
        <<FreshnessNeeded, [To(c, "research") EXCEPT !.web = "required"]>>,
        <<Local, [To(c, IF msg.past > 0 THEN "contextual" ELSE "instant") EXCEPT !.web = "off"]>>,
        <<TRUE, c>> >>)

\* The clamps: meta asks, and greetings, which keep the web as it is.
Clamped(c) ==
    FirstOf(<<
        <<Meta, [To(c, IF c.strategy \in Light THEN c.strategy
                       ELSE IF msg.kind = "prior" THEN "direct" ELSE "instant")
                 EXCEPT !.web = "off", !.goal = FALSE]>>,
        <<msg.kind = "greeting" /\ c.strategy \in Heavy, To(c, "instant")>>,
        <<TRUE, c>> >>)

Guardrails ==
    /\ stage = "guardrails" /\ stage' = "escalation"
    /\ core' = Clamped(Guarded(core))
    /\ UNCHANGED <<msg, verdict, handoff>>

\* _finalize_escalation, decide_execution_path
ModeOf(s) == CASE s \in Light -> "direct" [] s = "contextual" -> "memory_augmented"
               [] s = "research" -> "research" [] OTHER -> "planner"
Finalized(c) == [c EXCEPT !.mode = ModeOf(c.strategy), !.tools = c.strategy \notin Light]

\* apply_capability_escalation: each part of it looks at the strategy that the
\* escalation began with.
Searches == Asks("freshness") \/ Asks("verify")
Executes == Asks("execute") /\ ~Asks("planOnly") /\ ~Searches
Escalated(c) ==
    LET search == IF ~Searches THEN c
                  ELSE [c EXCEPT !.web = "required",
                                 !.strategy = IF @ \in Heavy THEN @ ELSE "research"]
        image == IF Asks("image") /\ c.strategy \in Light
                 THEN To(search, "contextual") ELSE search
        execute == IF ~Executes THEN image
                   ELSE [image EXCEPT !.strategy = "agentic", !.mode = "planner", !.execute = TRUE]
        needed == c.required \/ Searches \/ Executes
                  \/ Asks("remember") \/ Asks("ingest") \/ Asks("image")
    IN [execute EXCEPT !.tools = @ \/ needed, !.required = needed]

Escalation ==
    /\ stage = "escalation" /\ stage' = "budget"
    /\ core' = Escalated(Finalized(core))
    /\ UNCHANGED <<msg, verdict, handoff>>

\* select_prompt_budget forbids tools to light turns without the web; a turn
\* whose capability needs them keeps them.
Budget ==
    /\ stage = "budget" /\ stage' = "blocker"
    /\ \E allowed \in IF core.strategy \in Heavy \/ core.web # "off" THEN {TRUE} ELSE BOOLEAN :
          core' = [core EXCEPT !.tools = @ /\ (allowed \/ core.required)]
    /\ UNCHANGED <<msg, verdict, handoff>>

---------------------------------------------------------------------------
\* The rules of run_evaluate_blocker_verdict in their order of priority: each
\* with its condition, its type and its resolution.
Rules(c, s) == <<
    <<c.conflict /\ s.conf < 40 + s.sens, "conflict", "hard_block">>,
    <<s.severity > 0 /\ s.severity >= 80 - s.sens, "failure", "hard_block">>,
    <<c.degraded /\ s.conf < 35 + s.sens, "degraded", "hard_block">>,
    <<s.avoid >= 70, "policy", "hard_block">>,
    <<s.risk >= 80 - s.sens /\ c.strategy \in Heavy, "risk", "downgrade">>,
    <<s.conf < 45 + s.sens /\ ~c.degraded /\ c.strategy \in Heavy, "confidence", "reroute">>,
    <<c.conflict /\ s.conf >= 40, "conflict", "caution_pass">>,
    <<s.severity > 0 /\ s.severity < 80, "failure", "caution_pass">>,
    <<c.degraded /\ s.conf >= 35 + s.sens, "degraded", "caution_pass">>,
    <<65 - s.sens <= s.risk /\ s.risk < 80 - s.sens, "risk", "caution_pass">>,
    <<s.mixed, "mixed", "caution_pass">>,
    <<s.penalize >= 60, "policy", "caution_pass">>,
    <<TRUE, "none", "none">> >>

\* History makes a caution hard, or a hard verdict a caution.
Settled(rule, s) ==
    LET hard == rule[3] = "hard_block"
        harder == ~hard /\ ~s.skip
                    /\ (s.recurring \/ (s.avoid >= 55 /\ rule[2] # "conflict"))
        softer == hard /\ s.boost >= 65 /\ rule[2] \notin {"conflict", "policy"}
    IN IF rule[2] = "none" THEN "none"
       ELSE IF harder THEN "hard_block" ELSE IF softer THEN "caution_pass" ELSE rule[3]

\* What nothing in the history may soften.
Grave(c, s) == (c.conflict /\ s.conf < 40 + s.sens) \/ s.avoid >= 70

Evaluated(c, s) ==
    LET resolution == Settled(Rules(c, s)[FirstRule(Rules(c, s))], s)
    IN [hard |-> resolution = "hard_block",
        resolution |-> resolution,
        next |-> IF resolution = "reroute" \/ (resolution = "downgrade" /\ c.strategy = "agentic")
                 THEN "contextual" ELSE IF resolution = "downgrade" THEN "instant" ELSE "",
        grave |-> Grave(c, s)]

\* A variant of Lowered that leaves the escalation as it was.
LoweredOnly(c, s) == To(c, s)

\* The strategy is lowered, and escalated again.
Lowered(c, s) == Escalated(Finalized(To(c, s)))

\* An image is never blocked.
Blocker ==
    /\ stage = "blocker"
    /\ \E s \in Signals :
          /\ verdict' = IF Asks("image") THEN NoVerdict ELSE Evaluated(core, s)
          /\ core' = IF verdict'.resolution \in {"downgrade", "reroute"}
                     THEN Lowered(core, verdict'.next) ELSE core
    /\ stage' = IF verdict'.hard THEN "blocked" ELSE "handoff"
    /\ UNCHANGED <<msg, handoff>>

\* _should_handoff_to_agent
StaysForWeb(c) == c.strategy = "research" \/ (c.web = "required" /\ c.strategy = "agentic")
PlanOnly(c) == Asks("planOnly") /\ ~c.execute /\ ~Is("doIt")
Handoff ==
    /\ stage = "handoff" /\ stage' = "done"
    /\ \E against \in BOOLEAN :   \* the bias of experience and policy
          handoff' = /\ ~StaysForWeb(core)
                     /\ core.execute \/ ~PlanOnly(core)
                     /\ core.execute \/ core.strategy = "agentic" \/ core.mode = "planner"
                     /\ ~against
    /\ UNCHANGED <<msg, core, verdict>>

DecisionNext ==
    \/ Selection \/ SelectionFails \/ Similar \/ MemoryV2 \/ Policy \/ Simulation
    \/ Consistency \/ Cognition \/ Learning \/ Knowledge
    \/ Guardrails \/ Escalation \/ Budget \/ Blocker \/ Handoff

DecisionSpec == DecisionInit /\ [][DecisionNext]_decVars

---------------------------------------------------------------------------
DecisionTypeOK ==
    /\ core.strategy \in Strategies /\ core.web \in {"off", "optional", "required"}
    /\ handoff \in BOOLEAN

Answered == stage \in {"handoff", "done"}

\* What the user asked for survives every stage after it, the blocker's lower
\* strategy included: fresh facts are searched for, and a turn that has to
\* remember, read, draw, search or execute has tools.
CapabilityIsKept ==
    Answered =>
        /\ Searches => core.web = "required" /\ (Asks("image") \/ core.strategy \in Heavy)
        /\ Searches \/ Executes \/ msg.wants \cap {"remember", "ingest", "image"} # {}
              => core.tools

\* Only an agentic turn whose web search is not owed in the chat is handed to
\* the agent, and none that asked for a plan without its execution.
HandOffIsMeant ==
    handoff => /\ core.strategy = "agentic" /\ core.web # "required"
               /\ Asks("planOnly") => Is("doIt")

\* The planner runs where the strategy is agentic, whoever has moved it.
PlannerIsAgentic == Answered /\ core.mode = "planner" => core.strategy = "agentic"

\* A question about the assistant, or a greeting, that asks for nothing else
\* stays out of the heavy stages, whatever the history of the user suggests.
SmallTalkIsLight ==
    Answered /\ msg.wants = {} =>
        /\ Meta => core.strategy \in Light /\ core.web = "off" /\ ~core.goal /\ ~core.tools
        /\ msg.kind = "greeting" => core.strategy \notin Heavy

\* A local edit is not sent to the web or to the planner.
LocalStaysLocal ==
    Answered /\ Local /\ msg.wants = {} /\ ~FreshnessNeeded =>
        core.web = "off" /\ core.strategy \notin Heavy

\* A contradiction of which the turn is unsure, and an action that the policy
\* avoids, stop the turn: past successes do not outweigh them.
ConflictBlocks == verdict.grave => verdict.hard

DecisionHolds ==
    /\ DecisionTypeOK /\ CapabilityIsKept /\ HandOffIsMeant /\ PlannerIsAgentic
    /\ SmallTalkIsLight /\ LocalStaysLocal /\ ConflictBlocks

\* "DOWNGRADE: strategy is actually changed from agentic" to contextual
\* (tests/test_blocker_verdict.py): a lowered turn stays lowered.
DowngradeSticks ==
    Answered /\ verdict.resolution \in {"downgrade", "reroute"} => core.strategy = verdict.next

\* "hard clamp - identity/meta asks stay on lightweight path"
\* (decision_pre_exec.py), and greetings are "never agentic/planner"
\* (strategy_selector.py).
ClampIsHard ==
    Answered => /\ Meta => core.strategy \in Light
                /\ msg.kind = "greeting" => core.strategy # "agentic"
=============================================================================
