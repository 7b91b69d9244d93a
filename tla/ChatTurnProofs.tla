---------------------------- MODULE ChatTurnProofs ----------------------------
(***************************************************************************)
(* A turn of the chat for every message, turn and thread: the decision     *)
(* keeps what its stages promise each other, the pipeline keeps the turns  *)
(* apart and their outcomes whole, and the mood is earned.                 *)
(*                                                                         *)
(* The three share no state.  Each has its inductive invariant:            *)
(* DecisionInv says, stage by stage, what is decided; PipelineInv is a     *)
(* conjunction over the turns, of which a step disturbs its own only; and  *)
(* PsyInv says of each thread what it holds by the statement it is at.     *)
(***************************************************************************)
EXTENDS DecisionChain, TurnPipeline, PsycheState, FiniteSetTheorems, TLAPS

---------------------------------------------------------------------------
(***************************************************************************)
(* The decision                                                            *)
(***************************************************************************)
DecisionStages == {"select", "experience", "memory", "policy", "simulation", "consistency",
           "cognition", "learning", "knowledge", "guardrails", "escalation", "budget",
           "blocker", "blocked", "handoff", "done"}
Webs == {"off", "optional", "required"}
DecisionModes == {"direct", "memory_augmented", "research", "planner"}
Cores == [strategy : Strategies, web : Webs, demoted : BOOLEAN, degraded : BOOLEAN,
          conflict : BOOLEAN, goal : BOOLEAN, mode : DecisionModes, tools : BOOLEAN,
          required : BOOLEAN, execute : BOOLEAN]

\* The stages after the escalation, and those after the guardrails.
Opened == {"budget", "blocker", "blocked", "handoff", "done"}
Corrected == Opened \cup {"escalation"}

\* What no stage before the escalation touches.
Plain(c) == c \in Cores /\ c.mode = "direct" /\ ~c.tools /\ ~c.required /\ ~c.execute

\* What the escalation leaves, of a first or of a lowered strategy.
Needs == Searches \/ Executes \/ Asks("remember") \/ Asks("ingest") \/ Asks("image")
Capable(c) ==
    /\ Searches => c.web = "required" /\ (Asks("image") \/ c.strategy \in Heavy)
    /\ c.required <=> Needs
    /\ Needs => c.tools
    /\ c.mode = "planner" => c.strategy = "agentic"
    /\ c.execute <=> Executes
    /\ Executes => c.strategy = "agentic"

\* What the guardrails leave of a turn that asks for nothing else.
StaysSmall ==
    msg.wants = {} =>
        /\ Meta => core.strategy \in Light /\ core.web = "off" /\ ~core.goal /\ ~core.tools
        /\ msg.kind = "greeting" => core.strategy \notin Heavy
        /\ Local /\ ~FreshnessNeeded => core.web = "off" /\ core.strategy \notin Heavy

DecisionInv ==
    /\ msg \in Messages /\ stage \in DecisionStages /\ core \in Cores /\ handoff \in BOOLEAN
    /\ stage \notin Opened => Plain(core)
    /\ stage \in Corrected => StaysSmall
    /\ stage \in Opened => Capable(core)
    /\ stage # "done" => ~handoff
    /\ HandOffIsMeant
    /\ ConflictBlocks

---------------------------------------------------------------------------
\* Among rules of which one applies there is a first that applies.
LEMMA FirstApplies ==
    ASSUME NEW n \in Nat, NEW rules, DOMAIN rules = 1 .. n,
           \E i \in 1 .. n : rules[i][1]
    PROVE  LET f == FirstRule(rules) IN
           /\ f \in 1 .. n /\ rules[f][1]
           /\ \A j \in 1 .. n : rules[j][1] => f <= j
<1> DEFINE T == {i \in 1 .. n : rules[i][1]}
<1>1. \E x \in T : \A y \in T : ~(<<y, x>> \in OpToRel(<, Nat))
    <2>1. T \subseteq Nat /\ T # {}
        OBVIOUS
    <2> QED
        BY <2>1, NatLessThanWellFounded, WFMin
<1>2. PICK x \in T : \A y \in T : ~(<<y, x>> \in OpToRel(<, Nat))
    BY <1>1
<1>3. \A y \in T : x <= y
    <2> TAKE y \in T
    <2>1. x \in Nat /\ y \in Nat
        OBVIOUS
    <2>2. y < x => <<y, x>> \in OpToRel(<, Nat)
        BY <2>1 DEF OpToRel
    <2>3. ~(y < x)
        BY <1>2, <2>2, Zenon
    <2> QED
        BY <2>1, <2>3
<1>4. x \in DOMAIN rules /\ rules[x][1] /\ \A j \in DOMAIN rules : rules[j][1] => x <= j
    BY <1>3
<1> QED
    BY <1>4 DEF FirstRule

\* The strategy that the selector classifies a message with is one of its own.
LEMMA ClassifiedIsStrategy ==
    ASSUME NEW goals \in BOOLEAN, NEW memory \in BOOLEAN
    PROVE  Classified(goals, memory) \in Strategies
<1> DEFINE rules == <<
        <<msg.kind = "meta", "instant">>,
        <<msg.kind = "prior", "direct">>,
        <<Is("store"), "contextual">>,
        <<Is("agentic"), "agentic">>,
        <<goals /\ Is("goal"), "agentic">>,
        <<Is("url"), "research">>,
        <<Is("research") /\ ~Is("howto"), "research">>,
        <<Is("context") \/ msg.past >= 2 \/ memory, "contextual">>,
        <<~Is("long"), "instant">>,
        <<TRUE, "contextual">> >>
<1>1. DOMAIN rules = 1 .. 10 /\ rules[10][1]
    OBVIOUS
<1>2. \A i \in 1 .. 10 : rules[i][2] \in Strategies
    BY DEF Strategies
<1>3. FirstRule(rules) \in 1 .. 10
    <2>1. 10 \in Nat /\ \E i \in 1 .. 10 : rules[i][1]
        BY <1>1
    <2> HIDE DEF rules
    <2> QED
        BY <1>1, <2>1, FirstApplies
<1> QED
    BY <1>2, <1>3 DEF Classified, FirstOf

\* Whether the web is needed has one of three answers.
LEMMA WebForIsWeb == \A s : WebFor(s) \in Webs
<1> TAKE s
<1> DEFINE rules == <<
        <<Local \/ Is("howto"), "off">>,
        <<Is("url") \/ s = "research", "required">>,
        <<s = "agentic", "optional">>,
        <<TRUE, "off">> >>
<1>1. DOMAIN rules = 1 .. 4 /\ rules[4][1]
    OBVIOUS
<1>2. \A i \in 1 .. 4 : rules[i][2] \in Webs
    BY DEF Webs
<1>3. FirstRule(rules) \in 1 .. 4
    <2>1. 4 \in Nat /\ \E i \in 1 .. 4 : rules[i][1]
        BY <1>1
    <2> HIDE DEF rules
    <2> QED
        BY <1>1, <2>1, FirstApplies
<1> QED
    BY <1>2, <1>3 DEF WebFor, FirstOf

---------------------------------------------------------------------------
\* A conflict and an avoided action end in a hard verdict, and only a heavy
\* strategy is lowered, to one that is not.
LEMMA EvaluatedHolds ==
    ASSUME NEW c \in Cores, NEW s \in Signals
    PROVE  LET v == Evaluated(c, s) IN
           /\ v.grave => v.hard
           /\ v.resolution \in {"downgrade", "reroute"} =>
                c.strategy \in Heavy /\ v.next \in {"contextual", "instant"}
<1> DEFINE rules == Rules(c, s)
           f == FirstRule(rules)
           resolution == Settled(rules[f], s)
<1>1. DOMAIN rules = 1 .. 13 /\ rules[13][1]
    BY DEF Rules
<1>2. f \in 1 .. 13 /\ rules[f][1] /\ \A j \in 1 .. 13 : rules[j][1] => f <= j
    <2>1. 13 \in Nat /\ \E i \in 1 .. 13 : rules[i][1]
        BY <1>1
    <2> HIDE DEF rules
    <2> QED
        BY <1>1, <2>1, FirstApplies
<1>3. \A i \in 1 .. 4 : rules[i][2] # "none" /\ rules[i][3] = "hard_block"
    BY DEF Rules
<1>4. ASSUME c.conflict /\ s.conf < 40 + s.sens PROVE resolution = "hard_block"
    <2>1. rules[1][1] /\ rules[1][2] = "conflict" /\ rules[1][3] = "hard_block"
        BY <1>4 DEF Rules
    <2>2. f = 1
        BY <1>2, <2>1
    <2> HIDE DEF rules, f
    <2> QED
        BY <2>1, <2>2 DEF Settled
<1>5. ASSUME s.avoid >= 70 PROVE resolution = "hard_block"
    <2>1. rules[4][1]
        BY <1>5 DEF Rules
    <2>2. f \in 1 .. 4
        BY <1>2, <2>1
    <2>3. s.boost < 65
        BY <1>5, DecisionAssumption
    <2> HIDE DEF rules, f
    <2> QED
        BY <1>3, <2>2, <2>3, DecisionAssumption DEF Settled
<1>6. ASSUME resolution \in {"downgrade", "reroute"} PROVE c.strategy \in Heavy
    <2>1. rules[f][3] \in {"downgrade", "reroute"}
        <3> HIDE DEF rules, f
        <3> QED
            BY <1>6 DEF Settled
    <2>2. \A i \in 1 .. 13 : rules[i][3] \in {"downgrade", "reroute"} => i \in {5, 6}
        BY DEF Rules
    <2>3. f \in {5, 6}
        BY <1>2, <2>1, <2>2
    <2>4. (rules[5][1] \/ rules[6][1]) => c.strategy \in Heavy
        BY DEF Rules
    <2> QED
        BY <1>2, <2>3, <2>4
<1>7. PICK v : v = Evaluated(c, s)
    OBVIOUS
<1>8. PICK r : r = resolution
    OBVIOUS
<1>9. v = [hard |-> r = "hard_block",
           resolution |-> r,
           next |-> IF r = "reroute" \/ (r = "downgrade" /\ c.strategy = "agentic")
                    THEN "contextual" ELSE IF r = "downgrade" THEN "instant" ELSE "",
           grave |-> Grave(c, s)]
    BY <1>7, <1>8 DEF Evaluated
<1>10. v.grave => v.hard
    <2>1. Grave(c, s) => r = "hard_block"
        BY <1>4, <1>5, <1>8 DEF Grave
    <2> QED
        BY <1>9, <2>1
<1>11. ASSUME v.resolution \in {"downgrade", "reroute"}
       PROVE  c.strategy \in Heavy /\ v.next \in {"contextual", "instant"}
    <2>1. r \in {"downgrade", "reroute"}
        BY <1>9, <1>11
    <2> QED
        BY <1>6, <1>8, <1>9, <2>1
<1> QED
    BY <1>7, <1>10, <1>11

---------------------------------------------------------------------------
\* Escalation, also of a lowered strategy, leaves what the user asked for.
LEMMA EscalatedIsCapable ==
    ASSUME NEW c \in Cores, c.required => Needs, c.execute => Executes
    PROVE  /\ Escalated(Finalized(c)) \in Cores
           /\ Capable(Escalated(Finalized(c)))
<1> DEFINE d == Finalized(c)
<1>1. /\ d \in Cores /\ d.required = c.required /\ d.execute = c.execute
      /\ d.mode = "planner" => d.strategy = "agentic"
      /\ d.strategy = c.strategy
    BY DEF Finalized, ModeOf, Cores, DecisionModes, Light, Strategies
<1> HIDE DEF d
<1>2. Searches => ~Executes
    BY DEF Executes
<1>3. Escalated(d) \in Cores
    <2> DEFINE search == IF ~Searches THEN d
                         ELSE [d EXCEPT !.web = "required",
                                        !.strategy = IF @ \in Heavy THEN @ ELSE "research"]
               image == IF Asks("image") /\ d.strategy \in Light
                        THEN To(search, "contextual") ELSE search
               execute == IF ~Executes THEN image
                          ELSE [image EXCEPT !.strategy = "agentic", !.mode = "planner",
                                             !.execute = TRUE]
               needed == d.required \/ Needs
    <2>1. search \in Cores
        <3>1. (IF d.strategy \in Heavy THEN d.strategy ELSE "research") \in Strategies
            BY <1>1 DEF Cores, Strategies
        <3>2. [d EXCEPT !.web = "required",
                        !.strategy = IF @ \in Heavy THEN @ ELSE "research"] \in Cores
            BY <1>1, <3>1 DEF Cores, Webs
        <3> QED
            BY <1>1, <3>2
    <2>2. image \in Cores
        <3> HIDE DEF search
        <3> QED
            BY <2>1 DEF To, Cores, Strategies
    <2>3. execute \in Cores
        <3>1. ASSUME NEW i \in Cores
              PROVE  [i EXCEPT !.strategy = "agentic", !.mode = "planner",
                               !.execute = TRUE] \in Cores
            BY DEF Cores, Strategies, DecisionModes
        <3> HIDE DEF image
        <3> QED
            BY <2>2, <3>1
    <2>4. Escalated(d) = [execute EXCEPT !.tools = @ \/ needed, !.required = needed]
        BY DEF Escalated, Needs
    <2> HIDE DEF execute
    <2>5. needed \in BOOLEAN /\ (execute.tools \/ needed) \in BOOLEAN
        OBVIOUS
    <2> HIDE DEF needed
    <2> QED
        BY <2>3, <2>4, <2>5 DEF Cores
<1>4. Searches => Escalated(d).web = "required" /\ (Asks("image") \/ Escalated(d).strategy \in Heavy)
    BY <1>1, <1>2 DEF Escalated, To, Cores, Heavy, Light
<1>5. (Escalated(d).required <=> Needs) /\ (Needs => Escalated(d).tools)
    BY <1>1 DEF Escalated, To, Cores, Needs
<1>6. /\ Escalated(d).execute <=> Executes
      /\ Executes => Escalated(d).strategy = "agentic"
    BY <1>1 DEF Escalated, To, Cores
<1>7. Escalated(d).mode = "planner" => Escalated(d).strategy = "agentic"
    BY <1>1 DEF Escalated, To, Cores, Heavy, Light
<1> QED
    BY <1>3, <1>4, <1>5, <1>6, <1>7 DEF Capable, d

\* A turn that asks for nothing is not changed by the escalation.
LEMMA NothingToEscalate ==
    ASSUME NEW c \in Cores, msg.wants = {}, ~c.required
    PROVE  LET e == Escalated(Finalized(c)) IN
           /\ e.strategy = c.strategy /\ e.web = c.web /\ e.goal = c.goal
           /\ e.demoted = c.demoted /\ (c.strategy \in Light => ~e.tools)
<1>1. ~Searches /\ ~Executes /\ \A w \in Wants : ~Asks(w)
    BY DEF Searches, Executes, Asks
<1>2. ~Asks("remember") /\ ~Asks("ingest") /\ ~Asks("image")
    BY <1>1 DEF Wants
<1> QED
    BY <1>1, <1>2 DEF Escalated, Finalized, Cores

---------------------------------------------------------------------------
\* The corrections of a strategy touch nothing else.
LEMMA PlainStaysPlain ==
    ASSUME NEW c, Plain(c)
    PROVE  /\ \A s \in Strategies : Plain(To(c, s))
           /\ Plain(NotInstant(c)) /\ Plain(Optional(c)) /\ Plain(WeakDomain(c))
           /\ \A s \in Strategies : Plain(FailureMemory(c, s))
           /\ \A a : Plain(Lesson(c, a))
           /\ Plain(LongTask(c)) /\ Plain(SelfEvaluated(c))
           /\ \A r : Plain(Read(c, r))
<1>1. ASSUME NEW d, Plain(d)
      PROVE  (\A s \in Strategies : Plain(To(d, s))) /\ Plain(NotInstant(d)) /\ Plain(Optional(d))
    BY <1>1 DEF Plain, To, NotInstant, Optional, Cores, Strategies, Webs
<1>2. {"contextual", "research", "agentic"} \subseteq Strategies
    BY DEF Strategies
<1>3. Plain(WeakDomain(c))
    BY <1>1, <1>2 DEF WeakDomain
<1>4. \A s \in Strategies : Plain(FailureMemory(c, s))
    BY <1>1, <1>2 DEF FailureMemory
<1>5. \A a : Plain(Lesson(c, a))
    BY <1>1, <1>2 DEF Lesson
<1>6. Plain(LongTask(c)) /\ Plain(SelfEvaluated(c))
    <2>1. Plain(IF Is("fresh") THEN Optional(c) ELSE c)
        BY <1>1
    <2> QED
        BY <1>1, <1>2, <2>1 DEF LongTask, SelfEvaluated
<1>7. \A r : Plain(Read(c, r))
    <2>1. Plain([c EXCEPT !.strategy = "research", !.web = "required"])
        BY <1>2 DEF Plain, Cores, Webs
    <2>2. Plain([c EXCEPT !.strategy = "contextual", !.web = "off", !.demoted = TRUE])
        BY <1>2 DEF Plain, Cores, Webs
    <2> QED
        BY <1>1, <2>1, <2>2 DEF Read
<1> QED
    BY <1>1, <1>3, <1>4, <1>5, <1>6, <1>7

\* What the learning may do to a core, one influence after the other.
LEMMA LearnedIsPlain ==
    ASSUME Plain(core),
           NEW b \in Biased, NEW weak \in BOOLEAN, NEW erred \in BOOLEAN, NEW task \in BOOLEAN,
           NEW action
    PROVE  LET b1 == IF weak THEN WeakDomain(b) ELSE b
               b2 == IF erred THEN FailureMemory(b1, b.strategy) ELSE b1
               b3 == Lesson(b2, action)
               b4 == IF task THEN LongTask(b3) ELSE b3
           IN Plain(b4) /\ Plain(SelfEvaluated(b4))
<1> DEFINE b1 == IF weak THEN WeakDomain(b) ELSE b
           b2 == IF erred THEN FailureMemory(b1, b.strategy) ELSE b1
           b3 == Lesson(b2, action)
           b4 == IF task THEN LongTask(b3) ELSE b3
<1>1. Plain(b) /\ b.strategy \in Strategies
    <2>1. {"contextual"} \cup Heavy \subseteq Strategies
        BY DEF Heavy, Strategies
    <2>2. Plain(b)
        BY <2>1, PlainStaysPlain DEF Biased
    <2> QED
        BY <2>2 DEF Plain, Cores
<1>2. Plain(b1)
    BY <1>1, PlainStaysPlain
<1>3. Plain(b2)
    <2> HIDE DEF b1
    <2> QED
        BY <1>1, <1>2, PlainStaysPlain
<1>4. Plain(b3)
    <2> HIDE DEF b2
    <2> QED
        BY <1>3, PlainStaysPlain
<1>5. Plain(b4)
    <2> HIDE DEF b3
    <2> QED
        BY <1>4, PlainStaysPlain
<1>6. Plain(SelfEvaluated(b4))
    <2> HIDE DEF b4
    <2> QED
        BY <1>5, PlainStaysPlain
<1> QED
    BY <1>5, <1>6

---------------------------------------------------------------------------
\* The stages before the guardrails leave a plain core.
LEMMA SelectionStep ==
    ASSUME DecisionInv, Selection \/ SelectionFails
    PROVE  DecisionInv'
<1>1. Plain(core) /\ ~handoff /\ stage = "select"
    BY DEF DecisionInv, Selection, SelectionFails, Opened
<1>2. Plain(core')
    <2>1. CASE Selection
        <3>1. PICK goals \in BOOLEAN, memory \in BOOLEAN, missed \in BOOLEAN,
                   reading \in {"none", "web", "deixis", "ambiguous", "planner"} :
                LET s == Routed(Classified(goals /\ ~Meta, memory))
                    chosen == [core EXCEPT
                        !.strategy = IF Is("howto") /\ ~Local /\ s = "research" THEN Backward ELSE s,
                        !.web = WebFor(s), !.degraded = missed, !.goal = goals /\ ~Meta]
                    heard == Read(chosen, reading)
                IN core' = IF ~Meta THEN heard
                           ELSE [heard EXCEPT !.web = "off", !.strategy =
                                    IF @ \in Light THEN @
                                    ELSE IF msg.kind = "prior" THEN "direct" ELSE "instant"]
            BY <2>1 DEF Selection
        <3> DEFINE k == Classified(goals /\ ~Meta, memory)
                   s == Routed(k)
                   t == IF Is("howto") /\ ~Local /\ s = "research" THEN Backward ELSE s
                   chosen == [core EXCEPT !.strategy = t, !.web = WebFor(s),
                                          !.degraded = missed, !.goal = goals /\ ~Meta]
                   heard == Read(chosen, reading)
        <3>2. k \in Strategies
            <4>1. (goals /\ ~Meta) \in BOOLEAN
                OBVIOUS
            <4> QED
                BY <4>1, ClassifiedIsStrategy
        <3>3. s \in Strategies /\ t \in Strategies
            <4>1. Backward \in Strategies
                BY DEF Backward, Strategies
            <4>2. s \in Strategies
                <5> HIDE DEF k
                <5> QED
                    BY <3>2, <4>1 DEF Routed, Strategies
            <4> HIDE DEF s
            <4> QED
                BY <4>1, <4>2
        <3>4. WebFor(s) \in Webs
            BY WebForIsWeb
        <3>5. Plain(chosen)
            <4> HIDE DEF s, t
            <4>1. (goals /\ ~Meta) \in BOOLEAN
                OBVIOUS
            <4> QED
                BY <1>1, <3>3, <3>4, <4>1 DEF Plain, Cores
        <3>6. Plain(heard)
            <4> HIDE DEF chosen
            <4> QED
                BY <3>5, PlainStaysPlain
        <3>7. core' = IF ~Meta THEN heard
                      ELSE [heard EXCEPT !.web = "off", !.strategy =
                               IF @ \in Light THEN @
                               ELSE IF msg.kind = "prior" THEN "direct" ELSE "instant"]
            BY <3>1
        <3> HIDE DEF heard
        <3> QED
            BY <3>6, <3>7 DEF Plain, Cores, Webs, Light, Strategies
    <2>2. CASE SelectionFails
        <3>1. PICK goals \in BOOLEAN :
                core' = [core EXCEPT !.degraded = TRUE, !.goal = goals /\ ~Meta]
            BY <2>2 DEF SelectionFails
        <3>2. (goals /\ ~Meta) \in BOOLEAN
            OBVIOUS
        <3> QED
            BY <1>1, <3>1, <3>2 DEF Plain, Cores
    <2> QED
        BY <2>1, <2>2
<1>3. /\ stage' \in {"guardrails", "experience"} /\ msg' = msg /\ verdict' = verdict
      /\ handoff' = handoff
    BY DEF Selection, SelectionFails
<1> QED
    BY <1>1, <1>2, <1>3
        DEF DecisionInv, DecisionStages, Opened, Corrected, Plain, HandOffIsMeant, ConflictBlocks

\* A stage that leads to plain cores keeps the invariant.
LEMMA StageStep ==
    ASSUME DecisionInv, NEW here, NEW next \in DecisionStages \ Corrected, NEW outcomes,
           Stage(here, next, outcomes), stage \notin Corrected,
           \A c \in outcomes : Plain(c)
    PROVE  DecisionInv'
<1>1. Plain(core')
    BY DEF Stage, DecisionInv, Corrected
<1>2. /\ stage' = next /\ next \notin Opened /\ next # "done" /\ stage # "done"
      /\ msg' = msg /\ verdict' = verdict /\ handoff' = handoff
    BY DEF Stage, Corrected, Opened
<1> QED
    BY <1>1, <1>2 DEF DecisionInv, Plain, HandOffIsMeant, ConflictBlocks

\* Every stage between the selection and the guardrails does.
LEMMA CorrectionStep ==
    ASSUME DecisionInv,
           \/ Similar \/ MemoryV2 \/ Policy \/ Simulation
           \/ Consistency \/ Cognition \/ Learning \/ Knowledge
    PROVE  DecisionInv'
<1>1. stage \in {"experience", "memory", "policy", "simulation", "consistency", "cognition",
                 "learning", "knowledge"}
    BY DEF Similar, MemoryV2, Policy, Simulation, Consistency, Cognition, Learning, Knowledge,
           Stage
<1>2. stage \notin Corrected /\ Plain(core)
    BY <1>1 DEF DecisionInv, Corrected, Opened
<1>3. {"memory", "policy", "simulation", "consistency", "cognition", "learning", "knowledge",
       "guardrails"} \subseteq DecisionStages \ Corrected
    BY DEF DecisionStages, Corrected, Opened
<1>4. \A a \in Actions : StrategyOf(a) \in Strategies
    BY DEF Actions, StrategyOf, Strategies
<1>5. CASE Similar
    <2>1. \A s \in Strategies : Plain(To(core, s)) /\ Plain(NotInstant(To(core, s)))
        BY <1>2, PlainStaysPlain
    <2> QED
        BY <1>2, <1>3, <1>5, <2>1, StageStep DEF Similar
<1>6. CASE MemoryV2
    BY <1>2, <1>3, <1>6, PlainStaysPlain, StageStep DEF MemoryV2
<1>7. CASE Policy
    <2>1. \A a \in Actions : Plain(To(core, StrategyOf(a)))
        BY <1>2, <1>4, PlainStaysPlain
    <2> QED
        BY <1>2, <1>3, <1>7, <2>1, StageStep DEF Policy
<1>8. CASE Simulation
    <2> DEFINE variants == {ActionOf(core.strategy)} \cup Alternatives(ActionOf(core.strategy))
    <2>1. variants \subseteq Actions
        <3>1. ActionOf(core.strategy) \in Actions
            BY DEF ActionOf, Actions
        <3>2. \A a \in Actions : Alternatives(a) \subseteq Actions
            BY DEF Actions, Alternatives
        <3> QED
            BY <3>1, <3>2
    <2>2. \A a \in variants : Plain(To(core, StrategyOf(a)))
        BY <1>2, <1>4, <2>1, PlainStaysPlain
    <2> HIDE DEF variants
    <2>3. \A c \in IF core.degraded THEN {} ELSE {To(core, StrategyOf(a)) : a \in variants} : Plain(c)
        BY <2>2
    <2> QED
        BY <1>2, <1>3, <1>8, <2>3, StageStep DEF Simulation, variants
<1>9. CASE Consistency
    <2>1. Plain([NotInstant(core) EXCEPT !.conflict = TRUE])
        <3>1. Plain(NotInstant(core))
            BY <1>2, PlainStaysPlain
        <3> QED
            BY <3>1 DEF Plain, Cores
    <2> QED
        BY <1>2, <1>3, <1>9, <2>1, StageStep DEF Consistency
<1>10. Plain(NotInstant(core)) /\ Plain(Optional(core)) /\ Plain(NotInstant(Optional(core)))
    <2>1. Plain(NotInstant(core)) /\ Plain(Optional(core))
        BY <1>2, PlainStaysPlain
    <2> QED
        BY <2>1, PlainStaysPlain
<1>11. CASE Cognition
    BY <1>2, <1>3, <1>10, <1>11, StageStep DEF Cognition
<1>12. CASE Learning
    <2> DEFINE outcomes ==
          UNION {LET b1 == IF weak THEN WeakDomain(b) ELSE b
                     b2 == IF erred THEN FailureMemory(b1, b.strategy) ELSE b1
                     b3 == Lesson(b2, action)
                     b4 == IF task THEN LongTask(b3) ELSE b3
                 IN {b4, SelfEvaluated(b4)} :
                     b \in Biased, weak \in BOOLEAN, erred \in BOOLEAN, task \in BOOLEAN,
                     action \in {"none", "avoid_instant", "prefer_research", "prefer_planner"}}
    <2>1. \A c \in outcomes : Plain(c)
        BY <1>2, LearnedIsPlain
    <2>2. Stage("learning", "knowledge", outcomes)
        BY <1>12 DEF Learning
    <2> HIDE DEF outcomes
    <2> QED
        BY <1>2, <1>3, <2>1, <2>2, StageStep
<1>13. CASE Knowledge
    BY <1>2, <1>3, <1>10, <1>13, StageStep DEF Knowledge
<1> QED
    BY <1>5, <1>6, <1>7, <1>8, <1>9, <1>11, <1>12, <1>13

---------------------------------------------------------------------------
\* The first guardrail that applies, as a case.
LEMMA GuardedIs ==
    ASSUME NEW c
    PROVE  Guarded(c) =
             IF Meta THEN [To(c, IF msg.kind = "prior" THEN "direct" ELSE "instant") EXCEPT !.web = "off"]
             ELSE IF FreshnessNeeded THEN [To(c, "research") EXCEPT !.web = "required"]
             ELSE IF Local THEN [To(c, IF msg.past > 0 THEN "contextual" ELSE "instant")
                                 EXCEPT !.web = "off"]
             ELSE c
<1> DEFINE rules == <<
        <<Meta, [To(c, IF msg.kind = "prior" THEN "direct" ELSE "instant") EXCEPT !.web = "off"]>>,
        <<FreshnessNeeded, [To(c, "research") EXCEPT !.web = "required"]>>,
        <<Local, [To(c, IF msg.past > 0 THEN "contextual" ELSE "instant") EXCEPT !.web = "off"]>>,
        <<TRUE, c>> >>
           f == FirstRule(rules)
<1>1. DOMAIN rules = 1 .. 4 /\ rules[4][1]
    OBVIOUS
<1>2. f \in 1 .. 4 /\ rules[f][1] /\ \A j \in 1 .. 4 : rules[j][1] => f <= j
    <2>1. 4 \in Nat /\ \E i \in 1 .. 4 : rules[i][1]
        BY <1>1
    <2> HIDE DEF rules
    <2> QED
        BY <1>1, <2>1, FirstApplies
<1>3. Guarded(c) = rules[f][2]
    BY DEF Guarded, FirstOf
<1>4. /\ rules[1][1] <=> Meta
      /\ rules[2][1] <=> FreshnessNeeded
      /\ rules[3][1] <=> Local
    OBVIOUS
<1>5. f = IF Meta THEN 1 ELSE IF FreshnessNeeded THEN 2 ELSE IF Local THEN 3 ELSE 4
    <2> HIDE DEF rules, f
    <2> QED
        BY <1>1, <1>2, <1>4
<1> HIDE DEF f
<1> QED
    BY <1>3, <1>5

\* The first clamp that applies, as a case.
LEMMA ClampedIs ==
    ASSUME NEW c
    PROVE  Clamped(c) =
             IF Meta THEN [To(c, IF c.strategy \in Light THEN c.strategy
                                 ELSE IF msg.kind = "prior" THEN "direct" ELSE "instant")
                           EXCEPT !.web = "off", !.goal = FALSE]
             ELSE IF msg.kind = "greeting" /\ c.strategy \in Heavy THEN To(c, "instant")
             ELSE c
<1> DEFINE rules == <<
        <<Meta, [To(c, IF c.strategy \in Light THEN c.strategy
                       ELSE IF msg.kind = "prior" THEN "direct" ELSE "instant")
                 EXCEPT !.web = "off", !.goal = FALSE]>>,
        <<msg.kind = "greeting" /\ c.strategy \in Heavy, To(c, "instant")>>,
        <<TRUE, c>> >>
           f == FirstRule(rules)
<1>1. DOMAIN rules = 1 .. 3 /\ rules[3][1]
    OBVIOUS
<1>2. f \in 1 .. 3 /\ rules[f][1] /\ \A j \in 1 .. 3 : rules[j][1] => f <= j
    <2>1. 3 \in Nat /\ \E i \in 1 .. 3 : rules[i][1]
        BY <1>1
    <2> HIDE DEF rules
    <2> QED
        BY <1>1, <2>1, FirstApplies
<1>3. Clamped(c) = rules[f][2]
    BY DEF Clamped, FirstOf
<1>4. /\ rules[1][1] <=> Meta
      /\ rules[2][1] <=> (msg.kind = "greeting" /\ c.strategy \in Heavy)
    OBVIOUS
<1>5. f = IF Meta THEN 1 ELSE IF msg.kind = "greeting" /\ c.strategy \in Heavy THEN 2 ELSE 3
    <2> HIDE DEF rules, f
    <2> QED
        BY <1>1, <1>2, <1>4
<1> HIDE DEF f
<1> QED
    BY <1>3, <1>5

\* The guardrails and the clamps keep a turn small that asks for nothing.
LEMMA GuardrailsStep ==
    ASSUME DecisionInv, Guardrails
    PROVE  DecisionInv'
<1> DEFINE g == Guarded(core)
           e == Clamped(g)
<1>1. /\ stage = "guardrails" /\ stage' = "escalation" /\ core' = e
      /\ msg' = msg /\ verdict' = verdict /\ handoff' = handoff
    BY DEF Guardrails
<1>2. Plain(core) /\ ~handoff
    BY <1>1 DEF DecisionInv, Opened
<1>3. {"instant", "direct", "contextual", "research"} \subseteq Strategies
    BY DEF Strategies
<1>4. Plain(g) /\ g.demoted = core.demoted
    BY <1>2, <1>3, GuardedIs DEF Plain, Cores, Webs, To
<1>5. Plain(e) /\ e.demoted = core.demoted
    <2>1. g.strategy \in Light => g.strategy \in Strategies
        BY DEF Light, Strategies
    <2> HIDE DEF g
    <2> QED
        BY <1>3, <1>4, <2>1, ClampedIs DEF Plain, Cores, Webs, To
<1>6. Meta => e.strategy \in Light /\ e.web = "off" /\ ~e.goal
    <2> HIDE DEF g
    <2> QED
        BY <1>4, ClampedIs DEF Plain, Cores, To, Light
<1>7. msg.kind = "greeting" => e.strategy \notin Heavy
    <2> HIDE DEF g
    <2> QED
        BY <1>4, ClampedIs DEF Plain, Cores, To, Meta, Heavy
<1>8. Local /\ ~FreshnessNeeded => e.web = "off" /\ e.strategy \notin Heavy
    <2>1. Local /\ ~FreshnessNeeded => g.web = "off" /\ g.strategy \notin Heavy
        BY <1>2, GuardedIs DEF Plain, Cores, To, Heavy
    <2> HIDE DEF g
    <2>2. Light \cap Heavy = {}
        BY DEF Light, Heavy
    <2> QED
        BY <1>4, <2>1, <2>2, ClampedIs DEF Plain, Cores, To, Heavy
<1> HIDE DEF e, g
<1>9. FreshnessNeeded' <=> FreshnessNeeded
    BY <1>1, <1>5 DEF FreshnessNeeded, Is
<1>10. StaysSmall'
    BY <1>1, <1>5, <1>6, <1>7, <1>8, <1>9 DEF StaysSmall, Meta, Local, Is, Plain
<1> QED
    BY <1>1, <1>2, <1>5, <1>10
        DEF DecisionInv, DecisionStages, Opened, Plain, HandOffIsMeant, ConflictBlocks

\* A turn that stays small does so through an escalation: there is nothing to
\* escalate.
LEMMA SmallThroughEscalation ==
    ASSUME DecisionInv, stage \in Corrected, NEW c \in Cores, c = core,
           core' = Escalated(Finalized(c)), msg' = msg
    PROVE  StaysSmall'
<1>1. StaysSmall
    BY DEF DecisionInv
<1>2. SUFFICES ASSUME msg.wants = {} PROVE StaysSmall'
    BY DEF StaysSmall
<1>3. ~c.required
    <2>1. ~Needs
        BY <1>2 DEF Needs, Searches, Executes, Asks
    <2> QED
        BY <2>1 DEF DecisionInv, Corrected, Plain, Capable
<1>4. /\ core'.strategy = core.strategy /\ core'.web = core.web /\ core'.goal = core.goal
      /\ core'.demoted = core.demoted /\ (core.strategy \in Light => ~core'.tools)
    BY <1>2, <1>3, NothingToEscalate
<1> QED
    BY <1>1, <1>4 DEF StaysSmall, FreshnessNeeded, Meta, Local, Is

\* The escalation makes the turn capable of what it was asked.
LEMMA EscalationStep ==
    ASSUME DecisionInv, Escalation
    PROVE  DecisionInv'
<1>1. /\ stage = "escalation" /\ stage' = "budget" /\ core' = Escalated(Finalized(core))
      /\ msg' = msg /\ verdict' = verdict /\ handoff' = handoff
    BY DEF Escalation
<1>2. Plain(core) /\ ~handoff /\ stage \in Corrected
    BY <1>1 DEF DecisionInv, Opened, Corrected
<1>3. core' \in Cores /\ Capable(core')
    BY <1>1, <1>2, EscalatedIsCapable DEF Plain
<1>4. Capable(core)'
    BY <1>1, <1>3 DEF Capable, Needs, Searches, Executes, Asks
<1>5. StaysSmall'
    BY <1>1, <1>2, SmallThroughEscalation DEF Plain
<1> QED
    BY <1>1, <1>2, <1>3, <1>4, <1>5
        DEF DecisionInv, DecisionStages, Opened, HandOffIsMeant, ConflictBlocks

\* The budget takes no tools from a turn that needs them.
LEMMA BudgetStep ==
    ASSUME DecisionInv, Budget
    PROVE  DecisionInv'
<1>1. /\ stage = "budget" /\ stage' = "blocker"
      /\ msg' = msg /\ verdict' = verdict /\ handoff' = handoff
    BY DEF Budget
<1>2. PICK allowed \in BOOLEAN :
        core' = [core EXCEPT !.tools = @ /\ (allowed \/ core.required)]
    BY DEF Budget
<1>3. core \in Cores /\ Capable(core) /\ StaysSmall /\ ~handoff
    BY <1>1 DEF DecisionInv, Opened, Corrected
<1>4. /\ core' \in Cores
      /\ core'.strategy = core.strategy /\ core'.web = core.web /\ core'.goal = core.goal
      /\ core'.demoted = core.demoted /\ core'.required = core.required
      /\ core'.mode = core.mode /\ core'.execute = core.execute
      /\ core'.tools <=> core.tools /\ (allowed \/ core.required)
    <2>1. (core.tools /\ (allowed \/ core.required)) \in BOOLEAN
        OBVIOUS
    <2> QED
        BY <1>2, <1>3, <2>1 DEF Cores
<1>5. Capable(core)'
    BY <1>1, <1>3, <1>4 DEF Capable, Needs, Searches, Executes, Asks
<1>6. StaysSmall'
    BY <1>1, <1>3, <1>4 DEF StaysSmall, FreshnessNeeded, Meta, Local, Is
<1> QED
    BY <1>1, <1>3, <1>4, <1>5, <1>6
        DEF DecisionInv, DecisionStages, Opened, HandOffIsMeant, ConflictBlocks

\* The blocker stops what it has to stop, and a turn that it lowers is as
\* capable as before.
LEMMA BlockerStep ==
    ASSUME DecisionInv, Blocker
    PROVE  DecisionInv'
<1>1. /\ stage = "blocker" /\ stage' \in {"blocked", "handoff"}
      /\ msg' = msg /\ handoff' = handoff
    BY DEF Blocker
<1>2. PICK s \in Signals :
        /\ verdict' = IF Asks("image") THEN NoVerdict ELSE Evaluated(core, s)
        /\ core' = IF verdict'.resolution \in {"downgrade", "reroute"}
                   THEN Lowered(core, verdict'.next) ELSE core
    BY DEF Blocker
<1>3. core \in Cores /\ Capable(core) /\ StaysSmall /\ ~handoff
    BY <1>1 DEF DecisionInv, Opened, Corrected
<1>4. /\ verdict'.grave => verdict'.hard
      /\ verdict'.resolution \in {"downgrade", "reroute"} =>
           core.strategy \in Heavy /\ verdict'.next \in {"contextual", "instant"}
    <2>1. CASE Asks("image")
        BY <1>2, <2>1 DEF NoVerdict
    <2>2. CASE ~Asks("image")
        BY <1>2, <1>3, <2>2, EvaluatedHolds
    <2> QED
        BY <2>1, <2>2
<1>5. core' \in Cores /\ Capable(core)' /\ StaysSmall'
    <2>1. CASE verdict'.resolution \in {"downgrade", "reroute"}
        <3> DEFINE c == To(core, verdict'.next)
        <3>1. c \in Cores /\ c.required = core.required /\ c.execute = core.execute
            BY <1>3, <1>4, <2>1 DEF To, Cores, Strategies
        <3>2. core' = Escalated(Finalized(c))
            BY <1>2, <2>1 DEF Lowered
        <3>3. (c.required => Needs) /\ (c.execute => Executes)
            BY <1>3, <3>1 DEF Capable
        <3>4. core' \in Cores /\ Capable(core')
            <4> HIDE DEF c
            <4> QED
                BY <3>1, <3>2, <3>3, EscalatedIsCapable
        <3>5. Capable(core)'
            BY <1>1, <3>4 DEF Capable, Needs, Searches, Executes, Asks
        <3>6. StaysSmall'
            <4> SUFFICES ASSUME msg.wants = {} PROVE StaysSmall'
                BY <1>1 DEF StaysSmall
            <4>1. ~c.required
                BY <3>1, <3>3 DEF Needs, Searches, Executes, Asks
            <4>2. /\ core'.strategy = c.strategy /\ core'.web = c.web
                  /\ core'.demoted = c.demoted
                <5> HIDE DEF c
                <5> QED
                    BY <3>1, <3>2, <4>1, NothingToEscalate
            <4>3. /\ core'.strategy \notin Heavy /\ core'.web = core.web
                  /\ core'.demoted = core.demoted
                BY <1>3, <1>4, <2>1, <4>2 DEF To, Cores, Heavy
            <4>4. core.strategy \notin Light
                BY <1>4, <2>1 DEF Light, Heavy
            <4> QED
                BY <1>1, <1>3, <4>3, <4>4 DEF StaysSmall, FreshnessNeeded, Meta, Local, Is
        <3> QED
            BY <3>4, <3>5, <3>6
    <2>2. CASE verdict'.resolution \notin {"downgrade", "reroute"}
        <3>1. core' = core
            BY <1>2, <2>2
        <3> QED
            BY <1>1, <1>3, <3>1
                DEF Capable, Needs, Searches, Executes, Asks, StaysSmall, FreshnessNeeded, Meta,
                    Local, Is
    <2> QED
        BY <2>1, <2>2
<1> QED
    BY <1>1, <1>3, <1>4, <1>5
        DEF DecisionInv, DecisionStages, Opened, HandOffIsMeant, ConflictBlocks

\* Only what may be handed to the agent is.
LEMMA HandoffStep ==
    ASSUME DecisionInv, Handoff
    PROVE  DecisionInv'
<1>1. /\ stage = "handoff" /\ stage' = "done"
      /\ msg' = msg /\ verdict' = verdict /\ core' = core
    BY DEF Handoff
<1>2. core \in Cores /\ Capable(core) /\ StaysSmall
    BY <1>1 DEF DecisionInv, Opened, Corrected
<1>3. /\ handoff' \in BOOLEAN
      /\ handoff' => /\ ~StaysForWeb(core)
                     /\ core.execute \/ ~PlanOnly(core)
                     /\ core.execute \/ core.strategy = "agentic" \/ core.mode = "planner"
    BY DEF Handoff
<1>4. HandOffIsMeant'
    <2> SUFFICES ASSUME handoff'
                 PROVE  /\ core.strategy = "agentic" /\ core.web # "required"
                        /\ Asks("planOnly") => Is("doIt")
        BY <1>1 DEF HandOffIsMeant, Asks, Is
    <2>1. core.strategy = "agentic"
        BY <1>2, <1>3 DEF Capable
    <2>2. core.web # "required"
        BY <1>3, <2>1 DEF StaysForWeb
    <2>3. Asks("planOnly") => Is("doIt")
        BY <1>2, <1>3 DEF PlanOnly, Capable, Executes
    <2> QED
        BY <2>1, <2>2, <2>3
<1>5. Capable(core)' /\ StaysSmall'
    BY <1>1, <1>2
        DEF Capable, Needs, Searches, Executes, Asks, StaysSmall, FreshnessNeeded, Meta, Local, Is
<1> QED
    BY <1>1, <1>2, <1>3, <1>4, <1>5 DEF DecisionInv, DecisionStages, Opened, ConflictBlocks

---------------------------------------------------------------------------
\* The invariant of the decision: it holds at the start and every stage keeps it.
THEOREM DecisionInvariant == DecisionSpec => []DecisionInv
<1>1. DecisionInit => DecisionInv
    <2> SUFFICES ASSUME DecisionInit PROVE DecisionInv
        OBVIOUS
    <2>1. Plain(core)
        BY DEF DecisionInit, NewCore, Plain, Cores, Strategies, Webs, DecisionModes
    <2>2. stage \in DecisionStages /\ stage \notin Corrected /\ stage \notin Opened /\ stage # "done"
        BY DEF DecisionInit, DecisionStages, Opened, Corrected
    <2>3. HandOffIsMeant /\ ConflictBlocks /\ handoff = FALSE /\ msg \in Messages
        BY DEF DecisionInit, NoVerdict, HandOffIsMeant, ConflictBlocks
    <2> QED
        BY <2>1, <2>2, <2>3 DEF DecisionInv, Plain
<1>2. DecisionInv /\ [DecisionNext]_decVars => DecisionInv'
    <2> SUFFICES ASSUME DecisionInv, [DecisionNext]_decVars PROVE DecisionInv'
        OBVIOUS
    <2>1. CASE DecisionNext
        BY <2>1, SelectionStep, CorrectionStep, GuardrailsStep, EscalationStep, BudgetStep,
           BlockerStep, HandoffStep DEF DecisionNext
    <2>2. CASE UNCHANGED decVars
        BY <2>2
            DEF decVars, DecisionInv, Plain, Capable, Needs, Searches, Executes, Asks,
                StaysSmall, FreshnessNeeded, Meta, Local, Is, HandOffIsMeant, ConflictBlocks
    <2> QED
        BY <2>1, <2>2
<1> QED
    BY <1>1, <1>2, PTL DEF DecisionSpec

\* Whatever the message, the stores and the signals of the blocker say: what
\* the user asked for survives the corrections after it, small talk and local
\* edits stay out of the heavy stages, the agent gets only what is meant for
\* it, and a conflict or an avoided action stops the turn.
THEOREM DecisionHoldsAlways == DecisionSpec => []DecisionHolds
<1>1. DecisionInv => DecisionHolds
    <2> SUFFICES ASSUME DecisionInv PROVE DecisionHolds
        OBVIOUS
    <2>1. DecisionTypeOK
        BY DEF DecisionInv, DecisionTypeOK, Cores, Webs
    <2>2. Answered => Capable(core) /\ StaysSmall
        BY DEF DecisionInv, Answered, Opened, Corrected
    <2>3. CapabilityIsKept
        <3>1. msg.wants \cap {"remember", "ingest", "image"} # {} =>
                Asks("remember") \/ Asks("ingest") \/ Asks("image")
            BY DEF Asks
        <3> QED
            BY <2>2, <3>1 DEF CapabilityIsKept, Capable, Needs
    <2>4. PlannerIsAgentic
        BY <2>2 DEF PlannerIsAgentic, Capable
    <2>5. SmallTalkIsLight /\ LocalStaysLocal
        BY <2>2 DEF SmallTalkIsLight, LocalStaysLocal, StaysSmall
    <2> QED
        BY <2>1, <2>3, <2>4, <2>5 DEF DecisionHolds, DecisionInv
<1> QED
    BY <1>1, DecisionInvariant, PTL

---------------------------------------------------------------------------
(***************************************************************************)
(* The pipeline                                                            *)
(***************************************************************************)
\* Stages before the model is asked, and those without an attempt.
Early == {"prepare", "decide", "handoff", "agent", "forced", "forcing", "web", "searching",
          "ready"}
Out == {"idle", "ended"}

\* The context is bound to the turn while it runs, and what was filed is its own.
BoundFits(t) ==
    /\ pc[t] \notin Out => bound[t] = t
    /\ by[t] \subseteq {t}

\* An outcome is written in the stretch that ends the attempt, and the event last.
WritesFit(t) ==
    /\ pc[t] \in {"feedback", "quiet"} => running = t
    /\ pc[t] \notin {"feedback", "quiet", "ended"}
           => now[t] \subseteq {"correction", "experience", "cost"}
    /\ "event" \in now[t] => pc[t] = "ended" /\ result[t] \in {"ok", "not_ok"}
    /\ "event" \notin before[t]

AuditFits(t) ==
    t \in AuditTurns =>
        (now[t] \cup before[t]) \cap {"correction", "memory", "psyche", "bias"} = {}

\* From the loop on, a required search has grounded the turn.
WebFits(t) ==
    plan[t].web = "required" =>
        /\ pc[t] = "ready" => plan[t].search # "none"
        /\ pc[t] \notin Early \cup {"feedback", "quiet"} \cup Out => plan[t].search = "grounded"
        /\ calls[t] > 0 => plan[t].search = "grounded"

\* The calls so far, by the stage of the turn.
CallsFit(t) ==
    /\ pc[t] \in Early \cup Out \cup {"quiet"} => calls[t] = 0 /\ rounds[t] = 0 /\ drafts[t] = 0
    /\ plan[t].budget = "light" => rounds[t] = 0
    /\ pc[t] = "loop" => calls[t] = rounds[t]
    /\ pc[t] \in {"provider", "tools", "shape"} => calls[t] = rounds[t] + 1
    /\ pc[t] \in {"loop", "provider", "tools", "shape"} => drafts[t] = 0
    /\ pc[t] = "tools" => rounds[t] < ToolRounds /\ plan[t].budget # "light"
    /\ pc[t] \in {"draft", "variant", "critic"} => calls[t] = rounds[t] + 1 + drafts[t]
    /\ pc[t] = "draft" => drafts[t] < Variants
    /\ calls[t] <= rounds[t] + drafts[t] + 2

Fits(t) == BoundFits(t) /\ WritesFit(t) /\ AuditFits(t) /\ WebFits(t) /\ CallsFit(t)

PipelineInv == PipelineTypeOK /\ \A t \in Turns : Fits(t)

\* The values of a turn have their types.
TypedAt(t) ==
    /\ pc[t] \in Stages /\ own[t] \in Nat /\ bound[t] \in Turns \cup {NoTurn}
    /\ plan[t] \in Plans
    /\ rounds[t] \in 0 .. ToolRounds /\ drafts[t] \in 0 .. Variants
    /\ calls[t] \in 0 .. ToolRounds + Variants + 2
    /\ by[t] \in SUBSET (Turns \cup {NoTurn})
    /\ now[t] \in SUBSET Effects /\ before[t] \in SUBSET Effects
    /\ result[t] \in {"none", "ok", "not_ok", "failed", "cancelled"}
    /\ attempt[t] \in 1 .. Attempts[t]

\* A step that changes nothing but one turn, and the cap.
OnlyTurn(t) ==
    /\ running \in {NoTurn, t} /\ running' \in {NoTurn, t} /\ cap' \in Nat
    /\ pc' = [pc EXCEPT ![t] = pc'[t]] /\ own' = [own EXCEPT ![t] = own'[t]]
    /\ bound' = [bound EXCEPT ![t] = bound'[t]] /\ plan' = [plan EXCEPT ![t] = plan'[t]]
    /\ rounds' = [rounds EXCEPT ![t] = rounds'[t]] /\ drafts' = [drafts EXCEPT ![t] = drafts'[t]]
    /\ calls' = [calls EXCEPT ![t] = calls'[t]] /\ by' = [by EXCEPT ![t] = by'[t]]
    /\ now' = [now EXCEPT ![t] = now'[t]] /\ before' = [before EXCEPT ![t] = before'[t]]
    /\ result' = [result EXCEPT ![t] = result'[t]] /\ attempt' = [attempt EXCEPT ![t] = attempt'[t]]

LEMMA OwnTurn ==
    ASSUME PipelineInv, NEW t \in Turns, OnlyTurn(t), TypedAt(t)', Fits(t)'
    PROVE  PipelineInv'
<1>1. PipelineTypeOK'
  <2>1. /\ pc' \in [Turns -> Stages] /\ running' \in Turns \cup {NoTurn} /\ cap' \in Nat
        /\ own' \in [Turns -> Nat] /\ plan' \in [Turns -> Plans]
    BY DEF PipelineInv, PipelineTypeOK, OnlyTurn, TypedAt
  <2>5. bound' \in [Turns -> Turns \cup {NoTurn}]
    BY DEF PipelineInv, PipelineTypeOK, OnlyTurn, TypedAt
  <2>2. /\ rounds' \in [Turns -> 0 .. ToolRounds] /\ drafts' \in [Turns -> 0 .. Variants]
        /\ calls' \in [Turns -> 0 .. ToolRounds + Variants + 2]
    BY DEF PipelineInv, PipelineTypeOK, OnlyTurn, TypedAt
  <2>3. /\ by' \in [Turns -> SUBSET (Turns \cup {NoTurn})]
        /\ now' \in [Turns -> SUBSET Effects] /\ before' \in [Turns -> SUBSET Effects]
        /\ result' \in [Turns -> {"none", "ok", "not_ok", "failed", "cancelled"}]
    BY DEF PipelineInv, PipelineTypeOK, OnlyTurn, TypedAt
  <2>4. attempt' \in [Turns -> Nat] /\ \A u \in Turns : attempt'[u] \in 1 .. Attempts[u]
    <3>1. attempt'[t] \in Nat
      BY BoundAssumption DEF TypedAt
    <3> QED
      BY <3>1 DEF PipelineInv, PipelineTypeOK, OnlyTurn, TypedAt
  <2> QED BY <2>1, <2>2, <2>3, <2>4, <2>5 DEF PipelineTypeOK
<1>2. ASSUME NEW u \in Turns, u # t PROVE Fits(u)'
  <2>1. /\ pc'[u] = pc[u] /\ bound'[u] = bound[u] /\ plan'[u] = plan[u] /\ rounds'[u] = rounds[u]
        /\ drafts'[u] = drafts[u] /\ calls'[u] = calls[u] /\ by'[u] = by[u] /\ now'[u] = now[u]
        /\ before'[u] = before[u] /\ result'[u] = result[u]
    BY <1>2 DEF PipelineInv, PipelineTypeOK, OnlyTurn
  <2>2. Fits(u)
    BY DEF PipelineInv
  <2>3. pc[u] \notin {"feedback", "quiet"}
    BY <1>2, <2>2, TurnsAssumption DEF Fits, WritesFit, OnlyTurn
  <2> QED
    BY <2>1, <2>2, <2>3 DEF Fits, BoundFits, WritesFit, AuditFits, WebFits, CallsFit
<1> QED BY <1>1, <1>2 DEF PipelineInv

LEMMA PipelineStarts == PipelineInit => PipelineInv
  BY TurnsAssumption, BoundAssumption, CapAssumption
  DEF PipelineInit, PipelineInv, PipelineTypeOK, Fits, BoundFits, WritesFit, AuditFits, WebFits,
      CallsFit, Stages, NoPlan, Plans, Early, Out, Effects, WriteBacks

\* The values of a turn are typed, and fit.
LEMMA Here == ASSUME PipelineInv, NEW t \in Turns PROVE TypedAt(t) /\ Fits(t)
  BY DEF PipelineInv, PipelineTypeOK, TypedAt

\* Of the stores that are tried, some are written.
LEMMA TriedWithin == ASSUME NEW t, NEW S, NEW R \in Tried(t, S) PROVE R \subseteq S
  BY DEF Tried

\* What _write_back_experience changes.
LEMMA ExperienceWithin ==
    ASSUME PipelineTypeOK, NEW t \in Turns, NEW e \in BOOLEAN, Experience(t, e),
           bound[t] = t, by[t] \subseteq {t}
    PROVE  /\ plan'[t] \in Plans /\ plan'[t].budget = plan[t].budget /\ plan'[t].web = plan[t].web
           /\ plan'[t].search = plan[t].search
           /\ by'[t] = {t} /\ now'[t] \subseteq now[t] \cup {"experience"}
<1>1. PICK S \in Tried(t, {"experience"}) :
         Filed(t, S) /\ plan' = [plan EXCEPT ![t].errors = e \/ S = {}]
  BY DEF Experience
<1>2. S \subseteq {"experience"}
  BY TriedWithin
<1>3. by'[t] = {t} /\ now'[t] = now[t] \cup S
  BY <1>1 DEF Filed, Note, PipelineTypeOK
<1>4. plan'[t] = [plan[t] EXCEPT !.errors = e \/ S = {}] /\ plan[t] \in Plans
  BY <1>1 DEF PipelineTypeOK
<1>5. (e \/ S = {}) \in BOOLEAN
  OBVIOUS
<1> QED BY <1>2, <1>3, <1>4, <1>5 DEF Plans

LEMMA CapsAreNat ==
    ASSUME NEW c \in Nat, NEW b \in Nat \ {0}
    PROVE  MetaCap(c) \in Nat /\ BudgetCap(c, b) \in Nat
  BY DEF MetaCap, BudgetCap, Max2, Min2

\* An attempt that ends with its event, or fails over it.
LEMMA LastEventKeeps ==
    ASSUME PipelineInv, NEW t \in Turns, NEW S \in SUBSET {"model", "bias"}, LastEvent(t, S),
           t \in AuditTurns => S \subseteq {"model"},
           pc[t] \in {"writeback", "feedback"}, running \in {NoTurn, t},
           UNCHANGED <<cap, by, before, attempt>>
    PROVE  PipelineInv'
<1>0. TypedAt(t) /\ Fits(t) /\ PipelineTypeOK
  BY Here DEF PipelineInv
<1>1. PICK how \in {"ok", "not_ok", "failed"}, T \in {S, S \cup {"event"}} :
         End(t, how) /\ Note(t, T) /\ ("event" \in T => how # "failed")
  BY DEF LastEvent, Answer
<1>2. OnlyTurn(t)
  BY <1>0, <1>1 DEF End, Note, OnlyTurn, PipelineTypeOK
<1>3. /\ pc'[t] = "ended" /\ bound'[t] = NoTurn /\ result'[t] = how /\ plan'[t] = NoPlan
      /\ own'[t] = 0 /\ rounds'[t] = 0 /\ drafts'[t] = 0 /\ calls'[t] = 0
      /\ now'[t] = now[t] \cup T /\ before'[t] = before[t] /\ by'[t] = by[t]
      /\ attempt'[t] = attempt[t]
  BY <1>0, <1>1 DEF End, Note, PipelineTypeOK
<1>4. TypedAt(t)'
  <2>1. NoPlan \in Plans
    BY DEF NoPlan, Plans
  <2>2. now'[t] \in SUBSET Effects
    BY <1>0, <1>1, <1>3 DEF TypedAt, Effects, WriteBacks
  <2>3. 0 \in 0 .. ToolRounds /\ 0 \in 0 .. Variants /\ 0 \in 0 .. ToolRounds + Variants + 2
    BY BoundAssumption
  <2>4. pc'[t] \in Stages /\ result'[t] \in {"none", "ok", "not_ok", "failed", "cancelled"}
    BY <1>1, <1>3 DEF Stages
  <2> QED BY <1>0, <1>3, <2>1, <2>2, <2>3, <2>4 DEF TypedAt
<1>5. Fits(t)'
  BY <1>0, <1>1, <1>3, BoundAssumption DEF TypedAt, NoPlan, Fits, BoundFits, WritesFit, AuditFits,
     WebFits, CallsFit, Early, Out
<1> QED BY <1>2, <1>4, <1>5, OwnTurn

\* Steps that only go on to another stage.
LEMMA MovesKeep ==
    ASSUME PipelineInv, NEW t \in Turns
    PROVE  \/ StayInChat(t) \/ HandOff(t) \/ NoForcedTools(t) \/ ForcedTools(t)
           \/ Search(t) \/ NoSearch(t) \/ ProviderWantsTools(t) \/ ProviderAnswers(t)
           \/ Shape(t) \/ VariantDone(t) \/ CriticPasses(t) \/ RevisionDone(t)
           => PipelineInv'
<1> USE TurnsAssumption, BoundAssumption, CapAssumption
    DEF At, GoOn, Await, Emit, End, Note, ProviderCall,
         capVars, effectVars, loopVars
<1>0. TypedAt(t) /\ Fits(t) /\ PipelineTypeOK
  BY Here DEF PipelineInv
<1>1. ASSUME StayInChat(t) PROVE PipelineInv'
  <2>1. OnlyTurn(t)
    BY <1>0, <1>1 DEF StayInChat, OnlyTurn, PipelineTypeOK
  <2>2. TypedAt(t)'
    BY <1>0, <1>1 DEF StayInChat, PipelineTypeOK, TypedAt, Stages, Effects, WriteBacks, NoPlan,
       Plans, Fits, CallsFit, Early, Out
  <2>3. Fits(t)'
    BY <1>0, <1>1 DEF StayInChat, PipelineTypeOK, TypedAt, Fits, BoundFits, WritesFit,
       AuditFits, WebFits, CallsFit, Early, Out, NoPlan, Plans
  <2> QED BY <2>1, <2>2, <2>3, OwnTurn
<1>2. ASSUME HandOff(t) PROVE PipelineInv'
  <2>1. OnlyTurn(t)
    BY <1>0, <1>2 DEF HandOff, OnlyTurn, PipelineTypeOK
  <2>2. TypedAt(t)'
    BY <1>0, <1>2 DEF HandOff, PipelineTypeOK, TypedAt, Stages, Effects, WriteBacks, NoPlan,
       Plans, Fits, CallsFit, Early, Out
  <2>3. Fits(t)'
    BY <1>0, <1>2 DEF HandOff, PipelineTypeOK, TypedAt, Fits, BoundFits, WritesFit, AuditFits,
       WebFits, CallsFit, Early, Out, NoPlan, Plans
  <2> QED BY <2>1, <2>2, <2>3, OwnTurn
<1>3. ASSUME NoForcedTools(t) PROVE PipelineInv'
  <2>1. OnlyTurn(t)
    BY <1>0, <1>3 DEF NoForcedTools, OnlyTurn, PipelineTypeOK
  <2>2. TypedAt(t)'
    BY <1>0, <1>3 DEF NoForcedTools, PipelineTypeOK, TypedAt, Stages, Effects, WriteBacks,
       NoPlan, Plans, Fits, CallsFit, Early, Out
  <2>3. Fits(t)'
    BY <1>0, <1>3 DEF NoForcedTools, PipelineTypeOK, TypedAt, Fits, BoundFits, WritesFit,
       AuditFits, WebFits, CallsFit, Early, Out, NoPlan, Plans
  <2> QED BY <2>1, <2>2, <2>3, OwnTurn
<1>4. ASSUME ForcedTools(t) PROVE PipelineInv'
  <2>1. OnlyTurn(t)
    BY <1>0, <1>4 DEF ForcedTools, OnlyTurn, PipelineTypeOK
  <2>2. TypedAt(t)'
    BY <1>0, <1>4 DEF ForcedTools, PipelineTypeOK, TypedAt, Stages, Effects, WriteBacks,
       NoPlan, Plans, Fits, CallsFit, Early, Out
  <2>3. Fits(t)'
    BY <1>0, <1>4 DEF ForcedTools, PipelineTypeOK, TypedAt, Fits, BoundFits, WritesFit,
       AuditFits, WebFits, CallsFit, Early, Out, NoPlan, Plans
  <2> QED BY <2>1, <2>2, <2>3, OwnTurn
<1>5. ASSUME Search(t) PROVE PipelineInv'
  <2>1. OnlyTurn(t)
    BY <1>0, <1>5 DEF Search, OnlyTurn, PipelineTypeOK
  <2>2. TypedAt(t)'
    BY <1>0, <1>5 DEF Search, PipelineTypeOK, TypedAt, Stages, Effects, WriteBacks, NoPlan,
       Plans, Fits, CallsFit, Early, Out
  <2>3. Fits(t)'
    BY <1>0, <1>5 DEF Search, PipelineTypeOK, TypedAt, Fits, BoundFits, WritesFit, AuditFits,
       WebFits, CallsFit, Early, Out, NoPlan, Plans
  <2> QED BY <2>1, <2>2, <2>3, OwnTurn
<1>6. ASSUME NoSearch(t) PROVE PipelineInv'
  <2>1. OnlyTurn(t)
    BY <1>0, <1>6 DEF NoSearch, OnlyTurn, PipelineTypeOK
  <2>2. TypedAt(t)'
    BY <1>0, <1>6 DEF NoSearch, PipelineTypeOK, TypedAt, Stages, Effects, WriteBacks, NoPlan,
       Plans, Fits, CallsFit, Early, Out
  <2>3. Fits(t)'
    BY <1>0, <1>6 DEF NoSearch, PipelineTypeOK, TypedAt, Fits, BoundFits, WritesFit, AuditFits,
       WebFits, CallsFit, Early, Out, NoPlan, Plans
  <2> QED BY <2>1, <2>2, <2>3, OwnTurn
<1>7. ASSUME ProviderWantsTools(t) PROVE PipelineInv'
  <2>1. OnlyTurn(t)
    BY <1>0, <1>7 DEF ProviderWantsTools, ToolsAllowed, OnlyTurn, PipelineTypeOK
  <2>2. TypedAt(t)'
    BY <1>0, <1>7 DEF ProviderWantsTools, ToolsAllowed, PipelineTypeOK, TypedAt, Stages,
       Effects, WriteBacks, NoPlan, Plans, Fits, CallsFit, Early, Out
  <2>3. Fits(t)'
    BY <1>0, <1>7 DEF ProviderWantsTools, ToolsAllowed, PipelineTypeOK, TypedAt, Fits,
       BoundFits, WritesFit, AuditFits, WebFits, CallsFit, Early, Out, NoPlan, Plans
  <2> QED BY <2>1, <2>2, <2>3, OwnTurn
<1>8. ASSUME ProviderAnswers(t) PROVE PipelineInv'
  <2>1. OnlyTurn(t)
    BY <1>0, <1>8 DEF ProviderAnswers, OnlyTurn, PipelineTypeOK
  <2>2. TypedAt(t)'
    BY <1>0, <1>8 DEF ProviderAnswers, PipelineTypeOK, TypedAt, Stages, Effects, WriteBacks,
       NoPlan, Plans, Fits, CallsFit, Early, Out
  <2>3. Fits(t)'
    BY <1>0, <1>8 DEF ProviderAnswers, PipelineTypeOK, TypedAt, Fits, BoundFits, WritesFit,
       AuditFits, WebFits, CallsFit, Early, Out, NoPlan, Plans
  <2> QED BY <2>1, <2>2, <2>3, OwnTurn
<1>9. ASSUME Shape(t) PROVE PipelineInv'
  <2>1. OnlyTurn(t)
    BY <1>0, <1>9 DEF Shape, OnlyTurn, PipelineTypeOK
  <2>2. TypedAt(t)'
    BY <1>0, <1>9 DEF Shape, PipelineTypeOK, TypedAt, Stages, Effects, WriteBacks, NoPlan,
       Plans, Fits, CallsFit, Early, Out
  <2>3. Fits(t)'
    BY <1>0, <1>9 DEF Shape, PipelineTypeOK, TypedAt, Fits, BoundFits, WritesFit, AuditFits,
       WebFits, CallsFit, Early, Out, NoPlan, Plans
  <2> QED BY <2>1, <2>2, <2>3, OwnTurn
<1>10. ASSUME VariantDone(t) PROVE PipelineInv'
  <2>1. OnlyTurn(t)
    BY <1>0, <1>10 DEF VariantDone, OnlyTurn, PipelineTypeOK
  <2>2. TypedAt(t)'
    BY <1>0, <1>10 DEF VariantDone, PipelineTypeOK, TypedAt, Stages, Effects, WriteBacks,
       NoPlan, Plans, Fits, CallsFit, Early, Out
  <2>3. Fits(t)'
    BY <1>0, <1>10 DEF VariantDone, PipelineTypeOK, TypedAt, Fits, BoundFits, WritesFit,
       AuditFits, WebFits, CallsFit, Early, Out, NoPlan, Plans
  <2> QED BY <2>1, <2>2, <2>3, OwnTurn
<1>11. ASSUME CriticPasses(t) PROVE PipelineInv'
  <2>1. OnlyTurn(t)
    BY <1>0, <1>11 DEF CriticPasses, OnlyTurn, PipelineTypeOK
  <2>2. TypedAt(t)'
    BY <1>0, <1>11 DEF CriticPasses, PipelineTypeOK, TypedAt, Stages, Effects, WriteBacks,
       NoPlan, Plans, Fits, CallsFit, Early, Out
  <2>3. Fits(t)'
    BY <1>0, <1>11 DEF CriticPasses, PipelineTypeOK, TypedAt, Fits, BoundFits, WritesFit,
       AuditFits, WebFits, CallsFit, Early, Out, NoPlan, Plans
  <2> QED BY <2>1, <2>2, <2>3, OwnTurn
<1>12. ASSUME RevisionDone(t) PROVE PipelineInv'
  <2>1. OnlyTurn(t)
    BY <1>0, <1>12 DEF RevisionDone, OnlyTurn, PipelineTypeOK
  <2>2. TypedAt(t)'
    BY <1>0, <1>12 DEF RevisionDone, PipelineTypeOK, TypedAt, Stages, Effects, WriteBacks,
       NoPlan, Plans, Fits, CallsFit, Early, Out
  <2>3. Fits(t)'
    BY <1>0, <1>12 DEF RevisionDone, PipelineTypeOK, TypedAt, Fits, BoundFits, WritesFit,
       AuditFits, WebFits, CallsFit, Early, Out, NoPlan, Plans
  <2> QED BY <2>1, <2>2, <2>3, OwnTurn
<1> QED BY <1>1, <1>2, <1>3, <1>4, <1>5, <1>6, <1>7, <1>8, <1>9, <1>10, <1>11, <1>12

\* Steps that decide something about the turn.
LEMMA PlansKeep ==
    ASSUME PipelineInv, NEW t \in Turns
    PROVE  \/ Blocked(t) \/ Decide(t) \/ Searched(t) \/ Ready(t)
           => PipelineInv'
<1> USE TurnsAssumption, BoundAssumption, CapAssumption
    DEF At, GoOn, Await, Emit, End, Note, ProviderCall,
         capVars, effectVars, loopVars
<1>0. TypedAt(t) /\ Fits(t) /\ PipelineTypeOK
  BY Here DEF PipelineInv
<1>1. ASSUME Blocked(t) PROVE PipelineInv'
  <2>1. OnlyTurn(t)
    BY <1>0, <1>1 DEF Blocked, OnlyTurn, PipelineTypeOK
  <2>2. plan'[t] = [plan[t] EXCEPT !.errors = TRUE] /\ plan'[t] \in Plans
    BY <1>0, <1>1 DEF Blocked, Plans, PipelineTypeOK, TypedAt
  <2>3. TypedAt(t)'
    BY <1>0, <1>1, <2>2 DEF Blocked, PipelineTypeOK, TypedAt, Stages
  <2>4. Fits(t)'
    BY <1>0, <1>1, <2>2 DEF Blocked, PipelineTypeOK, TypedAt, Fits, BoundFits, WritesFit,
       AuditFits, WebFits, CallsFit, Early, Out, Plans
  <2> QED BY <2>1, <2>3, <2>4, OwnTurn
<1>2. ASSUME Decide(t) PROVE PipelineInv'
  <2>1. /\ plan' = [plan EXCEPT ![t] = plan'[t]] /\ plan'[t] \in Plans
        /\ cap' \in Nat /\ own' = [own EXCEPT ![t] = own'[t]] /\ own'[t] \in Nat
    <3>1. PICK web \in {"optional", "required"} :
             \/ plan' = [plan EXCEPT ![t].web = web] /\ UNCHANGED <<cap, own>>
             \/ \E b \in Budgets[t], profile \in {"light", "full"} :
                   /\ plan' = [plan EXCEPT ![t].budget = profile, ![t].web = web]
                   /\ cap' = BudgetCap(cap, b)
                   /\ own' = [own EXCEPT ![t] = BudgetCap(@, b)]
      BY <1>2 DEF Decide
    <3>2. CASE plan' = [plan EXCEPT ![t].web = web] /\ UNCHANGED <<cap, own>>
      <4>1. plan'[t] = [plan[t] EXCEPT !.web = web]
        BY <1>0, <3>2 DEF PipelineTypeOK
      <4> QED
        BY <1>0, <3>2, <4>1 DEF Plans, PipelineTypeOK, TypedAt
    <3>3. ASSUME NEW b \in Budgets[t], NEW profile \in {"light", "full"},
                 plan' = [plan EXCEPT ![t].budget = profile, ![t].web = web],
                 cap' = BudgetCap(cap, b), own' = [own EXCEPT ![t] = BudgetCap(@, b)]
          PROVE  /\ plan' = [plan EXCEPT ![t] = plan'[t]] /\ plan'[t] \in Plans
                 /\ cap' \in Nat /\ own' = [own EXCEPT ![t] = own'[t]] /\ own'[t] \in Nat
      <4>1. plan'[t] = [plan[t] EXCEPT !.budget = profile, !.web = web]
        BY <1>0, <3>3 DEF PipelineTypeOK
      <4>2. BudgetCap(cap, b) \in Nat /\ BudgetCap(own[t], b) \in Nat
        BY <1>0, CapsAreNat DEF PipelineTypeOK, TypedAt
      <4> QED
        BY <1>0, <3>3, <4>1, <4>2 DEF Plans, PipelineTypeOK, TypedAt
    <3> QED BY <3>1, <3>2, <3>3
  <2>2. OnlyTurn(t)
    BY <1>0, <1>2, <2>1 DEF Decide, OnlyTurn, PipelineTypeOK
  <2>3. TypedAt(t)'
    BY <1>0, <1>2, <2>1 DEF Decide, PipelineTypeOK, TypedAt, Stages
  <2>4. Fits(t)'
    BY <1>0, <1>2, <2>1 DEF Decide, PipelineTypeOK, TypedAt, Fits, BoundFits, WritesFit,
       AuditFits, WebFits, CallsFit, Early, Out
  <2> QED BY <2>2, <2>3, <2>4, OwnTurn
<1>3. ASSUME Searched(t) PROVE PipelineInv'
  <2>1. OnlyTurn(t)
    BY <1>0, <1>3 DEF Searched, OnlyTurn, PipelineTypeOK
  <2>2. plan'[t] \in Plans /\ plan'[t].search # "none"
    <3>1. CASE plan' = [plan EXCEPT ![t].search = "grounded"]
      <4>1. plan'[t] = [plan[t] EXCEPT !.search = "grounded"]
        BY <1>0, <3>1 DEF PipelineTypeOK
      <4> QED BY <1>0, <4>1 DEF TypedAt, Plans
    <3>2. ASSUME NEW e \in BOOLEAN,
                 plan' = [plan EXCEPT ![t].search = "empty", ![t].errors = @ \/ e]
          PROVE  plan'[t] \in Plans /\ plan'[t].search # "none"
      <4>1. plan'[t] = [plan[t] EXCEPT !.search = "empty", !.errors = plan[t].errors \/ e]
        BY <1>0, <3>2 DEF PipelineTypeOK
      <4>2. (plan[t].errors \/ e) \in BOOLEAN
        OBVIOUS
      <4> QED BY <1>0, <4>1, <4>2 DEF TypedAt, Plans
    <3> QED BY <1>3, <3>1, <3>2 DEF Searched
  <2>3. TypedAt(t)'
    BY <1>0, <1>3, <2>1, <2>2 DEF Searched, OnlyTurn, PipelineTypeOK, TypedAt, Stages
  <2>4. Fits(t)'
    BY <1>0, <1>3, <2>2 DEF Searched, PipelineTypeOK, TypedAt, Fits, BoundFits, WritesFit,
       AuditFits, WebFits, CallsFit, Early, Out, Plans
  <2> QED BY <2>1, <2>3, <2>4, OwnTurn
<1>4. ASSUME Ready(t) PROVE PipelineInv'
  <2>1. OnlyTurn(t)
    BY <1>0, <1>4 DEF Ready, OnlyTurn, PipelineTypeOK
  <2>2. plan'[t] \in Plans
    <3>1. CASE UNCHANGED plan
      BY <1>0, <3>1 DEF TypedAt
    <3>2. ASSUME NEW profile \in {"light", "full"}, plan' = [plan EXCEPT ![t].budget = profile]
          PROVE  plan'[t] \in Plans
      <4>1. plan'[t] = [plan[t] EXCEPT !.budget = profile]
        BY <1>0, <3>2 DEF PipelineTypeOK
      <4> QED BY <1>0, <4>1 DEF TypedAt, Plans
    <3> QED BY <1>4, <3>1, <3>2 DEF Ready
  <2>3. TypedAt(t)'
    BY <1>0, <1>4, <2>2 DEF Ready, PipelineTypeOK, TypedAt, Stages
  <2>4. Fits(t)'
    BY <1>0, <1>4 DEF Ready, Ungrounded, PipelineTypeOK, TypedAt, Fits, BoundFits, WritesFit,
       AuditFits, WebFits, CallsFit, Early, Out, Plans
  <2> QED BY <2>1, <2>3, <2>4, OwnTurn
<1> QED BY <1>1, <1>2, <1>3, <1>4

\* Steps that ask the provider, and the end of a round of tools.
LEMMA CallsKeep ==
    ASSUME PipelineInv, NEW t \in Turns
    PROVE  \/ AskProvider(t) \/ ToolsDone(t) \/ AskVariant(t) \/ AskRevision(t)
           => PipelineInv'
<1> USE TurnsAssumption, BoundAssumption, CapAssumption
    DEF At, GoOn, Await, Emit, End, Note, ProviderCall,
         capVars, effectVars, loopVars
<1>0. TypedAt(t) /\ Fits(t) /\ PipelineTypeOK
  BY Here DEF PipelineInv
<1>1. ASSUME AskProvider(t) PROVE PipelineInv'
  <2>1. OnlyTurn(t)
    BY <1>0, <1>1 DEF AskProvider, OnlyTurn, PipelineTypeOK
  <2>2. TypedAt(t)'
    BY <1>0, <1>1 DEF AskProvider, PipelineTypeOK, TypedAt, Stages, Effects, WriteBacks,
       NoPlan, Plans, Fits, CallsFit, Early, Out
  <2>3. Fits(t)'
    BY <1>0, <1>1 DEF AskProvider, PipelineTypeOK, TypedAt, Fits, BoundFits, WritesFit,
       AuditFits, WebFits, CallsFit, Early, Out, NoPlan, Plans
  <2> QED BY <2>1, <2>2, <2>3, OwnTurn
<1>2. ASSUME ToolsDone(t) PROVE PipelineInv'
  <2>1. OnlyTurn(t)
    BY <1>0, <1>2 DEF ToolsDone, OnlyTurn, PipelineTypeOK
  <2>2. TypedAt(t)'
    BY <1>0, <1>2 DEF ToolsDone, PipelineTypeOK, TypedAt, Stages, Effects, WriteBacks, NoPlan,
       Plans, Fits, CallsFit, Early, Out
  <2>3. Fits(t)'
    BY <1>0, <1>2 DEF ToolsDone, PipelineTypeOK, TypedAt, Fits, BoundFits, WritesFit,
       AuditFits, WebFits, CallsFit, Early, Out, NoPlan, Plans
  <2> QED BY <2>1, <2>2, <2>3, OwnTurn
<1>3. ASSUME AskVariant(t) PROVE PipelineInv'
  <2>1. OnlyTurn(t)
    BY <1>0, <1>3 DEF AskVariant, OnlyTurn, PipelineTypeOK
  <2>2. /\ pc[t] = "draft" /\ pc'[t] = "variant"
        /\ drafts'[t] = drafts[t] + 1 /\ calls'[t] = calls[t] + 1 /\ rounds'[t] = rounds[t]
        /\ by'[t] = by[t] \cup {bound[t]}
        /\ own'[t] = own[t] /\ bound'[t] = bound[t] /\ plan'[t] = plan[t]
        /\ now'[t] = now[t] /\ before'[t] = before[t]
        /\ result'[t] = result[t] /\ attempt'[t] = attempt[t]
    BY <1>0, <1>3 DEF AskVariant, PipelineTypeOK
  <2>3. drafts[t] < Variants /\ calls[t] = rounds[t] + 1 + drafts[t]
    BY <1>0, <2>2 DEF Fits, CallsFit
  <2>4. TypedAt(t)'
    BY <1>0, <2>2, <2>3 DEF TypedAt, Stages, Fits, BoundFits, Out
  <2>5. Fits(t)'
    <3>1. CallsFit(t)'
      BY <1>0, <2>2, <2>3 DEF TypedAt, Fits, CallsFit, Early, Out
    <3> QED
      BY <1>0, <2>2, <3>1 DEF Fits, BoundFits, WritesFit, AuditFits, WebFits, Early, Out
  <2> QED BY <2>1, <2>4, <2>5, OwnTurn
<1>4. ASSUME AskRevision(t) PROVE PipelineInv'
  <2>1. OnlyTurn(t)
    BY <1>0, <1>4 DEF AskRevision, OnlyTurn, PipelineTypeOK
  <2>2. TypedAt(t)'
    BY <1>0, <1>4 DEF AskRevision, PipelineTypeOK, TypedAt, Stages, Effects, WriteBacks,
       NoPlan, Plans, Fits, CallsFit, Early, Out
  <2>3. Fits(t)'
    BY <1>0, <1>4 DEF AskRevision, PipelineTypeOK, TypedAt, Fits, BoundFits, WritesFit,
       AuditFits, WebFits, CallsFit, Early, Out, NoPlan, Plans
  <2> QED BY <2>1, <2>2, <2>3, OwnTurn
<1> QED BY <1>1, <1>2, <1>3, <1>4

\* Steps that write while the attempt goes on.
LEMMA WritesKeep ==
    ASSUME PipelineInv, NEW t \in Turns
    PROVE  \/ Start(t) \/ Prepare(t) \/ AgentReturns(t) \/ ForcedGoesOn(t)
           \/ EndUngrounded(t) \/ ProviderFails(t) \/ BuildTrace(t) \/ WriteBack(t)
           => PipelineInv'
<1> USE TurnsAssumption, BoundAssumption, CapAssumption
    DEF At, GoOn, Await, Emit, End, Note, ProviderCall,
         capVars, effectVars, loopVars
<1>0. TypedAt(t) /\ Fits(t) /\ PipelineTypeOK
  BY Here DEF PipelineInv
<1>1. ASSUME Start(t) PROVE PipelineInv'
  <2>1. OnlyTurn(t)
    BY <1>0, <1>1 DEF Start, Bind, OnlyTurn, PipelineTypeOK
  <2>2. TypedAt(t)'
    BY <1>0, <1>1 DEF Start, Bind, PipelineTypeOK, TypedAt, Stages, Effects, WriteBacks,
       NoPlan, Plans, Fits, CallsFit, Early, Out
  <2>3. Fits(t)'
    <3>1. BoundFits(t)'
      BY <1>0, <1>1 DEF Start, Bind, PipelineTypeOK, TypedAt, Fits, BoundFits
    <3>2. WritesFit(t)'
      BY <1>0, <1>1 DEF Start, Bind, PipelineTypeOK, TypedAt, Fits, WritesFit, Out, NoPlan
    <3>3. AuditFits(t)' /\ WebFits(t)'
      BY <1>0, <1>1 DEF Start, Bind, PipelineTypeOK, TypedAt, Fits, AuditFits, WebFits, NoPlan, Early, Out
    <3>4. CallsFit(t)'
      BY <1>0, <1>1 DEF Start, Bind, PipelineTypeOK, TypedAt, Fits, CallsFit, Early, Out,
         NoPlan, Plans
    <3> QED BY <3>1, <3>2, <3>3, <3>4 DEF Fits
  <2> QED BY <2>1, <2>2, <2>3, OwnTurn
<1>2. ASSUME Prepare(t) PROVE PipelineInv'
  <2>1. OnlyTurn(t)
    BY <1>0, <1>2, CapsAreNat, SMTT(30) DEF Prepare, Correction, OnlyTurn, PipelineTypeOK
  <2>2. TypedAt(t)'
    BY <1>0, <1>2, CapsAreNat, SMTT(30) DEF Prepare, Correction, PipelineTypeOK, TypedAt, Stages,
       Effects, WriteBacks, NoPlan, Plans, Fits, CallsFit, Early, Out
  <2>3. Fits(t)'
    BY <1>0, <1>2 DEF Prepare, Correction, PipelineTypeOK, TypedAt, Fits, BoundFits, WritesFit,
       AuditFits, WebFits, CallsFit, Early, Out, NoPlan, Plans
  <2> QED BY <2>1, <2>2, <2>3, OwnTurn
<1>3. ASSUME AgentReturns(t) PROVE PipelineInv'
  <2>1. OnlyTurn(t)
    BY <1>0, <1>3 DEF AgentReturns, Experience, Filed, OnlyTurn, PipelineTypeOK
  <2>2. /\ pc[t] = "agent" /\ pc'[t] \in {"feedback", "quiet"} /\ running' = t
        /\ own'[t] = own[t] /\ bound'[t] = bound[t] /\ rounds'[t] = rounds[t]
        /\ drafts'[t] = drafts[t] /\ calls'[t] = calls[t] /\ before'[t] = before[t]
        /\ result'[t] = result[t] /\ attempt'[t] = attempt[t]
    BY <1>0, <1>3 DEF AgentReturns, PipelineTypeOK
  <2>3. PICK e \in BOOLEAN : Experience(t, e)
    BY <1>3 DEF AgentReturns
  <2>4. /\ plan'[t] \in Plans /\ plan'[t].budget = plan[t].budget /\ plan'[t].web = plan[t].web
        /\ plan'[t].search = plan[t].search
        /\ by'[t] = {t} /\ now'[t] \subseteq now[t] \cup {"experience"}
    BY <1>0, <2>2, <2>3, ExperienceWithin DEF Fits, BoundFits, Out
  <2>5. TypedAt(t)'
    BY <1>0, <2>2, <2>4 DEF TypedAt, Stages, Effects, WriteBacks
  <2>6. Fits(t)'
    BY <1>0, <2>2, <2>4 DEF TypedAt, Fits, BoundFits, WritesFit, AuditFits, WebFits, CallsFit,
       Early, Out
  <2> QED BY <2>1, <2>5, <2>6, OwnTurn
<1>4. ASSUME ForcedGoesOn(t) PROVE PipelineInv'
  <2>1. OnlyTurn(t)
    BY <1>0, <1>4 DEF ForcedGoesOn, Filed, OnlyTurn, PipelineTypeOK
  <2>2. TypedAt(t)'
    BY <1>0, <1>4, TriedWithin DEF ForcedGoesOn, Filed, PipelineTypeOK, TypedAt, Stages,
       Effects, WriteBacks, NoPlan, Plans, Fits, CallsFit, Early, Out
  <2>3. Fits(t)'
    BY <1>0, <1>4, TriedWithin DEF ForcedGoesOn, Filed, PipelineTypeOK, TypedAt, Fits,
       BoundFits, WritesFit, AuditFits, WebFits, CallsFit, Early, Out, NoPlan, Plans
  <2> QED BY <2>1, <2>2, <2>3, OwnTurn
<1>5. ASSUME EndUngrounded(t) PROVE PipelineInv'
  <2>1. OnlyTurn(t)
    BY <1>0, <1>5 DEF EndUngrounded, Experience, Filed, OnlyTurn, PipelineTypeOK
  <2>2. /\ pc[t] = "ready" /\ plan[t].search = "empty" /\ pc'[t] \in {"feedback"} /\ running' = t
        /\ own'[t] = own[t] /\ bound'[t] = bound[t] /\ rounds'[t] = rounds[t]
        /\ drafts'[t] = drafts[t] /\ calls'[t] = calls[t] /\ before'[t] = before[t]
        /\ result'[t] = result[t] /\ attempt'[t] = attempt[t]
    BY <1>0, <1>5 DEF EndUngrounded, Ungrounded, PipelineTypeOK
  <2>3. PICK e \in BOOLEAN : Experience(t, e)
    BY <1>5 DEF EndUngrounded
  <2>4. /\ plan'[t] \in Plans /\ plan'[t].budget = plan[t].budget /\ plan'[t].web = plan[t].web
        /\ plan'[t].search = plan[t].search
        /\ by'[t] = {t} /\ now'[t] \subseteq now[t] \cup {"experience"}
    BY <1>0, <2>2, <2>3, ExperienceWithin DEF Fits, BoundFits, Out
  <2>5. TypedAt(t)'
    BY <1>0, <2>2, <2>4 DEF TypedAt, Stages, Effects, WriteBacks
  <2>6. Fits(t)'
    BY <1>0, <2>2, <2>4 DEF TypedAt, Fits, BoundFits, WritesFit, AuditFits, WebFits, CallsFit,
       Early, Out
  <2> QED BY <2>1, <2>5, <2>6, OwnTurn
<1>6. ASSUME ProviderFails(t) PROVE PipelineInv'
  <2>1. OnlyTurn(t)
    BY <1>0, <1>6 DEF ProviderFails, Filed, OnlyTurn, PipelineTypeOK
  <2>2. PICK S \in Tried(t, {"model", "learning", "experience"}) : Filed(t, S)
    BY <1>6 DEF ProviderFails
  <2>3. by'[t] = by[t] \cup {bound[t]} /\ now'[t] = now[t] \cup S
    BY <1>0, <2>2 DEF Filed, PipelineTypeOK
  <2>4. S \subseteq {"model", "learning", "experience"}
    BY TriedWithin
  <2>5. plan'[t] = [plan[t] EXCEPT !.errors = TRUE] /\ plan'[t] \in Plans
    BY <1>0, <1>6 DEF ProviderFails, Plans, PipelineTypeOK, TypedAt
  <2>6. /\ pc[t] = "provider" /\ pc'[t] = "feedback" /\ running' = t
        /\ own'[t] = own[t] /\ bound'[t] = bound[t] /\ rounds'[t] = rounds[t]
        /\ drafts'[t] = drafts[t] /\ calls'[t] = calls[t] /\ before'[t] = before[t]
        /\ result'[t] = result[t] /\ attempt'[t] = attempt[t]
    BY <1>0, <1>6 DEF ProviderFails, PipelineTypeOK
  <2>7. TypedAt(t)'
    BY <1>0, <2>3, <2>4, <2>5, <2>6 DEF TypedAt, Stages, Effects, WriteBacks
  <2>8. Fits(t)'
    BY <1>0, <2>3, <2>4, <2>5, <2>6 DEF TypedAt, Plans, Fits, BoundFits, WritesFit, AuditFits,
       WebFits, CallsFit, Early, Out
  <2> QED BY <2>1, <2>7, <2>8, OwnTurn
<1>7. ASSUME BuildTrace(t) PROVE PipelineInv'
  <2>1. OnlyTurn(t)
    BY <1>0, <1>7 DEF BuildTrace, Filed, OnlyTurn, PipelineTypeOK
  <2>2. TypedAt(t)'
    BY <1>0, <1>7, TriedWithin DEF BuildTrace, Filed, PipelineTypeOK, TypedAt, Stages, Effects,
       WriteBacks, NoPlan, Plans, Fits, CallsFit, Early, Out
  <2>3. Fits(t)'
    BY <1>0, <1>7, TriedWithin DEF BuildTrace, Filed, PipelineTypeOK, TypedAt, Fits, BoundFits,
       WritesFit, AuditFits, WebFits, CallsFit, Early, Out, NoPlan, Plans
  <2> QED BY <2>1, <2>2, <2>3, OwnTurn
<1>8. ASSUME WriteBack(t) PROVE PipelineInv'
  <2>1. OnlyTurn(t)
    BY <1>0, <1>8 DEF WriteBack, Filed, OnlyTurn, PipelineTypeOK
  <2>2. PICK S \in Outcomes(t), X \in Tried(t, {"experience"}) :
           /\ Filed(t, S \cup X)
           /\ plan' = [plan EXCEPT ![t].errors = @ \/ X = {}]
    BY <1>8 DEF WriteBack
  <2>3. by'[t] = by[t] \cup {bound[t]} /\ now'[t] = now[t] \cup S \cup X
    BY <1>0, <2>2 DEF Filed, PipelineTypeOK
  <2>4. /\ X \subseteq {"experience"} /\ S \subseteq {"memory", "psyche", "model", "learning"}
        /\ t \in AuditTurns => S = {}
    <3>1. \A T \in Tried(t, {"model", "learning"}) : T \subseteq {"model", "learning"}
      BY TriedWithin
    <3> QED BY <3>1, TriedWithin DEF Outcomes
  <2>5. /\ plan'[t] \in Plans /\ plan'[t].budget = plan[t].budget /\ plan'[t].web = plan[t].web
        /\ plan'[t].search = plan[t].search
    <3>1. plan'[t] = [plan[t] EXCEPT !.errors = plan[t].errors \/ X = {}]
      BY <1>0, <2>2 DEF PipelineTypeOK
    <3>2. (plan[t].errors \/ X = {}) \in BOOLEAN
      OBVIOUS
    <3> QED BY <1>0, <3>1, <3>2 DEF Plans, TypedAt
  <2>6. /\ pc[t] = "writeback" /\ pc'[t] = "feedback" /\ running' = t
        /\ own'[t] = own[t] /\ bound'[t] = bound[t] /\ rounds'[t] = rounds[t]
        /\ drafts'[t] = drafts[t] /\ calls'[t] = calls[t] /\ before'[t] = before[t]
        /\ result'[t] = result[t] /\ attempt'[t] = attempt[t]
    BY <1>0, <1>8 DEF WriteBack, PipelineTypeOK
  <2>7. TypedAt(t)'
    BY <1>0, <2>3, <2>4, <2>5, <2>6 DEF TypedAt, Stages, Effects, WriteBacks
  <2>8. Fits(t)'
    BY <1>0, <2>3, <2>4, <2>5, <2>6 DEF TypedAt, Fits, BoundFits, WritesFit, AuditFits,
       WebFits, CallsFit, Early, Out
  <2> QED BY <2>1, <2>7, <2>8, OwnTurn
<1> QED BY <1>1, <1>2, <1>3, <1>4, <1>5, <1>6, <1>7, <1>8

\* Steps that end an attempt, and the repetition.
LEMMA EndsKeep ==
    ASSUME PipelineInv, NEW t \in Turns
    PROVE  \/ AnswerDirectly(t) \/ ForcedAnswer(t) \/ WriteBackMinimal(t) \/ Feedback(t)
           \/ QuietFeedback(t) \/ Raise(t) \/ Cancel(t) \/ Repeat(t)
           => PipelineInv'
<1> USE TurnsAssumption, BoundAssumption, CapAssumption
    DEF At, GoOn, Await, Emit, End, Note, ProviderCall,
         capVars, effectVars, loopVars
<1>0. TypedAt(t) /\ Fits(t) /\ PipelineTypeOK
  BY Here DEF PipelineInv
<1>1. ASSUME AnswerDirectly(t) PROVE PipelineInv'
  <2>1. OnlyTurn(t)
    BY <1>0, <1>1 DEF AnswerDirectly, Correction, OnlyTurn, PipelineTypeOK
  <2>2. TypedAt(t)'
    BY <1>0, <1>1, TriedWithin DEF AnswerDirectly, Correction, PipelineTypeOK, TypedAt, Stages,
       Effects, WriteBacks, NoPlan, Plans, Fits, CallsFit, Early, Out
  <2>3. Fits(t)'
    BY <1>0, <1>1, TriedWithin DEF AnswerDirectly, Correction, PipelineTypeOK, TypedAt, Fits,
       BoundFits, WritesFit, AuditFits, WebFits, CallsFit, Early, Out, NoPlan, Plans
  <2> QED BY <2>1, <2>2, <2>3, OwnTurn
<1>2. ASSUME ForcedAnswer(t) PROVE PipelineInv'
  <2>1. OnlyTurn(t)
    BY <1>0, <1>2 DEF ForcedAnswer, Filed, OnlyTurn, PipelineTypeOK
  <2>2. TypedAt(t)'
    BY <1>0, <1>2, TriedWithin DEF ForcedAnswer, Filed, PipelineTypeOK, TypedAt, Stages,
       Effects, WriteBacks, NoPlan, Plans, Fits, CallsFit, Early, Out
  <2>3. Fits(t)'
    BY <1>0, <1>2, TriedWithin DEF ForcedAnswer, Filed, PipelineTypeOK, TypedAt, Fits,
       BoundFits, WritesFit, AuditFits, WebFits, CallsFit, Early, Out, NoPlan, Plans
  <2> QED BY <2>1, <2>2, <2>3, OwnTurn
<1>3. ASSUME WriteBackMinimal(t) PROVE PipelineInv'
  <2>1. PICK S \in {{}, {"model"}} : LastEvent(t, S)
    BY <1>3 DEF WriteBackMinimal
  <2>2. pc[t] = "writeback" /\ running \in {NoTurn, t} /\ UNCHANGED <<cap, by, before, attempt>>
    BY <1>3 DEF WriteBackMinimal
  <2> QED
    BY <2>1, <2>2, LastEventKeeps DEF Early
<1>4. ASSUME Feedback(t) PROVE PipelineInv'
  <2>1. PICK B \in Bias(t) : LastEvent(t, B)
    BY <1>4 DEF Feedback
  <2>2. B \subseteq {"bias"} /\ (t \in AuditTurns => B = {})
    <3>1. bound[t] = t
      BY <1>0, <1>4 DEF Feedback, Fits, BoundFits, Out
    <3> QED BY <3>1, TriedWithin DEF Bias
  <2>3. pc[t] = "feedback" /\ running \in {NoTurn, t} /\ UNCHANGED <<cap, by, before, attempt>>
    BY <1>4 DEF Feedback
  <2> QED
    BY <2>1, <2>2, <2>3, LastEventKeeps
<1>5. ASSUME QuietFeedback(t) PROVE PipelineInv'
  <2>1. OnlyTurn(t)
    BY <1>0, <1>5 DEF QuietFeedback, LastEvent, Bias, Answer, OnlyTurn, PipelineTypeOK
  <2>2. TypedAt(t)'
    BY <1>0, <1>5, TriedWithin DEF QuietFeedback, LastEvent, Bias, Answer, PipelineTypeOK,
       TypedAt, Stages, Effects, WriteBacks, NoPlan, Plans, Fits, CallsFit, Early, Out
  <2>3. Fits(t)'
    BY <1>0, <1>5, TriedWithin DEF QuietFeedback, LastEvent, Bias, Answer, PipelineTypeOK,
       TypedAt, Fits, BoundFits, WritesFit, AuditFits, WebFits, CallsFit, Early, Out, NoPlan, Plans
  <2> QED BY <2>1, <2>2, <2>3, OwnTurn
<1>6. ASSUME Raise(t) PROVE PipelineInv'
  <2>1. OnlyTurn(t)
    BY <1>0, <1>6 DEF Raise, OnlyTurn, PipelineTypeOK
  <2>2. TypedAt(t)'
    BY <1>0, <1>6, TriedWithin DEF Raise, PipelineTypeOK, TypedAt, Stages, Effects, WriteBacks,
       NoPlan, Plans, Fits, CallsFit, Early, Out
  <2>3. Fits(t)'
    BY <1>0, <1>6, TriedWithin DEF Raise, PipelineTypeOK, TypedAt, Fits, BoundFits, WritesFit,
       AuditFits, WebFits, CallsFit, Early, Out, NoPlan, Plans
  <2> QED BY <2>1, <2>2, <2>3, OwnTurn
<1>7. ASSUME Cancel(t) PROVE PipelineInv'
  <2>1. OnlyTurn(t)
    BY <1>0, <1>7 DEF Cancel, OnlyTurn, PipelineTypeOK
  <2>2. TypedAt(t)'
    BY <1>0, <1>7, TriedWithin DEF Cancel, PipelineTypeOK, TypedAt, Stages, Effects,
       WriteBacks, NoPlan, Plans, Fits, CallsFit, Early, Out
  <2>3. Fits(t)'
    BY <1>0, <1>7, TriedWithin DEF Cancel, PipelineTypeOK, TypedAt, Fits, BoundFits, WritesFit,
       AuditFits, WebFits, CallsFit, Early, Out, NoPlan, Plans
  <2> QED BY <2>1, <2>2, <2>3, OwnTurn
<1>8. ASSUME Repeat(t) PROVE PipelineInv'
  <2>1. OnlyTurn(t)
    BY <1>0, <1>8 DEF Repeat, OnlyTurn, PipelineTypeOK
  <2>2. TypedAt(t)'
    BY <1>0, <1>8, TriedWithin DEF Repeat, PipelineTypeOK, TypedAt, Stages, Effects,
       WriteBacks, NoPlan, Plans, Fits, CallsFit, Early, Out
  <2>3. Fits(t)'
    BY <1>0, <1>8, TriedWithin DEF Repeat, PipelineTypeOK, TypedAt, Fits, BoundFits, WritesFit,
       AuditFits, WebFits, CallsFit, Early, Out, NoPlan, Plans
  <2> QED BY <2>1, <2>2, <2>3, OwnTurn
<1> QED BY <1>1, <1>2, <1>3, <1>4, <1>5, <1>6, <1>7, <1>8

\* Every step of the pipeline keeps the invariant.
LEMMA PipelineInductive == PipelineInv /\ [PipelineNext]_pipelineVars => PipelineInv'
<1> SUFFICES ASSUME PipelineInv, [PipelineNext]_pipelineVars PROVE PipelineInv'
  OBVIOUS
<1>1. CASE UNCHANGED pipelineVars
  BY <1>1 DEF pipelineVars, capVars, loopVars, effectVars, PipelineInv, PipelineTypeOK, Fits,
     BoundFits, WritesFit, AuditFits, WebFits, CallsFit
<1>2. CASE PipelineNext
  <2>1. PICK t \in Turns : Step(t) \/ Cancel(t) \/ Repeat(t)
    BY <1>2 DEF PipelineNext
  <2> QED
    BY <2>1, MovesKeep, PlansKeep, CallsKeep, WritesKeep, EndsKeep DEF Step
<1> QED BY <1>1, <1>2

LEMMA PipelineAlways == PipelineSpec => []PipelineInv
  BY PipelineStarts, PipelineInductive, PTL DEF PipelineSpec

\* Whatever other turns do, every call and effect is filed under its own turn.
THEOREM ContextStaysOwnHolds == PipelineSpec => []ContextStaysOwn
<1>1. PipelineInv => ContextStaysOwn
  BY DEF PipelineInv, Fits, BoundFits, ContextStaysOwn
<1> QED BY <1>1, PipelineAlways, PTL

\* An audit leaves memory, psyche, corrections and bias alone on every path.
THEOREM AuditLeavesOutHolds == PipelineSpec => []AuditLeavesOut
<1>1. PipelineInv => AuditLeavesOut
  BY TurnsAssumption DEF PipelineInv, Fits, AuditFits, AuditLeavesOut
<1> QED BY <1>1, PipelineAlways, PTL

\* No await divides the write-back, and no retry repeats the event.
THEOREM WritesAreWholeHolds == PipelineSpec => []WritesAreWhole
<1>1. PipelineInv => WritesAreWhole
  BY DEF PipelineInv, Fits, WritesFit, WritesAreWhole, NothingHalfWritten, EventOnce
<1> QED BY <1>1, PipelineAlways, PTL

\* The model is asked about a turn that needs the web only once it is grounded.
THEOREM WebIsGroundedHolds == PipelineSpec => []WebIsGrounded
<1>1. PipelineInv => WebIsGrounded
  BY DEF PipelineInv, Fits, WebFits, WebIsGrounded
<1> QED BY <1>1, PipelineAlways, PTL

\* The rounds, the variants and one revision bound the calls of a turn.
THEOREM ModelIsBoundedHolds == PipelineSpec => []ModelIsBounded
<1>1. ASSUME PipelineInv, NEW t \in Turns
      PROVE  calls[t] <= Variants + 2 + IF plan[t].budget = "light" THEN 0 ELSE ToolRounds
  <2>1. TypedAt(t) /\ CallsFit(t)
    BY <1>1, Here DEF Fits
  <2> QED BY <2>1, BoundAssumption DEF TypedAt, CallsFit
<1>2. PipelineInv => ModelIsBounded
  BY <1>1 DEF ModelIsBounded
<1> QED BY <1>2, PipelineAlways, PTL

\* The shared cap, by contrast, is a turn's own only while turns do not overlap.
Underway(t) == pc[t] \notin {"idle", "ended"}
Apart == \A t, u \in Turns : Underway(t) /\ Underway(u) => t = u
CapFits == \A t \in Turns : Underway(t) => cap = own[t]

\* What the steps of a turn do to the cap: most leave it as it is, and those
\* that set it set the turn's own alike.
LEMMA CapFollows ==
    ASSUME PipelineTypeOK, CapFits, NEW t \in Turns, Step(t) \/ Cancel(t) \/ Repeat(t)
    PROVE  /\ \A u \in Turns \ {t} : pc'[u] = pc[u] /\ own'[u] = own[u]
           /\ Underway(t)' => cap' = own'[t]
           /\ ~Underway(t)' => cap' = cap
<1> USE DEF PipelineTypeOK, CapFits, Underway, At, GoOn, Await, Emit
<1>1. CASE Start(t)
  BY <1>1 DEF Start
<1>2. CASE Prepare(t) \/ Decide(t)
  BY <1>2 DEF Prepare, Decide
<1>3. CASE /\ UNCHANGED cap /\ pc' = [pc EXCEPT ![t] = "ended"]
           /\ own' = [own EXCEPT ![t] = 0]
  BY <1>3
<1>4. CASE Raise(t) \/ Cancel(t) \/ AnswerDirectly(t) \/ QuietFeedback(t)
  BY <1>3, <1>4 DEF Raise, Cancel, AnswerDirectly, QuietFeedback, End
<1>5. CASE WriteBackMinimal(t) \/ Feedback(t) \/ ForcedAnswer(t)
  BY <1>3, <1>5 DEF WriteBackMinimal, Feedback, ForcedAnswer, LastEvent, End
<1>6. CASE \/ Blocked(t) \/ StayInChat(t) \/ HandOff(t) \/ AgentReturns(t)
           \/ NoForcedTools(t) \/ ForcedTools(t) \/ ForcedGoesOn(t)
           \/ Search(t) \/ Searched(t) \/ NoSearch(t) \/ EndUngrounded(t) \/ Ready(t)
  BY <1>6 DEF capVars, Blocked, StayInChat, HandOff, AgentReturns, NoForcedTools,
              ForcedTools, ForcedGoesOn, Search, Searched, NoSearch, EndUngrounded, Ready
<1>7. CASE \/ AskProvider(t) \/ ProviderWantsTools(t) \/ ToolsDone(t)
           \/ ProviderAnswers(t) \/ ProviderFails(t) \/ Shape(t) \/ AskVariant(t)
           \/ VariantDone(t) \/ CriticPasses(t) \/ AskRevision(t) \/ RevisionDone(t)
           \/ BuildTrace(t) \/ WriteBack(t)
  BY <1>7 DEF capVars, AskProvider, ProviderWantsTools, ToolsDone, ProviderAnswers,
              ProviderFails, Shape, AskVariant, VariantDone, CriticPasses, AskRevision,
              RevisionDone, BuildTrace, WriteBack
<1>8. CASE Repeat(t)
  BY <1>8 DEF Repeat, capVars
<1> QED
  BY <1>1, <1>2, <1>4, <1>5, <1>6, <1>7, <1>8 DEF Step

\* A call is made by a turn that is under way.
LEMMA CallerIsUnderway ==
    ASSUME PipelineTypeOK, [PipelineNext]_pipelineVars, NEW t \in Turns, calls'[t] > calls[t]
    PROVE  Underway(t)
<1>1. CASE UNCHANGED pipelineVars
  BY <1>1 DEF pipelineVars, loopVars, PipelineTypeOK
<1>2. ASSUME NEW u \in Turns, Step(u) \/ Cancel(u) \/ Repeat(u) PROVE Underway(t)
  <2>1. CASE AskProvider(u) \/ AskVariant(u) \/ AskRevision(u)
    BY <1>2, <2>1 DEF AskProvider, AskVariant, AskRevision, ProviderCall, At, Underway,
                      PipelineTypeOK
  <2>2. CASE calls' = [calls EXCEPT ![u] = 0]
    BY <2>2 DEF PipelineTypeOK
  <2>3. CASE \/ Raise(u) \/ Cancel(u) \/ AnswerDirectly(u) \/ QuietFeedback(u)
             \/ WriteBackMinimal(u) \/ Feedback(u) \/ ForcedAnswer(u)
    BY <2>2, <2>3 DEF Raise, Cancel, AnswerDirectly, QuietFeedback, WriteBackMinimal,
                      Feedback, ForcedAnswer, LastEvent, End
  <2>4. CASE UNCHANGED calls
    BY <2>4 DEF PipelineTypeOK
  <2>5. CASE \/ Start(u) \/ Prepare(u) \/ Decide(u) \/ Blocked(u) \/ StayInChat(u)
             \/ HandOff(u) \/ AgentReturns(u) \/ NoForcedTools(u) \/ ForcedTools(u)
             \/ ForcedGoesOn(u) \/ Search(u) \/ Searched(u) \/ NoSearch(u)
             \/ EndUngrounded(u) \/ Ready(u)
    BY <2>4, <2>5 DEF loopVars, Start, Prepare, Decide, Blocked, StayInChat, HandOff,
                      AgentReturns, NoForcedTools, ForcedTools, ForcedGoesOn, Search,
                      Searched, NoSearch, EndUngrounded, Ready
  <2>6. CASE \/ ProviderWantsTools(u) \/ ToolsDone(u) \/ ProviderAnswers(u)
             \/ ProviderFails(u) \/ Shape(u) \/ VariantDone(u) \/ CriticPasses(u)
             \/ RevisionDone(u) \/ BuildTrace(u) \/ WriteBack(u) \/ Repeat(u)
    BY <2>4, <2>6 DEF loopVars, ProviderWantsTools, ToolsDone, ProviderAnswers,
                      ProviderFails, Shape, VariantDone, CriticPasses, RevisionDone,
                      BuildTrace, WriteBack, Repeat
  <2> QED
    BY <1>2, <2>1, <2>3, <2>5, <2>6 DEF Step
<1> QED
  BY <1>1, <1>2 DEF PipelineNext

\* While turns come one after the other, each call is made with the cap that
\* its own turn has computed, on the first attempt and on every retry: only
\* an overlapping turn can put its own cap on the shared object.
THEOREM CapIsOwnWhileApart == PipelineSpec /\ []Apart => CapIsOwn
<1>1. PipelineInit => CapFits
  BY DEF PipelineInit, CapFits, Underway
<1>2. PipelineInv /\ CapFits /\ Apart' /\ [PipelineNext]_pipelineVars => CapFits'
  <2> SUFFICES ASSUME PipelineInv, CapFits, Apart', [PipelineNext]_pipelineVars,
                      NEW u \in Turns, Underway(u)'
               PROVE  cap' = own'[u]
    BY DEF CapFits
  <2>1. CASE UNCHANGED pipelineVars
    BY <2>1 DEF pipelineVars, capVars, CapFits, Underway
  <2>2. ASSUME NEW t \in Turns, Step(t) \/ Cancel(t) \/ Repeat(t) PROVE cap' = own'[u]
    <3>1. /\ u # t => pc'[u] = pc[u] /\ own'[u] = own[u]
          /\ Underway(t)' => cap' = own'[t]
          /\ ~Underway(t)' => cap' = cap
      BY <2>2, CapFollows DEF PipelineInv
    <3>2. u # t => ~Underway(t)' /\ Underway(u)
      BY <3>1 DEF Apart, Underway
    <3> QED
      BY <3>1, <3>2 DEF CapFits
  <2> QED
    BY <2>1, <2>2 DEF PipelineNext
<1> DEFINE Same == \A t \in Turns : calls'[t] > calls[t] => cap = own[t]
<1>3. PipelineInv /\ CapFits /\ [PipelineNext]_pipelineVars => [Same]_pipelineVars
  BY CallerIsUnderway DEF CapFits, PipelineInv
<1> QED
  BY <1>1, <1>2, <1>3, PipelineAlways, PTL DEF PipelineSpec, CapIsOwn

---------------------------------------------------------------------------
(***************************************************************************)
(* The psyche                                                              *)
(***************************************************************************)
Statements == {"profile", "newProfile", "mind", "newMind", "press", "recover", "habit",
               "reinforce", "relate", "insert", "judge", "adapt", "claim", "feel", "evolve"}

\* The statements that may come after another.
After(s) ==
    CASE s \in {"profile", "newProfile"} -> {"mind", "relate", "adapt"}
      [] s \in {"mind", "newMind"}       -> {"press", "recover", "insert"}
      [] s \in {"press", "recover"}      -> {"habit"}
      [] s = "habit"                     -> {"reinforce"}
      [] s \in {"reinforce", "relate"}   -> {"profile"}
      [] s = "insert"                    -> {"judge"}
      [] s = "claim"                     -> {"feel"}
      [] s = "feel"                      -> {"evolve"}
      [] OTHER                           -> {}

\* A writer's statements are in the order of the calls.
Ordered(s) ==
    /\ s \in Seq(Statements)
    /\ \A i \in 1 .. Len(s) - 1 : s[i + 1] \in After(s[i])

\* A row of the mood, wherever it is held, is earned by what was suggested by now.
MindFits(row, suggested) ==
    /\ row \in Minds
    /\ row.mode # "neutral" => suggested[row.mode] >= StreakRequired
    /\ row.pending # "" => suggested[row.pending] >= row.streak

BondFits(row, relations) == row \in Bonds /\ row.trust + row.friction <= relations

\* What was read of a habit is no more than its row has learned since.
HabitFits(read, lessons) ==
    /\ read \in [row : Nat, count : Nat]
    /\ read.row # 0 => read.row \in 1 .. Len(lessons) /\ read.count <= lessons[read.row]

Moods == Seq(Keys \cup {"evolve"})
MoodFits(read) == read \in [of : Moods]

\* What a writer holds is what its next statement writes back.
WriterFits(w) ==
    /\ Ordered(todo[w])
    /\ Doing(w, "relate") \/ Doing(w, "adapt") => BondFits(held[w], learned.relations)
    /\ Doing(w, "press") \/ Doing(w, "recover") \/ Doing(w, "insert") \/ Doing(w, "judge")
           => MindFits(held[w], judged)
    /\ Doing(w, "reinforce") => HabitFits(held[w], learned.habits[HabitOf(why[w])])
    /\ Doing(w, "evolve") => MoodFits(held[w])
    /\ Doing(w, "claim") => why[w] \in Keys
    /\ Doing(w, "feel") \/ Doing(w, "evolve") => why[w] \in Keys \cup {"evolve"}

RowsFit ==
    /\ mind # Missing => MindFits(mind, judged)
    /\ bond # Missing => BondFits(bond, learned.relations)
    /\ learned \in [habits : [HabitNames -> Seq(Nat)], relations : Nat]
    /\ habits \in [HabitNames -> Seq(Nat)]
    /\ \A n \in HabitNames :
          /\ Len(habits[n]) = Len(learned.habits[n])
          /\ \A i \in 1 .. Len(habits[n]) : habits[n][i] <= learned.habits[n][i]
    /\ feeling \in Moods

\* A writer is about to apply a key.
Applies(w, k) == (Doing(w, "feel") \/ Doing(w, "evolve")) /\ why[w] = k
Has(row, k) == \E i \in 1 .. Len(row) : row[i] = k
Once(row, k) == \A i, j \in 1 .. Len(row) : row[i] = k /\ row[j] = k => i = j

\* A key was applied, to the row or to a copy that will replace it.
Applied(k) ==
    \/ evolutions[k] # 0
    \/ Has(feeling, k)
    \/ \E w \in Writers : Doing(w, "evolve") /\ Has(held[w].of, k)

\* A key is claimed first, by one writer, who applies it once.
KeyFits(k) ==
    /\ Applied(k) => k \in claimed /\ \A w \in Writers : ~Applies(w, k)
    /\ \A w \in Writers : Applies(w, k) =>
           k \in claimed /\ \A u \in Writers : Applies(u, k) => u = w
    /\ evolutions[k] <= 1
    /\ Once(feeling, k)
    /\ \A w \in Writers : Doing(w, "evolve") => Once(held[w].of, k)

PsyInv ==
    /\ PsycheTypeOK /\ RowsFit
    /\ DOMAIN todo = Writers /\ DOMAIN held = Writers /\ DOMAIN why = Writers
    /\ \A w \in Writers : WriterFits(w)
    /\ \A k \in Keys : KeyFits(k)

---------------------------------------------------------------------------
LEMMA StreakIsPositive ==
    StreakRequired \in Nat /\ StreakRequired # 0 /\ 0 \in 0 .. StreakRequired - 1
<1>1. StreakRequired \in Nat /\ StreakRequired # 0
  BY PsycheAssumption
<1> QED BY <1>1

LEMMA EmptyIsOrdered == Ordered(<<>>)
  BY DEF Ordered

\* The rest of ordered statements is ordered, and starts with what comes after.
LEMMA TailOrdered ==
    ASSUME NEW s, Ordered(s), s # <<>>
    PROVE  /\ Ordered(Tail(s)) /\ Head(s) \in Statements
           /\ Tail(s) # <<>> => Head(Tail(s)) \in After(Head(s))
<1>1. s \in Seq(Statements) /\ Len(s) \in Nat \ {0}
  BY DEF Ordered
<1>2. /\ Tail(s) \in Seq(Statements) /\ Len(Tail(s)) = Len(s) - 1
      /\ \A i \in 1 .. Len(s) - 1 : Tail(s)[i] = s[i + 1]
  BY <1>1
<1>3. ASSUME NEW i \in 1 .. Len(Tail(s)) - 1 PROVE Tail(s)[i + 1] \in After(Tail(s)[i])
  BY <1>1, <1>2 DEF Ordered
<1>4. Tail(s) # <<>> => Head(Tail(s)) \in After(Head(s))
  <2>1. ASSUME Tail(s) # <<>> PROVE Tail(s)[1] = s[2] /\ 1 \in 1 .. Len(s) - 1
    BY <1>1, <1>2, <2>1
  <2> QED BY <1>1, <1>2, <2>1 DEF Ordered
<1> QED BY <1>1, <1>2, <1>3, <1>4 DEF Ordered

\* The INSERT of a row is followed by what its SELECT is followed by.
LEMMA InsertOrdered ==
    ASSUME NEW s, Ordered(s), s # <<>>, NEW a \in {"newProfile", "newMind"},
           After(a) = After(Head(s))
    PROVE  Ordered(<<a>> \o Tail(s)) /\ Head(<<a>> \o Tail(s)) = a /\ <<a>> \o Tail(s) # <<>>
<1> DEFINE r == <<a>> \o Tail(s)
<1>1. s \in Seq(Statements) /\ Len(s) \in Nat \ {0}
  BY DEF Ordered
<1>2. /\ r \in Seq(Statements) /\ Len(r) = Len(s) /\ r[1] = a
      /\ \A i \in 2 .. Len(s) : r[i] = s[i]
  BY <1>1 DEF Statements
<1>3. ASSUME NEW i \in 1 .. Len(r) - 1 PROVE r[i + 1] \in After(r[i])
  <2>1. s[i + 1] \in After(s[i]) /\ r[i + 1] = s[i + 1]
    BY <1>1, <1>2 DEF Ordered
  <2>2. CASE i = 1
    BY <1>1, <1>2, <2>1, <2>2
  <2>3. CASE i # 1
    BY <1>1, <1>2, <2>1, <2>3
  <2> QED BY <2>2, <2>3
<1> HIDE DEF r
<1>4. Ordered(r) /\ Head(r) = a /\ r # <<>>
  BY <1>1, <1>2, <1>3 DEF Ordered
<1> QED BY <1>4 DEF r

\* Two ordered lists of which the second may follow the first.
LEMMA JoinOrdered ==
    ASSUME NEW s, NEW r, Ordered(s), Ordered(r), s # <<>>, r # <<>>, r[1] \in After(s[Len(s)])
    PROVE  Ordered(s \o r) /\ s \o r # <<>> /\ (s \o r)[1] = s[1]
           /\ (s \o r)[Len(s \o r)] = r[Len(r)]
<1>1. s \in Seq(Statements) /\ r \in Seq(Statements) /\ Len(s) \in Nat \ {0} /\ Len(r) \in Nat \ {0}
  BY DEF Ordered
<1>2. /\ s \o r \in Seq(Statements) /\ Len(s \o r) = Len(s) + Len(r)
      /\ \A i \in 1 .. Len(s) : (s \o r)[i] = s[i]
      /\ \A i \in Len(s) + 1 .. Len(s) + Len(r) : (s \o r)[i] = r[i - Len(s)]
  BY <1>1
<1>3. ASSUME NEW i \in 1 .. Len(s \o r) - 1 PROVE (s \o r)[i + 1] \in After((s \o r)[i])
  <2>1. CASE i < Len(s)
    BY <1>1, <1>2, <2>1 DEF Ordered
  <2>2. CASE i = Len(s)
    BY <1>1, <1>2, <2>2
  <2>3. CASE i > Len(s)
    <3> DEFINE j == i - Len(s)
    <3>1. j \in 1 .. Len(r) - 1 /\ (s \o r)[i] = r[j] /\ (s \o r)[i + 1] = r[j + 1]
      BY <1>1, <1>2, <2>3
    <3> QED BY <3>1 DEF Ordered
  <2> QED BY <1>1, <1>2, <2>1, <2>2, <2>3
<1> QED BY <1>1, <1>2, <1>3 DEF Ordered

\* The statements of a call are ordered.
LEMMA OrderedCalls ==
    /\ \A o \in TurnOutcomes : Ordered(OutcomeSteps(o)) /\ OutcomeSteps(o) # <<>>
                               /\ Head(OutcomeSteps(o)) = "profile"
    /\ Ordered(EventSteps) /\ EventSteps # <<>> /\ Head(EventSteps) = "profile"
    /\ Ordered(<<"profile", "adapt">>)
    /\ Ordered(<<"claim", "feel", "evolve">>)
    /\ Ordered(<<"feel", "evolve">>)
<1>1. Ordered(EventSteps) /\ EventSteps # <<>> /\ EventSteps[1] = "profile"
  BY DEF Ordered, EventSteps, Statements, After
<1>2. /\ Ordered(<<"profile", "adapt">>) /\ Ordered(<<"claim", "feel", "evolve">>)
      /\ Ordered(<<"feel", "evolve">>)
  BY DEF Ordered, Statements, After
<1>3. /\ Ordered(RelationSteps) /\ RelationSteps # <<>> /\ RelationSteps[1] = "profile"
      /\ RelationSteps[Len(RelationSteps)] = "relate"
  BY DEF Ordered, RelationSteps, Statements, After
<1>4. ASSUME NEW how \in {"press", "recover"}
      PROVE  LET s == <<"profile", "mind", how, "habit", "reinforce">> IN
             Ordered(s) /\ s # <<>> /\ s[1] = "profile" /\ s[Len(s)] = "reinforce"
  <2> DEFINE s == <<"profile", "mind", how, "habit", "reinforce">>
  <2>1. s \in Seq(Statements) /\ Len(s) = 5
    BY DEF Statements
  <2>2. /\ s[1] = "profile" /\ s[2] = "mind" /\ s[3] = how /\ s[4] = "habit"
        /\ s[5] = "reinforce"
    OBVIOUS
  <2> HIDE DEF s
  <2>3. ASSUME NEW i \in 1 .. 4 PROVE s[i + 1] \in After(s[i])
    <3>1. i = 1 \/ i = 2 \/ i = 3 \/ i = 4
      OBVIOUS
    <3> QED BY <2>2, <3>1 DEF After
  <2>4. Ordered(s)
    <3>1. 1 .. Len(s) - 1 = 1 .. 4
      BY <2>1
    <3> QED BY <2>1, <2>3, <3>1 DEF Ordered
  <2>5. s # <<>> /\ s[Len(s)] = "reinforce"
    BY <2>1, <2>2
  <2> QED BY <2>2, <2>4, <2>5 DEF s
<1> DEFINE Firsts == {<<>>, <<"profile", "mind", "press", "habit", "reinforce">>,
                      <<"profile", "mind", "recover", "habit", "reinforce">>}
<1>5. ASSUME NEW s \in Firsts
      PROVE  /\ Ordered(s \o RelationSteps) /\ s \o RelationSteps # <<>>
             /\ (s \o RelationSteps)[1] = "profile"
             /\ (s \o RelationSteps)[Len(s \o RelationSteps)] = "relate"
  <2>1. CASE s = <<>>
    <3>1. s \o RelationSteps = RelationSteps
      BY <2>1 DEF RelationSteps
    <3> QED BY <1>3, <3>1
  <2>2. CASE s # <<>>
    <3>1. Ordered(s) /\ s # <<>> /\ s[1] = "profile" /\ s[Len(s)] = "reinforce"
      BY <1>4, <2>2
    <3>2. RelationSteps[1] \in After(s[Len(s)])
      BY <1>3, <3>1 DEF After
    <3> QED BY <1>3, <3>1, <3>2, JoinOrdered
  <2> QED BY <2>1, <2>2
<1>6. ASSUME NEW o \in TurnOutcomes
      PROVE  Ordered(OutcomeSteps(o)) /\ OutcomeSteps(o) # <<>> /\ OutcomeSteps(o)[1] = "profile"
  <2>1. PICK s \in Firsts : OutcomeSteps(o) = s \o RelationSteps \o EventSteps
    BY DEF OutcomeSteps
  <2>2. EventSteps[1] \in After((s \o RelationSteps)[Len(s \o RelationSteps)])
    BY <1>1, <1>5 DEF After
  <2>3. /\ Ordered(s \o RelationSteps) /\ s \o RelationSteps # <<>>
        /\ (s \o RelationSteps)[1] = "profile"
    BY <1>5
  <2> DEFINE q == s \o RelationSteps
  <2>4. Ordered(EventSteps) /\ EventSteps # <<>>
    BY <1>1
  <2>5. Ordered(q) /\ q # <<>> /\ q[1] = "profile" /\ EventSteps[1] \in After(q[Len(q)])
    BY <2>2, <2>3
  <2> HIDE DEF q
  <2>6. Ordered(q \o EventSteps) /\ q \o EventSteps # <<>> /\ (q \o EventSteps)[1] = q[1]
    BY <2>4, <2>5, JoinOrdered
  <2>7. OutcomeSteps(o) = q \o EventSteps
    BY <2>1 DEF q
  <2> QED BY <2>5, <2>6, <2>7
<1> QED BY <1>1, <1>2, <1>6

---------------------------------------------------------------------------
\* A step of one writer: the others are where they were.
Same(w) ==
    /\ DOMAIN todo' = Writers /\ DOMAIN held' = Writers /\ DOMAIN why' = Writers
    /\ \A u \in Writers \ {w} : todo'[u] = todo[u] /\ held'[u] = held[u] /\ why'[u] = why[u]

\* Suggestions, relations and lessons are never taken back.
Grown ==
    /\ \A m \in Modes : judged'[m] >= judged[m]
    /\ learned'.relations >= learned.relations
    /\ \A n \in HabitNames :
          /\ Len(learned'.habits[n]) >= Len(learned.habits[n])
          /\ \A i \in 1 .. Len(learned.habits[n]) : learned'.habits[n][i] >= learned.habits[n][i]

LEMMA MindStaysEarned ==
    ASSUME NEW row, NEW j \in [Modes -> Nat], NEW k \in [Modes -> Nat], MindFits(row, j),
           \A m \in Modes : k[m] >= j[m]
    PROVE  MindFits(row, k)
<1>1. row \in Minds
  BY DEF MindFits
<1>2. row.mode \in Modes /\ row.pending \in Modes \cup {""}
  BY <1>1 DEF Minds
<1>6. row.streak \in 0 .. StreakRequired - 1
  BY <1>1 DEF Minds
<1>3. StreakRequired \in Nat
  BY PsycheAssumption
<1>4. ASSUME row.mode # "neutral" PROVE k[row.mode] >= StreakRequired
  <2>1. j[row.mode] >= StreakRequired
    BY <1>4 DEF MindFits
  <2>2. j[row.mode] \in Nat /\ k[row.mode] \in Nat /\ k[row.mode] >= j[row.mode]
    BY <1>2
  <2> QED BY <1>3, <2>1, <2>2
<1>5. ASSUME row.pending # "" PROVE k[row.pending] >= row.streak
  <2>1. j[row.pending] >= row.streak
    BY <1>5 DEF MindFits
  <2>2. j[row.pending] \in Nat /\ k[row.pending] \in Nat /\ k[row.pending] >= j[row.pending]
    BY <1>2, <1>5
  <2>3. row.streak \in Nat
    BY <1>3, <1>6
  <2> QED BY <2>1, <2>2, <2>3
<1> QED BY <1>1, <1>4, <1>5 DEF MindFits

LEMMA BondStaysEarned ==
    ASSUME NEW row, NEW r \in Nat, NEW s \in Nat, BondFits(row, r), s >= r
    PROVE  BondFits(row, s)
<1>1. row \in Bonds /\ row.trust + row.friction <= r
  BY DEF BondFits
<1>2. row.trust \in Nat /\ row.friction \in Nat
  BY <1>1 DEF Bonds
<1>3. row.trust + row.friction <= s
  BY <1>1, <1>2
<1> QED BY <1>1, <1>3 DEF BondFits

LEMMA HabitStaysEarned ==
    ASSUME NEW read, NEW l \in Seq(Nat), NEW k \in Seq(Nat), HabitFits(read, l), Len(k) >= Len(l),
           \A i \in 1 .. Len(l) : k[i] >= l[i]
    PROVE  HabitFits(read, k)
<1>1. CASE read.row = 0
  BY <1>1 DEF HabitFits
<1>2. CASE read.row # 0
  <2>1. /\ read.row \in 1 .. Len(l) /\ read.count \in Nat /\ read.count <= l[read.row]
        /\ k[read.row] >= l[read.row] /\ read.row \in 1 .. Len(k)
    BY <1>2 DEF HabitFits
  <2>2. l[read.row] \in Nat /\ k[read.row] \in Nat
    <3> DEFINE h == read.row
    <3>1. h \in 1 .. Len(l) /\ h \in 1 .. Len(k)
      BY <2>1
    <3> HIDE DEF h
    <3>2. l[h] \in Nat /\ k[h] \in Nat
      BY <3>1
    <3> QED BY <3>2 DEF h
  <2> QED BY <2>1, <2>2 DEF HabitFits
<1> QED BY <1>1, <1>2

\* Nobody's row is spoilt by what others learn.
LEMMA OthersFit ==
    ASSUME PsyInv, PsycheTypeOK', RowsFit', Grown, NEW u \in Writers,
           todo'[u] = todo[u], held'[u] = held[u], why'[u] = why[u]
    PROVE  WriterFits(u)'
<1>1. WriterFits(u)
  BY DEF PsyInv
<1>2. /\ judged \in [Modes -> Nat] /\ judged' \in [Modes -> Nat]
      /\ learned.relations \in Nat /\ learned'.relations \in Nat
      /\ \A n \in HabitNames : learned.habits[n] \in Seq(Nat) /\ learned'.habits[n] \in Seq(Nat)
  BY DEF PsyInv, PsycheTypeOK, RowsFit
<1>3. ASSUME MindFits(held[u], judged) PROVE MindFits(held[u], judged')
  BY <1>2, <1>3, MindStaysEarned DEF Grown
<1>4. ASSUME BondFits(held[u], learned.relations) PROVE BondFits(held[u], learned'.relations)
  BY <1>2, <1>4, BondStaysEarned DEF Grown
<1>5. ASSUME HabitFits(held[u], learned.habits[HabitOf(why[u])])
      PROVE  HabitFits(held[u], learned'.habits[HabitOf(why[u])])
  <2>1. HabitOf(why[u]) \in HabitNames
    BY DEF HabitOf, HabitNames
  <2> QED BY <1>2, <1>5, <2>1, HabitStaysEarned DEF Grown
<1> QED BY <1>1, <1>3, <1>4, <1>5 DEF WriterFits, Doing

LEMMA WriterStep ==
    ASSUME PsyInv, NEW w \in Writers, Same(w), PsycheTypeOK', RowsFit', Grown, WriterFits(w)',
           \A k \in Keys : KeyFits(k)'
    PROVE  PsyInv'
<1>1. \A u \in Writers : WriterFits(u)'
  BY OthersFit DEF Same
<1> QED BY <1>1 DEF PsyInv, Same

\* A writer that neither applies a key nor is about to leaves the keys alone.
LEMMA KeysStay ==
    ASSUME PsyInv, NEW w \in Writers, Same(w), UNCHANGED <<feeling, claimed, evolutions>>,
           ~Doing(w, "evolve"), ~Doing(w, "evolve")',
           \A k \in Keys : ~Applies(w, k) /\ ~Applies(w, k)'
    PROVE  \A k \in Keys : KeyFits(k)'
<1> SUFFICES ASSUME NEW k \in Keys PROVE KeyFits(k)'
  OBVIOUS
<1>1. KeyFits(k)
  BY DEF PsyInv
<1>2. ASSUME NEW u \in Writers
      PROVE  /\ Applies(u, k)' <=> Applies(u, k)
             /\ Doing(u, "evolve")' <=> Doing(u, "evolve")
             /\ Doing(u, "evolve") => held'[u] = held[u]
  BY DEF Same, Applies, Doing
<1>3. Applied(k)' => Applied(k)
  BY <1>2 DEF Applied
<1> QED BY <1>1, <1>2, <1>3 DEF KeyFits

---------------------------------------------------------------------------
\* The next statement of a writer comes after the one it has executed.
LEMMA Advances ==
    ASSUME PsyInv, NEW w \in Writers, NEW s, Doing(w, s), Advance(w)
    PROVE  /\ DOMAIN todo' = Writers /\ DOMAIN why' = Writers
           /\ \A u \in Writers \ {w} : todo'[u] = todo[u] /\ why'[u] = why[u]
           /\ Ordered(todo'[w]) /\ \A t : Doing(w, t)' => t \in After(s) /\ why'[w] = why[w]
<1>1. DOMAIN todo = Writers /\ DOMAIN why = Writers /\ Ordered(todo[w]) /\ todo[w] # <<>>
  BY DEF PsyInv, WriterFits, Doing
<1>2. todo' = [todo EXCEPT ![w] = Tail(todo[w])]
  BY DEF Advance, Proceed
<1>3. why' = [why EXCEPT ![w] = IF Tail(todo[w]) = <<>> THEN "" ELSE why[w]]
  BY DEF Advance, Proceed
<1>4. todo'[w] = Tail(todo[w]) /\ (todo'[w] # <<>> => why'[w] = why[w])
  BY <1>1, <1>2, <1>3
<1>5. Ordered(todo'[w]) /\ (todo'[w] # <<>> => Head(todo'[w]) \in After(s))
  BY <1>1, <1>4, TailOrdered DEF Doing
<1> QED BY <1>1, <1>2, <1>3, <1>4, <1>5 DEF Doing

LEMMA Quits ==
    ASSUME PsyInv, NEW w \in Writers, Quit(w)
    PROVE  /\ DOMAIN todo' = Writers /\ DOMAIN why' = Writers
           /\ \A u \in Writers \ {w} : todo'[u] = todo[u] /\ why'[u] = why[u]
           /\ Ordered(todo'[w]) /\ \A t : ~Doing(w, t)'
<1>1. DOMAIN todo = Writers /\ DOMAIN why = Writers
  BY DEF PsyInv
<1>2. Ordered(<<>>)
  BY DEF Ordered
<1> QED BY <1>1, <1>2 DEF Quit, Proceed, Doing

LEMMA Inserts ==
    ASSUME PsyInv, NEW w \in Writers, NEW s, Doing(w, s), NEW a \in {"newProfile", "newMind"},
           After(a) = After(s), Proceed(w, <<a>> \o Tail(todo[w]))
    PROVE  /\ DOMAIN todo' = Writers /\ DOMAIN why' = Writers
           /\ \A u \in Writers \ {w} : todo'[u] = todo[u] /\ why'[u] = why[u]
           /\ Ordered(todo'[w]) /\ \A t : Doing(w, t)' => t = a /\ why'[w] = why[w]
<1>1. DOMAIN todo = Writers /\ DOMAIN why = Writers /\ Ordered(todo[w]) /\ todo[w] # <<>>
  BY DEF PsyInv, WriterFits, Doing
<1> DEFINE r == <<a>> \o Tail(todo[w])
<1>2. Ordered(r) /\ Head(r) = a /\ r # <<>>
  BY <1>1, InsertOrdered DEF Doing
<1>3. todo' = [todo EXCEPT ![w] = r] /\ why' = [why EXCEPT ![w] = IF r = <<>> THEN "" ELSE @]
  BY DEF Proceed
<1> HIDE DEF r
<1> QED BY <1>1, <1>2, <1>3 DEF Doing

\* What a writer has read replaces what it held.
LEMMA Keeps ==
    ASSUME PsyInv, NEW w \in Writers, NEW row, Keep(w, row)
    PROVE  /\ DOMAIN held' = Writers /\ held'[w] = row
           /\ \A u \in Writers \ {w} : held'[u] = held[u]
  BY DEF PsyInv, Keep

---------------------------------------------------------------------------
LEMMA RowsStay ==
    ASSUME PsyInv, UNCHANGED <<psyRows, psyHistory>>
    PROVE  PsycheTypeOK' /\ RowsFit' /\ Grown
<1>1. PsycheTypeOK' /\ RowsFit'
  BY DEF PsyInv, psyRows, psyHistory, PsycheTypeOK, RowsFit
<1>2. Grown
  <2>1. /\ \A m \in Modes : judged[m] \in Nat
        /\ learned.relations \in Nat
        /\ \A n \in HabitNames : learned.habits[n] \in Seq(Nat)
    BY DEF PsyInv, PsycheTypeOK, RowsFit
  <2> QED BY <2>1 DEF Grown, psyHistory
<1> QED BY <1>1, <1>2

\* A step of a writer that has nothing to do with keys.
LEMMA QuietStep ==
    ASSUME PsyInv, NEW w \in Writers, Same(w), UNCHANGED <<feeling, claimed, evolutions>>,
           ~Doing(w, "feel"), ~Doing(w, "evolve"), ~Doing(w, "feel")', ~Doing(w, "evolve")',
           PsycheTypeOK', RowsFit', Grown, WriterFits(w)'
    PROVE  PsyInv'
<1>1. \A k \in Keys : KeyFits(k)'
  BY KeysStay DEF Applies
<1> QED BY <1>1, WriterStep

LEMMA CallsBegin ==
    ASSUME PsyInv, NEW w \in Writers
    PROVE  Outcome(w) \/ Event(w) \/ Reflection(w) \/ Deliver(w) \/ Evolution(w) => PsyInv'
<1>1. ASSUME NEW cause, NEW steps, Call(w, cause, steps), Ordered(steps), steps # <<>>,
             \/ Head(steps) = "profile"
             \/ Head(steps) = "claim" /\ cause \in Keys
             \/ Head(steps) = "feel" /\ cause = "evolve"
      PROVE  PsyInv'
  <2>1. /\ todo[w] = <<>> /\ todo' = [todo EXCEPT ![w] = steps]
        /\ why' = [why EXCEPT ![w] = cause] /\ UNCHANGED <<psyRows, held, psyHistory>>
    BY <1>1 DEF Call
  <2>2. /\ Same(w) /\ todo'[w] = steps /\ why'[w] = cause
        /\ UNCHANGED <<feeling, claimed, evolutions>>
    BY <2>1 DEF PsyInv, Same, psyRows, psyHistory
  <2>3. PsycheTypeOK' /\ RowsFit' /\ Grown
    BY <2>1, RowsStay
  <2>4. \A t : Doing(w, t)' => t = Head(steps)
    BY <2>2 DEF Doing
  <2>5. WriterFits(w)'
    BY <1>1, <2>2, <2>4 DEF WriterFits
  <2>6. \A k \in Keys : ~Applies(w, k) /\ ~Applies(w, k)'
    BY <1>1, <2>1, <2>2, <2>4, PsycheAssumption DEF Applies, Doing
  <2>7. ~Doing(w, "evolve") /\ ~Doing(w, "evolve")'
    BY <1>1, <2>1, <2>4 DEF Doing
  <2> QED BY <2>2, <2>3, <2>5, <2>6, <2>7, KeysStay, WriterStep
<1>2. /\ Head(<<"profile", "adapt">>) = "profile" /\ <<"profile", "adapt">> # <<>>
      /\ Head(<<"claim", "feel", "evolve">>) = "claim" /\ <<"claim", "feel", "evolve">> # <<>>
      /\ Head(<<"feel", "evolve">>) = "feel" /\ <<"feel", "evolve">> # <<>>
  OBVIOUS
<1>3. ASSUME Outcome(w) PROVE PsyInv'
  BY <1>1, <1>3, OrderedCalls DEF Outcome
<1>4. ASSUME Event(w) PROVE PsyInv'
  BY <1>1, <1>4, OrderedCalls DEF Event
<1>5. ASSUME Reflection(w) PROVE PsyInv'
  BY <1>1, <1>2, <1>5, OrderedCalls DEF Reflection
<1>6. ASSUME Deliver(w) PROVE PsyInv'
  BY <1>1, <1>2, <1>6, OrderedCalls DEF Deliver
<1>7. ASSUME Evolution(w) PROVE PsyInv'
  BY <1>1, <1>2, <1>7, OrderedCalls DEF Evolution
<1> QED BY <1>3, <1>4, <1>5, <1>6, <1>7

\* The row of the profile, read or inserted.
LEMMA ProfileFits ==
    ASSUME PsyInv, NEW w \in Writers
    PROVE  EnsureProfile(w) \/ NewProfile(w) => PsyInv'
<1>1. ASSUME EnsureProfile(w), bond.there, Advance(w), Keep(w, bond) PROVE PsyInv'
  <2>1. Doing(w, "profile") /\ UNCHANGED <<psyRows, psyHistory>>
    BY <1>1 DEF EnsureProfile
  <2>2. Same(w) /\ held'[w] = bond
    BY <1>1, <2>1, Advances, Keeps DEF Same
  <2>3. Ordered(todo'[w]) /\ \A t : Doing(w, t)' => t \in {"mind", "relate", "adapt"}
    BY <1>1, <2>1, Advances DEF After
  <2>4. BondFits(bond, learned.relations)
    BY <1>1 DEF PsyInv, RowsFit, Missing
  <2>5. learned' = learned
    BY <2>1 DEF psyHistory
  <2>6. WriterFits(w)'
    BY <2>2, <2>3, <2>4, <2>5 DEF WriterFits
  <2> QED
    BY <2>1, <2>2, <2>3, <2>6, RowsStay, QuietStep DEF Doing, psyRows, psyHistory
<1>2. ASSUME EnsureProfile(w), Proceed(w, <<"newProfile">> \o Tail(todo[w])), UNCHANGED held
      PROVE  PsyInv'
  <2>1. Doing(w, "profile") /\ UNCHANGED <<psyRows, psyHistory>>
    BY <1>2 DEF EnsureProfile
  <2>2. /\ DOMAIN todo' = Writers /\ DOMAIN why' = Writers
        /\ \A u \in Writers \ {w} : todo'[u] = todo[u] /\ why'[u] = why[u]
        /\ Ordered(todo'[w]) /\ \A t : Doing(w, t)' => t = "newProfile"
    <3>1. After("newProfile") = After("profile")
      BY DEF After
    <3> QED BY <1>2, <2>1, <3>1, Inserts
  <2>3. Same(w)
    BY <1>2, <2>2 DEF Same, PsyInv
  <2>4. WriterFits(w)'
    BY <2>2 DEF WriterFits
  <2> QED
    BY <2>1, <2>2, <2>3, <2>4, RowsStay, QuietStep DEF Doing, psyRows, psyHistory
<1>3. ASSUME NewProfile(w), bond' = FreshBond, Advance(w), Keep(w, FreshBond) PROVE PsyInv'
  <2>1. Doing(w, "newProfile") /\ UNCHANGED <<mind, habits, events, feeling, claimed, psyHistory>>
    BY <1>3 DEF NewProfile
  <2>2. Same(w) /\ held'[w] = FreshBond
    BY <1>3, <2>1, Advances, Keeps DEF Same
  <2>3. Ordered(todo'[w]) /\ \A t : Doing(w, t)' => t \in {"mind", "relate", "adapt"}
    BY <1>3, <2>1, Advances DEF After
  <2>4. BondFits(FreshBond, learned.relations) /\ FreshBond \in Bonds
    BY DEF BondFits, FreshBond, Bonds, PsyInv, RowsFit
  <2>5. UNCHANGED <<judged, learned, evolutions>>
    BY <2>1 DEF psyHistory
  <2>6. WriterFits(w)'
    BY <2>2, <2>3, <2>4, <2>5 DEF WriterFits
  <2>7. PsycheTypeOK' /\ RowsFit'
    BY <1>3, <2>1, <2>4, <2>5 DEF PsyInv, PsycheTypeOK, RowsFit
  <2>8. Grown
    BY <2>5 DEF Grown, PsyInv, PsycheTypeOK, RowsFit
  <2> QED
    BY <2>1, <2>2, <2>3, <2>5, <2>6, <2>7, <2>8, QuietStep DEF Doing
<1>4. ASSUME NewProfile(w), Quit(w), UNCHANGED <<bond, held>> PROVE PsyInv'
  <2>1. Doing(w, "newProfile") /\ UNCHANGED <<psyRows, psyHistory>>
    BY <1>4 DEF NewProfile, psyRows
  <2>2. Same(w)
    BY <1>4, Quits DEF Same, PsyInv
  <2>3. WriterFits(w)'
    BY <1>4, Quits DEF WriterFits
  <2> QED
    BY <1>4, <2>1, <2>2, <2>3, Quits, RowsStay, QuietStep DEF Doing, psyRows, psyHistory
<1> QED BY <1>1, <1>2, <1>3, <1>4 DEF EnsureProfile, NewProfile

\* The row of the state, read or inserted.
LEMMA StateFits ==
    ASSUME PsyInv, NEW w \in Writers
    PROVE  EnsureState(w) \/ NewState(w) => PsyInv'
<1>1. ASSUME EnsureState(w), mind.there, Advance(w), Keep(w, mind) PROVE PsyInv'
  <2>1. Doing(w, "mind") /\ UNCHANGED <<psyRows, psyHistory>>
    BY <1>1 DEF EnsureState
  <2>2. Same(w) /\ held'[w] = mind
    BY <1>1, <2>1, Advances, Keeps DEF Same
  <2>3. Ordered(todo'[w]) /\ \A t : Doing(w, t)' => t \in {"press", "recover", "insert"}
    BY <1>1, <2>1, Advances DEF After
  <2>4. MindFits(mind, judged)
    BY <1>1 DEF PsyInv, RowsFit, Missing
  <2>5. judged' = judged
    BY <2>1 DEF psyHistory
  <2>6. WriterFits(w)'
    BY <2>2, <2>3, <2>4, <2>5 DEF WriterFits
  <2> QED
    BY <2>1, <2>2, <2>3, <2>6, RowsStay, QuietStep DEF Doing, psyRows, psyHistory
<1>2. ASSUME EnsureState(w), Proceed(w, <<"newMind">> \o Tail(todo[w])), UNCHANGED held
      PROVE  PsyInv'
  <2>1. Doing(w, "mind") /\ UNCHANGED <<psyRows, psyHistory>>
    BY <1>2 DEF EnsureState
  <2>2. /\ DOMAIN todo' = Writers /\ DOMAIN why' = Writers
        /\ \A u \in Writers \ {w} : todo'[u] = todo[u] /\ why'[u] = why[u]
        /\ Ordered(todo'[w]) /\ \A t : Doing(w, t)' => t = "newMind"
    <3>1. After("newMind") = After("mind")
      BY DEF After
    <3> QED BY <1>2, <2>1, <3>1, Inserts
  <2>3. Same(w)
    BY <1>2, <2>2 DEF Same, PsyInv
  <2>4. WriterFits(w)'
    BY <2>2 DEF WriterFits
  <2> QED
    BY <2>1, <2>2, <2>3, <2>4, RowsStay, QuietStep DEF Doing, psyRows, psyHistory
<1>3. ASSUME NewState(w), mind' = FreshMind, Advance(w), Keep(w, FreshMind) PROVE PsyInv'
  <2>1. Doing(w, "newMind") /\ UNCHANGED <<bond, habits, events, feeling, claimed, psyHistory>>
    BY <1>3 DEF NewState
  <2>2. Same(w) /\ held'[w] = FreshMind
    BY <1>3, <2>1, Advances, Keeps DEF Same
  <2>3. Ordered(todo'[w]) /\ \A t : Doing(w, t)' => t \in {"press", "recover", "insert"}
    BY <1>3, <2>1, Advances DEF After
  <2>4. MindFits(FreshMind, judged) /\ FreshMind \in Minds
    <3>1. 0 \in 0 .. StreakRequired - 1
      BY StreakIsPositive
    <3>2. FreshMind \in Minds
      BY <3>1, PsycheAssumption DEF FreshMind, Minds
    <3> QED BY <3>2 DEF MindFits, FreshMind
  <2>5. UNCHANGED <<judged, learned, evolutions>>
    BY <2>1 DEF psyHistory
  <2>6. WriterFits(w)'
    BY <2>2, <2>3, <2>4, <2>5 DEF WriterFits
  <2>7. PsycheTypeOK' /\ RowsFit'
    BY <1>3, <2>1, <2>4, <2>5 DEF PsyInv, PsycheTypeOK, RowsFit
  <2>8. Grown
    BY <2>5 DEF Grown, PsyInv, PsycheTypeOK, RowsFit
  <2> QED
    BY <2>1, <2>2, <2>3, <2>5, <2>6, <2>7, <2>8, QuietStep DEF Doing
<1>4. ASSUME NewState(w), Quit(w), UNCHANGED <<mind, held>> PROVE PsyInv'
  <2>1. Doing(w, "newMind") /\ UNCHANGED <<psyRows, psyHistory>>
    BY <1>4 DEF NewState, psyRows
  <2>2. Same(w)
    BY <1>4, Quits DEF Same, PsyInv
  <2>3. WriterFits(w)'
    BY <1>4, Quits DEF WriterFits
  <2> QED
    BY <1>4, <2>1, <2>2, <2>3, Quits, RowsStay, QuietStep DEF Doing, psyRows, psyHistory
<1> QED BY <1>1, <1>2, <1>3, <1>4 DEF EnsureState, NewState

\* A row of the mood is written, or its UPDATE fails.
LEMMA MindWritten ==
    ASSUME PsyInv, NEW row, MindFits(row, judged'), Stored(mind, row),
           UNCHANGED <<bond, habits, feeling, claimed, evolutions, learned>>,
           judged' \in [Modes -> Nat], \A m \in Modes : judged'[m] >= judged[m]
    PROVE  PsycheTypeOK' /\ RowsFit' /\ Grown
<1>1. ASSUME mind # Missing PROVE MindFits(mind, judged')
  BY <1>1, MindStaysEarned DEF PsyInv, RowsFit, PsycheTypeOK
<1>2. mind' = row \/ mind' = mind
  BY DEF Stored
<1>3. PsycheTypeOK'
  BY <1>2 DEF PsyInv, PsycheTypeOK, MindFits
<1>4. RowsFit'
  BY <1>1, <1>2 DEF PsyInv, RowsFit
<1>5. Grown
  BY DEF Grown, PsyInv, PsycheTypeOK, RowsFit
<1> QED BY <1>3, <1>4, <1>5

\* Pressure and recovery write the row that was read.
LEMMA PressureFits ==
    ASSUME PsyInv, NEW w \in Writers
    PROVE  Press(w) \/ Recover(w) => PsyInv'
<1>1. ASSUME NEW row, MindFits(row, judged), NEW p \in BOOLEAN
      PROVE  MindFits([row EXCEPT !.pressed = p], judged)
  BY <1>1 DEF MindFits, Minds
<1>2. ASSUME NEW s \in {"press", "recover"}, Doing(w, s), Advance(w), Drop(w),
             \/ \E p \in BOOLEAN : Stored(mind, [held[w] EXCEPT !.pressed = p])
             \/ UNCHANGED mind,
             UNCHANGED <<bond, habits, events, feeling, claimed, psyHistory>>
      PROVE  PsyInv'
  <2>1. MindFits(held[w], judged)
    BY <1>2 DEF PsyInv, WriterFits
  <2>2. UNCHANGED <<judged, learned, evolutions>>
    BY <1>2 DEF psyHistory
  <2>3. PsycheTypeOK' /\ RowsFit' /\ Grown
    <3>1. CASE UNCHANGED mind
      BY <1>2, <3>1, RowsStay DEF psyRows
    <3>2. ASSUME NEW p \in BOOLEAN, Stored(mind, [held[w] EXCEPT !.pressed = p])
          PROVE  PsycheTypeOK' /\ RowsFit' /\ Grown
      <4>1. MindFits([held[w] EXCEPT !.pressed = p], judged')
        BY <1>1, <2>1, <2>2
      <4>2. judged' \in [Modes -> Nat] /\ \A m \in Modes : judged'[m] >= judged[m]
        BY <2>2 DEF PsyInv, PsycheTypeOK
      <4> QED BY <1>2, <2>2, <3>2, <4>1, <4>2, MindWritten
    <3> QED BY <1>2, <3>1, <3>2
  <2>4. Same(w)
    BY <1>2, Advances, Keeps DEF Same, Drop
  <2>5. Ordered(todo'[w]) /\ \A t : Doing(w, t)' => t = "habit"
    BY <1>2, Advances DEF After
  <2>6. WriterFits(w)'
    BY <2>5 DEF WriterFits
  <2> QED
    BY <1>2, <2>2, <2>3, <2>4, <2>5, <2>6, QuietStep DEF Doing
<1>3. ASSUME Press(w) PROVE PsyInv'
  BY <1>2, <1>3 DEF Press
<1>4. ASSUME Recover(w) PROVE PsyInv'
  BY <1>2, <1>4 DEF Recover
<1> QED BY <1>3, <1>4

\* From j to k, the mode c was suggested once more.
Suggests(j, k, c) ==
    /\ j \in [Modes -> Nat] /\ k \in [Modes -> Nat]
    /\ \A m \in Modes : IF m = c THEN k[m] = j[m] + 1 ELSE k[m] = j[m]

LEMMA SuggestsMore ==
    ASSUME NEW j, NEW k, NEW c, Suggests(j, k, c), NEW m \in Modes
    PROVE  k[m] \in Nat /\ j[m] \in Nat /\ k[m] >= j[m] /\ (m = c => k[m] = j[m] + 1)
<1>1. k[m] \in Nat /\ j[m] \in Nat
  BY DEF Suggests
<1>2. IF m = c THEN k[m] = j[m] + 1 ELSE k[m] = j[m]
  BY DEF Suggests
<1> QED BY <1>1, <1>2

\* A suggestion of the mode itself, or of none, forgets the one pending.
LEMMA HysteresisRests ==
    ASSUME NEW row, NEW j, MindFits(row, j), NEW c \in {"", row.mode}
    PROVE  MindFits(Hysteresis(row, c), j)
<1>1. Hysteresis(row, c) = [row EXCEPT !.pending = "", !.streak = 0]
  BY DEF Hysteresis
<1>2. 0 \in 0 .. StreakRequired - 1
  BY StreakIsPositive
<1>3. row \in Minds
  BY DEF MindFits
<1>4. [row EXCEPT !.pending = "", !.streak = 0] \in Minds
  BY <1>2, <1>3 DEF Minds
<1> QED BY <1>1, <1>3, <1>4 DEF MindFits, Minds

\* Another mode is switched to, or comes nearer, when it is suggested once more.
LEMMA HysteresisEarned ==
    ASSUME NEW row, NEW j, NEW k, MindFits(row, j), NEW c \in Modes, c # row.mode,
           Suggests(j, k, c)
    PROVE  MindFits(Hysteresis(row, c), k)
<1>1. row \in Minds
  BY DEF MindFits
<1>2. row.streak \in 0 .. StreakRequired - 1
  BY <1>1 DEF Minds
<1>3. row.streak \in Nat /\ 0 \in 0 .. StreakRequired - 1
  BY <1>2, StreakIsPositive
<1>4. k[c] \in Nat /\ j[c] \in Nat /\ k[c] = j[c] + 1
  BY SuggestsMore
<1>5. MindFits(row, k)
  BY SuggestsMore, MindStaysEarned DEF Suggests
<1>6. c # ""
  BY PsycheAssumption
<1> DEFINE streak == IF c = row.pending THEN row.streak + 1 ELSE 1
<1>7. streak \in Nat /\ k[c] >= streak
  <2>1. CASE c = row.pending
    <3>1. j[c] >= row.streak
      BY <1>6, <2>1 DEF MindFits
    <3>2. streak = row.streak + 1
      BY <2>1
    <3> HIDE DEF streak
    <3> QED BY <1>3, <1>4, <3>1, <3>2
  <2>2. CASE c # row.pending
    <3>1. streak = 1
      BY <2>2
    <3> HIDE DEF streak
    <3> QED BY <1>4, <3>1
  <2> QED BY <2>1, <2>2
<1>8. CASE streak >= StreakRequired
  <2>1. Hysteresis(row, c) = [row EXCEPT !.mode = c, !.pending = "", !.streak = 0]
    BY <1>6, <1>8 DEF Hysteresis
  <2>2. [row EXCEPT !.mode = c, !.pending = "", !.streak = 0] \in Minds
    BY <1>1, <1>3 DEF Minds
  <2>3. k[c] >= StreakRequired
    <3> HIDE DEF streak
    <3> QED BY <1>4, <1>7, <1>8, StreakIsPositive
  <2> QED BY <1>1, <2>1, <2>2, <2>3 DEF MindFits, Minds
<1>9. CASE ~(streak >= StreakRequired)
  <2>1. Hysteresis(row, c) = [row EXCEPT !.pending = c, !.streak = streak]
    BY <1>6, <1>9 DEF Hysteresis
  <2> HIDE DEF streak
  <2>2. streak \in 0 .. StreakRequired - 1
    BY <1>7, <1>9, StreakIsPositive
  <2>3. [row EXCEPT !.pending = c, !.streak = streak] \in Minds
    BY <1>1, <2>2 DEF Minds
  <2> QED BY <1>1, <1>5, <1>7, <2>1, <2>3 DEF MindFits, Minds
<1> QED BY <1>8, <1>9

LEMMA JudgeFits == ASSUME PsyInv, NEW w \in Writers, Judge(w) PROVE PsyInv'
<1>1. /\ Doing(w, "judge") /\ Advance(w) /\ Drop(w)
      /\ UNCHANGED <<bond, habits, events, feeling, claimed, evolutions, learned>>
  BY DEF Judge
<1>2. PICK c :
         /\ c \in Modes \cup {""}
         /\ Stored(mind, Hysteresis(held[w], c))
         /\ judged' = [m \in Modes |-> judged[m] + (IF m = c THEN 1 ELSE 0)]
  BY DEF Judge
<1>3. judged \in [Modes -> Nat] /\ MindFits(held[w], judged)
  BY <1>1 DEF PsyInv, PsycheTypeOK, WriterFits
<1>4. Suggests(judged, judged', c)
  <2>1. judged' \in [Modes -> Nat]
    <3>1. \A m \in Modes : judged[m] + 1 \in Nat /\ judged[m] + 0 \in Nat
      BY <1>3
    <3> QED BY <1>2, <3>1
  <2>2. ASSUME NEW m \in Modes
        PROVE  IF m = c THEN judged'[m] = judged[m] + 1 ELSE judged'[m] = judged[m]
    <3>1. judged'[m] = judged[m] + (IF m = c THEN 1 ELSE 0) /\ judged[m] \in Nat
      BY <1>2, <1>3
    <3> QED BY <3>1
  <2> QED BY <1>3, <2>1, <2>2 DEF Suggests
<1>5. MindFits(Hysteresis(held[w], c), judged')
  <2>1. MindFits(held[w], judged')
    BY <1>3, <1>4, SuggestsMore, MindStaysEarned DEF Suggests
  <2> QED BY <1>2, <1>3, <1>4, <2>1, HysteresisEarned, HysteresisRests
<1>6. PsycheTypeOK' /\ RowsFit' /\ Grown
  <2>1. judged' \in [Modes -> Nat] /\ \A m \in Modes : judged'[m] >= judged[m]
    BY <1>4, SuggestsMore DEF Suggests
  <2> QED BY <1>1, <1>2, <1>5, <2>1, MindWritten
<1>7. Same(w)
  BY <1>1, Advances, Keeps DEF Same, Drop
<1>8. Ordered(todo'[w]) /\ \A t : ~Doing(w, t)'
  <2>1. After("judge") = {}
    BY DEF After
  <2> QED BY <1>1, <2>1, Advances
<1>9. WriterFits(w)'
  BY <1>8 DEF WriterFits
<1> QED BY <1>1, <1>6, <1>7, <1>8, <1>9, QuietStep DEF Doing

LEMMA InsertFits == ASSUME PsyInv, NEW w \in Writers, InsertEvent(w) PROVE PsyInv'
<1>1. /\ Doing(w, "insert") /\ Advance(w)
      /\ UNCHANGED <<mind, bond, habits, feeling, claimed, held, psyHistory>>
  BY DEF InsertEvent
<1>2. Same(w) /\ held'[w] = held[w]
  BY <1>1, Advances DEF Same, PsyInv
<1>3. Ordered(todo'[w]) /\ \A t : Doing(w, t)' => t = "judge"
  BY <1>1, Advances DEF After
<1>4. MindFits(held[w], judged)
  BY <1>1 DEF PsyInv, WriterFits
<1>5. UNCHANGED <<judged, learned, evolutions>>
  BY <1>1 DEF psyHistory
<1>6. WriterFits(w)'
  BY <1>2, <1>3, <1>4, <1>5 DEF WriterFits
<1>7. PsycheTypeOK' /\ RowsFit'
  BY <1>1, <1>5 DEF PsyInv, PsycheTypeOK, RowsFit
<1>8. Grown
  BY <1>5 DEF Grown, PsyInv, PsycheTypeOK, RowsFit
<1> QED BY <1>1, <1>2, <1>3, <1>5, <1>6, <1>7, <1>8, QuietStep DEF Doing

LEMMA ReadHabitFits == ASSUME PsyInv, NEW w \in Writers, ReadHabit(w) PROVE PsyInv'
<1> DEFINE n == HabitOf(why[w])
<1>1. Doing(w, "habit") /\ Advance(w) /\ UNCHANGED <<psyRows, psyHistory>>
  BY DEF ReadHabit
<1>2. n \in HabitNames
  BY DEF HabitOf, HabitNames
<1>3. PICK read : Keep(w, read) /\ HabitFits(read, learned.habits[n])
  <2>1. /\ habits[n] \in Seq(Nat) /\ Len(habits[n]) = Len(learned.habits[n])
        /\ \A i \in 1 .. Len(habits[n]) : habits[n][i] <= learned.habits[n][i]
    BY <1>2 DEF PsyInv, RowsFit
  <2> HIDE DEF n
  <2>2. HabitFits([row |-> 0, count |-> 0], learned.habits[n])
    BY DEF HabitFits
  <2>3. ASSUME NEW i \in DOMAIN habits[n]
        PROVE  HabitFits([row |-> i, count |-> habits[n][i]], learned.habits[n])
    <3>1. i \in 1 .. Len(learned.habits[n]) /\ i \in Nat /\ habits[n][i] \in Nat
          /\ habits[n][i] <= learned.habits[n][i]
      BY <2>1
    <3> QED BY <3>1 DEF HabitFits
  <2> QED BY <2>2, <2>3 DEF ReadHabit, n
<1>4. Same(w) /\ held'[w] = read
  BY <1>1, <1>3, Advances, Keeps DEF Same
<1>5. Ordered(todo'[w]) /\ \A t : Doing(w, t)' => t = "reinforce" /\ why'[w] = why[w]
  BY <1>1, Advances DEF After
<1>6. learned' = learned
  BY <1>1 DEF psyHistory
<1>7. WriterFits(w)'
  BY <1>3, <1>4, <1>5, <1>6 DEF WriterFits
<1> QED
  BY <1>1, <1>4, <1>5, <1>7, RowsStay, QuietStep DEF Doing, psyRows, psyHistory

\* A habit is reinforced by no more than one for what its row has learned.
LEMMA LessonsGrow ==
    ASSUME NEW h \in Seq(Nat), NEW l \in Seq(Nat), Len(h) = Len(l), NEW read, HabitFits(read, l),
           \A i \in 1 .. Len(h) : h[i] <= l[i]
    PROVE  LET i == read.row
               h2 == IF i = 0 THEN Append(h, 1) ELSE [h EXCEPT ![i] = read.count + 1]
               l2 == IF i = 0 THEN Append(l, 1) ELSE [l EXCEPT ![i] = @ + 1]
           IN  /\ h2 \in Seq(Nat) /\ l2 \in Seq(Nat) /\ Len(h2) = Len(l2) /\ Len(l2) >= Len(l)
               /\ \A k \in 1 .. Len(h2) : h2[k] <= l2[k]
               /\ \A k \in 1 .. Len(l) : l2[k] >= l[k]
<1>1. \A k \in 1 .. Len(l) : h[k] \in Nat /\ l[k] \in Nat
  OBVIOUS
<1>2. CASE read.row = 0
  <2>1. /\ Append(h, 1) \in Seq(Nat) /\ Append(l, 1) \in Seq(Nat)
        /\ Len(Append(h, 1)) = Len(l) + 1 /\ Len(Append(l, 1)) = Len(l) + 1
        /\ \A k \in 1 .. Len(l) : Append(h, 1)[k] = h[k] /\ Append(l, 1)[k] = l[k]
        /\ Append(h, 1)[Len(l) + 1] = 1 /\ Append(l, 1)[Len(l) + 1] = 1
    OBVIOUS
  <2>2. \A k \in 1 .. Len(l) + 1 : k \in 1 .. Len(l) \/ k = Len(l) + 1
    OBVIOUS
  <2>3. Len(l) + 1 >= Len(l)
    OBVIOUS
  <2> QED BY <1>1, <1>2, <2>1, <2>2, <2>3
<1>3. CASE read.row # 0
  <2> DEFINE i == read.row
  <2>1. i \in 1 .. Len(l) /\ read.count \in Nat /\ read.count <= l[i]
    BY <1>3 DEF HabitFits
  <2> HIDE DEF i
  <2>2. read.count + 1 \in Nat /\ l[i] + 1 \in Nat /\ read.count + 1 <= l[i] + 1
    BY <1>1, <2>1
  <2>3. /\ [h EXCEPT ![i] = read.count + 1] \in Seq(Nat)
        /\ Len([h EXCEPT ![i] = read.count + 1]) = Len(l)
        /\ \A k \in 1 .. Len(l) :
              [h EXCEPT ![i] = read.count + 1][k] = IF k = i THEN read.count + 1 ELSE h[k]
    BY <2>1, <2>2
  <2>4. /\ [l EXCEPT ![i] = @ + 1] \in Seq(Nat)
        /\ Len([l EXCEPT ![i] = @ + 1]) = Len(l)
        /\ \A k \in 1 .. Len(l) : [l EXCEPT ![i] = @ + 1][k] = IF k = i THEN l[i] + 1 ELSE l[k]
    BY <2>1, <2>2
  <2>5. i # 0
    BY <1>3 DEF i
  <2>6. \A k \in 1 .. Len(l) : (IF k = i THEN l[i] + 1 ELSE l[k]) >= l[k]
    BY <1>1
  <2>7. \A k \in 1 .. Len(l) :
           (IF k = i THEN read.count + 1 ELSE h[k]) <= (IF k = i THEN l[i] + 1 ELSE l[k])
    BY <1>1, <2>2
  <2> QED BY <2>3, <2>4, <2>5, <2>6, <2>7 DEF i
<1> QED BY <1>2, <1>3

LEMMA ReinforceFits == ASSUME PsyInv, NEW w \in Writers, Reinforce(w) PROVE PsyInv'
<1> DEFINE n == HabitOf(why[w])
           i == held[w].row
           h2 == IF i = 0 THEN Append(habits[n], 1)
                 ELSE [habits[n] EXCEPT ![i] = held[w].count + 1]
           l2 == IF i = 0 THEN Append(learned.habits[n], 1)
                 ELSE [learned.habits[n] EXCEPT ![i] = @ + 1]
<1>1. /\ Doing(w, "reinforce") /\ Advance(w) /\ Drop(w)
      /\ UNCHANGED <<mind, bond, events, feeling, claimed, judged, evolutions>>
  BY DEF Reinforce
<1>2. Same(w)
  BY <1>1, Advances, Keeps DEF Same, Drop
<1>3. Ordered(todo'[w]) /\ \A t : Doing(w, t)' => t = "profile"
  BY <1>1, Advances DEF After
<1>4. WriterFits(w)'
  BY <1>3 DEF WriterFits
<1>5. PsycheTypeOK' /\ RowsFit' /\ Grown
  <2>1. CASE UNCHANGED <<habits, learned>>
    BY <1>1, <2>1, RowsStay DEF psyRows, psyHistory
  <2>2. CASE /\ habits' = [habits EXCEPT ![n] = h2]
             /\ learned' = [learned EXCEPT !.habits[n] = l2]
    <3>1. n \in HabitNames
      BY DEF HabitOf, HabitNames
    <3>2. /\ habits[n] \in Seq(Nat) /\ learned.habits[n] \in Seq(Nat)
          /\ Len(habits[n]) = Len(learned.habits[n])
          /\ \A k \in 1 .. Len(habits[n]) : habits[n][k] <= learned.habits[n][k]
          /\ HabitFits(held[w], learned.habits[n])
      BY <1>1, <3>1 DEF PsyInv, RowsFit, WriterFits
    <3>3. /\ h2 \in Seq(Nat) /\ l2 \in Seq(Nat) /\ Len(h2) = Len(l2)
          /\ Len(l2) >= Len(learned.habits[n])
          /\ \A k \in 1 .. Len(h2) : h2[k] <= l2[k]
          /\ \A k \in 1 .. Len(learned.habits[n]) : l2[k] >= learned.habits[n][k]
      <4> HIDE DEF n
      <4> QED BY <3>2, LessonsGrow
    <3> HIDE DEF n, h2, l2
    <3>4. /\ learned \in [habits : [HabitNames -> Seq(Nat)], relations : Nat]
          /\ habits \in [HabitNames -> Seq(Nat)]
      BY DEF PsyInv, RowsFit
    <3>5. /\ learned' \in [habits : [HabitNames -> Seq(Nat)], relations : Nat]
          /\ habits' \in [HabitNames -> Seq(Nat)]
          /\ learned'.relations = learned.relations
          /\ habits'[n] = h2 /\ learned'.habits[n] = l2
          /\ \A m \in HabitNames \ {n} :
                habits'[m] = habits[m] /\ learned'.habits[m] = learned.habits[m]
      BY <2>2, <3>1, <3>3, <3>4
    <3>6. RowsFit'
      BY <1>1, <3>3, <3>5 DEF PsyInv, RowsFit
    <3>7. Grown
      <4>1. /\ \A m \in Modes : judged[m] \in Nat
            /\ learned.relations \in Nat
            /\ \A m \in HabitNames : learned.habits[m] \in Seq(Nat)
        BY <3>4 DEF PsyInv, PsycheTypeOK
      <4>2. ASSUME NEW m \in HabitNames
            PROVE  /\ Len(learned'.habits[m]) >= Len(learned.habits[m])
                   /\ \A k \in 1 .. Len(learned.habits[m]) :
                         learned'.habits[m][k] >= learned.habits[m][k]
        <5>1. CASE m = n
          BY <3>3, <3>5, <5>1
        <5>2. CASE m # n
          BY <3>5, <4>1, <5>2
        <5> QED BY <5>1, <5>2
      <4> QED BY <1>1, <3>5, <4>1, <4>2 DEF Grown
    <3>8. PsycheTypeOK'
      BY <1>1 DEF PsyInv, PsycheTypeOK
    <3> QED BY <3>6, <3>7, <3>8
  <2>3. \/ UNCHANGED <<habits, learned>>
        \/ /\ habits' = [habits EXCEPT ![n] = h2]
           /\ learned' = [learned EXCEPT !.habits[n] = l2]
    BY Zenon DEF Reinforce
  <2> QED BY <2>1, <2>2, <2>3
<1> QED BY <1>1, <1>2, <1>3, <1>4, <1>5, QuietStep DEF Doing

\* A row of the relation is written, or its UPDATE fails.
LEMMA BondWritten ==
    ASSUME PsyInv, NEW row, BondFits(row, learned'.relations),
           Stored(bond, row) \/ UNCHANGED bond,
           UNCHANGED <<mind, habits, feeling, claimed, evolutions, judged>>,
           learned' = learned \/ learned' = [learned EXCEPT !.relations = @ + 1]
    PROVE  PsycheTypeOK' /\ RowsFit' /\ Grown
<1>1. learned \in [habits : [HabitNames -> Seq(Nat)], relations : Nat]
  BY DEF PsyInv, RowsFit
<1>2. /\ learned' \in [habits : [HabitNames -> Seq(Nat)], relations : Nat]
      /\ learned'.habits = learned.habits
      /\ learned.relations \in Nat /\ learned'.relations \in Nat
      /\ learned'.relations >= learned.relations
  <2>1. CASE learned' = learned
    BY <1>1, <2>1
  <2>2. CASE learned' = [learned EXCEPT !.relations = @ + 1]
    <3>1. learned.relations \in Nat /\ learned.relations + 1 \in Nat
      BY <1>1
    <3>2. learned.relations + 1 >= learned.relations
      BY <3>1
    <3> QED BY <1>1, <2>2, <3>1, <3>2
  <2> QED BY <2>1, <2>2
<1>3. bond' = row \/ bond' = bond
  BY DEF Stored
<1>4. ASSUME bond # Missing PROVE BondFits(bond, learned'.relations)
  BY <1>2, <1>4, BondStaysEarned DEF PsyInv, RowsFit
<1>5. PsycheTypeOK'
  BY <1>3 DEF PsyInv, PsycheTypeOK, BondFits
<1>6. RowsFit'
  BY <1>2, <1>3, <1>4 DEF PsyInv, RowsFit
<1>7. Grown
  <2>1. /\ \A m \in Modes : judged[m] \in Nat
        /\ \A n \in HabitNames : learned.habits[n] \in Seq(Nat)
    BY <1>1 DEF PsyInv, PsycheTypeOK
  <2> QED BY <1>2, <2>1 DEF Grown
<1> QED BY <1>5, <1>6, <1>7

LEMMA RelateFits == ASSUME PsyInv, NEW w \in Writers, Relate(w) PROVE PsyInv'
<1>1. /\ Doing(w, "relate") /\ Advance(w) /\ Drop(w)
      /\ Stored(bond, Related(held[w], why[w]))
      /\ learned' = [learned EXCEPT !.relations = @ + 1]
      /\ UNCHANGED <<mind, habits, events, feeling, claimed, judged, evolutions>>
  BY DEF Relate
<1>2. BondFits(held[w], learned.relations)
  BY <1>1 DEF PsyInv, WriterFits
<1>3. learned.relations \in Nat /\ learned'.relations = learned.relations + 1
  BY <1>1 DEF PsyInv, RowsFit
<1>4. ASSUME NEW p, NEW r \in Nat, BondFits(p, r)
      PROVE  BondFits(Related(p, why[w]), r + 1)
  <2>1. p \in Bonds /\ p.trust + p.friction <= r
    BY <1>4 DEF BondFits
  <2>2. p.trust \in Nat /\ p.friction \in Nat /\ p.trust + 1 \in Nat /\ p.friction + 1 \in Nat
    <3>1. p.trust \in Nat /\ p.friction \in Nat
      BY <2>1 DEF Bonds
    <3> QED BY <3>1
  <2>3. BondFits(p, r + 1)
    BY <1>4, BondStaysEarned
  <2>4. BondFits([p EXCEPT !.trust = @ + 1], r + 1)
    <3>1. [p EXCEPT !.trust = @ + 1] \in Bonds
      BY <2>1, <2>2 DEF Bonds
    <3>2. /\ [p EXCEPT !.trust = @ + 1].trust = p.trust + 1
          /\ [p EXCEPT !.trust = @ + 1].friction = p.friction
      BY <2>1 DEF Bonds
    <3>3. p.trust + 1 + p.friction <= r + 1
      BY <2>1, <2>2
    <3> QED BY <3>1, <3>2, <3>3 DEF BondFits
  <2>5. BondFits([p EXCEPT !.friction = @ + 1], r + 1)
    <3>1. [p EXCEPT !.friction = @ + 1] \in Bonds
      BY <2>1, <2>2 DEF Bonds
    <3>2. /\ [p EXCEPT !.friction = @ + 1].trust = p.trust
          /\ [p EXCEPT !.friction = @ + 1].friction = p.friction + 1
      BY <2>1 DEF Bonds
    <3>3. p.trust + (p.friction + 1) <= r + 1
      BY <2>1, <2>2
    <3> QED BY <3>1, <3>2, <3>3 DEF BondFits
  <2> QED BY <2>3, <2>4, <2>5 DEF Related
<1>5. BondFits(Related(held[w], why[w]), learned'.relations)
  BY <1>2, <1>3, <1>4
<1>6. PsycheTypeOK' /\ RowsFit' /\ Grown
  BY <1>1, <1>5, BondWritten
<1>7. Same(w)
  BY <1>1, Advances, Keeps DEF Same, Drop
<1>8. Ordered(todo'[w]) /\ \A t : Doing(w, t)' => t = "profile"
  BY <1>1, Advances DEF After
<1>9. WriterFits(w)'
  BY <1>8 DEF WriterFits
<1> QED BY <1>1, <1>6, <1>7, <1>8, <1>9, QuietStep DEF Doing

LEMMA AdaptFits == ASSUME PsyInv, NEW w \in Writers, Adapt(w) PROVE PsyInv'
<1>1. /\ Doing(w, "adapt") /\ Advance(w) /\ Drop(w)
      /\ UNCHANGED <<mind, habits, events, feeling, claimed, psyHistory>>
      /\ Stored(bond, Adapted(held[w])) \/ UNCHANGED bond
  BY DEF Adapt
<1>2. BondFits(held[w], learned.relations)
  BY <1>1 DEF PsyInv, WriterFits
<1>3. UNCHANGED <<judged, learned, evolutions>>
  BY <1>1 DEF psyHistory
<1>4. ASSUME NEW p, NEW r, BondFits(p, r) PROVE BondFits([p EXCEPT !.traits = @ + 1], r)
  <2>1. p \in Bonds
    BY <1>4 DEF BondFits
  <2>2. p.traits \in Nat
    BY <2>1 DEF Bonds
  <2>3. p.traits + 1 \in Nat
    BY <2>2
  <2>4. [p EXCEPT !.traits = @ + 1] \in Bonds
    BY <2>1, <2>3 DEF Bonds
  <2>5. /\ [p EXCEPT !.traits = @ + 1].trust = p.trust
        /\ [p EXCEPT !.traits = @ + 1].friction = p.friction
    BY <2>1 DEF Bonds
  <2> QED BY <1>4, <2>4, <2>5 DEF BondFits
<1>5. BondFits(Adapted(held[w]), learned'.relations)
  BY <1>2, <1>3, <1>4 DEF Adapted
<1>6. PsycheTypeOK' /\ RowsFit' /\ Grown
  BY <1>1, <1>3, <1>5, BondWritten
<1>7. Same(w)
  BY <1>1, Advances, Keeps DEF Same, Drop
<1>8. Ordered(todo'[w]) /\ \A t : ~Doing(w, t)'
  <2>1. After("adapt") = {}
    BY DEF After
  <2> QED BY <1>1, <2>1, Advances
<1>9. WriterFits(w)'
  BY <1>8 DEF WriterFits
<1> QED BY <1>1, <1>3, <1>6, <1>7, <1>8, <1>9, QuietStep DEF Doing

LEMMA ClaimFits == ASSUME PsyInv, NEW w \in Writers, ClaimKey(w) PROVE PsyInv'
<1>1. /\ Doing(w, "claim")
      /\ UNCHANGED <<mind, bond, habits, events, feeling, held, psyHistory>>
  BY DEF ClaimKey
<1>2. why[w] \in Keys
  BY <1>1 DEF PsyInv, WriterFits
<1>3. UNCHANGED <<judged, evolutions, learned>>
  BY <1>1 DEF psyHistory
<1>4. ASSUME Quit(w), UNCHANGED claimed PROVE PsyInv'
  <2>1. Same(w)
    BY <1>1, <1>4, Quits DEF Same, PsyInv
  <2>2. WriterFits(w)'
    BY <1>4, Quits DEF WriterFits
  <2>3. UNCHANGED <<psyRows, psyHistory>>
    BY <1>1, <1>4 DEF psyRows
  <2> QED
    BY <1>1, <1>3, <1>4, <2>1, <2>2, <2>3, Quits, RowsStay, QuietStep DEF Doing
<1>5. ASSUME why[w] \notin claimed, Advance(w), claimed' = claimed \cup {why[w]} PROVE PsyInv'
  <2>1. Same(w)
    BY <1>1, <1>5, Advances DEF Same, PsyInv
  <2>2. Ordered(todo'[w]) /\ \A t : Doing(w, t)' => t = "feel" /\ why'[w] = why[w]
    BY <1>1, <1>5, Advances DEF After
  <2>3. WriterFits(w)'
    BY <1>2, <2>2 DEF WriterFits
  <2>4. PsycheTypeOK' /\ RowsFit' /\ Grown
    <3>1. PsycheTypeOK' /\ RowsFit'
      BY <1>1, <1>2, <1>3, <1>5 DEF PsyInv, PsycheTypeOK, RowsFit
    <3>2. Grown
      BY <1>3 DEF Grown, PsyInv, PsycheTypeOK, RowsFit
    <3> QED BY <3>1, <3>2
  <2>5. ASSUME NEW k \in Keys PROVE KeyFits(k)'
    <3>1. KeyFits(k) /\ KeyFits(why[w])
      BY <1>2 DEF PsyInv
    <3>2. ASSUME NEW u \in Writers, u # w
          PROVE  /\ Applies(u, k)' <=> Applies(u, k)
                 /\ Doing(u, "evolve")' <=> Doing(u, "evolve")
                 /\ held'[u] = held[u]
      BY <2>1, <3>2 DEF Same, Applies, Doing
    <3>3. ~Doing(w, "evolve") /\ ~Doing(w, "evolve")' /\ ~Applies(w, k)
      BY <1>1, <2>2 DEF Doing, Applies
    <3>4. Applied(k)' => Applied(k)
      BY <1>1, <1>3, <3>2, <3>3 DEF Applied
    <3>5. Applies(w, k)' => k = why[w]
      BY <2>2 DEF Applies
    <3>6. k = why[w] => ~Applied(k) /\ \A u \in Writers : ~Applies(u, k)
      BY <1>5, <3>1 DEF KeyFits
    <3>7. Applied(k)' => k \in claimed' /\ \A u \in Writers : ~Applies(u, k)'
      BY <1>5, <3>1, <3>2, <3>4, <3>5, <3>6 DEF KeyFits
    <3>8. \A u \in Writers : Applies(u, k)' =>
             k \in claimed' /\ \A v \in Writers : Applies(v, k)' => v = u
      BY <1>5, <3>1, <3>2, <3>5, <3>6 DEF KeyFits
    <3>9. \A u \in Writers : Doing(u, "evolve")' => Once(held'[u].of, k)
      BY <3>1, <3>2, <3>3 DEF KeyFits
    <3> QED BY <1>1, <1>3, <3>1, <3>7, <3>8, <3>9 DEF KeyFits, Once
  <2> QED BY <2>1, <2>3, <2>4, <2>5, WriterStep
<1> QED BY <1>4, <1>5 DEF ClaimKey

LEMMA FeelFits == ASSUME PsyInv, NEW w \in Writers, Feel(w) PROVE PsyInv'
<1>1. /\ Doing(w, "feel") /\ Advance(w) /\ Keep(w, [of |-> feeling])
      /\ UNCHANGED <<psyRows, psyHistory>>
  BY DEF Feel
<1>2. Same(w) /\ held'[w].of = feeling
  BY <1>1, Advances, Keeps DEF Same
<1>3. Ordered(todo'[w]) /\ \A t : Doing(w, t)' => t = "evolve" /\ why'[w] = why[w]
  BY <1>1, Advances DEF After
<1>4. UNCHANGED <<feeling, claimed, evolutions, judged, learned>>
  BY <1>1 DEF psyRows, psyHistory
<1>5. why[w] \in Keys \cup {"evolve"} /\ feeling \in Moods
  BY <1>1 DEF PsyInv, WriterFits, RowsFit
<1>6. MoodFits(held'[w])
  BY <1>1, <1>5, Keeps DEF MoodFits
<1>7. WriterFits(w)'
  BY <1>3, <1>5, <1>6 DEF WriterFits
<1>8. ASSUME NEW k \in Keys PROVE KeyFits(k)'
  <2>1. KeyFits(k)
    BY DEF PsyInv
  <2>2. ASSUME NEW u \in Writers, u # w
        PROVE  /\ Applies(u, k)' <=> Applies(u, k)
               /\ Doing(u, "evolve")' <=> Doing(u, "evolve")
               /\ held'[u] = held[u]
    BY <1>2, <2>2 DEF Same, Applies, Doing
  <2>3. Applies(w, k)' => Applies(w, k)
    BY <1>1, <1>3 DEF Applies
  <2>4. Applied(k)' => Applied(k)
    BY <1>2, <1>4, <2>2 DEF Applied
  <2>5. \A u \in Writers : Doing(u, "evolve")' => Once(held'[u].of, k)
    BY <1>2, <2>1, <2>2 DEF KeyFits
  <2>6. \A u \in Writers : Applies(u, k)' => Applies(u, k)
    BY <2>2, <2>3
  <2> QED BY <1>4, <2>1, <2>4, <2>5, <2>6 DEF KeyFits, Once
<1>9. PsycheTypeOK' /\ RowsFit' /\ Grown
  BY <1>1, RowsStay
<1> QED BY <1>2, <1>7, <1>8, <1>9, WriterStep

LEMMA EvolveFits == ASSUME PsyInv, NEW w \in Writers, Evolve(w) PROVE PsyInv'
<1> DEFINE row == held[w].of
<1>1. /\ Doing(w, "evolve") /\ Advance(w) /\ Drop(w)
      /\ feeling' = Append(row, why[w])
      /\ evolutions' = [k \in Keys |-> evolutions[k] + (IF k = why[w] THEN 1 ELSE 0)]
      /\ UNCHANGED <<mind, bond, habits, events, claimed, judged, learned>>
  BY DEF Evolve
<1>2. Same(w)
  BY <1>1, Advances, Keeps DEF Same, Drop
<1>3. Ordered(todo'[w]) /\ \A t : ~Doing(w, t)'
  <2>1. After("evolve") = {}
    BY DEF After
  <2> QED BY <1>1, <2>1, Advances
<1>4. WriterFits(w)'
  BY <1>3 DEF WriterFits
<1>5. row \in Moods /\ why[w] \in Keys \cup {"evolve"}
  BY <1>1 DEF PsyInv, WriterFits, MoodFits
<1> HIDE DEF row
<1>6. /\ feeling' \in Moods /\ Len(row) \in Nat /\ Len(feeling') = Len(row) + 1
      /\ feeling'[Len(row) + 1] = why[w]
      /\ \A i \in 1 .. Len(row) : feeling'[i] = row[i]
  BY <1>1, <1>5 DEF Moods
<1>7. ASSUME NEW k \in Keys
      PROVE  /\ evolutions[k] \in Nat /\ evolutions'[k] \in Nat
             /\ k = why[w] => evolutions'[k] = evolutions[k] + 1
             /\ k # why[w] => evolutions'[k] = evolutions[k]
  <2>1. evolutions[k] \in Nat
    BY DEF PsyInv, PsycheTypeOK
  <2>2. evolutions'[k] = evolutions[k] + (IF k = why[w] THEN 1 ELSE 0)
    BY <1>1
  <2>3. CASE k = why[w]
    <3>1. evolutions'[k] = evolutions[k] + 1
      BY <2>2, <2>3
    <3> QED BY <2>1, <2>3, <3>1
  <2>4. CASE k # why[w]
    <3>1. evolutions'[k] = evolutions[k] + 0
      BY <2>2, <2>4
    <3> QED BY <2>1, <2>4, <3>1
  <2> QED BY <2>3, <2>4
<1>8. PsycheTypeOK' /\ RowsFit' /\ Grown
  <2>1. evolutions' \in [Keys -> Nat]
    BY <1>1, <1>7
  <2>2. PsycheTypeOK'
    BY <1>1, <2>1 DEF PsyInv, PsycheTypeOK
  <2>3. RowsFit'
    BY <1>1, <1>6 DEF PsyInv, RowsFit
  <2>4. Grown
    BY <1>1 DEF Grown, PsyInv, PsycheTypeOK, RowsFit
  <2> QED BY <2>2, <2>3, <2>4
<1>9. ASSUME NEW k \in Keys PROVE KeyFits(k)'
  <2>1. KeyFits(k)
    BY DEF PsyInv
  <2>2. ASSUME NEW u \in Writers, u # w
        PROVE  /\ Applies(u, k)' <=> Applies(u, k)
               /\ Doing(u, "evolve")' <=> Doing(u, "evolve")
               /\ held'[u] = held[u]
    BY <1>2, <2>2 DEF Same, Applies, Doing
  <2>3. ~Applies(w, k)' /\ ~Doing(w, "evolve")'
    BY <1>3 DEF Applies
  <2>4. Once(row, k)
    BY <1>1, <2>1 DEF KeyFits, row
  <2>5. Has(row, k) => Applied(k)
    BY <1>1 DEF Applied, row
  <2>6. Has(feeling', k) <=> Has(row, k) \/ k = why[w]
    BY <1>6 DEF Has
  <2>7. CASE k = why[w]
    <3>1. Applies(w, k)
      BY <1>1, <2>7 DEF Applies
    <3>2. ~Applied(k) /\ k \in claimed /\ \A u \in Writers : Applies(u, k) => u = w
      BY <2>1, <3>1 DEF KeyFits
    <3>3. ~Has(row, k) /\ evolutions[k] = 0
      BY <2>5, <3>2 DEF Applied
    <3>4. evolutions'[k] <= 1
      BY <1>7, <2>7, <3>3
    <3>5. Once(feeling', k)
      BY <1>6, <3>3 DEF Once, Has
    <3>6. \A u \in Writers : ~Applies(u, k)'
      BY <2>2, <2>3, <3>2
    <3>7. \A u \in Writers : Doing(u, "evolve")' => Once(held'[u].of, k)
      BY <2>1, <2>2, <2>3 DEF KeyFits
    <3> QED BY <1>1, <3>2, <3>4, <3>5, <3>6, <3>7 DEF KeyFits, Once
  <2>8. CASE k # why[w]
    <3>1. evolutions'[k] = evolutions[k]
      BY <1>7, <2>8
    <3>2. Applied(k)' => Applied(k)
      BY <2>2, <2>3, <2>5, <2>6, <2>8, <3>1 DEF Applied, Has
    <3>3. Once(feeling', k)
      BY <1>6, <2>4, <2>8 DEF Once
    <3>4. \A u \in Writers : Applies(u, k)' => Applies(u, k)
      BY <2>2, <2>3
    <3>5. \A u \in Writers : Doing(u, "evolve")' => Once(held'[u].of, k)
      BY <2>1, <2>2, <2>3 DEF KeyFits
    <3> QED BY <1>1, <2>1, <3>1, <3>2, <3>3, <3>4, <3>5 DEF KeyFits, Once
  <2> QED BY <2>7, <2>8
<1> QED BY <1>2, <1>4, <1>8, <1>9, WriterStep

LEMMA CrashFits == ASSUME PsyInv, PsycheCrash PROVE PsyInv'
<1>1. /\ todo' = [w \in Writers |-> <<>>] /\ held' = [w \in Writers |-> Missing]
      /\ why' = [w \in Writers |-> ""] /\ UNCHANGED <<psyRows, psyHistory>>
  BY DEF PsycheCrash
<1>2. \A w \in Writers : Ordered(todo[w])' /\ \A t : ~Doing(w, t)'
  <2>1. Ordered(<<>>) /\ \A w \in Writers : todo'[w] = <<>>
    BY <1>1, EmptyIsOrdered
  <2> QED BY <2>1 DEF Doing
<1>3. \A w \in Writers : WriterFits(w)'
  BY <1>2 DEF WriterFits
<1>4. UNCHANGED <<feeling, claimed, evolutions>>
  BY <1>1 DEF psyRows, psyHistory
<1>5. ASSUME NEW k \in Keys PROVE KeyFits(k)'
  <2>1. KeyFits(k)
    BY DEF PsyInv
  <2>2. Applied(k)' => Applied(k)
    BY <1>2, <1>4 DEF Applied
  <2>3. \A w \in Writers : ~Applies(w, k)'
    BY <1>2 DEF Applies
  <2> QED BY <1>2, <1>4, <2>1, <2>2, <2>3 DEF KeyFits
<1>6. PsycheTypeOK' /\ RowsFit'
  BY <1>1, RowsStay
<1> QED BY <1>1, <1>3, <1>5, <1>6 DEF PsyInv

---------------------------------------------------------------------------
LEMMA PsycheStarts == PsycheInit => PsyInv
<1> SUFFICES ASSUME PsycheInit PROVE PsyInv
  OBVIOUS
<1>1. PsycheTypeOK
  BY PsycheAssumption DEF PsycheInit, PsycheTypeOK
<1>2. /\ habits = [n \in HabitNames |-> <<>>] /\ feeling = <<>>
      /\ learned = [habits |-> [n \in HabitNames |-> <<>>], relations |-> 0]
      /\ mind = Missing /\ bond = Missing
      /\ \A w \in Writers : todo[w] = <<>>
      /\ \A k \in Keys : evolutions[k] = 0
  BY DEF PsycheInit
<1>3. RowsFit
  <2>1. \A n \in HabitNames : habits[n] = <<>> /\ learned.habits[n] = <<>>
    BY <1>2
  <2>2. learned \in [habits : [HabitNames -> Seq(Nat)], relations : Nat]
    BY <1>2
  <2> QED BY <1>2, <2>1, <2>2 DEF RowsFit, Moods
<1>4. \A w \in Writers : Ordered(todo[w]) /\ \A t : ~Doing(w, t)
  BY <1>2, EmptyIsOrdered DEF Doing
<1>5. \A w \in Writers : WriterFits(w)
  BY <1>4 DEF WriterFits
<1>6. \A k \in Keys : KeyFits(k)
  BY <1>2, <1>4 DEF KeyFits, Applied, Applies, Has, Once
<1>7. DOMAIN todo = Writers /\ DOMAIN held = Writers /\ DOMAIN why = Writers
  BY DEF PsycheInit
<1> QED BY <1>1, <1>3, <1>5, <1>6, <1>7 DEF PsyInv

LEMMA PsycheInductive == PsyInv /\ [PsycheNext]_psyVars => PsyInv'
<1> SUFFICES ASSUME PsyInv, [PsycheNext]_psyVars PROVE PsyInv'
  OBVIOUS
<1>1. CASE UNCHANGED psyVars
  <2>1. UNCHANGED <<mind, bond, habits, feeling, claimed, todo, held, why, judged, evolutions,
                    learned>>
    BY <1>1 DEF psyVars, psyRows
  <2> QED
    BY <2>1 DEF PsyInv, PsycheTypeOK, RowsFit, WriterFits, Doing, KeyFits, Applied, Applies
<1>2. CASE PsycheCrash
  BY <1>2, CrashFits
<1>3. ASSUME NEW w \in Writers,
             \/ Outcome(w) \/ Event(w) \/ Reflection(w) \/ Deliver(w) \/ Evolution(w)
             \/ EnsureProfile(w) \/ NewProfile(w) \/ EnsureState(w) \/ NewState(w)
             \/ Press(w) \/ Recover(w) \/ ReadHabit(w) \/ Reinforce(w) \/ Relate(w)
             \/ InsertEvent(w) \/ Judge(w) \/ Adapt(w) \/ ClaimKey(w) \/ Feel(w) \/ Evolve(w)
      PROVE  PsyInv'
  BY <1>3, CallsBegin, ProfileFits, StateFits, PressureFits, ReadHabitFits, ReinforceFits,
     RelateFits, InsertFits, JudgeFits, AdaptFits, ClaimFits, FeelFits, EvolveFits
<1> QED BY <1>1, <1>2, <1>3 DEF PsycheNext

\* Modes, evolutions, trust and habits are earned, whatever rows the threads
\* overwrite and whatever fails.
THEOREM MindIsEarnedHolds == PsycheSpec => []MindIsEarned
<1>1. PsyInv => MindIsEarned
  <2> SUFFICES ASSUME PsyInv PROVE MindIsEarned
    OBVIOUS
  <2>1. ModeIsEarned
    <3>1. ASSUME mind.there PROVE mind # Missing
      BY <3>1 DEF Missing
    <3> QED BY <3>1 DEF PsyInv, RowsFit, MindFits, ModeIsEarned
  <2>2. ASSUME NEW k \in Keys
        PROVE  Cardinality({i \in DOMAIN feeling : feeling[i] = k}) <= 1
    <3> DEFINE S == {i \in DOMAIN feeling : feeling[i] = k}
    <3>1. Once(feeling, k) /\ DOMAIN feeling = 1 .. Len(feeling)
      BY DEF PsyInv, KeyFits, RowsFit, Moods
    <3>2. CASE S = {}
      BY <3>2, FS_EmptySet
    <3>3. ASSUME NEW i \in S PROVE Cardinality(S) <= 1
      <4>1. S = {i}
        BY <3>1 DEF Once
      <4>2. Cardinality(S) = 1
        BY <4>1, FS_Singleton
      <4> QED BY <4>2
    <3> QED BY <3>2, <3>3
  <2>3. EvolvedOnce
    BY <2>2 DEF EvolvedOnce, PsyInv, KeyFits
  <2>4. GrowthIsEarned
    <3>1. ASSUME bond.there PROVE bond # Missing
      BY <3>1 DEF Missing
    <3>2. bond.there => bond.trust + bond.friction <= learned.relations
      BY <3>1 DEF PsyInv, RowsFit, BondFits
    <3>3. ASSUME NEW n \in HabitNames
          PROVE  /\ DOMAIN habits[n] = DOMAIN learned.habits[n]
                 /\ \A i \in DOMAIN habits[n] : habits[n][i] <= learned.habits[n][i]
      <4>1. habits[n] \in Seq(Nat) /\ learned.habits[n] \in Seq(Nat)
        BY DEF PsyInv, RowsFit
      <4>2. /\ Len(habits[n]) = Len(learned.habits[n])
            /\ \A i \in 1 .. Len(habits[n]) : habits[n][i] <= learned.habits[n][i]
        BY DEF PsyInv, RowsFit
      <4>3. /\ DOMAIN habits[n] = 1 .. Len(habits[n])
            /\ DOMAIN learned.habits[n] = 1 .. Len(learned.habits[n])
        BY <4>1
      <4> QED BY <4>2, <4>3
    <3> QED BY <3>2, <3>3 DEF GrowthIsEarned
  <2> QED BY <2>1, <2>3, <2>4 DEF MindIsEarned, PsyInv
<1> QED BY <1>1, PsycheStarts, PsycheInductive, PTL DEF PsycheSpec
\* A durable event is two reads and writes behind the insertion of its key.
PlanFits(w) ==
    /\ Doing(w, "claim") => todo[w] = <<"claim", "feel", "evolve">>
    /\ Doing(w, "feel") => todo[w] = <<"feel", "evolve">>

\* A key that was claimed is applied, or in the hands of a writer.
KeyIsServed(k) == k \in claimed => evolutions[k] # 0 \/ \E w \in Writers : Applies(w, k)
DurableInv == (\A w \in Writers : PlanFits(w)) /\ \A k \in Keys : KeyIsServed(k)

\* A step of a writer that has nothing to do with keys, before or after.
LEMMA ServedStays ==
    ASSUME PsyInv, DurableInv, NEW w \in Writers, Same(w), UNCHANGED <<claimed, evolutions>>,
           ~Doing(w, "feel"), ~Doing(w, "evolve"), PlanFits(w)'
    PROVE  DurableInv'
<1>1. ASSUME NEW u \in Writers PROVE PlanFits(u)'
  BY DEF DurableInv, PlanFits, Same, Doing
<1>2. ASSUME NEW k \in Keys PROVE KeyIsServed(k)'
  <2>1. \A u \in Writers : Applies(u, k) => Applies(u, k)'
    BY DEF Same, Applies, Doing
  <2> QED BY <2>1 DEF DurableInv, KeyIsServed
<1> QED BY <1>1, <1>2 DEF DurableInv

\* What the statements of the calls about profile and state change.
LEMMA PlainStep ==
    ASSUME PsyInv, NEW w \in Writers,
           \/ EnsureProfile(w) \/ NewProfile(w) \/ EnsureState(w) \/ NewState(w)
           \/ Press(w) \/ Recover(w) \/ ReadHabit(w) \/ Reinforce(w) \/ Relate(w)
           \/ InsertEvent(w) \/ Judge(w) \/ Adapt(w)
    PROVE  /\ Same(w) /\ UNCHANGED <<claimed, evolutions>>
           /\ ~Doing(w, "feel") /\ ~Doing(w, "evolve")
           /\ ~Doing(w, "feel")' /\ ~Doing(w, "claim")'
<1>1. CASE \/ Press(w) \/ Recover(w) \/ Relate(w) \/ Judge(w) \/ Adapt(w)
           \/ Reinforce(w) \/ ReadHabit(w) \/ InsertEvent(w)
  <2>1. PICK s \in {"press", "recover", "relate", "judge", "adapt", "reinforce", "habit",
                    "insert"} : Doing(w, s) /\ Advance(w)
    BY <1>1 DEF Press, Recover, Relate, Judge, Adapt, Reinforce, ReadHabit, InsertEvent
  <2>2. UNCHANGED <<claimed, evolutions>>
    BY <1>1 DEF Press, Recover, Relate, Judge, Adapt, Reinforce, ReadHabit, InsertEvent,
                psyRows, psyHistory
  <2>3. held' = held \/ \E row : Keep(w, row)
    BY <1>1 DEF Press, Recover, Relate, Judge, Adapt, Reinforce, ReadHabit, InsertEvent, Drop
  <2>4. Same(w)
    BY <2>1, <2>3, Advances, Keeps DEF Same, PsyInv
  <2>5. \A t : Doing(w, t)' => t \in After(s)
    BY <2>1, Advances
  <2>6. "feel" \notin After(s) /\ "claim" \notin After(s)
    BY <2>1 DEF After
  <2> QED BY <2>1, <2>2, <2>4, <2>5, <2>6 DEF Doing
<1>2. CASE EnsureProfile(w) \/ NewProfile(w) \/ EnsureState(w) \/ NewState(w)
  <2>1. PICK s \in {"profile", "newProfile", "mind", "newMind"} :
           /\ Doing(w, s)
           /\ \/ Advance(w) /\ \E row : Keep(w, row)
              \/ Quit(w) /\ held' = held
              \/ /\ s = "profile" /\ Proceed(w, <<"newProfile">> \o Tail(todo[w])) /\ held' = held
              \/ /\ s = "mind" /\ Proceed(w, <<"newMind">> \o Tail(todo[w])) /\ held' = held
    BY <1>2 DEF EnsureProfile, NewProfile, EnsureState, NewState
  <2>2. UNCHANGED <<claimed, evolutions>>
    BY <1>2 DEF EnsureProfile, NewProfile, EnsureState, NewState, psyRows, psyHistory
  <2>3. CASE Advance(w) /\ \E row : Keep(w, row)
    <3>1. \A t : Doing(w, t)' => t \in After(s)
      BY <2>1, <2>3, Advances
    <3>2. "feel" \notin After(s) /\ "claim" \notin After(s)
      BY <2>1 DEF After
    <3>3. Same(w)
      BY <2>1, <2>3, Advances, Keeps DEF Same
    <3> QED BY <2>1, <2>2, <3>1, <3>2, <3>3 DEF Doing
  <2>4. CASE Quit(w) /\ held' = held
    BY <2>1, <2>2, <2>4, Quits DEF Same, PsyInv, Doing
  <2>5. CASE s = "profile" /\ Proceed(w, <<"newProfile">> \o Tail(todo[w])) /\ held' = held
    <3>1. After("newProfile") = After("profile")
      BY DEF After
    <3>2. /\ DOMAIN todo' = Writers /\ DOMAIN why' = Writers
          /\ \A u \in Writers \ {w} : todo'[u] = todo[u] /\ why'[u] = why[u]
          /\ \A t : Doing(w, t)' => t = "newProfile"
      BY <2>1, <2>5, <3>1, Inserts
    <3> QED BY <2>1, <2>2, <2>5, <3>2 DEF Same, PsyInv, Doing
  <2>6. CASE s = "mind" /\ Proceed(w, <<"newMind">> \o Tail(todo[w])) /\ held' = held
    <3>1. After("newMind") = After("mind")
      BY DEF After
    <3>2. /\ DOMAIN todo' = Writers /\ DOMAIN why' = Writers
          /\ \A u \in Writers \ {w} : todo'[u] = todo[u] /\ why'[u] = why[u]
          /\ \A t : Doing(w, t)' => t = "newMind"
      BY <2>1, <2>6, <3>1, Inserts
    <3> QED BY <2>1, <2>2, <2>6, <3>2 DEF Same, PsyInv, Doing
  <2> QED BY <2>1, <2>3, <2>4, <2>5, <2>6
<1> QED BY <1>1, <1>2

LEMMA CallIsPlanned ==
    ASSUME PsyInv, DurableInv, NEW w \in Writers,
           Outcome(w) \/ Event(w) \/ Reflection(w) \/ Deliver(w) \/ Evolution(w)
    PROVE  DurableInv'
<1>1. PICK cause, steps : /\ Call(w, cause, steps)
                          /\ \/ steps # <<>> /\ Head(steps) = "profile"
                             \/ steps = <<"claim", "feel", "evolve">>
                             \/ steps = <<"feel", "evolve">>
  BY OrderedCalls DEF Outcome, Event, Reflection, Deliver, Evolution
<1>2. /\ todo[w] = <<>> /\ Same(w) /\ todo'[w] = steps
      /\ UNCHANGED <<claimed, evolutions>>
  BY <1>1 DEF Call, PsyInv, Same, psyRows, psyHistory
<1>3. PlanFits(w)'
  <2>1. /\ Head(<<"claim", "feel", "evolve">>) = "claim"
        /\ Head(<<"feel", "evolve">>) = "feel"
    OBVIOUS
  <2> QED BY <1>1, <1>2, <2>1 DEF PlanFits, Doing
<1> QED BY <1>2, <1>3, ServedStays DEF Doing

LEMMA ClaimIsServed == ASSUME PsyInv, DurableInv, NEW w \in Writers, ClaimKey(w) PROVE DurableInv'
<1>1. Doing(w, "claim") /\ held' = held /\ evolutions' = evolutions
  BY DEF ClaimKey, psyHistory
<1>2. ASSUME Quit(w), UNCHANGED claimed PROVE DurableInv'
  <2>1. Same(w) /\ PlanFits(w)'
    BY <1>1, <1>2, Quits DEF Same, PsyInv, PlanFits
  <2> QED BY <1>1, <1>2, <2>1, ServedStays DEF Doing
<1>3. ASSUME Advance(w), claimed' = claimed \cup {why[w]} PROVE DurableInv'
  <2>1. todo[w] = <<"claim", "feel", "evolve">>
    BY <1>1 DEF DurableInv, PlanFits
  <2>2. Tail(<<"claim", "feel", "evolve">>) = <<"feel", "evolve">>
    OBVIOUS
  <2>3. todo'[w] = <<"feel", "evolve">>
    BY <1>3, <2>1, <2>2 DEF Advance, Proceed, PsyInv
  <2>4. Same(w) /\ Doing(w, "feel")' /\ why'[w] = why[w]
    BY <1>1, <1>3, <2>3, Advances DEF Same, PsyInv, Doing
  <2>5. ASSUME NEW u \in Writers PROVE PlanFits(u)'
    BY <2>3, <2>4 DEF DurableInv, PlanFits, Same, Doing
  <2>6. ASSUME NEW k \in Keys PROVE KeyIsServed(k)'
    <3>1. CASE k = why[w]
      BY <2>4, <3>1 DEF KeyIsServed, Applies
    <3>2. CASE k # why[w]
      <4>1. \A u \in Writers : Applies(u, k) => Applies(u, k)'
        BY <1>1, <2>4 DEF Same, Applies, Doing
      <4> QED BY <1>1, <1>3, <3>2, <4>1 DEF DurableInv, KeyIsServed
    <3> QED BY <3>1, <3>2
  <2> QED BY <2>5, <2>6 DEF DurableInv
<1> QED BY <1>2, <1>3 DEF ClaimKey

LEMMA FeelServes == ASSUME PsyInv, DurableInv, NEW w \in Writers, Feel(w) PROVE DurableInv'
<1>1. /\ Doing(w, "feel") /\ Advance(w) /\ Keep(w, [of |-> feeling])
      /\ UNCHANGED <<claimed, evolutions>>
  BY DEF Feel, psyRows, psyHistory
<1>2. todo[w] = <<"feel", "evolve">> /\ Tail(<<"feel", "evolve">>) = <<"evolve">>
  BY <1>1 DEF DurableInv, PlanFits
<1>3. todo'[w] = <<"evolve">>
  BY <1>1, <1>2 DEF Advance, Proceed, PsyInv
<1>4. Same(w) /\ Doing(w, "evolve")' /\ why'[w] = why[w]
  BY <1>1, <1>3, Advances, Keeps DEF Same, Doing
<1>5. ASSUME NEW u \in Writers PROVE PlanFits(u)'
  BY <1>3, <1>4 DEF DurableInv, PlanFits, Same, Doing
<1>6. ASSUME NEW k \in Keys PROVE KeyIsServed(k)'
  <2>1. \A u \in Writers : Applies(u, k) => Applies(u, k)'
    BY <1>4 DEF Same, Applies, Doing
  <2> QED BY <1>1, <2>1 DEF DurableInv, KeyIsServed
<1> QED BY <1>5, <1>6 DEF DurableInv

LEMMA EvolveServes == ASSUME PsyInv, DurableInv, NEW w \in Writers, Evolve(w) PROVE DurableInv'
<1>1. /\ Doing(w, "evolve") /\ Advance(w) /\ Drop(w) /\ claimed' = claimed
      /\ evolutions' = [k \in Keys |-> evolutions[k] + (IF k = why[w] THEN 1 ELSE 0)]
  BY DEF Evolve
<1>2. Same(w) /\ \A t : ~Doing(w, t)'
  BY <1>1, Advances, Keeps DEF Same, Drop, After
<1>3. ASSUME NEW u \in Writers PROVE PlanFits(u)'
  BY <1>2 DEF DurableInv, PlanFits, Same, Doing
<1>4. ASSUME NEW k \in Keys PROVE KeyIsServed(k)'
  <2>1. evolutions[k] \in Nat
    BY DEF PsyInv, PsycheTypeOK
  <2>2. evolutions[k] # 0 \/ k = why[w] => evolutions'[k] # 0
    BY <1>1, <2>1
  <2>3. \A u \in Writers : Applies(u, k) => Applies(u, k)' \/ k = why[w]
    BY <1>2 DEF Same, Applies, Doing
  <2> QED BY <1>1, <2>2, <2>3 DEF DurableInv, KeyIsServed
<1> QED BY <1>3, <1>4 DEF DurableInv

\* Nothing but a crash comes between a durable event and its effect: while the
\* process lives, a key that is claimed, with nobody working on it, was applied,
\* whatever statements fail and however often it is delivered.
THEOREM DurableIsAppliedUnlessCrash ==
    PsycheSpec /\ [][~PsycheCrash]_psyVars => []DurableIsApplied
<1>1. PsycheInit => DurableInv
  <2> SUFFICES ASSUME PsycheInit PROVE DurableInv
    OBVIOUS
  <2>1. claimed = {} /\ \A w \in Writers : \A t : ~Doing(w, t)
    BY DEF PsycheInit, Doing
  <2> QED BY <2>1 DEF DurableInv, PlanFits, KeyIsServed
<1>2. PsyInv /\ DurableInv /\ [PsycheNext]_psyVars /\ [~PsycheCrash]_psyVars => DurableInv'
  <2> SUFFICES ASSUME PsyInv, DurableInv, [PsycheNext]_psyVars, [~PsycheCrash]_psyVars
               PROVE  DurableInv'
    OBVIOUS
  <2>1. CASE UNCHANGED psyVars
    BY <2>1 DEF psyVars, psyRows, psyHistory, DurableInv, PlanFits, KeyIsServed, Applies, Doing
  <2>2. ASSUME NEW w \in Writers,
               \/ EnsureProfile(w) \/ NewProfile(w) \/ EnsureState(w) \/ NewState(w)
               \/ Press(w) \/ Recover(w) \/ ReadHabit(w) \/ Reinforce(w) \/ Relate(w)
               \/ InsertEvent(w) \/ Judge(w) \/ Adapt(w)
        PROVE  DurableInv'
    BY <2>2, PlainStep, ServedStays DEF PlanFits
  <2> QED
    BY <2>1, <2>2, CallIsPlanned, ClaimIsServed, FeelServes, EvolveServes DEF PsycheNext
<1>3. PsyInv /\ DurableInv => DurableIsApplied
  <2> SUFFICES ASSUME PsyInv, DurableInv, NEW k \in claimed, \A w \in Writers : todo[w] = <<>>
               PROVE  evolutions[k] >= 1
    BY DEF DurableIsApplied
  <2>1. k \in Keys /\ evolutions[k] \in Nat
    BY DEF PsyInv, PsycheTypeOK
  <2>2. evolutions[k] # 0
    BY <2>1 DEF DurableInv, KeyIsServed, Applies, Doing
  <2> QED BY <2>1, <2>2
<1> QED
  BY <1>1, <1>2, <1>3, PsycheStarts, PsycheInductive, PTL DEF PsycheSpec
===============================================================================
