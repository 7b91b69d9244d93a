---------------------------- MODULE TurnPipeline ----------------------------
(***************************************************************************)
(* The body of a chat turn: TurnOps.run_turn_core of                       *)
(* aihub/turn/mixins/pipeline.py with the stages it calls.  Turns of       *)
(* different sessions run as tasks of one event loop and share the one     *)
(* TurnOps object; a stage runs without interruption until it awaits.      *)
(*                                                                         *)
(* A request is repeated after a failed or cancelled attempt with the same *)
(* turn_id (TurnExecution decides when); what earlier attempts wrote stays *)
(* written.  A completion cap of None is 0, and an effect is the name of   *)
(* the store it changes.                                                   *)
(***************************************************************************)
EXTENDS Naturals, FiniteSets

CONSTANTS
    Turns,          \* turns, each of a session of its own
    AuditTurns,     \* those whose runtime_mode is "audit"
    StreamTurns,    \* those answered over SSE: a status event may wait
    NoTurn,         \* no turn
    Asked,          \* max_completion_tokens of each request, 0 for None
    Correcting,     \* turns whose message corrects an earlier answer
    Fallible,       \* stores whose write may fail in each turn, a bound on the faults
    Budgets,        \* max_completion_tokens of each turn's budget profiles
    ToolRounds,     \* max(1, CHAT_MAX_TOOL_ITERATIONS)
    Variants,       \* response variants one deliberation generates
    Attempts        \* bound on the attempts of each turn

ASSUME TurnsAssumption ==
    /\ NoTurn \notin Turns
    /\ AuditTurns \subseteq Turns
    /\ StreamTurns \subseteq Turns
ASSUME CapAssumption ==
    /\ Asked \in [Turns -> Nat]
    /\ \A t \in Turns : Budgets[t] \subseteq Nat \ {0}
ASSUME BoundAssumption ==
    /\ ToolRounds \in Nat \ {0}
    /\ Variants \in Nat
    /\ Attempts \in [Turns -> Nat \ {0}]

VARIABLES
    pc,         \* the stage each turn is in
    running,    \* the turn the event loop is executing between two awaits
    cap,        \* self._turn_max_completion_tokens, one for all turns
    own,        \* history: that cap, computed from the turn's own steps
    bound,      \* _active_turn_ctx: a ContextVar, one value per task
    plan,       \* what the stages have decided for each turn
    rounds,     \* iteration of the provider loop
    drafts,     \* response variants generated so far
    calls,      \* history: provider calls of the attempt
    by,         \* history: turns the attempt's calls and effects were filed under
    now,        \* effects of the current attempt
    before,     \* effects of earlier attempts
    result,     \* how the attempt ended
    attempt     \* number of the attempt

capVars == <<cap, own>>
effectVars == <<by, now, before>>
loopVars == <<rounds, drafts, calls>>
pipelineVars == <<pc, running, capVars, bound, plan, loopVars, effectVars, result, attempt>>

\* Stores a turn writes back to, and all that it writes.
\* "model" is the conversation state, the user model and the calibration,
\* "learning" adaptive learning, procedures and world knowledge.
WriteBacks == {"correction", "memory", "psyche", "model", "learning", "experience", "bias"}
Effects == WriteBacks \cup {"event", "cost"}

Stages == {"idle", "prepare", "decide", "handoff", "agent", "forced", "forcing",
           "web", "searching", "ready", "loop", "provider", "tools", "shape", "draft",
           "variant", "critic", "revision", "trace", "writeback", "feedback", "quiet",
           "ended"}

\* What is decided about a turn: its profile, whether the web is required and
\* what the search gave, and whether errors[] has an entry.
Plans == [budget : {"none", "light", "full"}, web : {"optional", "required"},
          search : {"none", "grounded", "empty"}, errors : BOOLEAN]
NoPlan == [budget |-> "none", web |-> "optional", search |-> "none", errors |-> FALSE]

---------------------------------------------------------------------------
Max2(a, b) == IF a >= b THEN a ELSE b
Min2(a, b) == IF a <= b THEN a ELSE b

\* A question about the assistant itself is answered in 160 to 256 tokens.
MetaCap(c) == Max2(160, Min2(IF c = 0 THEN 256 ELSE c, 256))

\* The budget profile lowers the cap, to 64 at least.
BudgetCap(c, b) == Max2(64, Min2(IF c = 0 THEN b ELSE c, b))

PipelineInit ==
    /\ pc = [t \in Turns |-> "idle"]
    /\ running = NoTurn
    /\ cap = 0
    /\ own = [t \in Turns |-> 0]
    /\ bound = [t \in Turns |-> NoTurn]
    /\ plan = [t \in Turns |-> NoPlan]
    /\ rounds = [t \in Turns |-> 0]
    /\ drafts = [t \in Turns |-> 0]
    /\ calls = [t \in Turns |-> 0]
    /\ by = [t \in Turns |-> {}]
    /\ now = [t \in Turns |-> {}]
    /\ before = [t \in Turns |-> {}]
    /\ result = [t \in Turns |-> "none"]
    /\ attempt = [t \in Turns |-> 1]

\* The turn's task may run, and is in this stage.
At(t, stage) == pc[t] = stage /\ running \in {NoTurn, t}

\* It goes on to a stage without awaiting, or awaits before it.
GoOn(t, stage) == pc' = [pc EXCEPT ![t] = stage] /\ running' = t
Await(t, stage) == pc' = [pc EXCEPT ![t] = stage] /\ running' = NoTurn

\* A status event suspends the task only while the queue of a stream is full.
Emit(t, stage) == GoOn(t, stage) \/ (t \in StreamTurns /\ Await(t, stage))

\* The attempt ends: its locals are gone, and execute resets what it bound.
End(t, how) ==
    /\ pc' = [pc EXCEPT ![t] = "ended"]
    /\ running' = NoTurn
    /\ bound' = [bound EXCEPT ![t] = NoTurn]
    /\ result' = [result EXCEPT ![t] = how]
    /\ plan' = [plan EXCEPT ![t] = NoPlan]
    /\ own' = [own EXCEPT ![t] = 0]
    /\ rounds' = [rounds EXCEPT ![t] = 0]
    /\ drafts' = [drafts EXCEPT ![t] = 0]
    /\ calls' = [calls EXCEPT ![t] = 0]

Note(t, S) == now' = [now EXCEPT ![t] = @ \cup S]

\* An effect filed under the turn_id of _active_turn_ctx.
Filed(t, S) ==
    /\ Note(t, S)
    /\ by' = [by EXCEPT ![t] = @ \cup {bound[t]}]

\* What may come of writing each effect of S on its own.
Tried(t, S) == {(S \ Fallible[t]) \cup T : T \in SUBSET (S \cap Fallible[t])}

---------------------------------------------------------------------------
\* A variant of Bind that keeps the context on the shared object.
BindShared(t) == bound' = [u \in Turns |-> IF pc[u] \in {"idle", "ended"} /\ u # t
                                          THEN NoTurn ELSE t]

\* execute binds the turn to its own task.
Bind(t) == bound' = [bound EXCEPT ![t] = t]

Start(t) ==
    /\ At(t, "idle")
    /\ Bind(t)
    /\ cap' = Asked[t]
    /\ own' = [own EXCEPT ![t] = Asked[t]]
    /\ GoOn(t, "prepare")
    /\ UNCHANGED <<plan, loopVars, effectVars, result, attempt>>

\* record_user_correction_turn
Correction(t) == IF t \in Correcting \ AuditTurns THEN {"correction"} ELSE {}

\* Answered without a model: deterministic, or a fact read from memory.
AnswerDirectly(t) ==
    /\ At(t, "prepare")
    /\ Note(t, Correction(t) \cup {"event"})
    /\ End(t, "ok")
    /\ UNCHANGED <<cap, by, before, attempt>>

Prepare(t) ==
    /\ At(t, "prepare")
    /\ Note(t, Correction(t))
    /\ \/ UNCHANGED <<cap, own>>
       \/ /\ cap' = MetaCap(cap)
          /\ own' = [own EXCEPT ![t] = MetaCap(@)]
    /\ Emit(t, "decide")
    /\ UNCHANGED <<bound, plan, loopVars, by, before, result, attempt>>

\* select_prompt_budget raised, and the cap stays as it is; or the profile
\* lowers it.  A light profile allows no tools.
Decide(t) ==
    /\ At(t, "decide")
    /\ \E web \in {"optional", "required"} :
       \/ /\ plan' = [plan EXCEPT ![t].web = web]
          /\ UNCHANGED <<cap, own>>
       \/ \E b \in Budgets[t], profile \in {"light", "full"} :
             /\ plan' = [plan EXCEPT ![t].budget = profile, ![t].web = web]
             /\ cap' = BudgetCap(cap, b)
             /\ own' = [own EXCEPT ![t] = BudgetCap(@, b)]
    /\ GoOn(t, "handoff")
    /\ UNCHANGED <<bound, loopVars, effectVars, result, attempt>>

\* The blocker's verdict is hard: the turn ends with its message.
Blocked(t) ==
    /\ At(t, "handoff")
    /\ plan' = [plan EXCEPT ![t].errors = TRUE]
    /\ GoOn(t, "feedback")
    /\ UNCHANGED <<capVars, bound, loopVars, effectVars, result, attempt>>

---------------------------------------------------------------------------
\* _write_back_experience: a failure is swallowed and reported in errors[].
Experience(t, errors) ==
    \E S \in Tried(t, {"experience"}) :
        /\ Filed(t, S)
        /\ plan' = [plan EXCEPT ![t].errors = errors \/ S = {}]

StayInChat(t) ==
    /\ At(t, "handoff")
    /\ GoOn(t, "forced")
    /\ UNCHANGED <<capVars, bound, plan, loopVars, effectVars, result, attempt>>

\* await controller.run_cycle(...)
HandOff(t) ==
    /\ At(t, "handoff")
    /\ Await(t, "agent")
    /\ UNCHANGED <<capVars, bound, plan, loopVars, effectVars, result, attempt>>

\* The cycle returns, with errors of its own or none; or it raised, and the
\* turn ends without its event.
AgentReturns(t) ==
    /\ At(t, "agent")
    /\ \/ \E e \in BOOLEAN : Experience(t, e) /\ GoOn(t, "feedback")
       \/ Experience(t, TRUE) /\ GoOn(t, "quiet")
    /\ UNCHANGED <<capVars, bound, loopVars, before, result, attempt>>

\* Tools a capability demands run before the model is asked.
NoForcedTools(t) ==
    /\ At(t, "forced")
    /\ GoOn(t, "web")
    /\ UNCHANGED <<capVars, bound, plan, loopVars, effectVars, result, attempt>>

ForcedTools(t) ==
    /\ At(t, "forced")
    /\ Await(t, "forcing")
    /\ UNCHANGED <<capVars, bound, plan, loopVars, effectVars, result, attempt>>

\* Their text is the answer, ok whatever the tools said.
ForcedAnswer(t) ==
    /\ At(t, "forcing")
    /\ \E S \in Tried(t, {"experience"}) : Filed(t, S \cup {"event"})
    /\ End(t, "ok")
    /\ UNCHANGED <<cap, before, attempt>>

\* No text, or an exception: the turn goes on to the model, also when the
\* experience is already written and the event is what failed.
ForcedGoesOn(t) ==
    /\ At(t, "forcing")
    /\ \/ UNCHANGED <<now, by>>
       \/ "event" \in Fallible[t] /\ Filed(t, {"experience"})
    /\ GoOn(t, "web")
    /\ UNCHANGED <<capVars, bound, plan, loopVars, before, result, attempt>>

---------------------------------------------------------------------------
\* _run_controlled_web_prefetch, when it triggers: always when required.
Search(t) ==
    /\ At(t, "web")
    /\ Await(t, "searching")
    /\ UNCHANGED <<capVars, bound, plan, loopVars, effectVars, result, attempt>>

\* An error of a search is an entry of errors[].
Searched(t) ==
    /\ At(t, "searching")
    /\ \/ plan' = [plan EXCEPT ![t].search = "grounded"]
       \/ \E e \in BOOLEAN :
             plan' = [plan EXCEPT ![t].search = "empty", ![t].errors = @ \/ e]
    /\ GoOn(t, "ready") \/ Await(t, "ready")
    /\ UNCHANGED <<capVars, bound, loopVars, effectVars, result, attempt>>

\* Attached images are described first, and that may wait.
NoSearch(t) ==
    /\ At(t, "web")
    /\ plan[t].web # "required"
    /\ GoOn(t, "ready") \/ Await(t, "ready")
    /\ UNCHANGED <<capVars, bound, plan, loopVars, effectVars, result, attempt>>

\* A variant of Ungrounded that only looks whether anything was searched.
UngroundedUnlessSearched(t) ==
    plan[t].web = "required" /\ plan[t].search = "none"

\* _web_required_grounding_unsatisfied
Ungrounded(t) == plan[t].web = "required" /\ plan[t].search = "empty"

\* _finish_turn_web_required_ungrounded
EndUngrounded(t) ==
    /\ At(t, "ready")
    /\ Ungrounded(t)
    /\ Experience(t, TRUE)
    /\ GoOn(t, "feedback")
    /\ UNCHANGED <<capVars, bound, loopVars, before, result, attempt>>

\* The prompt is built; a budget that could not be selected is tried again,
\* this time without a word about the cap.
Ready(t) ==
    /\ At(t, "ready")
    /\ ~Ungrounded(t)
    /\ \/ UNCHANGED plan
       \/ /\ plan[t].budget = "none"
          /\ \E profile \in {"light", "full"} : plan' = [plan EXCEPT ![t].budget = profile]
    /\ Emit(t, "loop")
    /\ UNCHANGED <<capVars, bound, loopVars, effectVars, result, attempt>>

---------------------------------------------------------------------------
\* _provider_call: the context and the cap as they are now.
ProviderCall(t) ==
    /\ by' = [by EXCEPT ![t] = @ \cup {bound[t]}]
    /\ calls' = [calls EXCEPT ![t] = @ + 1]

AskProvider(t) ==
    /\ At(t, "loop")
    /\ ProviderCall(t)
    /\ Await(t, "provider")
    /\ UNCHANGED <<capVars, bound, plan, rounds, drafts, now, before, result, attempt>>

\* A variant of ToolsAllowed that runs what the model asks for.
ToolsAllowedAlways(t) == rounds[t] < ToolRounds

\* _tool_loop_enabled, and iterations are left.
ToolsAllowed(t) == plan[t].budget # "light" /\ rounds[t] < ToolRounds

ProviderWantsTools(t) ==
    /\ At(t, "provider")
    /\ ToolsAllowed(t)
    /\ Await(t, "tools")
    /\ UNCHANGED <<capVars, bound, plan, loopVars, effectVars, result, attempt>>

ToolsDone(t) ==
    /\ At(t, "tools")
    /\ rounds' = [rounds EXCEPT ![t] = @ + 1]
    /\ Emit(t, "loop")
    /\ UNCHANGED <<capVars, bound, plan, drafts, calls, effectVars, result, attempt>>

\* Text, or tool calls that are not run: the loop ends.
ProviderAnswers(t) ==
    /\ At(t, "provider")
    /\ Emit(t, "shape")
    /\ UNCHANGED <<capVars, bound, plan, loopVars, effectVars, result, attempt>>

\* ProviderError: the fallback text, and its own write-backs, each in a try.
ProviderFails(t) ==
    /\ At(t, "provider")
    /\ \E S \in Tried(t, {"model", "learning", "experience"}) : Filed(t, S)
    /\ plan' = [plan EXCEPT ![t].errors = TRUE]
    /\ GoOn(t, "feedback")
    /\ UNCHANGED <<capVars, bound, loopVars, before, result, attempt>>

---------------------------------------------------------------------------
\* Variants are generated where the profile wants them.
Shape(t) ==
    /\ At(t, "shape")
    /\ GoOn(t, "critic") \/ (Variants > 0 /\ GoOn(t, "draft"))
    /\ UNCHANGED <<capVars, bound, plan, loopVars, effectVars, result, attempt>>

AskVariant(t) ==
    /\ At(t, "draft")
    /\ ProviderCall(t)
    /\ drafts' = [drafts EXCEPT ![t] = @ + 1]
    /\ Await(t, "variant")
    /\ UNCHANGED <<capVars, bound, plan, rounds, now, before, result, attempt>>

\* A variant that failed counts as the text it was to replace.
VariantDone(t) ==
    /\ At(t, "variant")
    /\ GoOn(t, IF drafts[t] < Variants THEN "draft" ELSE "critic")
    /\ UNCHANGED <<capVars, bound, plan, loopVars, effectVars, result, attempt>>

\* The critic has no objection, or is skipped.
CriticPasses(t) ==
    /\ At(t, "critic")
    /\ GoOn(t, "trace")
    /\ UNCHANGED <<capVars, bound, plan, loopVars, effectVars, result, attempt>>

\* At most one revision, with tools=[].
AskRevision(t) ==
    /\ At(t, "critic")
    /\ ProviderCall(t)
    /\ Await(t, "revision")
    /\ UNCHANGED <<capVars, bound, plan, rounds, drafts, now, before, result, attempt>>

\* The revised text replaces the answer; a revision that failed changes nothing.
RevisionDone(t) ==
    /\ At(t, "revision")
    /\ GoOn(t, "trace")
    /\ UNCHANGED <<capVars, bound, plan, loopVars, effectVars, result, attempt>>

---------------------------------------------------------------------------
\* _stage_build_success_trace: the ledger entry, in a try.
BuildTrace(t) ==
    /\ At(t, "trace")
    /\ \E C \in Tried(t, {"cost"}) : Note(t, C)
    /\ GoOn(t, "writeback")
    /\ UNCHANGED <<capVars, bound, plan, loopVars, by, before, result, attempt>>

Answer(t) == IF plan[t].errors THEN "not_ok" ELSE "ok"

\* append_event is in no try: when it fails, so does the attempt, with all
\* else already written.
LastEvent(t, S) ==
    \/ Note(t, S \cup {"event"}) /\ End(t, Answer(t))
    \/ "event" \in Fallible[t] /\ Note(t, S) /\ End(t, "failed")

\* The minimal policy: the event, and what feedback says about the user.
WriteBackMinimal(t) ==
    /\ At(t, "writeback")
    /\ LastEvent(t, {}) \/ LastEvent(t, {"model"})
    /\ UNCHANGED <<cap, by, before, attempt>>

\* What the guarded block may write: memory first, then psyche, whose failures
\* end it; the others fail one by one.
Outcomes(t) ==
    IF t \in AuditTurns THEN {{}}
    ELSE {S \in {{}} : "memory" \in Fallible[t]}
        \cup {S \in {{"memory"}} : "psyche" \in Fallible[t]}
        \cup {{"memory", "psyche"} \cup S : S \in Tried(t, {"model", "learning"})}

\* A variant of WriteBack that awaits before the feedback.
WriteBackAwaits(t) ==
    /\ At(t, "writeback")
    /\ \E S \in Outcomes(t) : Filed(t, S) /\ UNCHANGED plan
    /\ Await(t, "feedback")
    /\ UNCHANGED <<capVars, bound, loopVars, before, result, attempt>>

\* _stage_writeback up to _write_back_experience, which audit does not skip.
WriteBack(t) ==
    /\ At(t, "writeback")
    /\ \E S \in Outcomes(t), X \in Tried(t, {"experience"}) :
          /\ Filed(t, S \cup X)
          /\ plan' = [plan EXCEPT ![t].errors = @ \/ X = {}]
    /\ GoOn(t, "feedback")
    /\ UNCHANGED <<capVars, bound, loopVars, before, result, attempt>>

\* A variant of Bias that is computed for any turn.
BiasAlways(t) == Tried(t, {"bias"})

\* _run_runtime_experience_feedback skips audit, by the bound context.
Bias(t) == IF bound[t] \in AuditTurns THEN {{}} ELSE Tried(t, {"bias"})

\* The bias, the event and the result.
Feedback(t) ==
    /\ At(t, "feedback")
    /\ \E B \in Bias(t) : LastEvent(t, B)
    /\ UNCHANGED <<cap, by, before, attempt>>

\* The same after a handoff that raised, which appends no event.
QuietFeedback(t) ==
    /\ At(t, "quiet")
    /\ \E B \in Bias(t) : Note(t, B)
    /\ End(t, Answer(t))
    /\ UNCHANGED <<cap, by, before, attempt>>

---------------------------------------------------------------------------
\* An exception no stage catches, the read before the bias among them.
Raise(t) ==
    /\ \E stage \in {"prepare", "decide", "searching", "ready", "provider", "feedback"} :
          At(t, stage)
    /\ End(t, "failed")
    /\ UNCHANGED <<cap, effectVars, attempt>>

\* The task is cancelled at an await: CancelledError passes every except.
Cancel(t) ==
    /\ running = NoTurn
    /\ pc[t] \notin {"idle", "ended"}
    /\ End(t, "cancelled")
    /\ UNCHANGED <<cap, effectVars, attempt>>

\* The client repeats the request and the gate lets it through.
Repeat(t) ==
    /\ pc[t] = "ended"
    /\ running = NoTurn
    /\ result[t] \in {"failed", "cancelled"}
    /\ attempt[t] < Attempts[t]
    /\ attempt' = [attempt EXCEPT ![t] = @ + 1]
    /\ before' = [before EXCEPT ![t] = @ \cup now[t]]
    /\ now' = [now EXCEPT ![t] = {}]
    /\ result' = [result EXCEPT ![t] = "none"]
    /\ pc' = [pc EXCEPT ![t] = "idle"]
    /\ UNCHANGED <<running, capVars, bound, plan, loopVars, by>>

---------------------------------------------------------------------------
\* The steps of a turn that are its own: all but a cancellation and a repeat.
Step(t) ==
    \/ Start(t) \/ AnswerDirectly(t) \/ Prepare(t) \/ Decide(t) \/ Blocked(t)
    \/ StayInChat(t) \/ HandOff(t) \/ AgentReturns(t)
    \/ NoForcedTools(t) \/ ForcedTools(t) \/ ForcedAnswer(t) \/ ForcedGoesOn(t)
    \/ Search(t) \/ Searched(t) \/ NoSearch(t) \/ EndUngrounded(t) \/ Ready(t)
    \/ AskProvider(t) \/ ProviderWantsTools(t) \/ ToolsDone(t)
    \/ ProviderAnswers(t) \/ ProviderFails(t)
    \/ Shape(t) \/ AskVariant(t) \/ VariantDone(t)
    \/ CriticPasses(t) \/ AskRevision(t) \/ RevisionDone(t)
    \/ BuildTrace(t) \/ WriteBackMinimal(t) \/ WriteBack(t)
    \/ Feedback(t) \/ QuietFeedback(t) \/ Raise(t)

PipelineNext == \E t \in Turns : Step(t) \/ Cancel(t) \/ Repeat(t)

\* The loop schedules every task, and what a task awaits comes to an end:
\* the provider by its timeouts, a tool and the agent's cycle by theirs.
PipelineSpec ==
    /\ PipelineInit
    /\ [][PipelineNext]_pipelineVars
    /\ \A t \in Turns : WF_pipelineVars(Step(t))

---------------------------------------------------------------------------
\* The types of the variables.
PipelineTypeOK ==
    /\ pc \in [Turns -> Stages]
    /\ running \in Turns \cup {NoTurn}
    /\ cap \in Nat /\ own \in [Turns -> Nat]
    /\ bound \in [Turns -> Turns \cup {NoTurn}]
    /\ plan \in [Turns -> Plans]
    /\ rounds \in [Turns -> 0 .. ToolRounds]
    /\ drafts \in [Turns -> 0 .. Variants]
    /\ calls \in [Turns -> 0 .. ToolRounds + Variants + 2]
    /\ by \in [Turns -> SUBSET (Turns \cup {NoTurn})]
    /\ now \in [Turns -> SUBSET Effects]
    /\ before \in [Turns -> SUBSET Effects]
    /\ result \in [Turns -> {"none", "ok", "not_ok", "failed", "cancelled"}]
    /\ attempt \in [Turns -> Nat] /\ \A t \in Turns : attempt[t] \in 1 .. Attempts[t]

\* Every provider call and every effect of a turn is filed under its own
\* turn_id, whatever other turns start, end or are cancelled in between
\* (active_context.py: the binding is per task).
ContextStaysOwn == PipelineTypeOK /\ \A t \in Turns : by[t] \subseteq {t}

\* A turn that runs for an audit never changes Memory V2, the psyche, the
\* recorded corrections or the strategy bias, on any path and attempt
\* (runtime_mode is asked in four places, each time in another way).
AuditLeavesOut ==
    \A t \in AuditTurns :
        (now[t] \cup before[t]) \cap {"correction", "memory", "psyche", "bias"} = {}

\* While a task awaits, its attempt has not begun to write back: a turn
\* cancelled there leaves no part of its outcome (_stage_writeback and the
\* fallback of _stage_provider_loop do not await).
NothingHalfWritten ==
    \A t \in Turns :
        pc[t] # "ended" /\ running # t
            => now[t] \subseteq {"correction", "experience", "cost"}

\* The event log has one chat.turn of a turn at most, however many attempts it
\* took and wherever they failed.
EventOnce == \A t \in Turns : "event" \notin before[t]

\* No await divides the write-back, and no retry repeats the turn's event.
WritesAreWhole == NothingHalfWritten /\ EventOnce

\* The model is never asked about a turn that requires the web before a search
\* has grounded it (_web_required_grounding_unsatisfied).
WebIsGrounded ==
    \A t \in Turns :
        calls[t] > 0 /\ plan[t].web = "required" => plan[t].search = "grounded"

\* The model cannot keep a turn busy: rounds of tools, variants and one
\* revision bound its calls, and a light profile has no rounds.
ModelIsBounded ==
    \A t \in Turns :
        calls[t] <= Variants + 2 + IF plan[t].budget = "light" THEN 0 ELSE ToolRounds

\* A turn that has started ends, with a result or an error.
TurnsEnd == \A t \in Turns : pc[t] = "prepare" ~> pc[t] = "ended"

\* 14.07-runtime-full-rebuild.md: "runtime_mode=audit" turns write-backs off.
\* The experience of a turn is written whatever the mode, and so is what the
\* fallback learns.
AuditWritesNothing ==
    \A t \in AuditTurns : (now[t] \cup before[t]) \cap WriteBacks = {}

\* active_context.py: state of a turn on the shared object "would race".  The
\* cap a call is made with is the one its own turn has computed.
CapIsOwn == [][\A t \in Turns : calls'[t] > calls[t] => cap = own[t]]_pipelineVars

=============================================================================
