----------------------------- MODULE MCChatTurn -----------------------------
(***************************************************************************)
(* A turn of the chat from the tab to the mood it leaves: the tab, the     *)
(* decision, the pipeline and the psyche, on small instances.  They share  *)
(* no state: a behaviour picks one and runs it beside the initial states   *)
(* of the others.                                                          *)
(***************************************************************************)
EXTENDS MCTurnPipeline, DecisionChain, PsycheState, ChatClient

VARIABLES part, coming

---------------------------------------------------------------------------
Message4(kind, cues, wants, past) ==
    [kind |-> kind, cues |-> cues, wants |-> wants, past |-> past]
Pairs(S) == {{a, b} : a, b \in S}

\* Every cue and every want alone, the pairs that rules tell apart, and short
\* messages of the other kinds.
MCMessages ==
    {Message4("plain", {c}, wants, past) : c \in Cues, wants \in {{}, {"execute"}}, past \in {0, 2}}
    \cup {Message4("plain", cues, {}, past) :
        cues \in Pairs({"agentic", "url", "fresh", "howto", "trigger"}), past \in {0, 2}}
    \cup {Message4("plain", cues, wants, 1) :
        cues \in {{}, {"agentic"}, {"doIt"}}, wants \in Pairs(Wants)}
    \cup {Message4(kind, cues, wants, past) :
        kind \in Kinds \ {"plain"},
        cues \in {{}, {"agentic"}, {"fresh", "trigger"}, {"followup"}, {"status"}},
        wants \in {{}} \cup Pairs({"execute", "freshness"}), past \in {0, 2}}

\* What a signal may be where it is not quiet, and what excludes each other.
Loud == [conf |-> {30, 37, 42}, sens |-> {10}, severity |-> {62, 72}, recurring |-> {TRUE},
         avoid |-> {80}, penalize |-> {60}, boost |-> {70}, risk |-> {70, 85},
         mixed |-> {TRUE}, skip |-> {TRUE}]
Louder(S) == S \cup UNION {UNION {{[s EXCEPT ![f] = v] : v \in Loud[f]} : f \in DOMAIN Loud} : s \in S}
Possible(s) ==
    /\ \A v, w \in {"avoid", "penalize", "boost"} : s[v] > 0 /\ s[w] > 0 => v = w
    /\ s.skip => s.severity = 0 /\ ~s.recurring /\ ~s.mixed

\* Two signals at a time.
MCSignals == {s \in Louder(Louder({NoSignal})) : Possible(s)}

\* Everybody asks for the same cap: no property of this run asks for it.
OneCap == [t \in Turns |-> 256]

\* Bounds of the tab: the server stores one of its turns, and a second delta and
\* a history are not under way at once.
TabBound ==
    /\ Cardinality({t \in Sends : turn[t].kept}) <= 1
    /\ Deltas <= 1 \/ \A l \in Loads : load[l].at = "none"

---------------------------------------------------------------------------
ChatTurnInit ==
    /\ part \in {"client", "decision", "pipeline", "psyche"}
    /\ ClientInit /\ (part # "client" => known = {Initial})
    /\ PsycheInit
    /\ DecisionInit /\ (part # "decision" => msg = CHOOSE m \in Messages : TRUE)
    /\ PipelineInit /\ coming \in Arrivals /\ (part # "pipeline" => coming = Turns \ LoneTurns)

Tab ==
    /\ part = "client" /\ ClientNext /\ TabBound'
    /\ UNCHANGED <<part, coming, decVars, pipelineVars, psyVars>>
Deciding ==
    /\ part = "decision" /\ DecisionNext
    /\ UNCHANGED <<part, coming, clientVars, pipelineVars, psyVars>>
Turning ==
    /\ part = "pipeline"
    /\ \E t \in coming : Step(t) \/ Cancel(t) \/ Repeat(t)
    /\ UNCHANGED <<part, coming, clientVars, decVars, psyVars>>
Feeling ==
    /\ part = "psyche" /\ PsycheNext
    /\ UNCHANGED <<part, coming, clientVars, decVars, pipelineVars>>

ChatTurnNext == Tab \/ Deciding \/ Turning \/ Feeling
ChatTurnSpec ==
    ChatTurnInit /\ [][ChatTurnNext]_<<part, coming, clientVars, decVars, pipelineVars, psyVars>>

---------------------------------------------------------------------------
\* The threads of the psyche.
Symmetry == Permutations(Writers)
=============================================================================
