----------------------------- MODULE MCOneTurn -----------------------------
(***************************************************************************)
(* Three parts around the body of a turn, on small instances: the stream   *)
(* of its events, its model calls, and the cycles it hands work to.  They  *)
(* share no state: a behaviour picks one of them and runs it beside the    *)
(* initial states of the others.                                           *)
(***************************************************************************)
EXTENDS ChatStream, MCProviderFailover, MCExecutiveCycle

VARIABLE part

partVars == <<part, vars, providerVars, execVars>>

PartsInit ==
    /\ part \in {"stream", "provider", "executive"}
    /\ Init /\ ProviderInit /\ ExecInit
    /\ part # "executive" => ask = [c \in Cycles |-> CHOOSE a \in Requests[c] : TRUE]

Streams(A) == part = "stream" /\ A /\ UNCHANGED <<part, providerVars, execVars>>
Asking(A)  == part = "provider" /\ A /\ UNCHANGED <<part, vars, execVars>>
Acts(A)    == part = "executive" /\ A /\ UNCHANGED <<part, vars, providerVars>>

PartsNext == Streams(Next) \/ Asking(ProviderNext) \/ Acts(ExecNext)

\* The fairness of each part, and no more.
PartsSpec ==
    /\ PartsInit /\ [][PartsNext]_partVars
    /\ WF_partVars(Streams(Work)) /\ WF_partVars(Streams(Generate))
    /\ WF_partVars(Streams(CancelAgain))
    /\ WF_partVars(Asking(CallStep)) /\ WF_partVars(Asking(TimesOut))
    /\ \A c \in Cycles : WF_partVars(Acts(phase[c] # "idle" /\ Step(c)))

\* Each part comes to an end in its own way: a turn whose client has gone stops,
\* a model call returns or fails, a cycle is done or dead.
PartsEnd == DisconnectStopsTurn /\ CallsEnd /\ CyclesEnd
=============================================================================
