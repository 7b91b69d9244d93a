------------------------------ MODULE MCStores ------------------------------
(***************************************************************************)
(* What turns and cycles leave in the stores, on small instances.  The     *)
(* five modules share no state: a behaviour picks one of them and runs it  *)
(* beside the initial states of the others.                                *)
(***************************************************************************)
EXTENDS ChatTranscript, MemoryItems, MCGoals, KnowledgeClaims, LearningLoop

VARIABLE store

StoresInit ==
    /\ store \in {"transcript", "memory", "goals", "knowledge", "learning"}
    /\ TranscriptInit /\ MemInit /\ GoalsInit /\ KnowledgeInit /\ LearnInit

\* Bounds: an item grows old alone, one of the cycles comes again, and one of the
\* turns is started again.
OneGrowsOld == epoch = 0 \/ Cardinality({i \in Items : IsRow(rows[i])}) <= 1

OneCycleAgain == Cardinality({c \in Cycling : runs[c] > 1}) <= 1
OneTurnAgain == Cardinality({t \in Heard : starts[t] > 1}) <= 1

Transcript ==
    /\ store = "transcript" /\ TranscriptNext
    /\ UNCHANGED <<store, memVars, goalVars, knowVars, learnVars>>
Memory ==
    /\ store = "memory" /\ MemNext /\ OneGrowsOld'
    /\ UNCHANGED <<store, transcriptVars, goalVars, knowVars, learnVars>>
Goaling ==
    /\ store = "goals" /\ GoalsNext /\ OneCycleAgain'
    /\ UNCHANGED <<store, transcriptVars, memVars, knowVars, learnVars>>
Knowledge ==
    /\ store = "knowledge" /\ KnowledgeNext
    /\ UNCHANGED <<store, transcriptVars, memVars, goalVars, learnVars>>
Learned ==
    /\ store = "learning" /\ LearnNext /\ OneTurnAgain'
    /\ UNCHANGED <<store, transcriptVars, memVars, goalVars, knowVars>>

StoresNext == Transcript \/ Memory \/ Goaling \/ Knowledge \/ Learned

StoresSpec ==
    StoresInit /\ [][StoresNext]_<<store, transcriptVars, memVars, goalVars,
                                   knowVars, learnVars>>

\* A mark that a user or a cycle has set is final, whatever runs late: goals
\* that are closed, lessons and sessions that are archived.
MarksStay == ClosedStaysClosed /\ ArchivedForGood /\ ArchiveIsKept

Symmetry ==
    UNION {Permutations(S) : S \in {Writers, Items, GoalIds}}
=============================================================================
