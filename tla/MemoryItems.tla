----------------------------- MODULE MemoryItems -----------------------------
(***************************************************************************)
(* The items of Memory V2 and what writes them: MemoryV2Service, the       *)
(* repository, the index jobs, the contradictions, the decay, the          *)
(* consolidation and its worker (aihub/memory_v2_*.py,                     *)
(* aihub/workers/consolidation.py) and the item endpoints.                 *)
(*                                                                         *)
(* Every statement is a transaction of its own (exec_one), and most        *)
(* writers read a row, change a field of the object and write every field  *)
(* back.  The event loop, the agent's thread and the maintenance thread do *)
(* so at the same time, so a step here is one statement.  Only the         *)
(* reinforcement counters are added to in SQL.                             *)
(*                                                                         *)
(* The scores are left out but for what hangs on them: whether a priority  *)
(* is low and where a decay pass puts an item are free choices.            *)
(***************************************************************************)
EXTENDS Naturals, FiniteSets

CONSTANTS
    Items,          \* the ids that can be given out
    Writers,        \* the threads that serve turns, cycles and requests
    Worker,         \* the maintenance thread
    MinInputs,      \* the facts a consolidation needs: 3 in the code
    DevCount, DevSuccess,           \* TRANSIENT_TO_DEVELOPING_*
    StableCount, StableSuccess,     \* DEVELOPING_TO_STABLE_*
    DemoteFailures,                 \* DEVELOPING_DEMOTE_FAIL_DOM
    StableNetFailures,              \* STABLE_DEMOTE_NET_FAIL
    Edits,          \* the single-field edits that are asked for
    Begun,          \* bound on the operations that are begun
    Epochs          \* bound on the times that all items grow old

ASSUME MemoryAssumption ==
    /\ IsFiniteSet(Items) /\ Worker \notin Writers
    /\ {MinInputs, DevCount, DevSuccess, StableCount, StableSuccess,
        DemoteFailures, StableNetFailures, Begun, Epochs} \subseteq Nat
    /\ Edits \subseteq {"archive", "suppress", "unsuppress", "pin", "unpin",
                        "touch", "supersede", "conflict"}

Threads == Writers \cup {Worker}

VARIABLES
    rows,       \* memory_v2_items
    jobs,       \* the status in memory_v2_index_jobs
    vectors,    \* the items that the vector engine holds
    rollups,    \* memory_v2_consolidations: output and inputs
    links,      \* memory_v2_links: type, from and to
    at,         \* where each thread is
    todo,       \* the items it still has to handle
    copy,       \* the objects it holds
    doing,      \* what it is about: an edit, an outcome, a vector
    begun,      \* how many operations have been begun
    epoch,      \* how often everything has grown old
    hits,       \* history: committed reinforcements of each item
    cut         \* history: a restart fell into the making of the item

tableVars == <<rows, jobs, vectors, rollups, links>>
threadVars == <<at, todo, copy, doing>>
historyVars == <<hits, cut>>
memVars == <<tableVars, threadVars, begun, epoch, historyVars>>

NoRow == [kind |-> "none"]

Tiers == {"transient", "developing", "stable"}
Contras == {"none", "suspected", "superseded", "conflicted"}

Row == [kind : {"fact", "rollup"}, count : Nat, success : Nat, failure : Nat,
        tier : Tiers, born : 0 .. Epochs, touched : 0 .. Epochs,
        bucket : {"live", "archive_candidate"}, pinned : BOOLEAN,
        archived : BOOLEAN, suppressed : BOOLEAN, contra : Contras, ref : BOOLEAN]

IsRow(r) == r # NoRow
Alive(i) == IsRow(rows[i]) /\ ~rows[i].archived

\* create_memory_item: new items never start stable.
NewRow(tier, contra) ==
    [kind |-> "fact", count |-> 0, success |-> 0, failure |-> 0, tier |-> tier,
     born |-> epoch, touched |-> epoch, bucket |-> "live", pinned |-> FALSE,
     archived |-> FALSE, suppressed |-> FALSE, contra |-> contra, ref |-> FALSE]

AtMost3(n) == IF n < 3 THEN n ELSE 3

\* consolidate_episodic_memories
RollupRow(inputs) ==
    [NewRow("developing", "none") EXCEPT
        !.kind = "rollup",
        !.count = AtMost3(Cardinality(inputs)),
        !.success = AtMost3(Cardinality(inputs))]

\* The id is in use, or some thread is about to use it.
Taken(i) == IsRow(rows[i]) \/ \E t \in Threads : IsRow(copy[t][i])

---------------------------------------------------------------------------
\* More than a stale time since the last reinforcement, or since the creation.
Old(r) == r.touched < epoch

Promotable(r) ==
    /\ r.count >= StableCount /\ r.success >= StableSuccess
    /\ r.success >= r.failure + 2
    /\ r.born < epoch

\* evaluate_stability_tier_after_update
Tier(r) ==
    CASE r.tier = "stable" ->
            IF r.failure >= r.success + StableNetFailures /\ r.failure >= 3
            THEN "developing" ELSE "stable"
      [] r.tier = "developing" ->
            IF Promotable(r) THEN "stable"
            ELSE IF r.failure >= DemoteFailures /\ r.success <= 1
            THEN "transient" ELSE "developing"
      [] OTHER ->
            IF /\ r.count >= DevCount /\ r.success >= DevSuccess
               /\ r.success > r.failure
            THEN "developing" ELSE "transient"

\* evaluate_decay_bucket_for_item; the live buckets are not told apart.
Bucket(r) ==
    IF r.pinned \/ (r.tier = "stable" /\ r.count >= 5) THEN "live"
    ELSE IF Old(r) /\ r.count < 2 THEN "archive_candidate"
    ELSE r.bucket

\* apply_stability_evaluation, and the archival that follows it.
Evaluated(r) ==
    LET tiered == [r EXCEPT !.tier = Tier(r)]
        placed == [tiered EXCEPT !.bucket = Bucket(tiered)]
    IN  IF placed.bucket = "archive_candidate" /\ Old(placed) /\ placed.count < 2
        THEN [placed EXCEPT !.archived = TRUE]
        ELSE placed

\* The fields that the endpoints, the mirror of L2 and a correction set.
Edited(r, edit) ==
    CASE edit = "archive" -> [r EXCEPT !.archived = TRUE]
      [] edit = "suppress" -> [r EXCEPT !.suppressed = TRUE]
      [] edit = "unsuppress" -> [r EXCEPT !.suppressed = FALSE]
      [] edit = "pin" -> [r EXCEPT !.pinned = TRUE]
      [] edit = "unpin" -> [r EXCEPT !.pinned = FALSE]
      [] edit = "touch" -> [r EXCEPT !.touched = epoch]
      [] edit = "supersede" -> [r EXCEPT !.contra = "superseded"]
      [] edit = "conflict" -> [r EXCEPT !.contra = "conflicted"]

NoCopies == [i \in Items |-> NoRow]

MemInit ==
    /\ rows = NoCopies
    /\ jobs = [i \in Items |-> "none"]
    /\ vectors = {} /\ rollups = {} /\ links = {}
    /\ at = [t \in Threads |-> "idle"]
    /\ todo = [t \in Threads |-> {}]
    /\ copy = [t \in Threads |-> NoCopies]
    /\ doing = [t \in Threads |-> "none"]
    /\ begun = 0 /\ epoch = 0
    /\ hits = [i \in Items |-> 0]
    /\ cut = {}

---------------------------------------------------------------------------
\* Thread t goes to a step, with what it still has to do.
Go(t, where, rest) ==
    /\ at' = [at EXCEPT ![t] = where]
    /\ todo' = [todo EXCEPT ![t] = rest]

Hold(t, i, r) == copy' = [copy EXCEPT ![t][i] = r]
DropAll(t) == copy' = [copy EXCEPT ![t] = NoCopies]
Does(t, what) == doing' = [doing EXCEPT ![t] = what]
Settles(t) == Does(t, IF at'[t] = "idle" THEN "none" ELSE doing[t])
Save(i, r) == rows' = [rows EXCEPT ![i] = r]

Begins(t) == t \in Writers /\ at[t] = "idle" /\ begun < Begun /\ begun' = begun + 1

\* A loop over todo goes on, or the operation is over.
Loop(t, step, i) ==
    LET rest == todo[t] \ {i}
    IN  Go(t, IF rest = {} THEN "idle" ELSE step, rest)

---------------------------------------------------------------------------
\* create_memory_item, with its own object until the end.
BeginCreate(t) ==
    /\ Begins(t)
    /\ \E i \in Items, tier \in {"transient", "developing"},
          contra \in {"none", "suspected"} :
          /\ ~Taken(i)
          /\ Hold(t, i, NewRow(tier, contra))
          /\ Go(t, "insert", {i})
    /\ UNCHANGED <<tableVars, doing, epoch, historyVars>>

Insert(t) ==
    /\ at[t] = "insert"
    /\ \E i \in todo[t] :
          \/ /\ Save(i, copy[t][i])
             /\ Go(t, "vector", {i})
             /\ UNCHANGED copy
          \/ /\ Go(t, "idle", {})       \* sqlite3.Error: None is returned
             /\ DropAll(t)
             /\ UNCHANGED rows
    /\ UNCHANGED <<jobs, vectors, rollups, links, doing, begun, epoch, historyVars>>

\* index_memory_item
Vector(t) ==
    /\ at[t] = "vector"
    /\ \E i \in todo[t] :
          \/ /\ vectors' = vectors \cup {i}
             /\ Hold(t, i, [copy[t][i] EXCEPT !.ref = TRUE])
             /\ Does(t, "indexed")
             /\ Go(t, "saveRef", {i})
          \/ /\ Does(t, "pending")
             /\ Go(t, "record", {i})
             /\ UNCHANGED <<vectors, copy>>
    /\ UNCHANGED <<rows, jobs, rollups, links, begun, epoch, historyVars>>

\* update_memory_item writes every field; a failure is only logged.
SaveRef(t) ==
    /\ at[t] = "saveRef"
    /\ \E i \in todo[t] :
          /\ Save(i, copy[t][i]) \/ UNCHANGED rows
          /\ Go(t, "record", {i})
    /\ UNCHANGED <<jobs, vectors, rollups, links, copy, doing, begun, epoch,
                   historyVars>>

\* record_index_job
Record(t) ==
    /\ at[t] = "record"
    /\ \E i \in todo[t] :
          /\ jobs' = [jobs EXCEPT ![i] = doing[t]]
          /\ Go(t, "idle", {})
    /\ Does(t, "none")
    /\ DropAll(t)
    /\ UNCHANGED <<rows, vectors, rollups, links, begun, epoch, historyVars>>

---------------------------------------------------------------------------
\* reinforce_outcome of the items that a turn or a cycle used.
BeginOutcome(t) ==
    /\ Begins(t)
    /\ \E ids \in SUBSET {i \in Items : Alive(i) /\ rows[i].contra = "none"} :
          ids # {} /\ Go(t, "hit", ids)
    /\ \E outcome \in {"success", "failure"} : Does(t, outcome)
    /\ UNCHANGED <<tableVars, copy, epoch, historyVars>>

\* The columns that reinforce_memory_item adds to.
Counted(r, outcome) ==
    [r EXCEPT !.count = @ + 1,
              !.success = @ + (IF outcome = "success" THEN 1 ELSE 0),
              !.failure = @ + (IF outcome = "failure" THEN 1 ELSE 0),
              !.touched = epoch]

Hit(t) ==
    /\ at[t] = "hit"
    /\ \E i \in todo[t] :
          /\ Save(i, Counted(rows[i], doing[t]))
          /\ hits' = [hits EXCEPT ![i] = @ + 1]
          /\ Hold(t, i, NewRow("transient", "none"))
          /\ Go(t, "reread", todo[t])
    /\ UNCHANGED <<jobs, vectors, rollups, links, doing, begun, epoch, cut>>

Reread(t) ==
    /\ at[t] = "reread"
    /\ \E i \in todo[t] :
          /\ IsRow(copy[t][i])
          /\ Hold(t, i, rows[i])
          /\ Go(t, "evaluate", todo[t])
    /\ UNCHANGED <<tableVars, doing, begun, epoch, historyVars>>

Evaluate(t) ==
    /\ at[t] = "evaluate"
    /\ \E i \in todo[t] :
          /\ IsRow(copy[t][i])
          /\ Save(i, Evaluated(copy[t][i]))
          /\ Hold(t, i, NoRow)
          /\ Loop(t, "hit", i)
    /\ Settles(t)
    /\ UNCHANGED <<jobs, vectors, rollups, links, begun, epoch, historyVars>>

---------------------------------------------------------------------------
\* One field of one item is set: get_memory_item, then update_memory_item.
BeginEdit(t) ==
    /\ Begins(t)
    /\ \E i \in Items, edit \in Edits :
          /\ IsRow(rows[i])
          /\ edit = "touch" => ~rows[i].archived
          /\ Hold(t, i, rows[i])
          /\ Does(t, edit)
          /\ Go(t, "write", {i})
    /\ UNCHANGED <<tableVars, epoch, historyVars>>

Write(t) ==
    /\ at[t] = "write"
    /\ \E i \in todo[t] :
          /\ Save(i, Edited(copy[t][i], doing[t]))
          /\ IF doing[t] = "supersede" THEN Go(t, "link", {i}) ELSE Go(t, "idle", {})
    /\ Settles(t)
    /\ DropAll(t)
    /\ UNCHANGED <<jobs, vectors, rollups, links, begun, epoch, historyVars>>

\* resolve_contradiction_supersede inserts its link last.
Link(t) ==
    /\ at[t] = "link"
    /\ \E older \in todo[t], newer \in Items :
          /\ newer # older /\ IsRow(rows[newer])
          /\ links' = links \cup {<<"supersedes", newer, older>>}
    /\ Go(t, "idle", {})
    /\ Does(t, "none")
    /\ UNCHANGED <<rows, jobs, vectors, rollups, copy, begun, epoch, historyVars>>

\* process_index_jobs
Due == {i \in Items : jobs[i] \in {"pending", "failed", "stale"}}

BeginIndexing(t) ==
    /\ Begins(t)
    /\ Due # {}
    /\ Go(t, "job", Due)
    /\ UNCHANGED <<tableVars, copy, doing, epoch, historyVars>>

\* A variant of JobVector that writes the result down whatever it is.
JobVectorAnyway(t) ==
    /\ at[t] = "job"
    /\ \E i \in todo[t] :
          /\ vectors' = vectors \cup {i} \/ UNCHANGED vectors
          /\ Hold(t, i, [rows[i] EXCEPT !.ref = TRUE])
          /\ Go(t, "jobSave", todo[t])
    /\ UNCHANGED <<rows, jobs, rollups, links, doing, begun, epoch, historyVars>>

\* The item is read, then embedded and added: two statements, the row's first.
JobVector(t) ==
    /\ at[t] = "job"
    /\ \E i \in todo[t] :
          \/ /\ vectors' = vectors \cup {i}
             /\ Hold(t, i, [rows[i] EXCEPT !.ref = TRUE])
             /\ Go(t, "jobSave", todo[t])
             /\ UNCHANGED jobs
          \/ /\ jobs' = [jobs EXCEPT ![i] = "failed"]
             /\ Loop(t, "job", i)
             /\ UNCHANGED <<vectors, copy>>
    /\ UNCHANGED <<rows, rollups, links, doing, begun, epoch, historyVars>>

JobSave(t) ==
    /\ at[t] = "jobSave"
    /\ \E i \in todo[t] :
          /\ IsRow(copy[t][i])
          /\ Save(i, copy[t][i])
          /\ Go(t, "jobRecord", todo[t])
    /\ UNCHANGED <<jobs, vectors, rollups, links, copy, doing, begun, epoch,
                   historyVars>>

JobRecord(t) ==
    /\ at[t] = "jobRecord"
    /\ \E i \in todo[t] :
          /\ IsRow(copy[t][i])
          /\ jobs' = [jobs EXCEPT ![i] = "indexed"]
          /\ Hold(t, i, NoRow)
          /\ Loop(t, "job", i)
    /\ UNCHANGED <<rows, vectors, rollups, links, doing, begun, epoch, historyVars>>

---------------------------------------------------------------------------
(***************************************************************************)
(* _run_once of the worker: consolidation, forgetting sweep, decay pass.   *)
(***************************************************************************)
Inputs == {i \in Items : Alive(i) /\ rows[i].kind = "fact" /\ rows[i].contra = "none"}

BeginRound ==
    /\ at[Worker] = "idle" /\ begun < Begun
    /\ begun' = begun + 1
    /\ IF Cardinality(Inputs) >= MinInputs /\ \E i \in Items : ~Taken(i)
       THEN \E i \in Items :
              /\ ~Taken(i)
              /\ copy' = [copy EXCEPT ![Worker] =
                    [j \in Items |-> IF j = i THEN RollupRow(Inputs)
                                     ELSE IF j \in Inputs THEN rows[j] ELSE NoRow]]
              /\ Go(Worker, "rollup", {i})
       ELSE Go(Worker, "sweepRead", {}) /\ UNCHANGED copy
    /\ UNCHANGED <<tableVars, doing, epoch, historyVars>>

HeldInputs == {j \in Items : IsRow(copy[Worker][j]) /\ j \notin todo[Worker]}

\* A variant of Rollup that leaves the row to the end.
RollupLater ==
    /\ at[Worker] = "rollup"
    /\ Go(Worker, "rollupRecord", todo[Worker])
    /\ UNCHANGED <<tableVars, copy, doing, begun, epoch, historyVars>>

\* The new item, which no index job is recorded for.
Rollup ==
    /\ at[Worker] = "rollup"
    /\ \E i \in todo[Worker] : Save(i, copy[Worker][i])
    /\ Go(Worker, "rollupRecord", todo[Worker])
    /\ UNCHANGED <<jobs, vectors, rollups, links, copy, doing, begun, epoch,
                   historyVars>>

RollupRecord ==
    /\ at[Worker] = "rollupRecord"
    /\ \E i \in todo[Worker] : rollups' = rollups \cup {<<i, HeldInputs>>}
    /\ Go(Worker, "rollupLinks", todo[Worker])
    /\ UNCHANGED <<rows, jobs, vectors, links, copy, doing, begun, epoch,
                   historyVars>>

\* A failed link is only logged: any of them may be missing.
RollupLinks ==
    /\ at[Worker] = "rollupLinks"
    /\ \E i \in todo[Worker], made \in SUBSET HeldInputs :
          links' = links \cup {<<"refines", i, j>> : j \in made}
    /\ Go(Worker, "sweepRead", {})
    /\ DropAll(Worker)
    /\ UNCHANGED <<rows, jobs, vectors, rollups, doing, begun, epoch, historyVars>>

\* run_forgetting_sweep; the items may have any priority.
Forgettable ==
    {i \in Items : /\ Alive(i)
                   /\ ~rows[i].pinned /\ ~rows[i].suppressed
                   /\ Old(rows[i]) /\ rows[i].count < 2}

SweepRead ==
    /\ at[Worker] = "sweepRead"
    /\ \E low \in SUBSET Forgettable :
          Go(Worker, IF low = {} THEN "decayRead" ELSE "sweep", low)
    /\ UNCHANGED <<tableVars, copy, doing, begun, epoch, historyVars>>

Sweep ==
    /\ at[Worker] = "sweep"
    /\ \E i \in todo[Worker] :
          /\ Save(i, [rows[i] EXCEPT !.suppressed = TRUE])
          /\ LET rest == todo[Worker] \ {i}
             IN  Go(Worker, IF rest = {} THEN "decayRead" ELSE "sweep", rest)
    /\ UNCHANGED <<jobs, vectors, rollups, links, copy, doing, begun, epoch,
                   historyVars>>

\* run_decay_pass reads all its items before it writes the first.
DecayRead ==
    /\ at[Worker] = "decayRead"
    /\ copy' = [copy EXCEPT ![Worker] = [i \in Items |->
                    IF Alive(i) THEN rows[i] ELSE NoRow]]
    /\ Go(Worker, IF \E i \in Items : Alive(i) THEN "decay" ELSE "idle",
          {i \in Items : Alive(i)})
    /\ UNCHANGED <<tableVars, doing, begun, epoch, historyVars>>

Decay ==
    /\ at[Worker] = "decay"
    /\ \E i \in todo[Worker], bucket \in {"live", "archive_candidate"} :
          /\ copy[Worker][i].pinned => bucket = "live"
          /\ Save(i, [copy[Worker][i] EXCEPT !.bucket = bucket])
          /\ Hold(Worker, i, NoRow)
          /\ Loop(Worker, "decay", i)
    /\ UNCHANGED <<jobs, vectors, rollups, links, doing, begun, epoch, historyVars>>

---------------------------------------------------------------------------
Age ==
    /\ epoch < Epochs
    /\ epoch' = epoch + 1
    /\ UNCHANGED <<tableVars, threadVars, begun, historyVars>>

\* The items whose makers hold them in no table yet.
InTheMaking(t) ==
    IF at[t] \in {"insert", "vector", "saveRef", "record"} THEN todo[t] ELSE {}

\* The process dies; the tables stay.
MemRestart ==
    /\ \E t \in Threads : at[t] # "idle"
    /\ cut' = cut \cup UNION {InTheMaking(t) : t \in Threads}
    /\ at' = [t \in Threads |-> "idle"]
    /\ todo' = [t \in Threads |-> {}]
    /\ copy' = [t \in Threads |-> NoCopies]
    /\ doing' = [t \in Threads |-> "none"]
    /\ UNCHANGED <<tableVars, begun, epoch, hits>>

WriterStep(t) ==
    \/ BeginCreate(t) \/ Insert(t) \/ Vector(t) \/ SaveRef(t) \/ Record(t)
    \/ BeginOutcome(t) \/ Hit(t) \/ Reread(t) \/ Evaluate(t)
    \/ BeginEdit(t) \/ Write(t) \/ Link(t)
    \/ BeginIndexing(t) \/ JobVector(t) \/ JobSave(t) \/ JobRecord(t)

Round ==
    \/ BeginRound \/ Rollup \/ RollupRecord \/ RollupLinks
    \/ SweepRead \/ Sweep \/ DecayRead \/ Decay

MemNext == (\E t \in Writers : WriterStep(t)) \/ Round \/ Age \/ MemRestart

MemSpec == MemInit /\ [][MemNext]_memVars

---------------------------------------------------------------------------
Steps == {"idle", "insert", "vector", "saveRef", "record", "hit", "reread",
          "evaluate", "write", "link", "job", "jobSave", "jobRecord", "rollup",
          "rollupRecord", "rollupLinks", "sweepRead", "sweep", "decayRead",
          "decay"}

Doings == Edits \cup {"none", "success", "failure", "indexed", "pending"}

\* Types, and a thread has something to do exactly inside a loop or an operation.
MemTypeOK ==
    /\ rows \in [Items -> Row \cup {NoRow}]
    /\ jobs \in [Items -> {"none", "pending", "failed", "stale", "indexed"}]
    /\ vectors \subseteq Items
    /\ at \in [Threads -> Steps]
    /\ todo \in [Threads -> SUBSET Items]
    /\ \A t \in Threads :
          todo[t] = {} <=> at[t] \in {"idle", "sweepRead", "decayRead"}
    /\ copy \in [Threads -> [Items -> Row \cup {NoRow}]]
    /\ doing \in [Threads -> Doings]
    /\ begun \in 0 .. Begun /\ epoch \in 0 .. Epochs
    /\ cut \subseteq Items

\* However many writers lay a whole row over one another, the counters that a
\* row holds were once the row's counters together: the total is the sum of
\* successes and failures, and no more than the item has been reinforced.  (A
\* reinforcement can be lost; none is invented.)
CountsAddUp ==
    \A i \in Items : IsRow(rows[i]) =>
        /\ rows[i].count = rows[i].success + rows[i].failure
        /\ rows[i].kind = "fact" => rows[i].count <= hits[i]

\* A stable item has earned it: the counters that carried it over the
\* thresholds are still in the row, whichever writer put the row there.
TierEarned ==
    \A i \in Items : IsRow(rows[i]) /\ rows[i].tier = "stable" =>
        rows[i].count >= StableCount /\ rows[i].success >= StableSuccess

\* What the vector engine lacks is found again: neither its row nor its job
\* says that it is indexed.
MissingIsFound ==
    \A i \in Items \ vectors :
        /\ jobs[i] # "indexed"
        /\ IsRow(rows[i]) => ~rows[i].ref

\* An item has a job from the moment its maker is done, unless a restart cut
\* the making short or it is the output of a consolidation.
JobKnown ==
    \A i \in Items :
        IsRow(rows[i]) /\ rows[i].kind = "fact" /\ jobs[i] = "none"
        => i \in cut \/ \E t \in Threads : i \in InTheMaking(t)

\* A link or a record of a consolidation never points to an output that was
\* not written, nor to itself, also after a restart in the middle.
LineageIsSound ==
    /\ \A l \in links : l[2] # l[3] /\ IsRow(rows[l[2]]) /\ IsRow(rows[l[3]])
    /\ \A l \in links : l[1] = "refines" =>
          \E c \in rollups : c[1] = l[2] /\ l[3] \in c[2]
    /\ \A c \in rollups : IsRow(rows[c[1]]) /\ c[1] \notin c[2]

\* Interleaved writers, retries and restarts leave rows that could have come
\* about one operation after the other (repository.update, reinforce_memory,
\* consolidate).
RowsAreEarned == MemTypeOK /\ CountsAddUp /\ TierEarned /\ LineageIsSound

\* The index worker can find what the vector engine lacks (index_jobs).
IndexIsRepairable == MissingIsFound /\ JobKnown

\* An archived item stays archived: no operation takes the mark back.
ArchiveHolds ==
    [][\A i \in Items : IsRow(rows[i]) /\ rows[i].archived => rows'[i].archived]_rows

=============================================================================
