----------------------------- MODULE AgentTick -----------------------------
(***************************************************************************)
(* The background agent of one user: run_reactive_tick_cycle of            *)
(* aihub/agent_engine.py over the cursor and the task queue of             *)
(* aihub/agent_db.py.                                                      *)
(*                                                                         *)
(* A tick reads the cursor, pulls the short-term messages after it, hands  *)
(* each to the agent (which plans tasks), moves the cursor, then claims    *)
(* and runs queued tasks.  Ticks come from the worker thread of a process  *)
(* and from POST /agent/tick, so two may run at once.  exec_one, fetch_one *)
(* and fetch_all are one transaction each, and each is one step.           *)
(*                                                                         *)
(* A message is its timestamp.  Which queued task a claim selects (priority*)
(* and age) and what a task does are left out.                             *)
(***************************************************************************)
EXTENDS Naturals, FiniteSets

CONSTANTS
    Ticks,          \* what may run a tick: worker threads and HTTP calls
    Writers,        \* threads that add short-term messages
    StampBound,     \* bound on the number of messages
    TaskBound,      \* bound on the number of tasks
    MaxTasks,       \* max_tasks, claimed by one tick
    MaxStm,         \* max_stm, messages pulled by one tick
    StmKeep,        \* STM_MAX_MESSAGES
    Threshold,      \* ATTENTION_THRESHOLD
    FaultBound      \* bound on the number of crashes and raised errors

ASSUME BoundsAssumption ==
    /\ StampBound \in Nat /\ TaskBound \in Nat /\ FaultBound \in Nat
    /\ MaxTasks \in Nat \ {0} /\ MaxStm \in Nat \ {0}
    /\ StmKeep \in Nat \ {0} /\ Threshold \in Nat \ {0}

Stamps == 1 .. StampBound
Tasks == 1 .. TaskBound

VARIABLES
    clock,      \* how many timestamps now_ts() has given to messages
    stamp,      \* the message each writer has a timestamp for
    wpc,        \* where each writer is in add_stm
    stm,        \* the messages in stm_messages
    enabled,    \* agent_state.enabled
    cursor,     \* agent_state.last_stm_ts
    status,     \* agent_tasks.status of each task, or "absent"
    pc,         \* where each tick is
    since,      \* the cursor as it read it
    todo,       \* the messages of its batch still to be handled
    last,       \* the message at the end of its batch
    left,       \* how many more tasks it may claim
    task,       \* the task it has selected
    handled,    \* how often each message was handled (counted up to 2)
    started,    \* how often each task was started (counted up to 2)
    overlapped, \* history: a tick has started while another was under way
    faults      \* crashes and errors so far

stmVars == <<clock, stamp, wpc, stm>>
stateVars == <<enabled, cursor>>
tickVars == <<pc, since, todo, last, left, task>>
seenVars == <<handled, started, overlapped>>
vars == <<stmVars, stateVars, status, tickVars, seenVars, faults>>

\* Only "none", "once" and "more than once" are told apart.
More(n) == IF n = 0 THEN 1 ELSE 2

Go(t, where) == pc' = [pc EXCEPT ![t] = where]

---------------------------------------------------------------------------
Init ==
    /\ clock = 0
    /\ stamp = [w \in Writers |-> 0]
    /\ wpc = [w \in Writers |-> "idle"]
    /\ stm = {}
    /\ enabled = TRUE
    /\ cursor = 0
    /\ status = [i \in Tasks |-> "absent"]
    /\ pc = [t \in Ticks |-> "idle"]
    /\ since = [t \in Ticks |-> 0]
    /\ todo = [t \in Ticks |-> {}]
    /\ last = [t \in Ticks |-> 0]
    /\ left = [t \in Ticks |-> 0]
    /\ task = [t \in Ticks |-> 0]
    /\ handled = [m \in Stamps |-> 0]
    /\ started = [i \in Tasks |-> 0]
    /\ overlapped = FALSE
    /\ faults = 0

\* insert_stm_message: now_ts() is called before exec_one waits for _DB_LOCK.
Stamp(w) ==
    /\ wpc[w] = "idle" /\ clock < StampBound
    /\ clock' = clock + 1
    /\ stamp' = [stamp EXCEPT ![w] = clock + 1]
    /\ wpc' = [wpc EXCEPT ![w] = "insert"]
    /\ UNCHANGED <<stm, stateVars, status, tickVars, seenVars, faults>>

Insert(w) ==
    /\ wpc[w] = "insert"
    /\ stm' = stm \cup {stamp[w]}
    /\ wpc' = [wpc EXCEPT ![w] = "prune"]
    /\ UNCHANGED <<clock, stamp, stateVars, status, tickVars, seenVars, faults>>

\* prune_stm keeps the newest messages.
Prune(w) ==
    /\ wpc[w] = "prune"
    /\ stm' = {m \in stm : Cardinality({k \in stm : k > m}) < StmKeep}
    /\ wpc' = [wpc EXCEPT ![w] = "idle"]
    /\ UNCHANGED <<clock, stamp, stateVars, status, tickVars, seenVars, faults>>

\* POST /agent/enable
SetEnabled ==
    /\ enabled' = ~enabled
    /\ UNCHANGED <<stmVars, cursor, status, tickVars, seenVars, faults>>

\* The next id of the table, as a queued task.
Queue(i) ==
    /\ i = 1 + Cardinality({k \in Tasks : status[k] # "absent"}) /\ i \in Tasks
    /\ status' = [status EXCEPT ![i] = "queued"]

\* POST /agent/enqueue
Enqueue ==
    /\ \E i \in Tasks : Queue(i)
    /\ UNCHANGED <<stmVars, stateVars, tickVars, seenVars, faults>>

\* get_agent_state; the tick of a disabled agent returns here.
ReadState(t) ==
    /\ pc[t] = "idle" /\ enabled
    /\ since' = [since EXCEPT ![t] = cursor]
    /\ Go(t, "pull")
    /\ overlapped' = (overlapped \/ \E u \in Ticks : pc[u] # "idle")
    /\ UNCHANGED <<stmVars, stateVars, status, todo, last, left, task, handled, started, faults>>

\* SELECT ... WHERE ts > ? ORDER BY ts ASC LIMIT ?
Fresh(s) == {m \in stm : m > s /\ Cardinality({k \in stm : s < k /\ k < m}) < MaxStm}

\* A tick that finds no message returns at once, tasks or no tasks.
PullNothing(t) ==
    /\ pc[t] = "pull" /\ Fresh(since[t]) = {}
    /\ Go(t, "idle")
    /\ UNCHANGED <<stmVars, stateVars, status, since, todo, last, left, task, seenVars, faults>>

\* The messages to handle, and the one at the end of the list: in the order of
\* their timestamps, or the best of a large batch in the order of their scores
\* (unless rank_messages raises).
Batch(fresh, batch, final) ==
    \/ batch = fresh /\ \A m \in fresh : m <= final
    \/ Cardinality(fresh) > Threshold /\ Cardinality(batch) = Threshold

Pull(t) ==
    /\ pc[t] = "pull"
    /\ \E batch \in SUBSET Fresh(since[t]) : \E final \in batch :
          /\ Batch(Fresh(since[t]), batch, final)
          /\ todo' = [todo EXCEPT ![t] = batch]
          /\ last' = [last EXCEPT ![t] = final]
    /\ Go(t, "handle")
    /\ UNCHANGED <<stmVars, stateVars, status, since, left, task, seenVars, faults>>

\* evolve and the facts for the next message.
Handle(t) ==
    /\ pc[t] \in {"handle", "plan"}
    /\ \E m \in todo[t] :
          /\ m = last[t] => todo[t] = {m}
          /\ todo' = [todo EXCEPT ![t] = @ \ {m}]
          /\ handled' = [handled EXCEPT ![m] = More(@)]
    /\ Go(t, "plan")
    /\ UNCHANGED <<stmVars, stateVars, status, since, last, left, task, started, overlapped, faults>>

\* One of the tasks that plan_from_text finds in the message.
Plan(t) ==
    /\ pc[t] = "plan"
    /\ \E i \in Tasks : Queue(i)
    /\ UNCHANGED <<stmVars, stateVars, tickVars, seenVars, faults>>

\* A variant of UpdateCursor that writes what the tick had read.
UpdateCursorStale(t) ==
    /\ pc[t] = "plan" /\ todo[t] = {}
    /\ cursor' = since[t]
    /\ left' = [left EXCEPT ![t] = MaxTasks]
    /\ Go(t, "claim")
    /\ UNCHANGED <<stmVars, enabled, status, since, todo, last, task, seenVars, faults>>

\* A variant of UpdateCursor that does not wait for the messages.
UpdateCursorEarly(t) ==
    /\ pc[t] = "plan" /\ cursor # last[t]
    /\ cursor' = last[t]
    /\ left' = [left EXCEPT ![t] = MaxTasks]
    /\ IF todo[t] = {} THEN Go(t, "claim") ELSE UNCHANGED pc
    /\ UNCHANGED <<stmVars, enabled, status, since, todo, last, task, seenVars, faults>>

\* update_cursor(user_id, new_msgs[-1]["ts"])
UpdateCursor(t) ==
    /\ pc[t] = "plan" /\ todo[t] = {}
    /\ cursor' = last[t]
    /\ left' = [left EXCEPT ![t] = MaxTasks]
    /\ Go(t, "claim")
    /\ UNCHANGED <<stmVars, enabled, status, since, todo, last, task, seenVars, faults>>

\* A variant of ClaimSelect that does not count the tasks of the tick.
ClaimSelectUnbounded(t) ==
    /\ pc[t] = "claim"
    /\ \E i \in Tasks :
          /\ status[i] = "queued"
          /\ task' = [task EXCEPT ![t] = i]
    /\ Go(t, "take")
    /\ UNCHANGED <<stmVars, stateVars, status, since, todo, last, left, seenVars, faults>>

\* The SELECT of claim_next_task.
ClaimSelect(t) ==
    /\ pc[t] = "claim" /\ left[t] > 0
    /\ \E i \in Tasks :
          /\ status[i] = "queued"
          /\ task' = [task EXCEPT ![t] = i]
    /\ Go(t, "take")
    /\ UNCHANGED <<stmVars, stateVars, status, since, todo, last, left, seenVars, faults>>

\* No task is queued, or the tick has run as many as it may.
EndTick(t) ==
    /\ pc[t] = "claim"
    /\ left[t] = 0 \/ \A i \in Tasks : status[i] # "queued"
    /\ Go(t, "idle")
    /\ UNCHANGED <<stmVars, stateVars, status, since, todo, last, left, task, seenVars, faults>>

\* UPDATE ... WHERE id=? AND status='queued'
ClaimUpdate(t) ==
    /\ pc[t] = "take"
    /\ status' = [status EXCEPT ![task[t]] = IF @ = "queued" THEN "running" ELSE @]
    /\ Go(t, "look")
    /\ UNCHANGED <<stmVars, stateVars, since, todo, last, left, task, seenVars, faults>>

\* A variant of ClaimRead that does not look at the status.
ClaimReadAny(t) ==
    /\ pc[t] = "look"
    /\ Go(t, "run")
    /\ started' = [started EXCEPT ![task[t]] = More(@)]
    /\ UNCHANGED <<stmVars, stateVars, status, since, todo, last, left, task, handled, overlapped, faults>>

\* The row is read again: a running one is taken for one's own.
ClaimRead(t) ==
    /\ pc[t] = "look"
    /\ \/ /\ status[task[t]] = "running"
          /\ Go(t, "run")
          /\ started' = [started EXCEPT ![task[t]] = More(@)]
       \/ /\ status[task[t]] # "running"
          /\ Go(t, "idle")
          /\ UNCHANGED started
    /\ UNCHANGED <<stmVars, stateVars, status, since, todo, last, left, task, handled, overlapped, faults>>

\* execute_task returns; complete_task(id, True) looks at nothing but the id.
Complete(t) ==
    /\ pc[t] = "run"
    /\ status' = [status EXCEPT ![task[t]] = "done"]
    /\ left' = [left EXCEPT ![t] = @ - 1]
    /\ Go(t, "claim")
    /\ UNCHANGED <<stmVars, stateVars, since, todo, last, task, seenVars, faults>>

Fault == faults < FaultBound /\ faults' = faults + 1

\* update_cursor raises: a warning, and the tick goes on.
CursorFails(t) ==
    /\ Fault
    /\ pc[t] = "plan" /\ todo[t] = {}
    /\ left' = [left EXCEPT ![t] = MaxTasks]
    /\ Go(t, "claim")
    /\ UNCHANGED <<stmVars, stateVars, status, since, todo, last, task, seenVars>>

\* A variant of TaskFails that gives the task back to the queue.
TaskRequeued(t) ==
    /\ Fault
    /\ pc[t] = "run"
    /\ status' = [status EXCEPT ![task[t]] = "queued"]
    /\ Go(t, "idle")
    /\ UNCHANGED <<stmVars, stateVars, since, todo, last, left, task, seenVars>>

\* Running or completing the task raises: complete_task(id, False), and break.
TaskFails(t) ==
    /\ Fault
    /\ pc[t] = "run"
    /\ status' = [status EXCEPT ![task[t]] = "failed"]
    /\ Go(t, "idle")
    /\ UNCHANGED <<stmVars, stateVars, since, todo, last, left, task, seenVars>>

\* The process dies, or another statement of the tick raises and ends it.
Crash(t) ==
    /\ Fault
    /\ pc[t] # "idle"
    /\ Go(t, "idle")
    /\ UNCHANGED <<stmVars, stateVars, status, since, todo, last, left, task, seenVars>>

TickStep(t) ==
    \/ ReadState(t) \/ PullNothing(t) \/ Pull(t) \/ Handle(t) \/ Plan(t)
    \/ UpdateCursor(t)
    \/ ClaimSelect(t) \/ EndTick(t) \/ ClaimUpdate(t) \/ ClaimRead(t) \/ Complete(t)

Next ==
    \/ \E w \in Writers : Stamp(w) \/ Insert(w) \/ Prune(w)
    \/ SetEnabled \/ Enqueue
    \/ \E t \in Ticks : TickStep(t) \/ CursorFails(t) \/ TaskFails(t) \/ Crash(t)

Spec == Init /\ [][Next]_vars

\* The worker loop ticks again and again, and a tick goes on.
FairSpec == Spec /\ \A t \in Ticks : WF_vars(TickStep(t))

---------------------------------------------------------------------------
TypeOK ==
    /\ clock \in 0 .. StampBound
    /\ stamp \in [Writers -> 0 .. StampBound]
    /\ wpc \in [Writers -> {"idle", "insert", "prune"}]
    /\ stm \subseteq Stamps
    /\ enabled \in BOOLEAN
    /\ cursor \in 0 .. StampBound
    /\ status \in [Tasks -> {"absent", "queued", "running", "done", "failed"}]
    /\ pc \in [Ticks -> {"idle", "pull", "handle", "plan", "claim", "take", "look", "run"}]
    /\ since \in [Ticks -> 0 .. StampBound]
    /\ todo \in [Ticks -> SUBSET Stamps]
    /\ last \in [Ticks -> 0 .. StampBound]
    /\ left \in [Ticks -> 0 .. MaxTasks]
    /\ task \in [Ticks -> 0 .. TaskBound]
    /\ handled \in [Stamps -> 0 .. 2]
    /\ started \in [Tasks -> 0 .. 2]
    /\ overlapped \in BOOLEAN
    /\ faults \in 0 .. FaultBound

\* The cursor never passes a message that the agent has not handled, with
\* ticks that overlap, crash or write an older cursor back (it holds with one
\* writer and batches that are not cut: both can leave a message behind).
NothingSkipped ==
    \A m \in stm : m <= cursor => handled[m] > 0

\* Ticks that neither overlap nor fail handle a message once, while messages
\* come and are pruned between the pull and the write of the cursor.
HandledOnce == faults = 0 /\ ~overlapped => \A m \in Stamps : handled[m] <= 1

\* As long as ticks do not overlap a task is started once, whatever raises or
\* crashes between claim_next_task and complete_task.
TaskStartedOnce == ~overlapped => \A i \in Tasks : started[i] <= 1

\* "Atomowo wybiera ... zadanie": a claimed task is run by one tick
\* (agent_db.py, lines 206-207).
ClaimIsAtomic == \A i \in Tasks : started[i] <= 1

\* A task that is done or has failed is not started again, by a tick that had
\* selected it while it was queued.
NoLateStartStep ==
    \A i \in Tasks : status[i] \in {"done", "failed"} => started'[i] = started[i]
NoLateStart == [][NoLateStartStep]_vars

\* Every message is handled at last, or pruned, or the agent is disabled,
\* whatever crashes on the way.
EveryMessageHandled ==
    \A m \in Stamps :
        m \in stm ~> handled[m] > 0 \/ m \notin stm \/ ~enabled
=============================================================================
