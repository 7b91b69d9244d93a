--------------------------- MODULE TurnExecution ---------------------------
(***************************************************************************)
(* One chat turn, from the idempotency gate to its committed result:       *)
(* ChatTurnApplicationService.execute of aihub/turn/application.py over    *)
(* begin_or_reuse_turn and complete_turn of aihub/turn/idempotency.py and  *)
(* the session lock of SessionLock.                                        *)
(*                                                                         *)
(* turn_executions has one row per idempotency key, and the row keeps the  *)
(* turn_id of its first attempt, so a key stands for its turn.  Requests   *)
(* with the same key are the retries of one turn; started_ts is            *)
(* represented by the attempt that wrote it and by the age of that attempt.*)
(***************************************************************************)
EXTENDS SessionLock

CONSTANTS
    Keys,           \* idempotency keys
    KeyOf,          \* the key each request carries
    StaleAfter,     \* running_stale_after_s, in time units
    AttemptBound    \* longest an attempt lasts, an assumption on its
                    \* environment; StaleAfter + 1 stands for "no bound"

ASSUME KeyOfAssumption == KeyOf \in [Requests -> Keys]
ASSUME StaleAssumption == StaleAfter \in Nat \ {0}
ASSUME AttemptBoundAssumption == AttemptBound \in 0 .. StaleAfter + 1

VARIABLES
    gate,       \* what begin_or_reuse_turn has decided for each request
    row,        \* the turn_executions row of each key
    outcome,    \* how the body of each attempt ended
    age         \* time since each attempt started, up to StaleAfter + 1

turnVars == <<gate, row, outcome, age>>
vars == <<lockVars, turnVars>>

Row(status, by, result) == [status |-> status, by |-> by, result |-> result]

\* Decisions that still have their UPDATE or INSERT to do.
Deciding == {"insert", "reclaim", "retry"}

\* The attempt is past the gate and its coroutine has not ended.
Live(r) == pc[r] \notin {"idle", "done"}

\* begin_or_reuse_turn does not await: while it stands between its SELECT and
\* its write, the event loop of its process is busy and _DB_LOCK is held.
LoopFree(p) == \A r \in Requests : ProcOf[r] = p => gate[r] \notin Deciding

StaleRow(k) == age[row[k].by] > StaleAfter

---------------------------------------------------------------------------
Init ==
    /\ LockInit
    /\ gate = [r \in Requests |-> "new"]
    /\ row = [k \in Keys |-> Row("absent", NoRequest, NoRequest)]
    /\ outcome = [r \in Requests |-> "none"]
    /\ age = [r \in Requests |-> 0]

\* The turn has a result to answer with.
Replayable(k) == row[k].status = "succeeded" /\ row[k].result # NoRequest

\* A variant of Decides that never lets a running turn go.
DecidesNoReclaim(k, d) ==
    \/ d = "insert" /\ row[k].status = "absent"
    \/ d = "reuse" /\ Replayable(k)
    \/ d = "conflict" /\ row[k].status = "running"
    \/ d = "retry" /\ row[k].status \notin {"absent", "running"} /\ ~Replayable(k)

\* A variant that does not look for an attempt already running.
DecidesNoConflict(k, d) ==
    \/ d = "insert" /\ row[k].status = "absent"
    \/ d = "reuse" /\ Replayable(k)
    \/ d = "retry" /\ row[k].status # "absent" /\ ~Replayable(k)

\* A variant that answers from any turn that has ended.
DecidesReuseEnded(k, d) ==
    \/ d = "insert" /\ row[k].status = "absent"
    \/ d = "reuse" /\ row[k].status \in {"succeeded", "failed"}
    \/ d = "conflict" /\ row[k].status = "running" /\ ~StaleRow(k)
    \/ d = "reclaim" /\ row[k].status = "running" /\ StaleRow(k)

\* The decision d that the SELECT of begin_or_reuse_turn leads to.
Decides(k, d) ==
    \/ d = "insert" /\ row[k].status = "absent"
    \/ d = "reuse" /\ Replayable(k)
    \/ d = "conflict" /\ row[k].status = "running" /\ ~StaleRow(k)
    \/ d = "reclaim" /\ row[k].status = "running" /\ StaleRow(k)
    \/ d = "retry" /\ row[k].status \notin {"absent", "running"} /\ ~Replayable(k)

GateRead(r) ==
    /\ gate[r] = "new"
    /\ LoopFree(ProcOf[r])
    /\ \E d \in {"insert", "reuse", "conflict", "reclaim", "retry"} :
          /\ Decides(KeyOf[r], d)
          /\ gate' = [gate EXCEPT ![r] = d]
    /\ UNCHANGED <<row, outcome, age, lockVars>>

StartAttempt(r) ==
    /\ row' = [row EXCEPT ![KeyOf[r]] = Row("running", r, row[KeyOf[r]].result)]
    /\ gate' = [gate EXCEPT ![r] = "through"]
    /\ Arrive(r)
    /\ UNCHANGED <<outcome, age>>

\* INSERT: the UNIQUE key refuses it when another process was first.
GateInsert(r) ==
    /\ gate[r] = "insert"
    /\ row[KeyOf[r]].status = "absent"
    /\ StartAttempt(r)

GateInsertFails(r) ==
    /\ gate[r] = "insert"
    /\ row[KeyOf[r]].status # "absent"
    /\ gate' = [gate EXCEPT ![r] = "error"]
    /\ UNCHANGED <<row, outcome, age, lockVars>>

\* UPDATE ... WHERE turn_id=?: whatever the row has become since the SELECT.
GateUpdate(r) ==
    /\ gate[r] \in {"reclaim", "retry"}
    /\ StartAttempt(r)

\* complete_turn: UPDATE ... WHERE turn_id=?, whoever runs the turn by now.
Committed(k, r) == [row EXCEPT ![k] = Row("succeeded", row[k].by, r)]
Failed(k) == [row EXCEPT ![k] = Row("failed", row[k].by, NoRequest)]

\* Lock steps that touch nothing of the turn.
Wait(r) ==
    /\ \/ LocalAcquire(r)
       \/ PollAcquire(r)
       \/ PollTimeout(r)
       \/ Enter(r)
       \/ ReleaseRow(r)
    /\ LoopFree(ProcOf[r])
    /\ UNCHANGED turnVars

\* The lock was not obtained: except Exception completes the turn as failed.
LockTimedOut(r) ==
    /\ LoopFree(ProcOf[r])
    /\ AcquireFailed(r)
    /\ row' = Failed(KeyOf[r])
    /\ outcome' = [outcome EXCEPT ![r] = "failed"]
    /\ UNCHANGED <<gate, age>>

\* A variant of Succeed that returns without giving the lock row back.
SucceedUnreleased(r) ==
    /\ LoopFree(ProcOf[r])
    /\ pc[r] = "critical"
    /\ Unlock(r)
    /\ row' = Committed(KeyOf[r], r)
    /\ outcome' = [outcome EXCEPT ![r] = "ok"]
    /\ UNCHANGED <<thr, dbOwner, leaseLeft, waitLeft, gate, age>>

\* run_turn_core returns and complete_turn stores its result, still inside
\* the lock and without an await in between.
Succeed(r) ==
    /\ LoopFree(ProcOf[r])
    /\ Exit(r)
    /\ row' = Committed(KeyOf[r], r)
    /\ outcome' = [outcome EXCEPT ![r] = "ok"]
    /\ UNCHANGED <<gate, age>>

\* run_turn_core raises, or is cancelled: the lock is given back first.
Break(r) ==
    /\ LoopFree(ProcOf[r])
    /\ Exit(r)
    /\ \E o \in {"failed", "cancelled"} : outcome' = [outcome EXCEPT ![r] = o]
    /\ UNCHANGED <<gate, row, age>>

\* A variant of Finish that completes the turn as failed on every way out.
FinishFailed(r) ==
    /\ LoopFree(ProcOf[r])
    /\ Leave(r)
    /\ row' = Failed(KeyOf[r])
    /\ UNCHANGED <<gate, outcome, age>>

\* The lock is given back.  An exception is then turned into a failed row; a
\* CancelledError is not an Exception and leaves the row as it is.
Finish(r) ==
    /\ LoopFree(ProcOf[r])
    /\ Leave(r)
    /\ row' = IF outcome[r] = "failed" THEN Failed(KeyOf[r]) ELSE row
    /\ UNCHANGED <<gate, outcome, age>>

\* The client of the event stream disconnects while the attempt waits.
Cancel(r) ==
    /\ LoopFree(ProcOf[r])
    /\ LockCancel(r)
    /\ outcome' = [outcome EXCEPT ![r] = IF @ = "ok" THEN "ok" ELSE "cancelled"]
    /\ UNCHANGED <<gate, row, age>>

\* The process dies and is started again.
Crash(p) ==
    /\ LockCrash(p)
    /\ gate' = [r \in Requests |->
                   IF ProcOf[r] = p /\ gate[r] \in Deciding THEN "dead" ELSE gate[r]]
    /\ UNCHANGED <<row, outcome, age>>

\* A variant of Tick whose ages are not capped.
TickUncapped ==
    /\ LockTick
    /\ age' = [r \in Requests |-> IF pc[r] # "idle" THEN age[r] + 1 ELSE age[r]]
    /\ UNCHANGED <<gate, row, outcome>>

\* Time passes, for every attempt that has started.
Tick ==
    /\ \A r \in Requests :
          Live(r) => age[r] < AttemptBound \/ AttemptBound = StaleAfter + 1
    /\ LockTick
    /\ age' = [r \in Requests |->
                  IF pc[r] # "idle" /\ age[r] <= StaleAfter THEN age[r] + 1 ELSE age[r]]
    /\ UNCHANGED <<gate, row, outcome>>

TurnStep(r) ==
    \/ GateInsert(r) \/ GateInsertFails(r) \/ GateUpdate(r)
    \/ Wait(r) \/ LockTimedOut(r)
    \/ Succeed(r) \/ Break(r) \/ Finish(r)

Next ==
    \/ \E r \in Requests : GateRead(r) \/ TurnStep(r) \/ Cancel(r)
    \/ \E p \in Procs : Crash(p)
    \/ Tick

Spec == Init /\ [][Next]_vars
FairSpec == Spec /\ WF_vars(Tick) /\ \A r \in Requests : WF_vars(TurnStep(r))

---------------------------------------------------------------------------
TypeOK ==
    /\ LockTypeOK
    /\ gate \in [Requests -> {"new", "insert", "reclaim", "retry", "through",
                              "reuse", "conflict", "error", "dead"}]
    /\ row \in [Keys -> [status : {"absent", "running", "succeeded", "failed"},
                         by : Requests \cup {NoRequest},
                         result : Requests \cup {NoRequest}]]
    /\ outcome \in [Requests -> {"none", "ok", "failed", "cancelled"}]
    /\ age \in [Requests -> 0 .. StaleAfter + 1]

\* The attempt may still run its turn or change its row.
InFlight(r) == Live(r) /\ outcome[r] # "ok"

\* A turn is run by one attempt at a time: the "conflict" answer of
\* begin_or_reuse_turn, through lock waits, cancellations and crashes.
SingleAttempt ==
    \A r, s \in Requests :
        InFlight(r) /\ InFlight(s) /\ KeyOf[r] = KeyOf[s] => r = s

\* A stored result is what every later retry is answered with: no attempt
\* replaces it or takes it away (14.07-runtime-full-rebuild.md, section 7).
CommittedIsFinal ==
    [][\A k \in Keys : row[k].result # NoRequest => row'[k] = row[k]]_vars

\* A replayed result is never invented: an attempt of this very turn got to
\* the end of run_turn_core and stored it.
ReplayIsEarned ==
    \A r \in Requests : gate[r] = "reuse" =>
        \E s \in Requests : KeyOf[s] = KeyOf[r] /\ outcome[s] = "ok"

\* The turn uses its session lock as SessionLock allows and no other way.
UsesLock == LockSpec

\* Each turn behaves like the ledger of TurnLedger: attempts one at a time
\* and a result that is stored once and stays.
Ledger == INSTANCE TurnLedger WITH
    running <- [k \in Keys |-> {r \in Requests : KeyOf[r] = k /\ InFlight(r)}],
    committed <- [k \in Keys |-> row[k].result]
KeepsLedger == Ledger!Spec

\* An attempt that is let through comes to an end.
EveryAttemptEnds ==
    \A r \in Requests : gate[r] = "through" ~> pc[r] = "done"

\* A turn abandoned by a crash or a disconnect does not answer "conflict" for
\* ever: sooner or later a retry is let through or answered.
NeverWedged ==
    \A k \in Keys : Decides(k, "conflict") ~> ~Decides(k, "conflict")
=============================================================================
