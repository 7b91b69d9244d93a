------------------------- MODULE TurnExecutionProofs -------------------------
(***************************************************************************)
(* Proofs about SessionLock and TurnExecution for any number of requests,  *)
(* processes and keys: first of the lock alone, then of the turns that     *)
(* take it, whose every step is a step of the lock or leaves it alone.     *)
(*                                                                         *)
(* Exactly-once holds on two conditions, named here: one process serves    *)
(* the session (the uvicorn --workers 1 of the deployment), and no attempt *)
(* outlasts running_stale_after_s.                                         *)
(***************************************************************************)
EXTENDS TurnExecution, TLAPS

(***************************************************************************)
(* The session lock                                                        *)
(***************************************************************************)
\* A coroutine between its asyncio acquire and release is the holder its
\* process knows.
HolderMatches == \A r \in Requests : pc[r] \in Holding => holder[ProcOf[r]] = r

\* A body runs without a pool thread of its own.
BodyHasNoThread == \A r \in Requests : InCritical(r) => thr[r] = "none"

\* The row belongs to whoever was granted it and is within its lease.
LeaseHeld ==
    \A r \in Requests :
        (InCritical(r) \/ thr[r] = "acquired") /\ leaseLeft[r] > 0 => dbOwner = r

LockIInv == LockTypeOK /\ HolderMatches /\ BodyHasNoThread /\ (Sqlite => LeaseHeld)

USE RequestsAssumption, ProcOfAssumption, TimesAssumption

\* Every variable of the lock keeps its type.
THEOREM LockTypeCorrect == LockSpec => []LockTypeOK
<1>1. LockInit => LockTypeOK
  BY DEF LockInit, LockTypeOK
<1>2. LockTypeOK /\ [LockNext]_lockVars => LockTypeOK'
  <2> SUFFICES ASSUME LockTypeOK, [LockNext]_lockVars PROVE LockTypeOK'
    OBVIOUS
  <2> USE DEF LockTypeOK
  <2>1. ASSUME NEW r \in Requests, Arrive(r) PROVE LockTypeOK'
    BY <2>1 DEF Arrive
  <2>2. ASSUME NEW r \in Requests, LocalAcquire(r) PROVE LockTypeOK'
    BY <2>2 DEF LocalAcquire
  <2>3. ASSUME NEW r \in Requests, PollAcquire(r) PROVE LockTypeOK'
    BY <2>3 DEF PollAcquire
  <2>4. ASSUME NEW r \in Requests, PollTimeout(r) PROVE LockTypeOK'
    BY <2>4 DEF PollTimeout
  <2>5. ASSUME NEW r \in Requests, Enter(r) PROVE LockTypeOK'
    BY <2>5 DEF Enter
  <2>6. ASSUME NEW r \in Requests, AcquireFailed(r) PROVE LockTypeOK'
    BY <2>6 DEF AcquireFailed, Unlock
  <2>7. ASSUME NEW r \in Requests, Exit(r) PROVE LockTypeOK'
    BY <2>7 DEF Exit
  <2>8. ASSUME NEW r \in Requests, ReleaseRow(r) PROVE LockTypeOK'
    BY <2>8 DEF ReleaseRow
  <2>9. ASSUME NEW r \in Requests, Leave(r) PROVE LockTypeOK'
    BY <2>9 DEF Leave, Unlock
  <2>10. ASSUME NEW r \in Requests, LockCancel(r) PROVE LockTypeOK'
    BY <2>10 DEF LockCancel, CancelWaitLocal, CancelInThread, Unlock
  <2>11. ASSUME NEW p \in Procs, LockCrash(p) PROVE LockTypeOK'
    BY <2>11 DEF LockCrash
  <2>12. CASE LockTick
    BY <2>12 DEF LockTick, Down
  <2>13. CASE UNCHANGED lockVars
    BY <2>13 DEF lockVars
  <2> QED
    BY <2>1, <2>2, <2>3, <2>4, <2>5, <2>6, <2>7, <2>8, <2>9, <2>10, <2>11,
       <2>12, <2>13 DEF LockNext, LockStep
<1> QED
  BY <1>1, <1>2, PTL DEF LockSpec

\* The inductive invariant behind both exclusion properties.
LEMMA LockInductive == LockSpec => []LockIInv
<1>1. LockInit => HolderMatches /\ BodyHasNoThread /\ LeaseHeld
  BY DEF LockInit, HolderMatches, BodyHasNoThread, LeaseHeld, InCritical, Holding
<1>2. LockTypeOK /\ HolderMatches /\ [LockNext]_lockVars => HolderMatches'
  <2> SUFFICES ASSUME LockTypeOK, HolderMatches, [LockNext]_lockVars
               PROVE HolderMatches'
    OBVIOUS
  <2> USE DEF LockTypeOK, HolderMatches, Holding
  <2>1. ASSUME NEW r \in Requests, Arrive(r) PROVE HolderMatches'
    BY <2>1 DEF Arrive
  <2>2. ASSUME NEW r \in Requests, LocalAcquire(r) PROVE HolderMatches'
    BY <2>2 DEF LocalAcquire
  <2>3. ASSUME NEW r \in Requests, Enter(r) \/ Exit(r) PROVE HolderMatches'
    BY <2>3 DEF Enter, Exit
  <2>4. ASSUME NEW r \in Requests, pc[r] \in Holding, Unlock(r) PROVE HolderMatches'
    BY <2>4 DEF Unlock
  <2>5. ASSUME NEW r \in Requests, CancelWaitLocal(r) PROVE HolderMatches'
    BY <2>5 DEF CancelWaitLocal
  <2>6. ASSUME NEW p \in Procs, LockCrash(p) PROVE HolderMatches'
    BY <2>6 DEF LockCrash
  <2>7. CASE UNCHANGED <<pc, holder>>
    BY <2>7
  <2> QED
    BY <2>1, <2>2, <2>3, <2>4, <2>5, <2>6, <2>7
    DEF LockNext, LockStep, LockCancel, PollAcquire, PollTimeout, AcquireFailed,
        ReleaseRow, Leave, CancelInThread, LockTick, lockVars
<1>3. LockTypeOK /\ BodyHasNoThread /\ [LockNext]_lockVars => BodyHasNoThread'
  <2> SUFFICES ASSUME LockTypeOK, BodyHasNoThread, [LockNext]_lockVars
               PROVE BodyHasNoThread'
    OBVIOUS
  <2> USE DEF LockTypeOK, BodyHasNoThread, InCritical
  <2>1. ASSUME NEW r \in Requests, Arrive(r) \/ LocalAcquire(r)
        PROVE BodyHasNoThread'
    BY <2>1 DEF Arrive, LocalAcquire
  <2>2. ASSUME NEW r \in Requests, PollAcquire(r) \/ PollTimeout(r) \/ ReleaseRow(r)
        PROVE BodyHasNoThread'
    BY <2>2 DEF PollAcquire, PollTimeout, ReleaseRow
  <2>3. ASSUME NEW r \in Requests, Enter(r) \/ Exit(r) PROVE BodyHasNoThread'
    BY <2>3 DEF Enter, Exit
  <2>4. ASSUME NEW r \in Requests, AcquireFailed(r) \/ Leave(r)
        PROVE BodyHasNoThread'
    BY <2>4 DEF AcquireFailed, Leave, Unlock
  <2>5. ASSUME NEW r \in Requests, LockCancel(r) PROVE BodyHasNoThread'
    BY <2>5 DEF LockCancel, CancelWaitLocal, CancelInThread, Unlock
  <2>6. ASSUME NEW p \in Procs, LockCrash(p) PROVE BodyHasNoThread'
    BY <2>6 DEF LockCrash
  <2>7. CASE UNCHANGED <<pc, thr>>
    BY <2>7
  <2> QED
    BY <2>1, <2>2, <2>3, <2>4, <2>5, <2>6, <2>7
    DEF LockNext, LockStep, LockTick, lockVars
<1>4. LockTypeOK /\ BodyHasNoThread /\ (Sqlite => LeaseHeld) /\ [LockNext]_lockVars
        => (Sqlite => LeaseHeld)'
  <2> SUFFICES ASSUME LockTypeOK, BodyHasNoThread, Sqlite, LeaseHeld,
                      [LockNext]_lockVars
               PROVE LeaseHeld'
    BY DEF Sqlite
  <2> USE DEF LockTypeOK, BodyHasNoThread, LeaseHeld, InCritical
  <2>1. ASSUME NEW r \in Requests, Arrive(r) \/ LocalAcquire(r) PROVE LeaseHeld'
    BY <2>1 DEF Arrive, LocalAcquire
  <2>2. ASSUME NEW r \in Requests, PollAcquire(r) PROVE LeaseHeld'
    BY <2>2 DEF PollAcquire, RowFree
  <2>3. ASSUME NEW r \in Requests, PollTimeout(r) \/ ReleaseRow(r) PROVE LeaseHeld'
    BY <2>3 DEF PollTimeout, ReleaseRow
  <2>4. ASSUME NEW r \in Requests, Enter(r) \/ Exit(r) PROVE LeaseHeld'
    BY <2>4 DEF Enter, Exit
  <2>5. ASSUME NEW r \in Requests, AcquireFailed(r) \/ Leave(r) PROVE LeaseHeld'
    BY <2>5 DEF AcquireFailed, Leave, Unlock
  <2>6. ASSUME NEW r \in Requests, LockCancel(r) PROVE LeaseHeld'
    BY <2>6 DEF LockCancel, CancelWaitLocal, CancelInThread, Unlock
  <2>7. ASSUME NEW p \in Procs, LockCrash(p) PROVE LeaseHeld'
    BY <2>7 DEF LockCrash
  <2>8. CASE LockTick
    BY <2>8 DEF LockTick, Down
  <2>9. CASE UNCHANGED lockVars
    BY <2>9 DEF lockVars
  <2> QED
    BY <2>1, <2>2, <2>3, <2>4, <2>5, <2>6, <2>7, <2>8, <2>9 DEF LockNext, LockStep
<1> QED
  BY <1>1, <1>2, <1>3, <1>4, LockTypeCorrect, PTL DEF LockSpec, LockIInv

\* In one process the bodies of two turns of a session never overlap.
THEOREM LocalExclusionHolds == LockSpec => []LocalExclusion
<1>1. LockIInv => LocalExclusion
  BY DEF LockIInv, HolderMatches, LocalExclusion, InCritical, Holding
<1> QED
  BY <1>1, LockInductive, PTL

\* With the SQLite lock row, bodies overlap in the system only after a lease
\* has run out.
THEOREM LeaseExclusionHolds ==
    ASSUME Sqlite PROVE LockSpec => []LeaseExclusion
<1>1. LockIInv => LeaseExclusion
  BY Sqlite DEF LockIInv, LockTypeOK, LeaseHeld, LeaseExclusion
<1> QED
  BY <1>1, LockInductive, PTL

\* Nobody but its owner ends a lease that has not run out.
THEOREM LeaseKeptHolds == LockSpec => LeaseKept
<1>1. LockTypeOK /\ [LockNext]_lockVars => [LeaseKeptStep]_lockVars
  <2> SUFFICES ASSUME LockTypeOK, LockNext, dbOwner # NoRequest,
                      leaseLeft[dbOwner] > 0, dbOwner' # dbOwner
               PROVE dbOwner' = NoRequest /\ thr[dbOwner] = "releasing"
    BY DEF LeaseKeptStep
  <2>1. ASSUME NEW r \in Requests, PollAcquire(r) PROVE FALSE
    BY <2>1 DEF PollAcquire, RowFree, LockTypeOK
  <2>2. ASSUME NEW r \in Requests, ReleaseRow(r)
        PROVE dbOwner' = NoRequest /\ thr[dbOwner] = "releasing"
    BY <2>2 DEF ReleaseRow
  <2> QED
    BY <2>1, <2>2
    DEF LockNext, LockStep, LockCancel, Arrive, LocalAcquire, PollTimeout, Enter,
        AcquireFailed, Exit, Leave, CancelWaitLocal, CancelInThread, LockCrash,
        LockTick
<1> QED
  BY <1>1, LockTypeCorrect, PTL DEF LockSpec, LeaseKept

---------------------------------------------------------------------------
(***************************************************************************)
(* Turns                                                                   *)
(***************************************************************************)
OneProcess == \A r, s \in Requests : ProcOf[r] = ProcOf[s]
AttemptsAreShort == AttemptBound <= StaleAfter

\* The row of a turn whose attempt is in flight says so.
RowOfFlight ==
    \A r \in Requests : InFlight(r) =>
        /\ row[KeyOf[r]].status = "running"
        /\ row[KeyOf[r]].by = r
        /\ age[r] <= AttemptBound

\* Only a succeeded turn has a result.
ResultIfSucceeded ==
    \A k \in Keys : row[k].result # NoRequest => row[k].status = "succeeded"

\* Between the SELECT and the write of the gate, nothing else happens.
GateAlone ==
    \A r \in Requests : gate[r] \in Deciding =>
        /\ row[KeyOf[r]].result = NoRequest
        /\ \A s \in Requests : gate[s] \in Deciding => s = r
        /\ \A s \in Requests : InFlight(s) => KeyOf[s] # KeyOf[r]

\* A request before its first lock step, and one after its success.
AttemptShape ==
    \A r \in Requests :
        /\ pc[r] = "idle" => age[r] = 0 /\ outcome[r] = "none"
        /\ outcome[r] = "ok" => pc[r] \in {"releaseDb", "done"}
        /\ gate[r] = "new" => pc[r] = "idle"

IInv == TypeOK /\ RowOfFlight /\ ResultIfSucceeded /\ GateAlone /\ AttemptShape

USE KeyOfAssumption, StaleAssumption, AttemptBoundAssumption

\* Every step of a turn is a step of the session lock or leaves it alone.
LEMMA StepUsesLock == [Next]_vars => [LockNext]_lockVars
<1> SUFFICES ASSUME [Next]_vars PROVE [LockNext]_lockVars
  OBVIOUS
<1>1. ASSUME NEW r \in Requests, GateRead(r) PROVE UNCHANGED lockVars
  BY <1>1 DEF GateRead
<1>2. ASSUME NEW r \in Requests, TurnStep(r) PROVE [LockNext]_lockVars
  BY <1>2 DEF TurnStep, GateInsert, GateInsertFails, GateUpdate, StartAttempt, Wait,
     LockTimedOut, Succeed, Break, Finish, LockNext, LockStep
<1>3. ASSUME NEW r \in Requests, Cancel(r) PROVE LockNext
  BY <1>3 DEF Cancel, LockNext
<1>4. ASSUME NEW p \in Procs, Crash(p) PROVE LockNext
  BY <1>4 DEF Crash, LockNext
<1>5. CASE Tick
  BY <1>5 DEF Tick, LockNext
<1>6. CASE UNCHANGED vars
  BY <1>6 DEF vars
<1> QED
  BY <1>1, <1>2, <1>3, <1>4, <1>5, <1>6 DEF Next

\* The turn pipeline implements the session lock, so the exclusion theorems
\* above hold of it.
THEOREM TurnUsesLock == Spec => UsesLock
<1>1. Init => LockInit
  BY DEF Init
<1> QED
  BY <1>1, StepUsesLock, PTL DEF Spec, UsesLock, LockSpec

\* Every variable of the turn pipeline keeps its type.
THEOREM TypeCorrect == Spec => []TypeOK
<1>1. Init => TypeOK
  BY DEF Init, TypeOK, LockInit, LockTypeOK, Row
<1>2. LockTypeOK' /\ TypeOK /\ [Next]_vars => TypeOK'
  <2> SUFFICES ASSUME LockTypeOK', TypeOK, [Next]_vars PROVE TypeOK'
    OBVIOUS
  <2> USE DEF TypeOK, turnVars
  <2>1. ASSUME NEW r \in Requests, GateRead(r) PROVE TypeOK'
    BY <2>1 DEF GateRead
  <2>2. ASSUME NEW r \in Requests, StartAttempt(r) PROVE TypeOK'
    BY <2>2 DEF StartAttempt, Row
  <2>12. ASSUME NEW r \in Requests, GateInsertFails(r) PROVE TypeOK'
    BY <2>12 DEF GateInsertFails
  <2>3. ASSUME NEW r \in Requests, Wait(r) PROVE TypeOK'
    BY <2>3 DEF Wait
  <2>4. ASSUME NEW r \in Requests, LockTimedOut(r) PROVE TypeOK'
    BY <2>4 DEF LockTimedOut, Failed, Row
  <2>5. ASSUME NEW r \in Requests, Succeed(r) PROVE TypeOK'
    BY <2>5 DEF Succeed, Committed, Row
  <2>6. ASSUME NEW r \in Requests, Break(r) PROVE TypeOK'
    BY <2>6 DEF Break
  <2>7. ASSUME NEW r \in Requests, Finish(r) PROVE TypeOK'
    BY <2>7 DEF Finish, Failed, Row
  <2>8. ASSUME NEW r \in Requests, Cancel(r) PROVE TypeOK'
    BY <2>8 DEF Cancel
  <2>9. ASSUME NEW p \in Procs, Crash(p) PROVE TypeOK'
    BY <2>9 DEF Crash
  <2>10. CASE Tick
    BY <2>10 DEF Tick
  <2>11. CASE UNCHANGED vars
    BY <2>11 DEF vars
  <2> QED
    BY <2>1, <2>2, <2>3, <2>4, <2>5, <2>6, <2>7, <2>8, <2>9, <2>10, <2>11,
       <2>12 DEF Next, TurnStep, GateInsert, GateUpdate
<1> QED
  BY <1>1, <1>2, TurnUsesLock, LockTypeCorrect, PTL DEF Spec, UsesLock

\* The invariant of exactly-once: while an attempt is in flight its row says
\* so and is not stale, so the gate answers "conflict".
LEMMA TurnInductive ==
    ASSUME OneProcess, AttemptsAreShort PROVE Spec => []IInv
<1> USE OneProcess, AttemptsAreShort DEF OneProcess, AttemptsAreShort
<1> DEFINE Core == RowOfFlight /\ ResultIfSucceeded /\ GateAlone /\ AttemptShape
<1>1. Init => Core
  BY DEF Init, LockInit, RowOfFlight, ResultIfSucceeded, GateAlone, AttemptShape,
     InFlight, Live, Deciding, Row
<1>2. TypeOK /\ Core /\ [Next]_vars => Core'
  <2> SUFFICES ASSUME TypeOK, Core, [Next]_vars PROVE Core'
    OBVIOUS
  <2> USE DEF TypeOK, LockTypeOK, RowOfFlight, ResultIfSucceeded, GateAlone,
              AttemptShape, InFlight, Live, Deciding
  <2>1. ASSUME NEW r \in Requests, GateRead(r) PROVE Core'
    <3>1. \A s \in Requests : gate[s] \notin Deciding
      BY <2>1 DEF GateRead, LoopFree
    <3>2. UNCHANGED <<pc, row, outcome, age>>
      BY <2>1 DEF GateRead, lockVars
    <3>3. RowOfFlight' /\ ResultIfSucceeded'
      BY <3>2
    <3>4. AttemptShape'
      BY <2>1, <3>2 DEF GateRead
    <3>5. ASSUME gate'[r] \in Deciding
          PROVE /\ row[KeyOf[r]].result = NoRequest
                /\ \A s \in Requests : InFlight(s) => KeyOf[s] # KeyOf[r]
      <4>1. PICK d \in Deciding : Decides(KeyOf[r], d)
        BY <2>1, <3>5 DEF GateRead
      <4>2. row[KeyOf[r]].result = NoRequest
        BY <4>1 DEF Decides, Replayable
      <4>3. ASSUME NEW s \in Requests, InFlight(s), KeyOf[s] = KeyOf[r] PROVE FALSE
        BY <4>1, <4>3 DEF Decides, StaleRow
      <4> QED
        BY <4>2, <4>3
    <3>6. GateAlone'
      BY <2>1, <3>1, <3>2, <3>5 DEF GateRead
    <3> QED
      BY <3>3, <3>4, <3>6
  <2>2. ASSUME NEW r \in Requests, gate[r] \in Deciding, StartAttempt(r) PROVE Core'
    <3> DEFINE k == KeyOf[r]
    <3>1. /\ row' = [row EXCEPT ![k] = Row("running", r, NoRequest)]
          /\ gate' = [gate EXCEPT ![r] = "through"]
          /\ pc[r] = "idle" /\ pc' = [pc EXCEPT ![r] = "waitLocal"]
          /\ UNCHANGED <<outcome, age>>
      BY <2>2 DEF StartAttempt, Arrive
    <3>2. RowOfFlight'
      BY <2>2, <3>1 DEF Row
    <3>3. ResultIfSucceeded'
      BY <3>1 DEF Row
    <3>4. GateAlone'
      BY <2>2, <3>1
    <3>5. AttemptShape'
      BY <3>1
    <3> QED
      BY <3>2, <3>3, <3>4, <3>5
  <2>3. ASSUME NEW r \in Requests, GateInsertFails(r) PROVE Core'
    BY <2>3 DEF GateInsertFails, lockVars
  <2>4. ASSUME NEW r \in Requests, Wait(r) PROVE Core'
    <3>1. UNCHANGED <<gate, row, outcome, age>>
      BY <2>4 DEF Wait, turnVars
    <3>2. \/ pc' = pc
          \/ pc[r] = "waitLocal" /\ pc' = [pc EXCEPT ![r] = "waitDb"]
          \/ pc[r] = "waitDb" /\ pc' = [pc EXCEPT ![r] = "critical"]
      BY <2>4 DEF Wait, LocalAcquire, PollAcquire, PollTimeout, Enter, ReleaseRow
    <3>3. \A s \in Requests : InFlight(s)' <=> InFlight(s)
      BY <3>1, <3>2
    <3>4. RowOfFlight' /\ ResultIfSucceeded' /\ GateAlone'
      BY <3>1, <3>3
    <3>5. AttemptShape'
      BY <3>1, <3>2
    <3> QED
      BY <3>4, <3>5
  <2>5. ASSUME NEW r \in Requests, LockTimedOut(r) PROVE Core'
    <3>1. /\ \A s \in Requests : gate[s] \notin Deciding
          /\ pc[r] = "waitDb" /\ pc' = [pc EXCEPT ![r] = "done"]
          /\ row' = Failed(KeyOf[r]) /\ UNCHANGED <<gate, age>>
          /\ outcome' = [outcome EXCEPT ![r] = "failed"]
      BY <2>5 DEF LockTimedOut, LoopFree, AcquireFailed, Unlock
    <3>2. InFlight(r)
      BY <3>1
    <3> QED
      BY <3>1, <3>2 DEF Failed, Row
  <2>6. ASSUME NEW r \in Requests, Succeed(r) PROVE Core'
    <3>1. /\ \A s \in Requests : gate[s] \notin Deciding
          /\ pc[r] = "critical" /\ pc' = [pc EXCEPT ![r] = "releaseDb"]
          /\ row' = Committed(KeyOf[r], r) /\ UNCHANGED <<gate, age>>
          /\ outcome' = [outcome EXCEPT ![r] = "ok"]
      BY <2>6 DEF Succeed, LoopFree, Exit
    <3>2. InFlight(r)
      BY <3>1
    <3> QED
      BY <3>1, <3>2 DEF Committed, Row
  <2>7. ASSUME NEW r \in Requests, Break(r) PROVE Core'
    <3>1. /\ pc[r] = "critical" /\ pc' = [pc EXCEPT ![r] = "releaseDb"]
          /\ UNCHANGED <<gate, row, age>>
      BY <2>7 DEF Break, Exit
    <3>2. PICK o \in {"failed", "cancelled"} : outcome' = [outcome EXCEPT ![r] = o]
      BY <2>7 DEF Break
    <3> QED
      BY <3>1, <3>2
  <2>8. ASSUME NEW r \in Requests, Finish(r) PROVE Core'
    <3>1. /\ \A s \in Requests : gate[s] \notin Deciding
          /\ pc[r] = "releaseDb" /\ pc' = [pc EXCEPT ![r] = "done"]
          /\ row' = IF outcome[r] = "failed" THEN Failed(KeyOf[r]) ELSE row
          /\ UNCHANGED <<gate, outcome, age>>
      BY <2>8 DEF Finish, LoopFree, Leave, Unlock
    <3>2. CASE outcome[r] = "failed"
      BY <3>1, <3>2 DEF Failed, Row
    <3>3. CASE outcome[r] # "failed"
      BY <3>1, <3>3
    <3> QED
      BY <3>2, <3>3
  <2>9. ASSUME NEW r \in Requests, Cancel(r) PROVE Core'
    <3>1. /\ pc[r] \in {"waitLocal", "waitDb", "releaseDb"}
          /\ pc' = [pc EXCEPT ![r] = "done"] /\ UNCHANGED <<gate, row, age>>
          /\ outcome' = [outcome EXCEPT ![r] = IF @ = "ok" THEN "ok" ELSE "cancelled"]
      BY <2>9 DEF Cancel, LockCancel, CancelWaitLocal, CancelInThread, Unlock
    <3> QED
      BY <3>1
  <2>10. ASSUME NEW p \in Procs, Crash(p) PROVE Core'
    <3>1. /\ pc' = [r \in Requests |->
                       IF ProcOf[r] = p /\ pc[r] # "idle" THEN "done" ELSE pc[r]]
          /\ gate' = [r \in Requests |->
                IF ProcOf[r] = p /\ gate[r] \in Deciding THEN "dead" ELSE gate[r]]
          /\ UNCHANGED <<row, outcome, age>>
      BY <2>10 DEF Crash, LockCrash
    <3>2. \A s \in Requests : InFlight(s)' => InFlight(s)
      BY <3>1
    <3>3. RowOfFlight' /\ ResultIfSucceeded' /\ GateAlone'
      BY <3>1, <3>2
    <3>4. AttemptShape'
      BY <3>1
    <3> QED
      BY <3>3, <3>4
  <2>11. CASE Tick
    <3>1. UNCHANGED <<pc, gate, row, outcome>>
      BY <2>11 DEF Tick, LockTick
    <3>2. \A r \in Requests : Live(r) => age[r] < AttemptBound
      BY <2>11 DEF Tick
    <3>3. \A r \in Requests :
             /\ pc[r] = "idle" => age'[r] = age[r]
             /\ age'[r] \in Nat /\ age'[r] <= age[r] + 1
      BY <2>11 DEF Tick
    <3>4. RowOfFlight'
      BY <3>1, <3>2, <3>3
    <3> QED
      BY <3>1, <3>3, <3>4
  <2>12. CASE UNCHANGED vars
    BY <2>12 DEF vars, lockVars, turnVars
  <2> QED
    BY <2>1, <2>2, <2>3, <2>4, <2>5, <2>6, <2>7, <2>8, <2>9, <2>10, <2>11, <2>12
    DEF Next, TurnStep, GateInsert, GateUpdate
<1> QED
  BY <1>1, <1>2, TypeCorrect, PTL DEF Spec, IInv

\* In one process, with attempts that end in time, a turn never has two
\* attempts in flight.
THEOREM SingleAttemptHolds ==
    ASSUME OneProcess, AttemptsAreShort PROVE Spec => []SingleAttempt
<1>1. IInv => SingleAttempt
  BY DEF IInv, RowOfFlight, SingleAttempt
<1> QED
  BY <1>1, TurnInductive, PTL

\* On the same conditions the turn pipeline implements TurnLedger: attempts
\* one at a time, and the first stored result is final.
THEOREM KeepsLedgerHolds ==
    ASSUME OneProcess, AttemptsAreShort PROVE Spec => KeepsLedger
<1> USE OneProcess, AttemptsAreShort DEF OneProcess, AttemptsAreShort
<1> DEFINE Attempts(k) == {r \in Requests : KeyOf[r] = k /\ InFlight(r)}
<1> DEFINE Running == [k \in Keys |-> Attempts(k)]
<1> DEFINE Results == [k \in Keys |-> row[k].result]
<1>1. Init => Ledger!Init
  BY DEF Init, LockInit, Ledger!Init, InFlight, Live, Row
<1>2. IInv /\ [Next]_vars => [Ledger!Next]_<<Running, Results>>
  <2> SUFFICES ASSUME IInv, Next PROVE Ledger!Next \/ UNCHANGED <<Running, Results>>
    <3>1. UNCHANGED vars => UNCHANGED <<Running, Results>>
      BY DEF vars, lockVars, turnVars, InFlight, Live
    <3> QED
      BY <3>1
  <2> USE DEF IInv, TypeOK, LockTypeOK
  <2>1. ASSUME UNCHANGED Results, \A s \in Requests : InFlight(s)' => InFlight(s)
        PROVE Ledger!GiveUp
    <3> DEFINE K == {k \in Keys : Attempts(k)' = {}}
    <3>1. \A k \in Keys : Attempts(k)' \in {{}, Attempts(k)}
      BY <2>1 DEF RowOfFlight
    <3>2. Running' = [k \in Keys |-> IF k \in K THEN {} ELSE Running[k]]
      BY <3>1
    <3> QED
      BY <2>1, <3>2 DEF Ledger!GiveUp
  <2>2. ASSUME NEW r \in Requests, gate[r] \in Deciding, StartAttempt(r)
        PROVE Ledger!Begin(KeyOf[r], r)
    <3> DEFINE k == KeyOf[r]
    <3>1. row[k].result = NoRequest /\ Attempts(k) = {}
      BY <2>2 DEF GateAlone
    <3>2. /\ row' = [row EXCEPT ![k] = Row("running", r, row[k].result)]
          /\ pc[r] = "idle" /\ pc' = [pc EXCEPT ![r] = "waitLocal"]
          /\ outcome' = outcome /\ outcome[r] = "none"
      BY <2>2 DEF StartAttempt, Arrive, AttemptShape
    <3>3. \A s \in Requests : InFlight(s)' <=> (s = r \/ InFlight(s))
      BY <3>2 DEF InFlight, Live
    <3>4. Running' = [Running EXCEPT ![k] = {r}]
      <4>1. Attempts(k)' = {r}
        BY <3>1, <3>3
      <4>2. \A l \in Keys : l # k => Attempts(l)' = Attempts(l)
        BY <3>3
      <4>3. \A l \in Keys : Attempts(l)' = IF l = k THEN {r} ELSE Running[l]
        BY <4>1, <4>2
      <4>4. Running' = [l \in Keys |-> IF l = k THEN {r} ELSE Running[l]]
        BY <4>3, Zenon
      <4> QED
        BY <4>4
    <3>5. Results' = Results
      BY <3>2 DEF Row
    <3> QED
      BY <3>1, <3>4, <3>5 DEF Ledger!Begin
  <2>3. ASSUME NEW r \in Requests, Succeed(r) PROVE Ledger!Commit(KeyOf[r], r)
    <3> DEFINE k == KeyOf[r]
    <3>1. /\ pc[r] = "critical" /\ pc' = [pc EXCEPT ![r] = "releaseDb"]
          /\ row' = [row EXCEPT ![k] = Row("succeeded", row[k].by, r)]
          /\ outcome' = [outcome EXCEPT ![r] = "ok"]
      BY <2>3 DEF Succeed, Exit, Committed
    <3>2. InFlight(r)
      BY <3>1 DEF InFlight, Live, AttemptShape
    <3>3. Attempts(k) = {r}
      BY <3>2 DEF RowOfFlight
    <3>4. \A s \in Requests : InFlight(s)' <=> (s # r /\ InFlight(s))
      BY <3>1 DEF InFlight, Live
    <3>5. Running' = [Running EXCEPT ![k] = {}]
      <4>1. Attempts(k)' = {}
        BY <3>3, <3>4
      <4>2. \A l \in Keys : l # k => Attempts(l)' = Attempts(l)
        BY <3>4
      <4>3. \A l \in Keys : Attempts(l)' = IF l = k THEN {} ELSE Running[l]
        BY <4>1, <4>2
      <4>4. Running' = [l \in Keys |-> IF l = k THEN {} ELSE Running[l]]
        BY <4>3, Zenon
      <4> QED
        BY <4>4
    <3>6. Results' = [Results EXCEPT ![k] = r]
      BY <3>1 DEF Row
    <3> QED
      BY <3>3, <3>5, <3>6 DEF Ledger!Commit
  <2>4. ASSUME NEW r \in Requests, LockTimedOut(r) \/ Finish(r)
        PROVE Ledger!GiveUp
    <3>1. /\ pc' = [pc EXCEPT ![r] = "done"]
          /\ row' = row \/ (row' = Failed(KeyOf[r]) /\ InFlight(r))
          /\ \A s \in Requests : s # r => outcome'[s] = outcome[s]
      BY <2>4 DEF LockTimedOut, AcquireFailed, Finish, Leave, Unlock, InFlight, Live,
                  AttemptShape
    <3>2. InFlight(r) => row[KeyOf[r]].result = NoRequest
      BY DEF RowOfFlight, ResultIfSucceeded
    <3>3. UNCHANGED Results
      <4>1. CASE row' = row
        BY <4>1
      <4>2. CASE row' = Failed(KeyOf[r]) /\ InFlight(r)
        <5>1. \A k \in Keys : row'[k].result = row[k].result
          BY <3>2, <4>2 DEF Failed, Row
        <5> QED
          BY <5>1, Zenon
      <4> QED
        BY <3>1, <4>1, <4>2
    <3>4. \A s \in Requests : InFlight(s)' => InFlight(s)
      BY <3>1 DEF InFlight, Live
    <3> QED
      BY <2>1, <3>3, <3>4
  <2>5. ASSUME NEW r \in Requests, Break(r) \/ Cancel(r) \/ Wait(r)
        PROVE Ledger!GiveUp
    <3>1. row' = row
      BY <2>5 DEF Break, Cancel, Wait, turnVars
    <3>2. \A s \in Requests : InFlight(s)' => InFlight(s)
      <4>1. CASE Break(r)
        BY <4>1 DEF Break, Exit, InFlight, Live, AttemptShape
      <4>2. CASE Cancel(r)
        BY <4>2 DEF Cancel, LockCancel, CancelWaitLocal, CancelInThread, Unlock,
                    InFlight, Live
      <4>3. CASE Wait(r)
        BY <4>3 DEF Wait, LocalAcquire, PollAcquire, PollTimeout, Enter, ReleaseRow,
                    InFlight, Live, turnVars
      <4> QED
        BY <2>5, <4>1, <4>2, <4>3
    <3> QED
      BY <2>1, <3>1, <3>2
  <2>6. ASSUME NEW p \in Procs, Crash(p) PROVE Ledger!GiveUp
    <3>1. \A s \in Requests : InFlight(s)' => InFlight(s)
      BY <2>6 DEF Crash, LockCrash, InFlight, Live
    <3>2. row' = row
      BY <2>6 DEF Crash
    <3> QED
      BY <2>1, <3>1, <3>2
  <2>7. ASSUME NEW r \in Requests, GateRead(r) \/ GateInsertFails(r)
        PROVE UNCHANGED <<Running, Results>>
    BY <2>7 DEF GateRead, GateInsertFails, lockVars, InFlight, Live
  <2>8. CASE Tick
    BY <2>8 DEF Tick, LockTick, InFlight, Live
  <2> QED
    BY <2>2, <2>3, <2>4, <2>5, <2>6, <2>7, <2>8
    DEF Next, TurnStep, GateInsert, GateUpdate, Ledger!Next, Deciding
<1> QED
  BY <1>1, <1>2, TurnInductive, PTL DEF Spec, KeepsLedger, Ledger!Spec, Ledger!ledgerVars

\* The rows that a step may change are of turns without a result: only an
\* attempt that the gate has let in, or that is in flight, writes one.
LEMMA StoredRowStays ==
    ASSUME IInv, [Next]_vars, NEW k \in Keys, row[k].result # NoRequest
    PROVE  row'[k] = row[k]
<1> USE DEF IInv, TypeOK, LockTypeOK
<1>1. ASSUME NEW r \in Requests, gate[r] \in Deciding, StartAttempt(r)
      PROVE  row'[k] = row[k]
  BY <1>1 DEF StartAttempt, GateAlone
<1>2. ASSUME NEW r \in Requests, InFlight(r),
             row' \in {Failed(KeyOf[r]), Committed(KeyOf[r], r)}
      PROVE  row'[k] = row[k]
  <2>1. KeyOf[r] # k
    BY <1>2 DEF RowOfFlight, ResultIfSucceeded
  <2> QED
    BY <1>2, <2>1 DEF Failed, Committed
<1>3. ASSUME NEW r \in Requests, LockTimedOut(r) \/ Succeed(r) PROVE row'[k] = row[k]
  <2>1. InFlight(r)
    BY <1>3 DEF LockTimedOut, AcquireFailed, Succeed, Exit, InFlight, Live, AttemptShape
  <2> QED
    BY <1>2, <1>3, <2>1 DEF LockTimedOut, Succeed
<1>4. ASSUME NEW r \in Requests, Finish(r) PROVE row'[k] = row[k]
  <2>1. CASE outcome[r] = "failed"
    <3>1. InFlight(r)
      BY <1>4, <2>1 DEF Finish, Leave, InFlight, Live
    <3> QED
      BY <1>2, <1>4, <2>1, <3>1 DEF Finish
  <2>2. CASE outcome[r] # "failed"
    BY <1>4, <2>2 DEF Finish
  <2> QED
    BY <2>1, <2>2
<1>5. ASSUME NEW r \in Requests,
             GateRead(r) \/ GateInsertFails(r) \/ Wait(r) \/ Break(r) \/ Cancel(r)
      PROVE  row'[k] = row[k]
  BY <1>5 DEF GateRead, GateInsertFails, Wait, turnVars, Break, Cancel
<1>6. CASE Tick \/ (\E p \in Procs : Crash(p)) \/ UNCHANGED vars
  BY <1>6 DEF Tick, Crash, vars, turnVars
<1> QED
  BY <1>1, <1>3, <1>4, <1>5, <1>6
  DEF Next, TurnStep, GateInsert, GateUpdate, Deciding

\* In one process, with attempts that end in time, a stored result is what
\* every later retry is answered with: what the document says of the gate.
THEOREM CommittedIsFinalHolds ==
    ASSUME OneProcess, AttemptsAreShort PROVE Spec => CommittedIsFinal
<1> DEFINE Final == \A k \in Keys : row[k].result # NoRequest => row'[k] = row[k]
<1>1. IInv /\ [Next]_vars => [Final]_vars
  BY StoredRowStays
<1> QED
  BY <1>1, TurnInductive, PTL DEF Spec, CommittedIsFinal

\* The turn succeeds once: of all attempts of a turn, retries and those that
\* reclaimed it, at most one ends well, so the effects of a turn that ended
\* well are not repeated (begin_or_reuse_turn, complete_turn).
SucceedsOnce ==
    \A r, s \in Requests :
        outcome[r] = "ok" /\ outcome[s] = "ok" /\ KeyOf[r] = KeyOf[s] => r = s

\* What makes it so: the result of an attempt that ended well is the stored one.
OkIsStored == \A r \in Requests : outcome[r] = "ok" => row[KeyOf[r]].result = r

\* On the conditions of exactly-once, a turn that has succeeded is not run
\* to success again.
THEOREM SucceedsOnceHolds ==
    ASSUME OneProcess, AttemptsAreShort PROVE Spec => []SucceedsOnce
<1>1. Init => OkIsStored
  BY DEF Init, OkIsStored
<1>2. IInv /\ OkIsStored /\ [Next]_vars => OkIsStored'
  <2> SUFFICES ASSUME IInv, OkIsStored, [Next]_vars, NEW s \in Requests, outcome'[s] = "ok"
               PROVE  row'[KeyOf[s]].result = s
    BY DEF OkIsStored
  <2>1. CASE outcome[s] = "ok"
    <3>1. row[KeyOf[s]].result = s /\ KeyOf[s] \in Keys
      BY <2>1 DEF OkIsStored
    <3> QED
      BY <3>1, StoredRowStays
  <2>2. CASE outcome[s] # "ok"
    <3> USE DEF IInv, TypeOK, LockTypeOK
    <3>1. PICK r \in Requests : Succeed(r)
      BY <2>2 DEF Next, TurnStep, GateRead, GateInsert, GateInsertFails, GateUpdate,
                  StartAttempt, Wait, turnVars, LockTimedOut, Break, Finish, Cancel,
                  Crash, Tick, vars
    <3>2. outcome' = [outcome EXCEPT ![r] = "ok"] /\ row' = Committed(KeyOf[r], r)
      BY <3>1 DEF Succeed
    <3>3. s = r
      BY <2>2, <3>2
    <3> QED
      BY <3>2, <3>3 DEF Committed, Row
  <2> QED
    BY <2>1, <2>2
<1>3. OkIsStored => SucceedsOnce
  BY DEF OkIsStored, SucceedsOnce
<1> QED
  BY <1>1, <1>2, <1>3, TurnInductive, PTL DEF Spec

\* The stored result of a turn is that of an attempt of this turn which ended
\* well, and an attempt that ended well does not run again.
ResultIsEarned ==
    \A k \in Keys : row[k].result # NoRequest =>
        KeyOf[row[k].result] = k /\ outcome[row[k].result] = "ok"
OkIsOver == \A r \in Requests : outcome[r] = "ok" => pc[r] \in {"releaseDb", "done"}
EarnedInv == ResultIsEarned /\ OkIsOver /\ ReplayIsEarned

\* What keeps EarnedInv: no attempt loses its good end, and a row gets no
\* result but that of an attempt with one.
LEMMA EarnedKept ==
    ASSUME TypeOK, EarnedInv, OkIsOver', UNCHANGED gate,
           \A r \in Requests : outcome[r] = "ok" => outcome'[r] = "ok",
           \A k \in Keys : row'[k].result \in {row[k].result, NoRequest}
    PROVE  EarnedInv'
<1> USE DEF EarnedInv, TypeOK
<1>1. ResultIsEarned'
  BY DEF ResultIsEarned
<1>2. ReplayIsEarned'
  BY DEF ReplayIsEarned
<1> QED
  BY <1>1, <1>2

\* With any number of processes and attempts of any length, a retry is
\* answered only with a result that an attempt of its turn has stored.
THEOREM ReplayIsEarnedHolds == Spec => []ReplayIsEarned
<1>1. Init => EarnedInv
  BY DEF Init, LockInit, EarnedInv, ResultIsEarned, OkIsOver, ReplayIsEarned, Row
<1>2. TypeOK /\ EarnedInv /\ [Next]_vars => EarnedInv'
  <2> SUFFICES ASSUME TypeOK, EarnedInv, [Next]_vars PROVE EarnedInv'
    OBVIOUS
  <2> USE DEF TypeOK, LockTypeOK
  <2>1. ASSUME NEW r \in Requests, GateRead(r) PROVE EarnedInv'
    <3>1. UNCHANGED <<pc, row, outcome>>
      BY <2>1 DEF GateRead, lockVars
    <3>2. gate'[r] = "reuse" => row[KeyOf[r]].result # NoRequest
      BY <2>1 DEF GateRead, Decides, Replayable
    <3>3. ReplayIsEarned'
      BY <2>1, <3>1, <3>2 DEF GateRead, EarnedInv, ResultIsEarned, ReplayIsEarned
    <3> QED
      BY <3>1, <3>3 DEF EarnedInv, ResultIsEarned, OkIsOver
  <2>2. ASSUME NEW r \in Requests, gate[r] \in Deciding, StartAttempt(r)
        PROVE EarnedInv'
    <3>1. /\ row' = [row EXCEPT ![KeyOf[r]] = Row("running", r, row[KeyOf[r]].result)]
          /\ gate' = [gate EXCEPT ![r] = "through"]
          /\ pc[r] = "idle" /\ pc' = [pc EXCEPT ![r] = "waitLocal"]
          /\ outcome' = outcome
      BY <2>2 DEF StartAttempt, Arrive
    <3>2. ResultIsEarned'
      BY <3>1 DEF EarnedInv, ResultIsEarned, Row
    <3>3. OkIsOver'
      BY <3>1 DEF EarnedInv, OkIsOver
    <3>4. ReplayIsEarned'
      BY <3>1 DEF EarnedInv, ReplayIsEarned
    <3> QED
      BY <3>2, <3>3, <3>4 DEF EarnedInv
  <2>3. ASSUME NEW r \in Requests, GateInsertFails(r) PROVE EarnedInv'
    BY <2>3 DEF GateInsertFails, lockVars, EarnedInv, ResultIsEarned, OkIsOver,
                ReplayIsEarned
  <2>4. ASSUME NEW r \in Requests, Wait(r) PROVE EarnedInv'
    <3>1. UNCHANGED <<gate, row, outcome>>
      BY <2>4 DEF Wait, turnVars
    <3>2. OkIsOver'
      BY <2>4, <3>1 DEF Wait, LocalAcquire, PollAcquire, PollTimeout, Enter,
                        ReleaseRow, EarnedInv, OkIsOver
    <3> QED
      BY <3>1, <3>2, EarnedKept
  <2>5. ASSUME NEW r \in Requests, LockTimedOut(r) \/ Finish(r) PROVE EarnedInv'
    <3>1. /\ pc' = [pc EXCEPT ![r] = "done"] /\ gate' = gate
          /\ row' = row \/ row' = Failed(KeyOf[r])
          /\ \/ outcome' = outcome
             \/ pc[r] = "waitDb" /\ outcome' = [outcome EXCEPT ![r] = "failed"]
      BY <2>5 DEF LockTimedOut, AcquireFailed, Finish, Leave, Unlock
    <3>2. \A k \in Keys : row'[k].result \in {row[k].result, NoRequest}
      BY <3>1 DEF Failed, Row
    <3>3. \A s \in Requests : outcome[s] = "ok" => outcome'[s] = "ok"
      BY <3>1 DEF EarnedInv, OkIsOver
    <3>4. OkIsOver'
      BY <3>1 DEF EarnedInv, OkIsOver
    <3> QED
      BY <3>1, <3>2, <3>3, <3>4, EarnedKept
  <2>6. ASSUME NEW r \in Requests, Succeed(r) PROVE EarnedInv'
    <3>1. /\ pc' = [pc EXCEPT ![r] = "releaseDb"] /\ gate' = gate
          /\ row' = [row EXCEPT ![KeyOf[r]] = Row("succeeded", row[KeyOf[r]].by, r)]
          /\ outcome' = [outcome EXCEPT ![r] = "ok"]
      BY <2>6 DEF Succeed, Exit, Committed
    <3>2. ResultIsEarned'
      BY <3>1 DEF EarnedInv, ResultIsEarned, Row
    <3>3. OkIsOver'
      BY <3>1 DEF EarnedInv, OkIsOver
    <3>4. ReplayIsEarned'
      BY <3>1 DEF EarnedInv, ReplayIsEarned
    <3> QED
      BY <3>2, <3>3, <3>4 DEF EarnedInv
  <2>7. ASSUME NEW r \in Requests, Break(r) PROVE EarnedInv'
    <3>1. /\ pc[r] = "critical" /\ pc' = [pc EXCEPT ![r] = "releaseDb"]
          /\ UNCHANGED <<gate, row>>
          /\ \A s \in Requests : s # r => outcome'[s] = outcome[s]
      BY <2>7 DEF Break, Exit
    <3>2. outcome[r] # "ok"
      BY <3>1 DEF EarnedInv, OkIsOver
    <3>3. OkIsOver'
      BY <3>1 DEF EarnedInv, OkIsOver
    <3> QED
      BY <3>1, <3>2, <3>3, EarnedKept
  <2>8. ASSUME NEW r \in Requests, Cancel(r) PROVE EarnedInv'
    <3>1. /\ pc' = [pc EXCEPT ![r] = "done"] /\ UNCHANGED <<gate, row>>
          /\ outcome' = [outcome EXCEPT ![r] = IF @ = "ok" THEN "ok" ELSE "cancelled"]
      BY <2>8 DEF Cancel, LockCancel, CancelWaitLocal, CancelInThread, Unlock
    <3>2. OkIsOver'
      BY <3>1 DEF EarnedInv, OkIsOver
    <3> QED
      BY <3>1, <3>2, EarnedKept
  <2>9. ASSUME NEW p \in Procs, Crash(p) PROVE EarnedInv'
    <3>1. UNCHANGED <<row, outcome>> /\ \A s \in Requests : gate'[s] = "reuse" => gate[s] = "reuse"
      BY <2>9 DEF Crash
    <3>2. OkIsOver'
      BY <2>9, <3>1 DEF Crash, LockCrash, EarnedInv, OkIsOver
    <3> QED
      BY <3>1, <3>2 DEF EarnedInv, ResultIsEarned, ReplayIsEarned
  <2>10. CASE Tick \/ UNCHANGED vars
    BY <2>10 DEF Tick, LockTick, vars, lockVars, turnVars, EarnedInv,
                 ResultIsEarned, OkIsOver, ReplayIsEarned
  <2> QED
    BY <2>1, <2>2, <2>3, <2>4, <2>5, <2>6, <2>7, <2>8, <2>9, <2>10
    DEF Next, TurnStep, GateInsert, GateUpdate, Deciding
<1>3. EarnedInv => ReplayIsEarned
  BY DEF EarnedInv
<1> QED
  BY <1>1, <1>2, <1>3, TypeCorrect, PTL DEF Spec
=============================================================================
