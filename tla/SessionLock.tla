---------------------------- MODULE SessionLock ----------------------------
(***************************************************************************)
(* The per-session turn lock of aihub/turn/concurrency.py.                 *)
(*                                                                         *)
(* async_session_turn_lock takes two locks in a fixed order: the           *)
(* asyncio.Lock of the session, which lives in one worker process, and a   *)
(* database lock, taken and dropped by a thread of the process's pool      *)
(* (asyncio.to_thread).  With SQLite the database lock is a row with an    *)
(* owner and an expiry time; with PostgreSQL it is an advisory lock.       *)
(*                                                                         *)
(* One session is modelled: another session has another asyncio.Lock and   *)
(* another lock row.  A request is one HTTP call; its owner string         *)
(* (pid:thread:turn) is represented by the request itself.  Time is kept   *)
(* as what remains of each deadline, so no clock has to be capped.         *)
(***************************************************************************)
EXTENDS Naturals, FiniteSets

CONSTANTS
    Requests,       \* HTTP calls that run a turn in the session
    Procs,          \* worker processes (uvicorn --workers)
    ProcOf,         \* the process that serves each request
    Backend,        \* "sqlite" or "postgres" (DB_BACKEND)
    Lease,          \* lease_s, in time units
    LockTimeout,    \* timeout_s, in time units
    NoRequest       \* a value that is not a request

ASSUME RequestsAssumption == NoRequest \notin Requests
ASSUME ProcOfAssumption == ProcOf \in [Requests -> Procs]
ASSUME BackendAssumption == Backend \in {"sqlite", "postgres"}
ASSUME TimesAssumption == Lease \in Nat \ {0} /\ LockTimeout \in Nat \ {0}

VARIABLES
    pc,         \* where the coroutine of each request stands
    thr,        \* what the pool thread working for each request is doing
    holder,     \* holder of the session's asyncio.Lock in each process
    dbOwner,    \* owner of the row in turn_session_locks
    leaseLeft,  \* what remains of lease_s since each request got the lock
    waitLeft    \* what remains of each acquiring thread's deadline

lockVars == <<pc, thr, holder, dbOwner, leaseLeft, waitLeft>>

Sqlite == Backend = "sqlite"

\* The states in which the coroutine holds the asyncio.Lock of its process.
Holding == {"waitDb", "critical", "releaseDb"}

InCritical(r) == pc[r] = "critical"

\* A variant of RowFree in which a poll does not delete expired rows.
RowFreeIfAbsent == dbOwner \notin Requests

\* There is no row, or the DELETE that starts every poll removes it.
RowFree == dbOwner \notin {r \in Requests : leaseLeft[r] > 0}

---------------------------------------------------------------------------
LockInit ==
    /\ pc = [r \in Requests |-> "idle"]
    /\ thr = [r \in Requests |-> "none"]
    /\ holder = [p \in Procs |-> NoRequest]
    /\ dbOwner = NoRequest
    /\ leaseLeft = [r \in Requests |-> 0]
    /\ waitLeft = [r \in Requests |-> 0]

\* The coroutine reaches "async with _async_lock_for(key)".
Arrive(r) ==
    /\ pc[r] = "idle"
    /\ pc' = [pc EXCEPT ![r] = "waitLocal"]
    /\ UNCHANGED <<thr, holder, dbOwner, leaseLeft, waitLeft>>

\* A variant of LocalAcquire without the asyncio.Lock: only the row excludes.
LocalAcquireUnlocked(r) ==
    /\ pc[r] = "waitLocal"
    /\ holder' = [holder EXCEPT ![ProcOf[r]] = r]
    /\ pc' = [pc EXCEPT ![r] = "waitDb"]
    /\ thr' = [thr EXCEPT ![r] = "acquiring"]
    /\ waitLeft' = [waitLeft EXCEPT ![r] = LockTimeout]
    /\ UNCHANGED <<dbOwner, leaseLeft>>

\* It gets the asyncio.Lock and hands _acquire_db_lock to a pool thread.
LocalAcquire(r) ==
    /\ pc[r] = "waitLocal"
    /\ holder[ProcOf[r]] = NoRequest
    /\ holder' = [holder EXCEPT ![ProcOf[r]] = r]
    /\ pc' = [pc EXCEPT ![r] = "waitDb"]
    /\ thr' = [thr EXCEPT ![r] = "acquiring"]
    /\ waitLeft' = [waitLeft EXCEPT ![r] = LockTimeout]
    /\ UNCHANGED <<dbOwner, leaseLeft>>

\* A variant of PollAcquire that replaces whatever row there is.
PollAcquireOver(r) ==
    /\ thr[r] = "acquiring"
    /\ waitLeft[r] > 0
    /\ thr' = [thr EXCEPT ![r] = "acquired"]
    /\ dbOwner' = IF Sqlite THEN r ELSE dbOwner
    /\ leaseLeft' = [leaseLeft EXCEPT ![r] = Lease]
    /\ UNCHANGED <<pc, holder, waitLeft>>

\* A poll that succeeds.  SQLite: one transaction deletes the expired rows,
\* finds none for the session and inserts one.  PostgreSQL: the advisory
\* lock belongs to the connection, and the "with _conn()" block closes that
\* connection before the thread returns, so nothing stays locked (the lease
\* is then only a measure of time).
PollAcquire(r) ==
    /\ thr[r] = "acquiring"
    /\ waitLeft[r] > 0
    /\ Sqlite => RowFree
    /\ thr' = [thr EXCEPT ![r] = "acquired"]
    /\ dbOwner' = IF Sqlite THEN r ELSE dbOwner
    /\ leaseLeft' = [leaseLeft EXCEPT ![r] = Lease]
    /\ UNCHANGED <<pc, holder, waitLeft>>

\* A variant of PollTimeout that looks at the deadline only between rows.
PollTimeoutIfFree(r) ==
    /\ thr[r] = "acquiring"
    /\ waitLeft[r] = 0 /\ dbOwner = NoRequest
    /\ thr' = [thr EXCEPT ![r] = "timedOut"]
    /\ UNCHANGED <<pc, holder, dbOwner, leaseLeft, waitLeft>>

\* The polling loop reaches its deadline and raises TimeoutError.
PollTimeout(r) ==
    /\ thr[r] = "acquiring"
    /\ waitLeft[r] = 0
    /\ thr' = [thr EXCEPT ![r] = "timedOut"]
    /\ UNCHANGED <<pc, holder, dbOwner, leaseLeft, waitLeft>>

\* The coroutine resumes with the handle and enters the body.
Enter(r) ==
    /\ pc[r] = "waitDb" /\ thr[r] = "acquired"
    /\ pc' = [pc EXCEPT ![r] = "critical"]
    /\ thr' = [thr EXCEPT ![r] = "none"]
    /\ UNCHANGED <<holder, dbOwner, leaseLeft, waitLeft>>

\* The coroutine is done with the asyncio.Lock: the next waiter may have it.
Unlock(r) ==
    /\ pc' = [pc EXCEPT ![r] = "done"]
    /\ holder' = [holder EXCEPT ![ProcOf[r]] = NoRequest]

\* The TimeoutError of the thread reaches the coroutine.
AcquireFailed(r) ==
    /\ pc[r] = "waitDb" /\ thr[r] = "timedOut"
    /\ Unlock(r)
    /\ thr' = [thr EXCEPT ![r] = "none"]
    /\ UNCHANGED <<dbOwner, leaseLeft, waitLeft>>

\* The body ends, by return, by exception or by cancellation: the finally
\* clause hands _release_db_lock to a pool thread.
Exit(r) ==
    /\ pc[r] = "critical"
    /\ pc' = [pc EXCEPT ![r] = "releaseDb"]
    /\ thr' = [thr EXCEPT ![r] = "releasing"]
    /\ UNCHANGED <<holder, dbOwner, leaseLeft, waitLeft>>

\* A variant of ReleaseRow that deletes by key alone, whoever owns the row.
ReleaseAnyRow(r) ==
    /\ thr[r] = "releasing"
    /\ thr' = [thr EXCEPT ![r] = "released"]
    /\ dbOwner' = NoRequest
    /\ UNCHANGED <<pc, holder, leaseLeft, waitLeft>>

\* DELETE ... WHERE lock_key=? AND owner=?: only a row of one's own goes.
ReleaseRow(r) ==
    /\ thr[r] = "releasing"
    /\ thr' = [thr EXCEPT ![r] = "released"]
    /\ dbOwner' = IF dbOwner = r THEN NoRequest ELSE dbOwner
    /\ UNCHANGED <<pc, holder, leaseLeft, waitLeft>>

Leave(r) ==
    /\ pc[r] = "releaseDb" /\ thr[r] = "released"
    /\ Unlock(r)
    /\ thr' = [thr EXCEPT ![r] = "none"]
    /\ UNCHANGED <<dbOwner, leaseLeft, waitLeft>>

\* task.cancel() delivered at the await where the coroutine stands.  A pool
\* thread that has started cannot be cancelled and goes on without anybody
\* waiting for it; one still queued in the pool never starts.
CancelWaitLocal(r) ==
    /\ pc[r] = "waitLocal"
    /\ pc' = [pc EXCEPT ![r] = "done"]
    /\ UNCHANGED <<thr, holder, dbOwner, leaseLeft, waitLeft>>

CancelInThread(r) ==
    /\ pc[r] \in {"waitDb", "releaseDb"}
    /\ Unlock(r)
    /\ \/ thr' = thr
       \/ /\ thr[r] \in {"acquiring", "releasing"}
          /\ thr' = [thr EXCEPT ![r] = "none"]
    /\ UNCHANGED <<dbOwner, leaseLeft, waitLeft>>

\* The process dies with its coroutines, threads and asyncio locks, and is
\* started again; the lock row stays.
LockCrash(p) ==
    /\ pc' = [r \in Requests |->
                 IF ProcOf[r] = p /\ pc[r] # "idle" THEN "done" ELSE pc[r]]
    /\ thr' = [r \in Requests |-> IF ProcOf[r] = p THEN "none" ELSE thr[r]]
    /\ holder' = [holder EXCEPT ![p] = NoRequest]
    /\ UNCHANGED <<dbOwner, leaseLeft, waitLeft>>

\* A deadline that has passed stays passed.
Down(n) == IF n = 0 THEN 0 ELSE n - 1

\* One unit of time passes.
LockTick ==
    /\ leaseLeft' = [r \in Requests |-> Down(leaseLeft[r])]
    /\ waitLeft' = [r \in Requests |-> Down(waitLeft[r])]
    /\ UNCHANGED <<pc, thr, holder, dbOwner>>

\* What goes on by itself once a request has arrived.
LockStep(r) ==
    \/ LocalAcquire(r) \/ PollAcquire(r) \/ PollTimeout(r)
    \/ Enter(r) \/ AcquireFailed(r)
    \/ Exit(r) \/ ReleaseRow(r) \/ Leave(r)

LockCancel(r) == CancelWaitLocal(r) \/ CancelInThread(r)

LockNext ==
    \/ \E r \in Requests : Arrive(r) \/ LockStep(r) \/ LockCancel(r)
    \/ \E p \in Procs : LockCrash(p)
    \/ LockTick

LockSpec == LockInit /\ [][LockNext]_lockVars

\* Coroutines and threads are scheduled and time passes; a body ends.  No
\* client has to call, to disconnect or to crash anything.
LockFairSpec ==
    /\ LockSpec
    /\ WF_lockVars(LockTick)
    /\ \A r \in Requests : WF_lockVars(LockStep(r))

---------------------------------------------------------------------------
LockTypeOK ==
    /\ pc \in [Requests -> {"idle", "waitLocal", "waitDb", "critical",
                            "releaseDb", "done"}]
    /\ thr \in [Requests -> {"none", "acquiring", "acquired", "timedOut",
                             "releasing", "released"}]
    /\ holder \in [Procs -> Requests \cup {NoRequest}]
    /\ dbOwner \in Requests \cup {NoRequest}
    /\ leaseLeft \in [Requests -> Nat]
    /\ waitLeft \in [Requests -> Nat]

\* Two turns of a session never run at once in one process, whatever was
\* cancelled, timed out or expired before (the asyncio.Lock of _async_lock_for).
LocalExclusion ==
    \A r, s \in Requests :
        r # s /\ InCritical(r) /\ InCritical(s) => ProcOf[r] # ProcOf[s]

\* Two turns of a session run at once in the whole system only after one of
\* them has outlived lease_s: the promise of the database lock across
\* processes, with pool threads that go on after a cancellation.
LeaseExclusion ==
    \A r, s \in Requests :
        r # s /\ InCritical(r) /\ InCritical(s)
            => leaseLeft[r] = 0 \/ leaseLeft[s] = 0

\* A live lease ends by expiry or by its own owner: no other request's
\* release, late, cancelled or repeated, takes the row away.
LeaseKeptStep ==
    dbOwner # NoRequest /\ leaseLeft[dbOwner] > 0 /\ dbOwner' # dbOwner
        => dbOwner' = NoRequest /\ thr[dbOwner] = "releasing"

LeaseKept == [][LeaseKeptStep]_lockVars

\* Every call that reaches the lock gets out again, whatever else is
\* cancelled or crashes: an orphan row delays it until it times out.
EveryCallEnds ==
    \A r \in Requests : pc[r] = "waitLocal" ~> pc[r] = "done"

\* A row left behind by a crash or by a cancelled acquire, which nobody will
\* release, does not keep the session locked: a later poll finds it free.
OrphanExpires ==
    \A r \in Requests : (dbOwner = r /\ pc[r] = "done") ~> RowFree
=============================================================================
