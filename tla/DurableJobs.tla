---------------------------- MODULE DurableJobs ----------------------------
(***************************************************************************)
(* The durable job queue of aihub/durable_jobs.py.  A TurnCompleted job is *)
(* published once per turn; its handlers (memory, psyche, reflection) run  *)
(* in order, and each leaves a receipt.                                    *)
(*                                                                         *)
(* Two kinds of actors execute jobs.  A worker (run_once) claims the       *)
(* oldest claimable job under a lease.  An inline execution                *)
(* (execute_turn_completed_inline, called where a turn ends) takes no      *)
(* lease and knows its job.  Handler h is the h-th of TURN_HANDLERS.  Each *)
(* SQL transaction is one step; handlers run between transactions.         *)
(*                                                                         *)
(* A deadline (lease_until_ts, next_attempt_ts) is represented by whether  *)
(* it has passed, and passes at any moment.                                *)
(***************************************************************************)
EXTENDS Naturals

CONSTANTS
    Jobs,           \* one job per completed turn
    Workers,        \* callers of run_once
    Inliners,       \* callers of execute_turn_completed_inline
    HandlerCount,   \* Len(TURN_HANDLERS)
    MaxAttempts,    \* durable_jobs.max_attempts
    NoWorker        \* a NULL lease_owner

ASSUME JobsAssumption == Jobs # {}
ASSUME ActorsAssumption ==
    /\ NoWorker \notin Workers
    /\ Workers \cap Inliners = {}
ASSUME BoundsAssumption ==
    /\ HandlerCount \in Nat \ {0}
    /\ MaxAttempts \in Nat \ {0}

Actors == Workers \cup Inliners
Handlers == 1 .. HandlerCount

VARIABLES
    may,        \* what may happen to each job: that it is executed "inline",
                \* that a lease may "lapse" under its worker.  It never changes
    status,     \* durable_jobs.status, or "absent"
    attempts,   \* durable_jobs.attempts
    ahead,      \* the jobs with an earlier created_ts, for each job
    owner,      \* durable_jobs.lease_owner
    lapsed,     \* the running jobs whose lease_until_ts has passed
    resting,    \* the jobs whose next_attempt_ts is still to come
    receipt,    \* handlers with a completed receipt, for each job
    pc,         \* what each actor does next
    work,       \* the job it executes
    step,       \* the handler it has come to
    tries       \* job["attempts"], as the worker got it from _claim_one

rowVars == <<may, status, attempts, ahead, owner, lapsed, resting>>
actorVars == <<pc, work, step, tries>>
vars == <<rowVars, receipt, actorVars>>

Busy(a) == pc[a] # "idle"

---------------------------------------------------------------------------
Init ==
    /\ may \in [Jobs -> SUBSET {"inline", "lapse"}]
    /\ status = [j \in Jobs |-> "absent"]
    /\ attempts = [j \in Jobs |-> 0]
    /\ ahead = [j \in Jobs |-> {}]
    /\ owner = [j \in Jobs |-> NoWorker]
    /\ lapsed = {}
    /\ resting = {}
    /\ receipt = [j \in Jobs |-> {}]
    /\ pc = [a \in Actors |-> "idle"]
    /\ work = [a \in Actors |-> CHOOSE j \in Jobs : TRUE]
    /\ step = [a \in Actors |-> 1]
    /\ tries = [w \in Workers |-> 0]

\* INSERT ... ON CONFLICT(idempotency_key) DO NOTHING.
Insert(j) ==
    /\ \/ status[j] # "absent" /\ UNCHANGED <<status, ahead>>
       \/ /\ status[j] = "absent"
          /\ status' = [status EXCEPT ![j] = "pending"]
          /\ ahead' = [ahead EXCEPT ![j] = {i \in Jobs : status[i] # "absent"}]
    /\ UNCHANGED <<may, attempts, owner, lapsed, resting, receipt>>

Enqueue(j) ==
    /\ Insert(j)
    /\ UNCHANGED actorVars

\* The actor is about to look for the receipt of the job's first handler.
Start(a, j) ==
    /\ pc[a] = "idle"
    /\ pc' = [pc EXCEPT ![a] = "check"]
    /\ work' = [work EXCEPT ![a] = j]
    /\ step' = [step EXCEPT ![a] = 1]

Publish(i, j) ==
    /\ "inline" \in may[j]
    /\ Insert(j)
    /\ Start(i, j)
    /\ UNCHANGED tries

\* A variant of Claimable that also takes jobs whose lease is running.
ClaimableLeased(j) ==
    /\ attempts[j] < MaxAttempts
    /\ j \notin resting
    /\ status[j] \in {"pending", "retry", "running"}

\* A variant of Claimable without "attempts < max_attempts".
ClaimableAgain(j) ==
    /\ j \notin resting
    /\ status[j] \in {"pending", "retry"} \/ (status[j] = "running" /\ j \in lapsed)

\* A variant of Claimable that leaves jobs with an expired lease alone.
ClaimableFresh(j) ==
    /\ attempts[j] < MaxAttempts
    /\ j \notin resting
    /\ status[j] \in {"pending", "retry"}

\* The WHERE clause of _claim_one.
Claimable(j) ==
    /\ attempts[j] < MaxAttempts
    /\ j \notin resting
    /\ status[j] \in {"pending", "retry"} \/ (status[j] = "running" /\ j \in lapsed)

\* A variant of Claim that gives the worker the row as it was selected.
ClaimOldCount(w, j) ==
    /\ Claimable(j)
    /\ \A i \in ahead[j] : ~Claimable(i)
    /\ Start(w, j)
    /\ status' = [status EXCEPT ![j] = "running"]
    /\ owner' = [owner EXCEPT ![j] = w]
    /\ attempts' = [attempts EXCEPT ![j] = @ + 1]
    /\ tries' = [tries EXCEPT ![w] = attempts[j]]
    /\ lapsed' = lapsed \ {j}
    /\ UNCHANGED <<may, ahead, resting, receipt>>

\* SELECT ... ORDER BY created_ts LIMIT 1 and its UPDATE, in one transaction.
Claim(w, j) ==
    /\ Claimable(j)
    /\ \A i \in ahead[j] : ~Claimable(i)
    /\ Start(w, j)
    /\ status' = [status EXCEPT ![j] = "running"]
    /\ owner' = [owner EXCEPT ![j] = w]
    /\ attempts' = [attempts EXCEPT ![j] = @ + 1]
    /\ tries' = [tries EXCEPT ![w] = attempts[j] + 1]
    /\ lapsed' = lapsed \ {j}
    /\ UNCHANGED <<may, ahead, resting, receipt>>

\* The loop over TURN_HANDLERS goes on to the next name, or is over.
Advance(a) ==
    \/ /\ step[a] < HandlerCount
       /\ pc' = [pc EXCEPT ![a] = "check"]
       /\ step' = [step EXCEPT ![a] = @ + 1]
    \/ /\ step[a] = HandlerCount
       /\ pc' = [pc EXCEPT ![a] = "finish"]
       /\ UNCHANGED step

\* _receipt_done: a handler with a receipt is skipped.
Skip(a) ==
    /\ pc[a] = "check" /\ step[a] \in receipt[work[a]]
    /\ Advance(a)
    /\ UNCHANGED <<rowVars, receipt, work, tries>>

Check(a) ==
    /\ pc[a] = "check" /\ step[a] \notin receipt[work[a]]
    /\ pc' = [pc EXCEPT ![a] = "handle"]
    /\ UNCHANGED <<rowVars, receipt, work, step, tries>>

\* The handler returns; _save_receipt is still to come.
Handle(a) ==
    /\ pc[a] = "handle"
    /\ pc' = [pc EXCEPT ![a] = "save"]
    /\ UNCHANGED <<rowVars, receipt, work, step, tries>>

\* INSERT ... ON CONFLICT(job_id, handler) DO UPDATE.
Save(a) ==
    /\ pc[a] = "save"
    /\ receipt' = [receipt EXCEPT ![work[a]] = @ \cup {step[a]}]
    /\ Advance(a)
    /\ UNCHANGED <<rowVars, work, tries>>

\* A handler, a missing handler or a statement raises.  run_once has an
\* except clause; the inline execution lets the exception go to its caller.
Raise(a) ==
    /\ pc[a] \in {"check", "handle", "save", "finish"}
    /\ pc' = [pc EXCEPT ![a] = IF a \in Workers THEN "raised" ELSE "idle"]
    /\ UNCHANGED <<rowVars, receipt, work, step, tries>>

\* The row leaves the status "running" and its lease is cleared.
Close(j, s) ==
    /\ status' = [status EXCEPT ![j] = s]
    /\ owner' = [owner EXCEPT ![j] = NoWorker]
    /\ lapsed' = lapsed \ {j}

Return(a) ==
    /\ pc' = [pc EXCEPT ![a] = "idle"]
    /\ UNCHANGED <<may, attempts, ahead, receipt, work, step, tries>>

\* UPDATE ... WHERE id=? AND lease_owner=?: nothing if the lease was lost.
Finish(w) ==
    /\ w \in Workers /\ pc[w] = "finish"
    /\ \/ owner[work[w]] = w /\ Close(work[w], "completed")
       \/ owner[work[w]] # w /\ UNCHANGED <<status, owner, lapsed>>
    /\ Return(w)
    /\ UNCHANGED resting

\* UPDATE ... WHERE id=?, whoever holds the lease.
FinishInline(i) ==
    /\ i \in Inliners /\ pc[i] = "finish"
    /\ Close(work[i], "completed")
    /\ Return(i)
    /\ UNCHANGED resting

\* The status that the except clause of run_once writes.
AfterFailure(w) == IF tries[w] >= MaxAttempts THEN "failed" ELSE "retry"

\* A variant of Retry that does not look at lease_owner.
RetryUnowned(w) ==
    /\ w \in Workers /\ pc[w] = "raised"
    /\ Close(work[w], AfterFailure(w)) /\ resting' = resting \cup {work[w]}
    /\ Return(w)

\* UPDATE ... SET status=?, next_attempt_ts=? ... WHERE id=? AND lease_owner=?
Retry(w) ==
    /\ w \in Workers /\ pc[w] = "raised"
    /\ \/ /\ owner[work[w]] = w
          /\ Close(work[w], AfterFailure(w)) /\ resting' = resting \cup {work[w]}
       \/ /\ owner[work[w]] # w
          /\ UNCHANGED <<status, owner, lapsed, resting>>
    /\ Return(w)

\* The process dies, or the UPDATE of the except clause raises too.
Crash(a) ==
    /\ Busy(a)
    /\ Return(a)
    /\ UNCHANGED <<status, owner, lapsed, resting>>

\* lease_until_ts passes.
Lapse(j) ==
    /\ status[j] = "running" /\ j \notin lapsed
    /\ "lapse" \in may[j] \/ \A w \in Workers : ~(Busy(w) /\ work[w] = j)
    /\ lapsed' = lapsed \cup {j}
    /\ UNCHANGED <<may, status, attempts, ahead, owner, resting, receipt, actorVars>>

\* next_attempt_ts passes.
Wake(j) ==
    /\ j \in resting
    /\ resting' = resting \ {j}
    /\ UNCHANGED <<may, status, attempts, ahead, owner, lapsed, receipt, actorVars>>

\* What an actor does by itself once it has a job.
Execute(a) ==
    \/ Skip(a) \/ Check(a) \/ Handle(a) \/ Save(a)
    \/ Finish(a) \/ FinishInline(a) \/ Retry(a)

Next ==
    \/ \E j \in Jobs : Enqueue(j) \/ Lapse(j) \/ Wake(j)
    \/ \E i \in Inliners, j \in Jobs : Publish(i, j)
    \/ \E w \in Workers, j \in Jobs : Claim(w, j)
    \/ \E a \in Actors : Execute(a) \/ Raise(a) \/ Crash(a)

Spec == Init /\ [][Next]_vars

\* Workers poll for ever, actors that have a job go on, deadlines pass.
FairSpec ==
    /\ Spec
    /\ \A j \in Jobs : WF_vars(Lapse(j)) /\ WF_vars(Wake(j))
    /\ \A w \in Workers : WF_vars(\E j \in Jobs : Claim(w, j))
    /\ \A a \in Actors : WF_vars(Execute(a))

---------------------------------------------------------------------------
TypeOK ==
    /\ may \in [Jobs -> SUBSET {"inline", "lapse"}]
    /\ status \in [Jobs -> {"absent", "pending", "running", "retry",
                            "completed", "failed"}]
    /\ attempts \in [Jobs -> 0 .. MaxAttempts]
    /\ ahead \in [Jobs -> SUBSET Jobs]
    /\ owner \in [Jobs -> Workers \cup {NoWorker}]
    /\ lapsed \subseteq Jobs /\ resting \subseteq Jobs
    /\ receipt \in [Jobs -> SUBSET Handlers]
    /\ pc \in [Actors -> {"idle", "check", "handle", "save", "finish", "raised"}]
    /\ work \in [Actors -> Jobs]
    /\ step \in [Actors -> Handlers]
    /\ tries \in [Workers -> 0 .. MaxAttempts]

\* A job that waits for its first or for another attempt has one left: its
\* retries cannot run out behind its back and leave it waiting for ever.
WaitingHasAttempts ==
    \A j \in Jobs : status[j] \in {"pending", "retry"} => attempts[j] < MaxAttempts

\* A job whose workers keep their leases is executed by one worker at a time,
\* whatever crashes, fails or is completed inline.
OneWorkerPerJob ==
    \A v, w \in Workers :
        Busy(v) /\ Busy(w) /\ work[v] = work[w] /\ "lapse" \notin may[work[v]]
            => v = w

\* A handler that has its receipt is not run again, for a job whose workers
\* keep their leases and which is not executed inline (_receipt_done and
\* _save_receipt around each handler of run_once).
ReceiptStopsHandler ==
    \A a \in Actors :
        pc[a] = "handle" /\ may[work[a]] = {} =>
            step[a] \notin receipt[work[a]]

\* "A completed handler receipt is the idempotency boundary: redelivery,
\* process restart and an expired job lease do not repeat it."
\* (durable_jobs.py, lines 5-7)
ReceiptIsBoundary ==
    \A a \in Actors : pc[a] = "handle" => step[a] \notin receipt[work[a]]

\* Each job keeps the promise of JobPromise: receipts in handler order, and
\* "completed" once, for good and after all of them, with leases lost, jobs
\* retried, and workers and inline executions at the same job.
Phase(s) == IF s \in {"pending", "running", "retry"} THEN "open" ELSE s
Promise == INSTANCE JobPromise WITH phase <- [j \in Jobs |-> Phase(status[j])]
KeepsPromise == Promise!Spec

\* A job that was published is completed or given up, unless its last worker
\* died in the last attempt: then the row stays "running" and nobody takes it.
Stranded(j) == status[j] = "running" /\ attempts[j] = MaxAttempts /\ j \in lapsed
EveryJobEnds ==
    \A j \in Jobs : status[j] # "absent" ~>
                        status[j] \in {"completed", "failed"} \/ Stranded(j)
=============================================================================
