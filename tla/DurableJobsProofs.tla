------------------------- MODULE DurableJobsProofs -------------------------
(***************************************************************************)
(* Proofs about the job queue of DurableJobs, for any jobs, workers,       *)
(* inline executions, handlers and attempts.                               *)
(***************************************************************************)
EXTENDS DurableJobs, TLAPS

\* The type invariant: attempts never pass max_attempts, and every column and
\* every program counter keeps to its values.
THEOREM TypeCorrect == Spec => []TypeOK
<1>1. Init => TypeOK
  <2> SUFFICES ASSUME Init PROVE TypeOK
    OBVIOUS
  <2>1. \E i \in Jobs : i = CHOOSE j \in Jobs : TRUE
    BY JobsAssumption
  <2>2. work \in [Actors -> Jobs]
    BY <2>1 DEF Init
  <2>3. step \in [Actors -> Handlers]
    BY BoundsAssumption DEF Init, Handlers
  <2>4. attempts \in [Jobs -> 0 .. MaxAttempts] /\ tries \in [Workers -> 0 .. MaxAttempts]
    BY BoundsAssumption DEF Init
  <2>5. pc \in [Actors -> {"idle", "check", "handle", "save", "finish", "raised"}]
    BY DEF Init
  <2> QED
    BY <2>2, <2>3, <2>4, <2>5 DEF Init, TypeOK
<1>2. TypeOK /\ [Next]_vars => TypeOK'
  <2> SUFFICES ASSUME TypeOK, [Next]_vars PROVE TypeOK'
    OBVIOUS
  <2> USE BoundsAssumption
  <2>1. ASSUME NEW j \in Jobs, Enqueue(j) PROVE TypeOK'
    BY <2>1 DEF TypeOK, Enqueue, Insert, actorVars
  <2>2. ASSUME NEW j \in Jobs, Lapse(j) PROVE TypeOK'
    BY <2>2 DEF TypeOK, Lapse, actorVars
  <2>3. ASSUME NEW j \in Jobs, Wake(j) PROVE TypeOK'
    BY <2>3 DEF TypeOK, Wake, actorVars
  <2>4. ASSUME NEW i \in Inliners, NEW j \in Jobs, Publish(i, j) PROVE TypeOK'
    BY <2>4 DEF TypeOK, Publish, Insert, Start, Handlers, Actors
  <2>5. ASSUME NEW w \in Workers, NEW j \in Jobs, Claim(w, j) PROVE TypeOK'
    <3>1. attempts[j] + 1 \in 0 .. MaxAttempts
      BY <2>5 DEF TypeOK, Claim, Claimable
    <3> QED
      BY <2>5, <3>1 DEF TypeOK, Claim, Start, Handlers, Actors
  <2>6. ASSUME NEW a \in Actors, Skip(a) PROVE TypeOK'
    BY <2>6 DEF TypeOK, Skip, Advance, Handlers, rowVars
  <2>7. ASSUME NEW a \in Actors, Check(a) PROVE TypeOK'
    BY <2>7 DEF TypeOK, Check, rowVars
  <2>8. ASSUME NEW a \in Actors, Handle(a) PROVE TypeOK'
    BY <2>8 DEF TypeOK, Handle, rowVars
  <2>9. ASSUME NEW a \in Actors, Save(a) PROVE TypeOK'
    BY <2>9 DEF TypeOK, Save, Advance, Handlers, rowVars
  <2>10. ASSUME NEW a \in Actors, Finish(a) PROVE TypeOK'
    BY <2>10 DEF TypeOK, Finish, Close, Return
  <2>11. ASSUME NEW a \in Actors, FinishInline(a) PROVE TypeOK'
    BY <2>11 DEF TypeOK, FinishInline, Close, Return
  <2>12. ASSUME NEW a \in Actors, Retry(a) PROVE TypeOK'
    BY <2>12 DEF TypeOK, Retry, AfterFailure, Close, Return
  <2>13. ASSUME NEW a \in Actors, Raise(a) PROVE TypeOK'
    BY <2>13 DEF TypeOK, Raise, rowVars
  <2>14. ASSUME NEW a \in Actors, Crash(a) PROVE TypeOK'
    BY <2>14 DEF TypeOK, Crash, Return
  <2>15. CASE UNCHANGED vars
    BY <2>15 DEF TypeOK, vars, rowVars, actorVars
  <2> QED
    BY <2>1, <2>2, <2>3, <2>4, <2>5, <2>6, <2>7, <2>8, <2>9, <2>10, <2>11,
       <2>12, <2>13, <2>14, <2>15 DEF Next, Execute
<1> QED
  BY <1>1, <1>2, PTL DEF Spec

---------------------------------------------------------------------------
\* What the refinement and the retry rule rest on: only running rows have an
\* owner, an actor has left the receipts of the handlers before its own
\* behind it, and a worker that owns its row knows its number of attempts.
OwnedIsRunning ==
    \A j \in Jobs : owner[j] \in Workers => status[j] = "running"
FreshIsUntried ==
    \A j \in Jobs : status[j] \in {"absent", "pending"} => attempts[j] = 0
Behind ==
    \A a \in Actors : Busy(a) =>
        /\ status[work[a]] # "absent"
        /\ \A h \in Handlers : h < step[a] => h \in receipt[work[a]]
        /\ pc[a] = "finish" => \A h \in Handlers : h \in receipt[work[a]]
CountIsKnown ==
    \A w \in Workers :
        Busy(w) /\ owner[work[w]] = w => tries[w] = attempts[work[w]]

JobInv ==
    /\ TypeOK
    /\ OwnedIsRunning /\ FreshIsUntried /\ Behind /\ CountIsKnown
    /\ WaitingHasAttempts

\* Once the n-th handler is among S with those before it, all those before
\* the next one are, and if it is the last one, all handlers are.
LEMMA UpTo ==
    ASSUME NEW n \in Handlers, NEW S, n \in S, \A h \in Handlers : h < n => h \in S
    PROVE  /\ \A h \in Handlers : h < n + 1 => h \in S
           /\ n = HandlerCount => \A h \in Handlers : h \in S
<1>1. \A h \in Handlers : h < n + 1 => h < n \/ h = n
  BY BoundsAssumption DEF Handlers
<1>2. n = HandlerCount => \A h \in Handlers : h < n \/ h = n
  BY BoundsAssumption DEF Handlers
<1> QED
  BY <1>1, <1>2

\* JobInv is an invariant of the queue.
LEMMA JobInductive == Spec => []JobInv
<1>1. Init /\ TypeOK => JobInv
  BY ZenonT(40), BoundsAssumption, ActorsAssumption
  DEF Init, JobInv, OwnedIsRunning, FreshIsUntried, Behind, CountIsKnown,
      WaitingHasAttempts, Busy, Actors
<1>2. JobInv /\ TypeOK' /\ [Next]_vars => JobInv'
  <2> SUFFICES ASSUME JobInv, TypeOK', [Next]_vars PROVE JobInv'
    OBVIOUS
  <2> USE BoundsAssumption, ActorsAssumption DEF JobInv
  <2> DEFINE Rows == OwnedIsRunning /\ FreshIsUntried /\ WaitingHasAttempts
             Rest == Behind /\ CountIsKnown
  <2> USE DEF OwnedIsRunning, FreshIsUntried, WaitingHasAttempts, Behind,
              CountIsKnown, Busy, Handlers, Actors, TypeOK
  <2>1. ASSUME NEW j \in Jobs, Enqueue(j) PROVE JobInv'
    <3>1. Rows'
      BY <2>1 DEF Enqueue, Insert, actorVars
    <3>2. Rest'
      BY <2>1 DEF Enqueue, Insert, actorVars
    <3> QED
      BY <3>1, <3>2
  <2>2. ASSUME NEW j \in Jobs, Lapse(j) PROVE JobInv'
    BY <2>2 DEF Lapse, actorVars
  <2>3. ASSUME NEW j \in Jobs, Wake(j) PROVE JobInv'
    BY <2>3 DEF Wake, actorVars
  <2>4. ASSUME NEW i \in Inliners, NEW j \in Jobs, Publish(i, j) PROVE JobInv'
    <3>1. Rows'
      BY <2>4 DEF Publish, Insert, Start
    <3>2. Behind'
      BY <2>4 DEF Publish, Insert, Start
    <3>3. CountIsKnown'
      BY <2>4 DEF Publish, Insert, Start
    <3> QED
      BY <3>1, <3>2, <3>3
  <2>5. ASSUME NEW w \in Workers, NEW j \in Jobs, Claim(w, j) PROVE JobInv'
    <3>1. Rows'
      BY <2>5 DEF Claim, Claimable, Start
    <3>2. Behind'
      BY <2>5 DEF Claim, Claimable, Start
    <3>3. CountIsKnown'
      BY <2>5 DEF Claim, Claimable, Start
    <3> QED
      BY <3>1, <3>2, <3>3
  <2>6. ASSUME NEW a \in Actors, Skip(a) PROVE JobInv'
    <3>1. Rows' /\ CountIsKnown'
      BY <2>6 DEF Skip, Advance, rowVars
    <3>2. /\ \A h \in Handlers : h < step[a] + 1 => h \in receipt[work[a]]
          /\ step[a] = HandlerCount => \A h \in Handlers : h \in receipt[work[a]]
      <4>1. \A h \in Handlers : h < step[a] => h \in receipt[work[a]]
        BY <2>6 DEF Skip
      <4>2. step[a] \in Handlers /\ step[a] \in receipt[work[a]]
        BY <2>6 DEF Skip
      <4> HIDE DEF Handlers, JobInv
      <4> QED
        BY <4>1, <4>2, UpTo
    <3>3. Behind'
      <4>1. CASE step[a] < HandlerCount
        BY <2>6, <3>2, <4>1 DEF Skip, Advance, rowVars
      <4>2. CASE step[a] = HandlerCount
        BY <2>6, <3>2, <4>2 DEF Skip, Advance, rowVars
      <4> QED
        BY <2>6, <4>1, <4>2 DEF Skip, Advance
    <3> QED
      BY <3>1, <3>3
  <2>7. ASSUME NEW a \in Actors, Check(a) PROVE JobInv'
    BY <2>7 DEF Check, rowVars
  <2>8. ASSUME NEW a \in Actors, Handle(a) PROVE JobInv'
    BY <2>8 DEF Handle, rowVars
  <2>9. ASSUME NEW a \in Actors, Save(a) PROVE JobInv'
    <3>1. Rows' /\ CountIsKnown'
      BY <2>9 DEF Save, Advance, rowVars
    <3>2. Behind'
      <4>1. CASE step[a] < HandlerCount
        <5>1. UNCHANGED <<status, work>>
          BY <2>9 DEF Save, rowVars
        <5>2. /\ step' = [step EXCEPT ![a] = @ + 1]
              /\ pc' = [pc EXCEPT ![a] = "check"]
              /\ receipt' = [receipt EXCEPT ![work[a]] = @ \cup {step[a]}]
          BY <2>9, <4>1 DEF Save, Advance
        <5>3. \A j \in Jobs : receipt[j] \subseteq receipt'[j]
          BY <5>2
        <5>4. \A b \in Actors : b # a => pc'[b] = pc[b] /\ step'[b] = step[b]
          BY <5>2
        <5>5. /\ pc'[a] = "check" /\ step'[a] = step[a] + 1 /\ Busy(a)
              /\ receipt'[work[a]] = receipt[work[a]] \cup {step[a]}
          BY <2>9, <5>2 DEF Save
        <5>6. \A h \in Handlers : h < step[a] + 1 => h \in receipt'[work[a]]
          <6>1. step[a] \in Handlers /\ step[a] \in receipt'[work[a]]
            BY <5>5
          <6>2. \A h \in Handlers : h < step[a] => h \in receipt'[work[a]]
            BY <5>5
          <6> HIDE DEF Handlers, JobInv
          <6> QED
            BY <6>1, <6>2, UpTo
        <5> QED
          BY <5>1, <5>3, <5>4, <5>5, <5>6
      <4>2. CASE step[a] = HandlerCount
        <5>1. \A h \in Handlers : h \in receipt[work[a]] \cup {step[a]}
          BY <2>9, <4>2 DEF Save
        <5> QED
          BY <2>9, <4>2, <5>1 DEF Save, Advance, rowVars
      <4> QED
        BY <2>9, <4>1, <4>2 DEF Save, Advance
    <3> QED
      BY <3>1, <3>2
  <2>10. ASSUME NEW a \in Actors, Finish(a) PROVE JobInv'
    <3>1. Rows'
      BY <2>10 DEF Finish, Close, Return
    <3>2. Rest'
      BY <2>10 DEF Finish, Close, Return
    <3> QED
      BY <3>1, <3>2
  <2>11. ASSUME NEW a \in Actors, FinishInline(a) PROVE JobInv'
    <3>1. Rows'
      BY <2>11 DEF FinishInline, Close, Return
    <3>2. Rest'
      BY <2>11 DEF FinishInline, Close, Return
    <3> QED
      BY <3>1, <3>2
  <2>12. ASSUME NEW a \in Actors, Retry(a) PROVE JobInv'
    <3>1. Rows'
      BY <2>12 DEF Retry, AfterFailure, Close, Return
    <3>2. Rest'
      BY <2>12 DEF Retry, AfterFailure, Close, Return
    <3> QED
      BY <3>1, <3>2
  <2>13. ASSUME NEW a \in Actors, Raise(a) PROVE JobInv'
    BY <2>13 DEF Raise, rowVars
  <2>14. ASSUME NEW a \in Actors, Crash(a) PROVE JobInv'
    BY <2>14 DEF Crash, Return
  <2>15. CASE UNCHANGED vars
    BY <2>15 DEF vars, rowVars, actorVars
  <2> QED
    BY <2>1, <2>2, <2>3, <2>4, <2>5, <2>6, <2>7, <2>8, <2>9, <2>10, <2>11,
       <2>12, <2>13, <2>14, <2>15 DEF Next, Execute
<1> QED
  BY <1>1, <1>2, TypeCorrect, PTL DEF Spec

\* Retries are counted right: a job that waits has an attempt left, so that
\* _claim_one can take it.
THEOREM WaitingHasAttemptsHolds == Spec => []WaitingHasAttempts
<1>1. JobInv => WaitingHasAttempts
  BY DEF JobInv
<1> QED
  BY <1>1, JobInductive, PTL

---------------------------------------------------------------------------
\* The queue implements JobPromise: receipts arrive in handler order and a
\* job is completed once, for good, after the last of them, with leases lost,
\* attempts repeated, and workers and inline executions at the same job.
THEOREM KeepsPromiseHolds == Spec => KeepsPromise
<1> DEFINE phase == [j \in Jobs |-> Phase(status[j])]
<1>1. Init => Promise!Init
  BY DEF Init, Promise!Init, Phase
<1>2. JobInv /\ [Next]_vars => [Promise!Next]_Promise!promiseVars
  <2> SUFFICES ASSUME JobInv, [Next]_vars
               PROVE  Promise!Next \/ UNCHANGED <<phase, receipt>>
    BY DEF Promise!promiseVars
  <2> USE DEF Phase
  <2>0. /\ status \in [Jobs -> {"absent", "pending", "running", "retry",
                               "completed", "failed"}]
        /\ receipt \in [Jobs -> SUBSET Handlers]
        /\ work \in [Actors -> Jobs] /\ step \in [Actors -> Handlers]
        /\ OwnedIsRunning /\ Behind
    BY DEF JobInv, TypeOK
  <2> HIDE DEF JobInv
  <2>1. ASSUME NEW j \in Jobs, Insert(j) PROVE Promise!Next \/ UNCHANGED <<phase, receipt>>
    <3>1. CASE status[j] # "absent"
      BY <2>1, <3>1 DEF Insert
    <3>2. CASE status[j] = "absent"
      <4>1. Promise!Publish(j)
        BY <2>0, <2>1, <3>2 DEF Insert, Promise!Publish
      <4> QED
        BY <4>1 DEF Promise!Next
    <3> QED
      BY <3>1, <3>2
  <2>2. ASSUME NEW w \in Workers, NEW j \in Jobs, Claim(w, j)
        PROVE  UNCHANGED <<phase, receipt>>
    BY <2>0, <2>2 DEF Claim, Claimable
  <2>3. ASSUME NEW a \in Actors, Save(a) PROVE Promise!Next
    <3>1. /\ status[work[a]] # "absent"
          /\ \A h \in Handlers : h < step[a] => h \in receipt[work[a]]
      BY <2>0, <2>3 DEF Save, Behind, Busy
    <3>2. 1 .. step[a] - 1 \subseteq receipt[work[a]]
      BY <2>0, <3>1, BoundsAssumption DEF Handlers
    <3>3. Promise!Receive(work[a], step[a])
      BY <2>0, <2>3, <3>1, <3>2 DEF Save, rowVars, Promise!Receive
    <3> QED
      BY <2>0, <3>3 DEF Promise!Next, Handlers
  <2>4. ASSUME NEW a \in Actors, Finish(a) PROVE Promise!Next \/ UNCHANGED <<phase, receipt>>
    <3>0. PICK j \in Jobs : j = work[a]
      BY <2>0
    <3>1. CASE owner[work[a]] = a
      <4>1. status[work[a]] = "running" /\ receipt[work[a]] = Handlers
        BY <2>0, <2>4, <3>1 DEF Finish, Behind, Busy, OwnedIsRunning
      <4>2. Promise!Complete(j)
        BY <2>0, <2>4, <3>0, <3>1, <4>1 DEF Finish, Close, Return, Promise!Complete, Handlers
      <4> QED
        BY <4>2 DEF Promise!Next
    <3>2. CASE owner[work[a]] # a
      BY <2>4, <3>2 DEF Finish, Return
    <3> QED
      BY <3>1, <3>2
  <2>5. ASSUME NEW a \in Actors, FinishInline(a)
        PROVE  Promise!Next \/ UNCHANGED <<phase, receipt>>
    <3>0. PICK j \in Jobs : j = work[a]
      BY <2>0
    <3>1. status[work[a]] # "absent" /\ receipt[work[a]] = Handlers
      BY <2>0, <2>5 DEF FinishInline, Behind, Busy
    <3>2. CASE status[work[a]] = "completed"
      BY <2>0, <2>5, <3>2 DEF FinishInline, Close, Return
    <3>3. CASE status[work[a]] # "completed"
      <4>1. Promise!Complete(j)
        BY <2>0, <2>5, <3>0, <3>1, <3>3
        DEF FinishInline, Close, Return, Promise!Complete, Handlers
      <4> QED
        BY <4>1 DEF Promise!Next
    <3> QED
      BY <3>2, <3>3
  <2>6. ASSUME NEW a \in Actors, Retry(a) PROVE Promise!Next \/ UNCHANGED <<phase, receipt>>
    <3>0. PICK j \in Jobs : j = work[a]
      BY <2>0
    <3>1. CASE owner[work[a]] # a
      BY <2>6, <3>1 DEF Retry, Return
    <3>2. CASE owner[work[a]] = a /\ AfterFailure(a) = "retry"
      <4>1. status[work[a]] = "running"
        BY <2>0, <2>6, <3>2 DEF Retry, OwnedIsRunning
      <4> QED
        BY <2>0, <2>6, <3>2, <4>1 DEF Retry, Close, Return
    <3>3. CASE owner[work[a]] = a /\ AfterFailure(a) = "failed"
      <4>1. status[work[a]] = "running"
        BY <2>0, <2>6, <3>3 DEF Retry, OwnedIsRunning
      <4>2. Promise!GiveUp(j)
        BY <2>0, <2>6, <3>0, <3>3, <4>1 DEF Retry, Close, Return, Promise!GiveUp
      <4> QED
        BY <4>2 DEF Promise!Next
    <3> QED
      BY <3>1, <3>2, <3>3 DEF AfterFailure
  <2>7. CASE \E j \in Jobs : Lapse(j) \/ Wake(j)
    BY <2>7 DEF Lapse, Wake
  <2>8. CASE \E a \in Actors : Skip(a) \/ Check(a) \/ Handle(a) \/ Raise(a) \/ Crash(a)
    BY <2>8 DEF Skip, Check, Handle, Raise, Crash, Return, rowVars
  <2>9. CASE UNCHANGED vars
    BY <2>9 DEF vars, rowVars
  <2> QED
    BY <2>1, <2>2, <2>3, <2>4, <2>5, <2>6, <2>7, <2>8, <2>9
    DEF Next, Execute, Enqueue, Publish
<1> QED
  BY <1>1, <1>2, JobInductive, PTL DEF Spec, KeepsPromise, Promise!Spec

---------------------------------------------------------------------------
\* Where workers keep their leases, a busy worker owns its row under a live
\* lease, or its job has been completed inline.
LeaseIsKept ==
    \A w \in Workers : Busy(w) /\ "lapse" \notin may[work[w]] =>
        \/ status[work[w]] = "completed"
        \/ /\ status[work[w]] = "running" /\ owner[work[w]] = w
           /\ work[w] \notin lapsed

\* The two together are inductive.
LEMMA LeaseInductive == Spec => [](OneWorkerPerJob /\ LeaseIsKept)
<1> DEFINE Inv == OneWorkerPerJob /\ LeaseIsKept
<1>1. Init => Inv
  BY DEF Init, OneWorkerPerJob, LeaseIsKept, Busy, Actors
<1>2. TypeOK /\ Inv /\ [Next]_vars => Inv'
  <2> SUFFICES ASSUME TypeOK, Inv, [Next]_vars PROVE Inv'
    OBVIOUS
  <2> USE ActorsAssumption DEF OneWorkerPerJob, LeaseIsKept, Busy
  <2>0. /\ status \in [Jobs -> {"absent", "pending", "running", "retry",
                               "completed", "failed"}]
        /\ owner \in [Jobs -> Workers \cup {NoWorker}] /\ lapsed \subseteq Jobs
        /\ work \in [Actors -> Jobs]
        /\ pc \in [Actors -> {"idle", "check", "handle", "save", "finish", "raised"}]
        /\ Workers \subseteq Actors
    BY DEF TypeOK, Actors
  <2>1. ASSUME NEW j \in Jobs, Enqueue(j) PROVE Inv'
    BY <2>0, <2>1 DEF Enqueue, Insert, actorVars
  <2>2. ASSUME NEW j \in Jobs, Lapse(j) PROVE Inv'
    BY <2>0, <2>2 DEF Lapse, actorVars
  <2>3. ASSUME NEW j \in Jobs, Wake(j) PROVE Inv'
    BY <2>0, <2>3 DEF Wake, actorVars
  <2>4. ASSUME NEW i \in Inliners, NEW j \in Jobs, Publish(i, j) PROVE Inv'
    <3>1. i \notin Workers
      OBVIOUS
    <3> QED
      BY <2>0, <2>4, <3>1 DEF Publish, Insert, Start
  <2>5. ASSUME NEW w \in Workers, NEW j \in Jobs, Claim(w, j) PROVE Inv'
    <3>1. \A v \in Workers : Busy(v) /\ "lapse" \notin may[work[v]] => work[v] # j
      BY <2>0, <2>5 DEF Claim, Claimable
    <3> QED
      BY <2>0, <2>5, <3>1 DEF Claim, Start
  <2>6. ASSUME NEW a \in Actors, Skip(a) \/ Check(a) \/ Handle(a) \/ Save(a) \/ Raise(a)
        PROVE  Inv'
    <3>1. UNCHANGED <<may, status, owner, lapsed, work>>
      BY <2>6 DEF Skip, Check, Handle, Save, Raise, rowVars
    <3>2. \A v \in Workers : Busy(v)' => Busy(v)
      BY <2>0, <2>6 DEF Skip, Check, Handle, Save, Raise, Advance
    <3> QED
      BY <3>1, <3>2
  <2>7. ASSUME NEW a \in Actors, Finish(a) \/ Retry(a) PROVE Inv'
    <3>1. \A v \in Workers : Busy(v)' => Busy(v) /\ v # a
      BY <2>0, <2>7 DEF Finish, Retry, Return
    <3>2. Busy(a) /\ a \in Workers /\ work' = work /\ may' = may
      BY <2>7 DEF Finish, Retry, Return
    <3>3. \A v \in Workers : Busy(v)' /\ "lapse" \notin may[work[v]] => work[v] # work[a]
      BY <3>1, <3>2
    <3>4. \A j \in Jobs : j # work[a] =>
             status'[j] = status[j] /\ owner'[j] = owner[j] /\ (j \in lapsed' <=> j \in lapsed)
      BY <2>0, <2>7 DEF Finish, Retry, Close
    <3> QED
      BY <2>0, <3>1, <3>2, <3>3, <3>4
  <2>8. ASSUME NEW a \in Actors, FinishInline(a) PROVE Inv'
    <3>1. \A v \in Workers : Busy(v)' => Busy(v)
      BY <2>0, <2>8 DEF FinishInline, Return
    <3>2. status'[work[a]] = "completed" /\ work' = work /\ may' = may
      BY <2>0, <2>8 DEF FinishInline, Close, Return
    <3>3. \A j \in Jobs : j # work[a] =>
             status'[j] = status[j] /\ owner'[j] = owner[j] /\ (j \in lapsed' <=> j \in lapsed)
      BY <2>0, <2>8 DEF FinishInline, Close
    <3> QED
      BY <2>0, <3>1, <3>2, <3>3
  <2>9. ASSUME NEW a \in Actors, Crash(a) PROVE Inv'
    BY <2>0, <2>9 DEF Crash, Return
  <2>10. CASE UNCHANGED vars
    BY <2>10 DEF vars, rowVars, actorVars
  <2> QED
    BY <2>1, <2>2, <2>3, <2>4, <2>5, <2>6, <2>7, <2>8, <2>9, <2>10
    DEF Next, Execute
<1> QED
  BY <1>1, <1>2, TypeCorrect, PTL DEF Spec

\* Inline executions, crashes and retries never put two workers on a job: only
\* a worker that outlives its lease does.
THEOREM OneWorkerPerJobHolds == Spec => []OneWorkerPerJob
  BY LeaseInductive, PTL

\* Where workers keep their leases and nobody executes the job inline, a
\* handler with a receipt is not run again, whatever happens to other jobs.
\* Its invariant adds that no inline execution is at such a job.
InlineKeepsOut == \A a \in Actors : Busy(a) /\ "inline" \notin may[work[a]] => a \in Workers

LEMMA InlineInductive == Spec => []InlineKeepsOut
<1>1. Init => InlineKeepsOut
  BY DEF Init, InlineKeepsOut, Busy
<1>2. TypeOK /\ InlineKeepsOut /\ [Next]_vars => InlineKeepsOut'
  <2> SUFFICES ASSUME TypeOK, InlineKeepsOut, [Next]_vars PROVE InlineKeepsOut'
    OBVIOUS
  <2> USE DEF InlineKeepsOut, Busy
  <2>0. /\ work \in [Actors -> Jobs]
        /\ pc \in [Actors -> {"idle", "check", "handle", "save", "finish", "raised"}]
    BY DEF TypeOK
  <2>1. CASE \E j \in Jobs : Enqueue(j) \/ Lapse(j) \/ Wake(j)
    BY <2>1 DEF Enqueue, Insert, Lapse, Wake, actorVars
  <2>2. CASE \E i \in Inliners, j \in Jobs : Publish(i, j)
    BY <2>0, <2>2 DEF Publish, Insert, Start
  <2>3. CASE \E w \in Workers, j \in Jobs : Claim(w, j)
    BY <2>0, <2>3 DEF Claim, Start
  <2>4. ASSUME NEW a \in Actors, Execute(a) \/ Raise(a) \/ Crash(a) PROVE InlineKeepsOut'
    <3>1. /\ work' = work /\ may' = may
          /\ \A b \in Actors : pc'[b] # "idle" => pc[b] # "idle"
      BY <2>0, <2>4 DEF Execute, Skip, Check, Handle, Save, Finish, FinishInline, Retry,
                        Raise, Crash, Return, Advance, rowVars
    <3> QED
      BY <3>1
  <2>5. CASE UNCHANGED vars
    BY <2>5 DEF vars, rowVars, actorVars
  <2> QED
    BY <2>1, <2>2, <2>3, <2>4, <2>5 DEF Next
<1> QED
  BY <1>1, <1>2, TypeCorrect, PTL DEF Spec

THEOREM ReceiptStopsHandlerHolds == Spec => []ReceiptStopsHandler
<1>1. Init => ReceiptStopsHandler
  BY DEF Init, ReceiptStopsHandler
<1>2. TypeOK /\ OneWorkerPerJob /\ InlineKeepsOut /\ ReceiptStopsHandler /\ [Next]_vars
         => ReceiptStopsHandler'
  <2> SUFFICES ASSUME TypeOK, OneWorkerPerJob, InlineKeepsOut, ReceiptStopsHandler,
                      [Next]_vars
               PROVE  ReceiptStopsHandler'
    OBVIOUS
  <2> USE DEF ReceiptStopsHandler
  <2>0. /\ work \in [Actors -> Jobs] /\ step \in [Actors -> Handlers]
        /\ pc \in [Actors -> {"idle", "check", "handle", "save", "finish", "raised"}]
        /\ receipt \in [Jobs -> SUBSET Handlers]
    BY DEF TypeOK
  <2>1. CASE \E j \in Jobs : Enqueue(j) \/ Lapse(j) \/ Wake(j)
    BY <2>1 DEF Enqueue, Insert, Lapse, Wake, actorVars
  <2>2. CASE \E i \in Inliners, j \in Jobs : Publish(i, j)
    BY <2>0, <2>2 DEF Publish, Insert, Start
  <2>3. ASSUME NEW w \in Workers, NEW j \in Jobs, Claim(w, j) PROVE ReceiptStopsHandler'
    BY <2>0, <2>3 DEF Claim, Start
  <2>4. ASSUME NEW a \in Actors, Check(a) PROVE ReceiptStopsHandler'
    BY <2>0, <2>4 DEF Check, rowVars
  <2>5. ASSUME NEW a \in Actors, Save(a) PROVE ReceiptStopsHandler'
    <3>1. \A b \in Actors : pc'[b] = "handle" =>
             b # a /\ pc[b] = "handle" /\ step'[b] = step[b] /\ work'[b] = work[b]
      BY <2>0, <2>5 DEF Save, Advance
    <3>0. may' = may
      BY <2>5 DEF Save, rowVars
    <3>2. \A b \in Actors :
             pc[b] = "handle" /\ b # a /\ may[work[b]] = {} => work[b] # work[a]
      <4> SUFFICES ASSUME NEW b \in Actors, pc[b] = "handle", b # a,
                          may[work[b]] = {}, work[b] = work[a]
                   PROVE  FALSE
        OBVIOUS
      <4>1. Busy(a) /\ Busy(b)
        BY <2>5 DEF Save, Busy
      <4>2. a \in Workers /\ b \in Workers
        BY <4>1 DEF InlineKeepsOut
      <4> QED
        BY <4>1, <4>2 DEF OneWorkerPerJob
    <3>3. \A j \in Jobs : j # work[a] => receipt'[j] = receipt[j]
      BY <2>0, <2>5 DEF Save
    <3> QED
      BY <2>0, <3>0, <3>1, <3>2, <3>3
  <2>6. ASSUME NEW a \in Actors,
               Skip(a) \/ Handle(a) \/ Raise(a) \/ Crash(a)
                 \/ Finish(a) \/ FinishInline(a) \/ Retry(a)
        PROVE  ReceiptStopsHandler'
    <3>1. UNCHANGED <<may, receipt, work>>
      BY <2>6 DEF Skip, Handle, Raise, Crash, Finish, FinishInline, Retry, Return, rowVars
    <3>2. \A b \in Actors : pc'[b] = "handle" => pc[b] = "handle" /\ step'[b] = step[b]
      <4>1. CASE Skip(a)
        BY <2>0, <4>1 DEF Skip, Advance
      <4>2. CASE ~Skip(a)
        BY <2>0, <2>6, <4>2 DEF Handle, Raise, Crash, Finish, FinishInline, Retry, Return
      <4> QED
        BY <4>1, <4>2
    <3> QED
      BY <3>1, <3>2
  <2>7. CASE UNCHANGED vars
    BY <2>7 DEF vars, rowVars, actorVars
  <2> QED
    BY <2>1, <2>2, <2>3, <2>4, <2>5, <2>6, <2>7 DEF Next, Execute
<1> QED
  BY <1>1, <1>2, TypeCorrect, OneWorkerPerJobHolds, InlineInductive, PTL DEF Spec
=============================================================================
