-------------------------- MODULE AgentTickProofs --------------------------
(***************************************************************************)
(* Proofs about AgentTick: its type invariant, and that the cursor never   *)
(* passes a message that nobody handled, for any number of ticks that      *)
(* overlap, crash or write an older cursor back, as long as one thread     *)
(* adds messages and max_stm cuts a batch before the attention filter does.*)
(***************************************************************************)
EXTENDS AgentTick, FiniteSetTheorems, WellFoundedInduction, TLAPS

---------------------------------------------------------------------------
\* A non-empty finite set of numbers has a greatest one: of the sets of what
\* is above one of its members, take a smallest.
LEMMA Greatest ==
    ASSUME NEW S, S \subseteq Nat, IsFiniteSet(S), S # {}
    PROVE  \E x \in S : \A y \in S : y <= x
<1> DEFINE Above(x) == {k \in S : k > x}
           Family == {Above(x) : x \in S}
           R == StrictSubsetOrdering(S)
<1>1. IsWellFoundedOn(R, SUBSET S)
  BY FS_StrictSubsetOrderingWellFounded, FS_FiniteSubsetsOfFinite
<1>2. Family \subseteq SUBSET S /\ Family # {}
  OBVIOUS
<1>3. PICK T \in Family : \A U \in Family : ~ (<<U, T>> \in R)
  <2> HIDE DEF Family, R
  <2> QED
    BY <1>1, <1>2, WFMin
<1>4. PICK x \in S : T = Above(x)
  BY <1>3
<1>5. ASSUME NEW y \in S, y > x PROVE FALSE
  <2>0. x \in Nat /\ y \in Nat
    OBVIOUS
  <2>1. Above(y) \subseteq T /\ Above(y) # T
    <3>1. y \in T /\ y \notin Above(y)
      BY <1>4, <1>5, <2>0
    <3>2. \A k \in Above(y) : k \in Nat /\ k \in S /\ k > x
      BY <1>5, <2>0
    <3> QED
      BY <1>4, <3>1, <3>2
  <2>2. <<Above(y), T>> \in R
    BY <2>1, <1>2, <1>3 DEF StrictSubsetOrdering
  <2> QED
    BY <2>2, <1>3
<1> QED
  BY <1>5

\* The messages are finitely many numbers.
LEMMA StmIsFinite ==
    ASSUME stm \subseteq Stamps, NEW T \in SUBSET stm
    PROVE  IsFiniteSet(T) /\ T \subseteq Nat
<1>1. IsFiniteSet(1 .. StampBound)
  BY FS_Interval, BoundsAssumption
<1>2. T \in SUBSET (1 .. StampBound) /\ T \subseteq Nat
  BY BoundsAssumption DEF Stamps
<1> QED
  BY <1>1, <1>2, FS_Subset

\* A pull returns at most max_stm messages.
LEMMA PullIsBounded ==
    ASSUME stm \subseteq Stamps, NEW s \in Nat
    PROVE  Cardinality(Fresh(s)) <= MaxStm
<1>1. Fresh(s) \in SUBSET stm
  BY DEF Fresh
<1>2. IsFiniteSet(Fresh(s)) /\ Fresh(s) \subseteq Nat
  BY <1>1, StmIsFinite
<1>3. CASE Fresh(s) = {}
  BY <1>3, FS_EmptySet, BoundsAssumption
<1>4. CASE Fresh(s) # {}
  <2>1. PICK m \in Fresh(s) : \A k \in Fresh(s) : k <= m
    <3> HIDE DEF Fresh
    <3> QED
      BY <1>2, <1>4, Greatest
  <2> DEFINE Between == {k \in stm : s < k /\ k < m}
  <2>2. Cardinality(Between) < MaxStm
    BY <2>1 DEF Fresh
  <2>3. IsFiniteSet(Between)
    <3>1. Between \in SUBSET stm
      OBVIOUS
    <3> HIDE DEF Between
    <3> QED
      BY <3>1, StmIsFinite
  <2>4. \A k \in Fresh(s) \ {m} : k \in Between
    BY <2>1, <1>2 DEF Fresh
  <2> HIDE DEF Between
  <2>5. Cardinality(Fresh(s) \ {m}) <= Cardinality(Between)
    BY <2>3, <2>4, FS_Subset
  <2>6. Cardinality(Fresh(s) \ {m}) = Cardinality(Fresh(s)) - 1
    BY <1>2, <2>1, FS_RemoveElement
  <2>7. Cardinality(Fresh(s)) \in Nat /\ Cardinality(Between) \in Nat
    BY <1>2, <2>3, FS_CardinalityType
  <2> QED
    BY <2>2, <2>5, <2>6, <2>7, BoundsAssumption
<1> QED
  BY <1>3, <1>4

\* A pull leaves no gap: what is between the cursor it was given and a message
\* it returns is returned too.
LEMMA PullHasNoGap ==
    ASSUME stm \subseteq Stamps, NEW s \in Nat,
           NEW n \in Fresh(s), NEW m \in stm, s < m, m <= n
    PROVE  m \in Fresh(s)
<1> DEFINE Before(x) == {k \in stm : s < k /\ k < x}
<1>1. Before(n) \in SUBSET stm /\ Before(m) \in SUBSET stm
  OBVIOUS
<1>2. \A k \in Before(m) : k \in Before(n)
  <2>1. stm \subseteq Nat /\ n \in stm
    BY StmIsFinite DEF Fresh
  <2> QED
    BY <2>1
<1>3. Cardinality(Before(n)) < MaxStm
  BY DEF Fresh
<1> HIDE DEF Before
<1>4. IsFiniteSet(Before(n)) /\ IsFiniteSet(Before(m))
  BY <1>1, StmIsFinite
<1>5. Cardinality(Before(m)) <= Cardinality(Before(n))
  BY <1>2, <1>4, FS_Subset
<1>6. Cardinality(Before(m)) < MaxStm
  BY <1>3, <1>4, <1>5, FS_CardinalityType, BoundsAssumption
<1> QED
  BY <1>6 DEF Fresh, Before

---------------------------------------------------------------------------
\* A tick that has selected a task may still run one, and a message that is
\* about to be inserted has a timestamp.
Underway ==
    /\ \A t \in Ticks : pc[t] \in {"take", "look", "run"} => left[t] > 0
    /\ \A w \in Writers : wpc[w] = "insert" => stamp[w] \in Stamps

\* The type invariant: a tick never runs more than max_tasks tasks, and every
\* column and every program counter keeps to its values.
LEMMA TypeInductive == Spec => [](TypeOK /\ Underway)
<1>1. Init => TypeOK /\ Underway
  <2> SUFFICES ASSUME Init PROVE TypeOK /\ Underway
    OBVIOUS
  <2>1. overlapped \in BOOLEAN /\ enabled \in BOOLEAN
    BY Zenon DEF Init
  <2>2. /\ clock \in 0 .. StampBound /\ cursor \in 0 .. StampBound /\ stm \subseteq Stamps
        /\ faults \in 0 .. FaultBound /\ stamp \in [Writers -> 0 .. StampBound]
        /\ wpc \in [Writers -> {"idle", "insert", "prune"}]
        /\ status \in [Tasks -> {"absent", "queued", "running", "done", "failed"}]
        /\ handled \in [Stamps -> 0 .. 2] /\ started \in [Tasks -> 0 .. 2]
    BY BoundsAssumption DEF Init
  <2>3. /\ pc \in [Ticks -> {"idle", "pull", "handle", "plan", "claim", "take", "look", "run"}]
        /\ since \in [Ticks -> 0 .. StampBound] /\ todo \in [Ticks -> SUBSET Stamps]
        /\ last \in [Ticks -> 0 .. StampBound] /\ left \in [Ticks -> 0 .. MaxTasks]
        /\ task \in [Ticks -> 0 .. TaskBound]
    BY BoundsAssumption DEF Init
  <2>4. Underway
    BY DEF Init, Underway
  <2> QED
    BY <2>1, <2>2, <2>3, <2>4 DEF TypeOK
<1>2. TypeOK /\ Underway /\ [Next]_vars => (TypeOK /\ Underway)'
  <2> SUFFICES ASSUME TypeOK, Underway, [Next]_vars PROVE TypeOK' /\ Underway'
    OBVIOUS
  <2> USE BoundsAssumption DEF TypeOK, Underway, Go, stmVars, stateVars, tickVars, seenVars
  <2>1. ASSUME NEW w \in Writers, Stamp(w) PROVE TypeOK' /\ Underway'
    BY <2>1 DEF Stamp, Stamps
  <2>2. ASSUME NEW w \in Writers, Insert(w) PROVE TypeOK' /\ Underway'
    BY <2>2 DEF Insert, Stamps
  <2>3. ASSUME NEW w \in Writers, Prune(w) PROVE TypeOK' /\ Underway'
    BY <2>3 DEF Prune
  <2>4. CASE SetEnabled
    BY <2>4 DEF SetEnabled
  <2>5. CASE Enqueue
    BY <2>5 DEF Enqueue, Queue
  <2>6. ASSUME NEW t \in Ticks, ReadState(t) PROVE TypeOK' /\ Underway'
    BY <2>6 DEF ReadState
  <2>7. ASSUME NEW t \in Ticks, PullNothing(t) PROVE TypeOK' /\ Underway'
    BY <2>7 DEF PullNothing
  <2>8. ASSUME NEW t \in Ticks, Pull(t) PROVE TypeOK' /\ Underway'
    <3>1. PICK batch \in SUBSET Fresh(since[t]) : \E final \in batch :
            /\ todo' = [todo EXCEPT ![t] = batch]
            /\ last' = [last EXCEPT ![t] = final]
      BY <2>8 DEF Pull
    <3>2. Fresh(since[t]) \subseteq Stamps
      BY DEF Fresh
    <3>3. todo' \in [Ticks -> SUBSET Stamps] /\ last' \in [Ticks -> 0 .. StampBound]
      BY <3>1, <3>2 DEF Stamps
    <3> QED
      BY <2>8, <3>3 DEF Pull
  <2>9. ASSUME NEW t \in Ticks, Handle(t) PROVE TypeOK' /\ Underway'
    BY <2>9 DEF Handle, More
  <2>10. ASSUME NEW t \in Ticks, Plan(t) PROVE TypeOK' /\ Underway'
    BY <2>10 DEF Plan, Queue
  <2>11. ASSUME NEW t \in Ticks, UpdateCursor(t) PROVE TypeOK' /\ Underway'
    BY <2>11 DEF UpdateCursor
  <2>12. ASSUME NEW t \in Ticks, ClaimSelect(t) PROVE TypeOK' /\ Underway'
    <3>1. task' \in [Ticks -> 0 .. TaskBound]
      BY <2>12 DEF ClaimSelect, Tasks
    <3> QED
      BY <2>12, <3>1 DEF ClaimSelect
  <2>13. ASSUME NEW t \in Ticks, EndTick(t) PROVE TypeOK' /\ Underway'
    BY <2>13 DEF EndTick
  <2>14. ASSUME NEW t \in Ticks, ClaimUpdate(t) PROVE TypeOK' /\ Underway'
    BY <2>14 DEF ClaimUpdate
  <2>15. ASSUME NEW t \in Ticks, ClaimRead(t) PROVE TypeOK' /\ Underway'
    BY <2>15 DEF ClaimRead, More
  <2>16. ASSUME NEW t \in Ticks, Complete(t) PROVE TypeOK' /\ Underway'
    <3>1. left[t] \in 1 .. MaxTasks
      BY <2>16 DEF Complete
    <3>2. left' \in [Ticks -> 0 .. MaxTasks]
      BY <2>16, <3>1 DEF Complete
    <3>3. status' \in [Tasks -> {"absent", "queued", "running", "done", "failed"}]
      BY <2>16 DEF Complete
    <3> QED
      BY <2>16, <3>2, <3>3 DEF Complete
  <2>17. ASSUME NEW t \in Ticks, CursorFails(t) PROVE TypeOK' /\ Underway'
    BY <2>17 DEF CursorFails, Fault
  <2>18. ASSUME NEW t \in Ticks, TaskFails(t) PROVE TypeOK' /\ Underway'
    <3>1. status' \in [Tasks -> {"absent", "queued", "running", "done", "failed"}]
      BY <2>18 DEF TaskFails
    <3> QED
      BY <2>18, <3>1 DEF TaskFails, Fault
  <2>19. ASSUME NEW t \in Ticks, Crash(t) PROVE TypeOK' /\ Underway'
    BY <2>19 DEF Crash, Fault
  <2>20. CASE UNCHANGED vars
    BY <2>20 DEF vars
  <2> QED
    BY <2>1, <2>2, <2>3, <2>4, <2>5, <2>6, <2>7, <2>8, <2>9, <2>10,
       <2>11, <2>12, <2>13, <2>14, <2>15, <2>16, <2>17, <2>18, <2>19, <2>20 DEF Next, TickStep
<1> QED
  BY <1>1, <1>2, PTL DEF Spec

\* The statement of TypeInductive that a reader looks for.
THEOREM TypeCorrect == Spec => []TypeOK
BY TypeInductive, PTL

---------------------------------------------------------------------------
\* A timestamp that was given out before the one a writer is about to insert.
Past(n) == n <= clock /\ \A w \in Writers : wpc[w] = "insert" => n < stamp[w]

\* No message, and no place of the cursor that a tick knows, is newer.
InOrder ==
    /\ \A m \in stm : Past(m)
    /\ Past(cursor)
    /\ \A t \in Ticks : Past(since[t]) /\ Past(last[t])
    /\ \A w \in Writers : stamp[w] <= clock

\* What a tick has read or will write as the cursor skips nothing but the
\* messages the tick is about to handle.
ReadSkipsNothing ==
    \A t \in Ticks : pc[t] = "pull" =>
        \A m \in stm : m <= since[t] => handled[m] > 0
BatchSkipsNothing ==
    \A t \in Ticks : pc[t] \in {"handle", "plan"} =>
        \A m \in stm : m <= last[t] => handled[m] > 0 \/ m \in todo[t]

CursorInv == InOrder /\ ReadSkipsNothing /\ BatchSkipsNothing /\ NothingSkipped

\* One writer is why a message is inserted after everything before it.
LEMMA CursorInductive ==
    ASSUME \A v, w \in Writers : v = w, MaxStm <= Threshold
    PROVE  Spec => [](TypeOK /\ Underway /\ CursorInv)
<1>1. Init => CursorInv
  BY BoundsAssumption DEF Init, CursorInv, InOrder, Past, ReadSkipsNothing,
     BatchSkipsNothing, NothingSkipped, Stamps
<1>2. TypeOK /\ Underway /\ CursorInv /\ [Next]_vars => CursorInv'
  <2> SUFFICES ASSUME TypeOK, Underway, CursorInv, [Next]_vars PROVE CursorInv'
    OBVIOUS
  <2> USE BoundsAssumption
  <2>0. stm \subseteq Nat /\ cursor \in Nat /\ since \in [Ticks -> Nat]
        /\ last \in [Ticks -> Nat] /\ clock \in Nat /\ stamp \in [Writers -> Nat]
        /\ stm \subseteq Stamps
    BY DEF TypeOK, Stamps
  <2>1. ASSUME NEW w \in Writers, Stamp(w) PROVE CursorInv'
    BY <2>0, <2>1 DEF Stamp, stateVars, tickVars, seenVars, CursorInv, InOrder,
       Past, ReadSkipsNothing, BatchSkipsNothing, NothingSkipped
  <2>2. ASSUME NEW w \in Writers, Insert(w) PROVE CursorInv'
    <3>1. \A v \in Writers : wpc'[v] # "insert"
      BY <2>2 DEF Insert, TypeOK
    <3>2. stamp[w] <= clock
      BY DEF CursorInv, InOrder
    <3>3. InOrder'
      BY <2>0, <2>2, <3>1, <3>2 DEF Insert, stateVars, tickVars, CursorInv, InOrder, Past
    <3>4. ~ (stamp[w] <= cursor) /\ \A t \in Ticks : ~ (stamp[w] <= since[t]) /\ ~ (stamp[w] <= last[t])
      BY <2>0, <2>2 DEF Insert, CursorInv, InOrder, Past
    <3> QED
      BY <2>2, <3>3, <3>4 DEF Insert, stateVars, tickVars, seenVars, CursorInv,
         ReadSkipsNothing, BatchSkipsNothing, NothingSkipped
  <2>3. ASSUME NEW w \in Writers, Prune(w) PROVE CursorInv'
    <3>1. stm' \subseteq stm /\ \A v \in Writers : wpc'[v] = "insert" => wpc[v] = "insert"
      BY <2>3 DEF Prune, TypeOK
    <3> QED
      BY <2>3, <3>1 DEF Prune, stateVars, tickVars, seenVars, CursorInv, InOrder,
         Past, ReadSkipsNothing, BatchSkipsNothing, NothingSkipped
  <2>4. CASE SetEnabled
    BY <2>4 DEF SetEnabled, stmVars, stateVars, tickVars, seenVars, Go, CursorInv, InOrder,
       Past, ReadSkipsNothing, BatchSkipsNothing, NothingSkipped
  <2>5. CASE Enqueue
    BY <2>5 DEF Enqueue, stmVars, stateVars, tickVars, seenVars, Go, CursorInv, InOrder,
       Past, ReadSkipsNothing, BatchSkipsNothing, NothingSkipped
  <2>6. ASSUME NEW t \in Ticks, ReadState(t) PROVE CursorInv'
    BY <2>0, <2>6 DEF ReadState, TypeOK, stmVars, stateVars, tickVars, seenVars, Go, CursorInv, InOrder,
       Past, ReadSkipsNothing, BatchSkipsNothing, NothingSkipped
  <2>7. ASSUME NEW t \in Ticks, PullNothing(t) PROVE CursorInv'
    BY <2>0, <2>7 DEF PullNothing, TypeOK, stmVars, stateVars, tickVars, seenVars, Go, CursorInv, InOrder,
       Past, ReadSkipsNothing, BatchSkipsNothing, NothingSkipped
  <2>8. ASSUME NEW t \in Ticks, Pull(t) PROVE CursorInv'
    <3> DEFINE fresh == Fresh(since[t])
    <3>1. Cardinality(fresh) <= MaxStm
      BY <2>0, PullIsBounded
    <3>2. Cardinality(fresh) \in Nat
      BY <2>0, StmIsFinite, FS_CardinalityType DEF Fresh
    <3>3. PICK final \in fresh :
            /\ \A m \in fresh : m <= final
            /\ todo' = [todo EXCEPT ![t] = fresh]
            /\ last' = [last EXCEPT ![t] = final]
      <4>1. PICK batch \in SUBSET fresh : \E final \in batch :
              /\ Batch(fresh, batch, final)
              /\ todo' = [todo EXCEPT ![t] = batch]
              /\ last' = [last EXCEPT ![t] = final]
        BY <2>8 DEF Pull
      <4>2. ~ (Cardinality(fresh) > Threshold)
        BY <3>1, <3>2
      <4> HIDE DEF fresh
      <4> QED
        BY <4>1, <4>2 DEF Batch
    <3>4. final \in stm
      BY DEF Fresh
    <3>5. ASSUME NEW m \in stm, m <= final PROVE handled[m] > 0 \/ m \in fresh
      <4>1. CASE m <= since[t]
        BY <2>8, <4>1 DEF Pull, CursorInv, ReadSkipsNothing
      <4>2. CASE since[t] < m
        BY <2>0, <3>5, <4>2, PullHasNoGap
      <4> QED
        BY <2>0, <4>1, <4>2
    <3> HIDE DEF fresh
    <3>6. BatchSkipsNothing'
      BY <2>8, <3>3, <3>5 DEF Pull, TypeOK, stmVars, seenVars, Go, CursorInv,
         BatchSkipsNothing
    <3>7. InOrder'
      BY <2>0, <2>8, <3>3, <3>4 DEF Pull, TypeOK, stmVars, stateVars, CursorInv,
         InOrder, Past
    <3> QED
      BY <2>8, <3>6, <3>7 DEF Pull, TypeOK, stmVars, stateVars, seenVars, Go,
         CursorInv, ReadSkipsNothing, NothingSkipped
  <2>9. ASSUME NEW t \in Ticks, Handle(t) PROVE CursorInv'
    <3>1. PICK m \in todo[t] :
            /\ todo' = [todo EXCEPT ![t] = @ \ {m}]
            /\ handled' = [handled EXCEPT ![m] = More(@)]
      BY <2>9 DEF Handle
    <3>2. \A k \in Stamps : handled[k] > 0 => handled'[k] > 0
      BY <3>1 DEF TypeOK, More
    <3>3. handled'[m] > 0
      BY <3>1 DEF TypeOK, More
    <3>4. \A u \in Ticks : todo[u] \ {m} \subseteq todo'[u]
      BY <3>1 DEF TypeOK
    <3>5. \A u \in Ticks : pc'[u] \in {"handle", "plan"} => pc[u] \in {"handle", "plan"}
      BY <2>9 DEF Handle, Go, TypeOK
    <3>6. \A u \in Ticks : pc'[u] = "pull" => pc[u] = "pull"
      BY <2>9 DEF Handle, Go, TypeOK
    <3>7. UNCHANGED <<stmVars, stateVars, since, last>>
      BY <2>9 DEF Handle
    <3>8. InOrder'
      BY <3>7 DEF stmVars, stateVars, CursorInv, InOrder, Past
    <3>9. ReadSkipsNothing' /\ NothingSkipped'
      BY <2>0, <3>2, <3>6, <3>7 DEF stmVars, stateVars, CursorInv,
         ReadSkipsNothing, NothingSkipped
    <3>10. BatchSkipsNothing'
      BY <2>0, <3>2, <3>3, <3>4, <3>5, <3>7 DEF stmVars, CursorInv, BatchSkipsNothing
    <3> QED
      BY <3>8, <3>9, <3>10 DEF CursorInv
  <2>10. ASSUME NEW t \in Ticks, Plan(t) PROVE CursorInv'
    BY <2>0, <2>10 DEF Plan, TypeOK, stmVars, stateVars, tickVars, seenVars, Go, CursorInv, InOrder,
       Past, ReadSkipsNothing, BatchSkipsNothing, NothingSkipped
  <2>11. ASSUME NEW t \in Ticks, UpdateCursor(t) PROVE CursorInv'
    BY <2>0, <2>11 DEF UpdateCursor, TypeOK, stmVars, stateVars, tickVars, seenVars, Go, CursorInv, InOrder,
       Past, ReadSkipsNothing, BatchSkipsNothing, NothingSkipped
  <2>12. ASSUME NEW t \in Ticks, ClaimSelect(t) PROVE CursorInv'
    BY <2>0, <2>12 DEF ClaimSelect, TypeOK, stmVars, stateVars, tickVars, seenVars, Go, CursorInv, InOrder,
       Past, ReadSkipsNothing, BatchSkipsNothing, NothingSkipped
  <2>13. ASSUME NEW t \in Ticks, EndTick(t) PROVE CursorInv'
    BY <2>0, <2>13 DEF EndTick, TypeOK, stmVars, stateVars, tickVars, seenVars, Go, CursorInv, InOrder,
       Past, ReadSkipsNothing, BatchSkipsNothing, NothingSkipped
  <2>14. ASSUME NEW t \in Ticks, ClaimUpdate(t) PROVE CursorInv'
    BY <2>0, <2>14 DEF ClaimUpdate, TypeOK, stmVars, stateVars, tickVars, seenVars, Go, CursorInv, InOrder,
       Past, ReadSkipsNothing, BatchSkipsNothing, NothingSkipped
  <2>15. ASSUME NEW t \in Ticks, ClaimRead(t) PROVE CursorInv'
    BY <2>0, <2>15 DEF ClaimRead, TypeOK, stmVars, stateVars, tickVars, seenVars, Go, CursorInv, InOrder,
       Past, ReadSkipsNothing, BatchSkipsNothing, NothingSkipped
  <2>16. ASSUME NEW t \in Ticks, Complete(t) PROVE CursorInv'
    BY <2>0, <2>16 DEF Complete, TypeOK, stmVars, stateVars, tickVars, seenVars, Go, CursorInv, InOrder,
       Past, ReadSkipsNothing, BatchSkipsNothing, NothingSkipped
  <2>17. ASSUME NEW t \in Ticks, CursorFails(t) PROVE CursorInv'
    BY <2>0, <2>17 DEF CursorFails, TypeOK, stmVars, stateVars, tickVars, seenVars, Go, CursorInv, InOrder,
       Past, ReadSkipsNothing, BatchSkipsNothing, NothingSkipped
  <2>18. ASSUME NEW t \in Ticks, TaskFails(t) PROVE CursorInv'
    BY <2>0, <2>18 DEF TaskFails, TypeOK, stmVars, stateVars, tickVars, seenVars, Go, CursorInv, InOrder,
       Past, ReadSkipsNothing, BatchSkipsNothing, NothingSkipped
  <2>19. ASSUME NEW t \in Ticks, Crash(t) PROVE CursorInv'
    BY <2>0, <2>19 DEF Crash, TypeOK, stmVars, stateVars, tickVars, seenVars, Go, CursorInv, InOrder,
       Past, ReadSkipsNothing, BatchSkipsNothing, NothingSkipped
  <2>20. CASE UNCHANGED vars
    BY <2>20 DEF vars, stmVars, stateVars, tickVars, seenVars, Go, CursorInv, InOrder,
       Past, ReadSkipsNothing, BatchSkipsNothing, NothingSkipped
  <2> QED
    BY <2>1, <2>2, <2>3, <2>4, <2>5, <2>6, <2>7, <2>8, <2>9, <2>10,
       <2>11, <2>12, <2>13, <2>14, <2>15, <2>16, <2>17, <2>18, <2>19, <2>20 DEF Next, TickStep
<1> QED
  BY <1>1, <1>2, TypeInductive, PTL DEF Spec

\* The cursor never passes a message that the agent has not handled.
THEOREM NothingSkippedHolds ==
    ASSUME \A v, w \in Writers : v = w, MaxStm <= Threshold
    PROVE  Spec => []NothingSkipped
<1>1. CursorInv => NothingSkipped
  BY DEF CursorInv
<1> QED
  BY <1>1, CursorInductive, PTL

\* A task that is done or has failed is not started again.
THEOREM NoLateStartHolds == Spec => NoLateStart
<1>1. TypeOK /\ [Next]_vars => [NoLateStartStep]_vars
  <2> SUFFICES ASSUME TypeOK, Next PROVE NoLateStartStep
    OBVIOUS
  <2>1. ASSUME NEW t \in Ticks, ClaimRead(t) PROVE NoLateStartStep
    BY <2>1 DEF ClaimRead, TypeOK, NoLateStartStep
  <2>2. CASE UNCHANGED started
    BY <2>2 DEF NoLateStartStep
  <2> QED
    BY <2>1, <2>2 DEF Next, TickStep, Stamp, Insert, Prune, SetEnabled, Enqueue,
       ReadState, PullNothing, Pull, Handle, Plan, UpdateCursor, ClaimSelect,
       EndTick, ClaimUpdate, Complete, CursorFails, TaskFails, Crash, seenVars
<1> QED
  BY <1>1, TypeInductive, PTL DEF Spec, NoLateStart

---------------------------------------------------------------------------
\* As long as no tick has started beside another, one at most is under way.
Alone == ~overlapped => \A t, u \in Ticks : pc[t] # "idle" /\ pc[u] # "idle" => t = u

\* Ids are given out in their order, so a new task never takes the row of
\* another.
Contiguous == \E n \in 0 .. TaskBound : \A i \in Tasks : status[i] # "absent" <=> i <= n

\* A tick that is about to start a task has one that was never started, and a
\* task that was started is not queued any more.
StartsOnce ==
    /\ \A t \in Ticks : pc[t] \in {"take", "look", "run"} =>
         task[t] \in Tasks /\ status[task[t]] # "absent"
    /\ ~overlapped =>
         /\ \A i \in Tasks : started[i] <= 1
         /\ \A i \in Tasks : status[i] \in {"absent", "queued"} => started[i] = 0
         /\ \A t \in Ticks :
              /\ pc[t] = "take" => status[task[t]] = "queued"
              /\ pc[t] = "look" => status[task[t]] = "running" /\ started[task[t]] = 0

\* A queued task is a new one.
LEMMA QueueTakesNew ==
    ASSUME TypeOK, Contiguous, NEW i \in Tasks, Queue(i)
    PROVE  status[i] = "absent" /\ Contiguous'
<1>1. PICK n \in 0 .. TaskBound : \A k \in Tasks : status[k] # "absent" <=> k <= n
  BY DEF Contiguous
<1>2. {k \in Tasks : status[k] # "absent"} = 1 .. n
  BY <1>1, BoundsAssumption DEF Tasks
<1>3. Cardinality(1 .. n) = n
  BY FS_Interval, BoundsAssumption
<1>4. i = n + 1
  BY <1>2, <1>3 DEF Queue
<1>5. status[i] = "absent"
  BY <1>1, <1>4
<1>6. \A k \in Tasks : status'[k] # "absent" <=> k <= n + 1
  BY <1>1, <1>4, BoundsAssumption DEF Queue, TypeOK, Tasks
<1>7. n + 1 \in 0 .. TaskBound
  BY <1>4, BoundsAssumption DEF Tasks
<1> QED
  BY <1>5, <1>6, <1>7 DEF Contiguous

\* One tick at a time is why what it has read of its task stays so.
LEMMA StartsInductive == Spec => [](TypeOK /\ Underway /\ Alone /\ Contiguous /\ StartsOnce)
<1>1. Init => Alone /\ Contiguous /\ StartsOnce
  <2> SUFFICES ASSUME Init PROVE Alone /\ Contiguous /\ StartsOnce
    OBVIOUS
  <2>1. Contiguous
    <3>1. 0 \in 0 .. TaskBound /\ \A i \in Tasks : status[i] # "absent" <=> i <= 0
      BY BoundsAssumption DEF Init, Tasks
    <3> QED
      BY <3>1 DEF Contiguous
  <2> QED
    BY <2>1 DEF Init, Alone, StartsOnce
<1>2. TypeOK /\ Underway /\ Alone /\ Contiguous /\ StartsOnce /\ [Next]_vars
        => Alone' /\ Contiguous' /\ StartsOnce'
  <2> SUFFICES ASSUME TypeOK, Alone, Contiguous, StartsOnce, [Next]_vars
               PROVE  Alone' /\ Contiguous' /\ StartsOnce'
    OBVIOUS
  <2>1. ASSUME NEW t \in Ticks, ReadState(t) PROVE Alone' /\ Contiguous' /\ StartsOnce'
    <3>1. Alone'
      BY <2>1 DEF ReadState, Go, Alone, TypeOK
    <3> QED
      BY <2>1, <3>1 DEF ReadState, Go, Contiguous, StartsOnce, TypeOK
  <2>2. ASSUME NEW i \in Tasks, Queue(i), UNCHANGED <<tickVars, seenVars>>
        PROVE  Alone' /\ Contiguous' /\ StartsOnce'
    <3>1. status[i] = "absent" /\ Contiguous'
      BY <2>2, QueueTakesNew
    <3>2. \A k \in Tasks : k # i => status'[k] = status[k]
      BY <2>2 DEF Queue, TypeOK
    <3>3. status'[i] = "queued"
      BY <2>2 DEF Queue, TypeOK
    <3> QED
      BY <2>2, <3>1, <3>2, <3>3 DEF Alone, StartsOnce, tickVars, seenVars
  <2>3. CASE Enqueue
    BY <2>2, <2>3 DEF Enqueue
  <2>4. ASSUME NEW t \in Ticks, Plan(t) PROVE Alone' /\ Contiguous' /\ StartsOnce'
    BY <2>2, <2>4 DEF Plan
  <2>5. ASSUME NEW t \in Ticks, ClaimSelect(t) PROVE Alone' /\ Contiguous' /\ StartsOnce'
    BY <2>5 DEF ClaimSelect, Go, Alone, Contiguous, StartsOnce, TypeOK, seenVars
  <2>6. ASSUME NEW t \in Ticks, ClaimUpdate(t) PROVE Alone' /\ Contiguous' /\ StartsOnce'
    <3>1. task[t] \in Tasks /\ pc[t] = "take"
      BY <2>6 DEF ClaimUpdate, StartsOnce
    <3>2. \A i \in Tasks : status'[i] # "absent" <=> status[i] # "absent"
      BY <2>6, <3>1 DEF ClaimUpdate, TypeOK
    <3>3. Alone' /\ Contiguous'
      BY <2>6, <3>2 DEF ClaimUpdate, Go, Alone, Contiguous, TypeOK, seenVars
    <3>4. ASSUME ~overlapped, NEW u \in Ticks, u # t PROVE pc'[u] = "idle"
      BY <2>6, <3>1, <3>4 DEF ClaimUpdate, Go, Alone, TypeOK
    <3> QED
      BY <2>6, <3>1, <3>3, <3>4 DEF ClaimUpdate, Go, StartsOnce, TypeOK, seenVars
  <2>7. ASSUME NEW t \in Ticks, ClaimRead(t) PROVE Alone' /\ Contiguous' /\ StartsOnce'
    <3>1. task[t] \in Tasks /\ pc[t] = "look"
      BY <2>7 DEF ClaimRead, StartsOnce
    <3>2. Alone' /\ Contiguous'
      BY <2>7 DEF ClaimRead, Go, Alone, Contiguous, TypeOK
    <3>3. ASSUME ~overlapped, NEW u \in Ticks, u # t PROVE pc'[u] = "idle"
      BY <2>7, <3>1, <3>3 DEF ClaimRead, Go, Alone, TypeOK
    <3> QED
      BY <2>7, <3>1, <3>2, <3>3 DEF ClaimRead, Go, More, StartsOnce, TypeOK
  <2>8. ASSUME NEW t \in Ticks, Complete(t) \/ TaskFails(t)
        PROVE  Alone' /\ Contiguous' /\ StartsOnce'
    <3>1. /\ task[t] \in Tasks /\ pc[t] = "run" /\ UNCHANGED <<task, seenVars>>
          /\ \E s \in {"done", "failed"} : status' = [status EXCEPT ![task[t]] = s]
          /\ \E w \in {"claim", "idle"} : pc' = [pc EXCEPT ![t] = w]
      BY <2>8 DEF Complete, TaskFails, Go, StartsOnce
    <3>2. \A i \in Tasks : status'[i] # "absent" <=> status[i] # "absent" \/ i = task[t]
      BY <3>1 DEF TypeOK
    <3>3. status[task[t]] # "absent"
      BY <3>1 DEF StartsOnce
    <3>4. Alone' /\ Contiguous'
      BY <3>1, <3>2, <3>3 DEF Alone, Contiguous, TypeOK, seenVars
    <3>5. ASSUME ~overlapped, NEW u \in Ticks, u # t PROVE pc'[u] = "idle"
      BY <3>1, <3>5 DEF Alone, TypeOK
    <3> QED
      BY <3>1, <3>4, <3>5 DEF StartsOnce, TypeOK, seenVars
  <2>9. ASSUME NEW t \in Ticks, NEW w \in {"idle", "handle", "plan", "claim"},
               pc' = [pc EXCEPT ![t] = w], pc[t] # "idle", UNCHANGED <<status, task, started, overlapped>>
        PROVE  Alone' /\ Contiguous' /\ StartsOnce'
    BY <2>9 DEF Alone, Contiguous, StartsOnce, TypeOK
  <2>10. ASSUME NEW t \in Ticks,
                \/ PullNothing(t) \/ Pull(t) \/ Handle(t) \/ UpdateCursor(t) \/ EndTick(t)
                \/ CursorFails(t) \/ Crash(t)
         PROVE  Alone' /\ Contiguous' /\ StartsOnce'
    <3>1. pc[t] # "idle" /\ UNCHANGED <<status, task, started, overlapped>>
      BY <2>10 DEF PullNothing, Pull, Handle, UpdateCursor, EndTick, CursorFails, Crash, seenVars
    <3>2. \E w \in {"idle", "handle", "plan", "claim"} : pc' = [pc EXCEPT ![t] = w]
      BY <2>10 DEF PullNothing, Pull, Handle, UpdateCursor, EndTick, CursorFails, Crash, Go
    <3> QED
      BY <2>9, <3>1, <3>2
  <2>11. CASE UNCHANGED <<status, tickVars, seenVars>>
    BY <2>11 DEF Alone, Contiguous, StartsOnce, tickVars, seenVars
  <2>12. ASSUME NEW w \in Writers, Stamp(w) \/ Insert(w) \/ Prune(w)
         PROVE  UNCHANGED <<status, tickVars, seenVars>>
    BY <2>12 DEF Stamp, Insert, Prune
  <2>13. SetEnabled \/ UNCHANGED vars => UNCHANGED <<status, tickVars, seenVars>>
    BY DEF SetEnabled, vars
  <2> QED
    BY <2>1, <2>3, <2>4, <2>5, <2>6, <2>7, <2>8, <2>10, <2>11, <2>12, <2>13 DEF Next, TickStep
<1> QED
  BY <1>1, <1>2, TypeInductive, PTL DEF Spec

\* As long as ticks do not overlap a task is started once, whatever raises or
\* crashes between claim_next_task and complete_task.
THEOREM TaskStartedOnceHolds == Spec => []TaskStartedOnce
<1>1. StartsOnce => TaskStartedOnce
  BY DEF StartsOnce, TaskStartedOnce
<1> QED
  BY <1>1, StartsInductive, PTL

---------------------------------------------------------------------------
\* What is handled is behind the cursor, or behind the place where the one
\* tick under way will put it, and what that tick will handle never was.
HandlesOnce ==
    faults = 0 /\ ~overlapped =>
        /\ \A m \in Stamps : handled[m] <= 1
        /\ \A m \in Stamps : handled[m] > 0 =>
             m <= cursor \/ \E t \in Ticks : pc[t] \in {"handle", "plan"} /\ m <= last[t]
        /\ \A t \in Ticks : pc[t] = "pull" => since[t] = cursor
        /\ \A t \in Ticks : pc[t] \in {"handle", "plan"} =>
             cursor <= last[t] /\ \A m \in todo[t] : handled[m] = 0 /\ m <= last[t]

\* The batch is whole and in order where max_stm cuts it before the attention
\* filter does: then its last message is its newest.
LEMMA HandlesInductive ==
    ASSUME MaxStm <= Threshold
    PROVE  Spec => [](TypeOK /\ Alone /\ HandlesOnce)
<1>1. Init => HandlesOnce
  BY BoundsAssumption DEF Init, HandlesOnce
<1>2. TypeOK /\ Alone /\ HandlesOnce /\ [Next]_vars => HandlesOnce'
  <2> SUFFICES ASSUME TypeOK, Alone, HandlesOnce, [Next]_vars, faults' = 0, ~overlapped'
               PROVE  HandlesOnce'
    BY DEF HandlesOnce
  <2> USE BoundsAssumption
  <2>0. cursor \in Nat /\ since \in [Ticks -> Nat] /\ last \in [Ticks -> Nat]
        /\ stm \subseteq Stamps /\ Stamps \subseteq Nat /\ faults \in Nat
        /\ handled \in [Stamps -> 0 .. 2] /\ todo \in [Ticks -> SUBSET Stamps]
    BY DEF TypeOK, Stamps
  <2>1. ASSUME NEW t \in Ticks, ReadState(t) PROVE HandlesOnce'
    BY <2>1 DEF ReadState, Go, HandlesOnce, TypeOK, stateVars
  <2>2. ASSUME NEW t \in Ticks, Pull(t) PROVE HandlesOnce'
    <3> DEFINE fresh == Fresh(since[t])
    <3>1. Cardinality(fresh) <= MaxStm /\ Cardinality(fresh) \in Nat
      BY <2>0, PullIsBounded, StmIsFinite, FS_CardinalityType DEF Fresh
    <3>2. PICK final \in fresh :
            /\ \A m \in fresh : m <= final
            /\ todo' = [todo EXCEPT ![t] = fresh]
            /\ last' = [last EXCEPT ![t] = final]
      <4>1. PICK batch \in SUBSET fresh : \E final \in batch :
              /\ Batch(fresh, batch, final)
              /\ todo' = [todo EXCEPT ![t] = batch]
              /\ last' = [last EXCEPT ![t] = final]
        BY <2>2 DEF Pull
      <4>2. ~ (Cardinality(fresh) > Threshold)
        BY <3>1
      <4> HIDE DEF fresh
      <4> QED
        BY <4>1, <4>2 DEF Batch
    <3>3. pc[t] = "pull" /\ faults = 0 /\ ~overlapped
          /\ UNCHANGED <<cursor, since, handled, faults, overlapped>>
          /\ pc' = [pc EXCEPT ![t] = "handle"]
      BY <2>2 DEF Pull, Go, stateVars, seenVars
    <3>4. since[t] = cursor /\ \A m \in fresh : m \in Stamps /\ m > cursor
      BY <2>0, <3>3 DEF HandlesOnce, Fresh
    <3>5. \A u \in Ticks : u # t => pc[u] = "idle"
      BY <3>3 DEF Alone
    <3>6. \A m \in fresh : handled[m] = 0
      <4> SUFFICES ASSUME NEW m \in fresh, handled[m] # 0 PROVE FALSE
        OBVIOUS
      <4> HIDE DEF fresh
      <4>1. m \in Stamps /\ m \in Nat /\ m > cursor
        BY <2>0, <3>4
      <4>2. handled[m] > 0 /\ ~(m <= cursor)
        BY <2>0, <4>1
      <4> QED
        BY <3>3, <3>5, <4>1, <4>2 DEF HandlesOnce
    <3> HIDE DEF fresh
    <3>7. \A u \in Ticks : pc'[u] \in {"handle", "plan"} => u = t
      BY <3>3, <3>5 DEF TypeOK
    <3>8. \A m \in fresh : m \in Nat /\ cursor <= m
      <4> SUFFICES ASSUME NEW m \in fresh PROVE m \in Nat /\ cursor <= m
        OBVIOUS
      <4>1. m \in Stamps /\ m > cursor
        BY <3>4
      <4> QED
        BY <2>0, <4>1
    <3>10. todo'[t] = fresh /\ last'[t] = final
      BY <2>0, <3>2
    <3>9. \A m \in Stamps : handled[m] > 0 => m <= cursor
      BY <3>3, <3>5 DEF HandlesOnce
    <3> QED
      BY <2>0, <3>2, <3>3, <3>5, <3>6, <3>7, <3>8, <3>9, <3>10 DEF HandlesOnce, TypeOK
  <2>3. ASSUME NEW t \in Ticks, Handle(t) PROVE HandlesOnce'
    <3>1. PICK m \in todo[t] :
            /\ todo' = [todo EXCEPT ![t] = @ \ {m}]
            /\ handled' = [handled EXCEPT ![m] = More(@)]
      BY <2>3 DEF Handle
    <3>2. /\ pc[t] \in {"handle", "plan"} /\ pc' = [pc EXCEPT ![t] = "plan"]
          /\ UNCHANGED <<cursor, since, last, faults, overlapped>>
      BY <2>3 DEF Handle, Go, stateVars
    <3>3. handled[m] = 0 /\ m <= last[t] /\ m \in Stamps
      BY <2>0, <3>2 DEF HandlesOnce
    <3>4. \A u \in Ticks : u # t => pc[u] = "idle" /\ pc'[u] = "idle"
      BY <3>2 DEF Alone, TypeOK
    <3>5. handled'[m] = 1 /\ \A k \in Stamps : k # m => handled'[k] = handled[k]
      BY <2>0, <3>1, <3>3 DEF More
    <3>6. todo'[t] = todo[t] \ {m}
      BY <2>0, <3>1
    <3>7. pc'[t] = "plan" /\ last[t] \in Nat /\ faults = 0 /\ ~overlapped
      BY <2>0, <3>2 DEF TypeOK
    <3>8. \A k \in Stamps : handled'[k] <= 1
      BY <3>5, <3>7 DEF HandlesOnce
    <3>9. \A k \in Stamps : handled'[k] > 0 => k <= cursor \/ k <= last[t]
      BY <3>3, <3>4, <3>5, <3>7 DEF HandlesOnce
    <3>10. cursor <= last[t] /\ \A k \in todo'[t] : handled'[k] = 0 /\ k <= last[t]
      <4>1. cursor <= last[t] /\ \A k \in todo[t] : handled[k] = 0 /\ k <= last[t]
        BY <3>2, <3>7 DEF HandlesOnce
      <4>2. todo[t] \subseteq Stamps
        BY <2>0
      <4> QED
        BY <3>5, <3>6, <4>1, <4>2
    <3> QED
      BY <3>2, <3>4, <3>7, <3>8, <3>9, <3>10 DEF HandlesOnce
  <2>4. ASSUME NEW t \in Ticks, UpdateCursor(t) PROVE HandlesOnce'
    <3>1. /\ pc[t] = "plan" /\ pc' = [pc EXCEPT ![t] = "claim"] /\ cursor' = last[t]
          /\ UNCHANGED <<since, last, todo, handled, faults, overlapped>>
      BY <2>4 DEF UpdateCursor, Go, seenVars
    <3>2. \A u \in Ticks : u # t => pc[u] = "idle" /\ pc'[u] = "idle"
      BY <3>1 DEF Alone, TypeOK
    <3>3. pc'[t] = "claim"
      BY <3>1 DEF TypeOK
    <3>4. \A m \in Stamps : handled[m] > 0 => m <= last[t]
      BY <2>0, <3>1, <3>2 DEF HandlesOnce
    <3> QED
      BY <2>0, <3>1, <3>2, <3>3, <3>4 DEF HandlesOnce
  <2>5. ASSUME NEW t \in Ticks, NEW w \in {"idle", "claim", "take", "look", "run"},
               pc[t] \notin {"handle", "plan"}, pc' = [pc EXCEPT ![t] = w],
               UNCHANGED <<cursor, since, last, todo, handled, faults, overlapped>>
        PROVE  HandlesOnce'
    BY <2>0, <2>5 DEF HandlesOnce, TypeOK
  <2>6. ASSUME NEW t \in Ticks,
               \/ PullNothing(t) \/ ClaimSelect(t) \/ EndTick(t) \/ ClaimUpdate(t)
               \/ ClaimRead(t) \/ Complete(t)
        PROVE  HandlesOnce'
    <3>1. /\ pc[t] \notin {"handle", "plan"}
          /\ UNCHANGED <<cursor, since, last, todo, handled, faults, overlapped>>
      BY <2>6 DEF PullNothing, ClaimSelect, EndTick, ClaimUpdate, ClaimRead, Complete,
         stateVars, seenVars
    <3>2. \E w \in {"idle", "claim", "take", "look", "run"} : pc' = [pc EXCEPT ![t] = w]
      BY <2>6 DEF PullNothing, ClaimSelect, EndTick, ClaimUpdate, ClaimRead, Complete, Go
    <3> QED
      BY <2>5, <3>1, <3>2
  <2>7. ASSUME NEW t \in Ticks, CursorFails(t) \/ TaskFails(t) \/ Crash(t) PROVE HandlesOnce'
    BY <2>0, <2>7 DEF CursorFails, TaskFails, Crash, Fault
  <2>8. CASE UNCHANGED <<cursor, tickVars, seenVars, faults>>
    BY <2>8 DEF HandlesOnce, tickVars, seenVars
  <2>9. ASSUME NEW w \in Writers, Stamp(w) \/ Insert(w) \/ Prune(w)
        PROVE  UNCHANGED <<cursor, tickVars, seenVars, faults>>
    BY <2>9 DEF Stamp, Insert, Prune, stateVars
  <2>10. ASSUME NEW t \in Ticks, Plan(t) PROVE UNCHANGED <<cursor, tickVars, seenVars, faults>>
    BY <2>10 DEF Plan, stateVars
  <2>11. SetEnabled \/ Enqueue \/ UNCHANGED vars => UNCHANGED <<cursor, tickVars, seenVars, faults>>
    BY DEF SetEnabled, Enqueue, vars, stateVars
  <2> QED
    BY <2>1, <2>2, <2>3, <2>4, <2>6, <2>7, <2>8, <2>9, <2>10, <2>11 DEF Next, TickStep
<1>3. Spec => [](TypeOK /\ Alone)
  BY StartsInductive, PTL
<1> QED
  BY <1>1, <1>2, <1>3, PTL DEF Spec

\* Ticks that neither overlap nor fail handle a message once, while any number
\* of threads add messages, and messages are pruned between the pull and the
\* write of the cursor.
THEOREM HandledOnceHolds ==
    ASSUME MaxStm <= Threshold
    PROVE  Spec => []HandledOnce
<1>1. HandlesOnce => HandledOnce
  BY DEF HandlesOnce, HandledOnce
<1> QED
  BY <1>1, HandlesInductive, PTL
=============================================================================
