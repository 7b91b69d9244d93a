----------------------------- MODULE OneTurnProofs -----------------------------
(***************************************************************************)
(* The parts around the body of a turn, for every value of their bounds:   *)
(* what the stream of a turn says when it ends is so, what its model calls *)
(* show and how they fail is honest, and a cycle of the executive          *)
(* controller agrees with the graph and the effects it leaves.             *)
(***************************************************************************)
EXTENDS ChatStream, ProviderFailover, ExecutiveCycle,
        SequenceTheorems, FiniteSetTheorems, WellFoundedInduction, TLAPS

(***************************************************************************)
(* ChatStream                                                              *)
(***************************************************************************)
Entries == 1 .. EventBound \cup {End}

\* The events in a queue: all entries but STREAM_END.
HasEnd(q) == \E i \in 1 .. Len(q) : q[i] = End
Events(q) == Len(q) - (IF HasEnd(q) THEN 1 ELSE 0)
EndsIt(q) == \A i \in 1 .. Len(q) : q[i] = End => i = Len(q)

\* An event put behind others that are not the end is one event more.
LEMMA AppendEvent ==
    ASSUME NEW q \in Seq(Entries), NEW e \in 1 .. EventBound, ~HasEnd(q)
    PROVE  /\ Append(q, e) \in Seq(Entries) /\ Len(Append(q, e)) = Len(q) + 1
           /\ ~HasEnd(Append(q, e)) /\ Events(Append(q, e)) = Events(q) + 1
BY StreamAssumption DEF HasEnd, Events, Entries

\* STREAM_END put behind events ends the queue and is no event.
LEMMA AppendEnd ==
    ASSUME NEW q \in Seq(Entries), ~HasEnd(q)
    PROVE  /\ Append(q, End) \in Seq(Entries) /\ Len(Append(q, End)) = Len(q) + 1
           /\ EndsIt(Append(q, End)) /\ Events(Append(q, End)) = Events(q)
<1>1. HasEnd(Append(q, End))
    <2>1. Append(q, End)[Len(q) + 1] = End /\ Len(Append(q, End)) = Len(q) + 1
        OBVIOUS
    <2> QED
        BY <2>1 DEF HasEnd
<1> QED
    BY <1>1 DEF HasEnd, Events, EndsIt, Entries

\* Taking an event leaves one event less, and STREAM_END where it was.
LEMMA TakeEvent ==
    ASSUME NEW q \in Seq(Entries), q # <<>>, EndsIt(q), Head(q) # End
    PROVE  /\ Tail(q) \in Seq(Entries) /\ Len(Tail(q)) = Len(q) - 1
           /\ EndsIt(Tail(q)) /\ Events(Tail(q)) = Events(q) - 1
           /\ HasEnd(Tail(q)) => HasEnd(q)
<1>1. /\ Len(q) \in Nat \ {0} /\ Len(Tail(q)) = Len(q) - 1
      /\ \A i \in 1 .. Len(q) - 1 : Tail(q)[i] = q[i + 1]
    OBVIOUS
<1>2. HasEnd(Tail(q)) <=> HasEnd(q)
    BY <1>1 DEF HasEnd
<1>3. EndsIt(Tail(q))
    <2> SUFFICES ASSUME NEW i \in 1 .. Len(Tail(q)), Tail(q)[i] = End PROVE i = Len(Tail(q))
        BY DEF EndsIt
    <2>1. i + 1 \in 1 .. Len(q) /\ q[i + 1] = End
        BY <1>1
    <2>2. i + 1 = Len(q)
        BY <2>1 DEF EndsIt
    <2>3. i \in Nat /\ Len(q) \in Nat
        BY <1>1
    <2>4. i = Len(q) - 1
        BY <2>2, <2>3
    <2> QED
        BY <1>1, <2>4
<1>4. Tail(q) \in Seq(Entries)
    OBVIOUS
<1> QED
    BY <1>1, <1>2, <1>3, <1>4 DEF Events

\* STREAM_END is taken from a queue that holds nothing else.
LEMMA TakeEnd ==
    ASSUME NEW q \in Seq(Entries), q # <<>>, EndsIt(q), Head(q) = End
    PROVE  Tail(q) = <<>> /\ Events(q) = 0
<1>1. Len(q) = 1 /\ q[1] = End
    BY DEF EndsIt
<1>2. Tail(q) = <<>>
    <2>1. Tail(q) \in Seq(Entries) /\ Len(Tail(q)) = 0
        BY <1>1
    <2> QED
        BY <2>1, EmptySeq
<1>3. HasEnd(q)
    BY <1>1 DEF HasEnd
<1> QED
    BY <1>1, <1>2, <1>3 DEF Events

\* An empty queue holds no event and no end.
LEMMA EmptyQueue ==
    /\ Events(<<>>) = 0 /\ Events(<<>>) \in Int /\ ~HasEnd(<<>>) /\ EndsIt(<<>>)
    /\ <<>> \in Seq(Entries) /\ Len(<<>>) <= Capacity
BY StreamAssumption DEF Events, HasEnd, EndsIt

---------------------------------------------------------------------------
\* STREAM_END is put last, by a task that is done then.
EndComesLast == EndsIt(queue) /\ (HasEnd(queue) => wpc = "done")

\* The generator goes on behind the queue, and ends, only after the task; a task
\* that waits for room has an event to put.
TaskFirst ==
    /\ wpc = "put" => emitted > 0
    /\ gpc \in {"drain", "drainCheck", "drainYield", "after", "closed"} => wpc = "done"
    /\ final # "none" => gpc = "closed"

\* Nobody cancels the task of a stream that is not being left.
LeavingCancels ==
    /\ leaving => gpc \in {"finally", "await", "after", "closed"}
    /\ ~leaving => ~cancelled /\ outcome # "cancelled"

\* The event that the generator, or the worker, has in its hands.
InHand == IF gpc \in {"check", "yield", "drainCheck", "drainYield"} THEN 1 ELSE 0
Waiting == IF wpc = "put" THEN 1 ELSE 0

\* Every event is sent, in a hand or in the queue, and none is left behind a
\* stream that has come to its end.
EventsCounted ==
    ~leaving =>
        /\ sent + InHand + Events(queue) + Waiting = emitted
        /\ gpc \in {"finally", "await", "after", "closed"} =>
              wpc = "done" /\ queue = <<>>

\* StreamIsWhole is not inductive: that nothing is missing at the end is so
\* because it was so at every step.
StreamInv ==
    /\ TypeOK
    /\ EndComesLast
    /\ TaskFirst
    /\ LeavingCancels
    /\ EventsCounted
    /\ DoneIsComplete

\* A stream starts whole.
LEMMA StreamStarts == Init => StreamInv
<1> SUFFICES ASSUME Init PROVE StreamInv
    OBVIOUS
<1> USE DEF Init
<1>1. TypeOK
    <2>1. queue \in Seq(1 .. EventBound \cup {End}) /\ Len(queue) <= Capacity
        BY StreamAssumption
    <2>2. cancelled \in BOOLEAN /\ leaving \in BOOLEAN /\ driven \in BOOLEAN
        BY Zenon
    <2> QED
        BY <2>1, <2>2, StreamAssumption DEF TypeOK
<1>2. EndComesLast /\ TaskFirst
    BY EmptyQueue DEF EndComesLast, TaskFirst
<1>3. LeavingCancels
    BY DEF LeavingCancels
<1>4. EventsCounted
    BY EmptyQueue DEF EventsCounted, InHand, Waiting
<1>5. DoneIsComplete
    BY DEF DoneIsComplete
<1> QED
    BY <1>1, <1>2, <1>3, <1>4, <1>5 DEF StreamInv

\* What the steps that touch the queue need to know of it.
LEMMA QueueFacts ==
    ASSUME StreamInv
    PROVE  /\ queue \in Seq(Entries) /\ Len(queue) \in Nat /\ Len(queue) <= Capacity
           /\ EndsIt(queue) /\ Events(queue) \in Nat
           /\ wpc # "done" => ~HasEnd(queue)
           /\ InHand \in Nat /\ Waiting \in Nat
<1>1. queue \in Seq(Entries) /\ Len(queue) <= Capacity
    BY DEF StreamInv, TypeOK, Entries
<1>2. Len(queue) \in Nat
    BY <1>1
<1>3. Events(queue) \in Nat
    <2>1. HasEnd(queue) => Len(queue) > 0
        BY <1>2 DEF HasEnd
    <2> QED
        BY <1>2, <2>1 DEF Events
<1> QED
    BY <1>1, <1>2, <1>3 DEF StreamInv, EndComesLast, InHand, Waiting

\* No step of the task, the generator or the client breaks the count.
LEMMA StreamInductive == StreamInv /\ [Next]_vars => StreamInv'
<1> SUFFICES ASSUME StreamInv, [Next]_vars PROVE StreamInv'
    OBVIOUS
<1> USE StreamAssumption DEF StreamInv, workerVars, genVars
<1>1. ASSUME WorkerStarts PROVE StreamInv'
  <2> USE <1>1 DEF WorkerStarts
  <2>1. TypeOK'
    BY DEF TypeOK, EventsCounted, LeavingCancels, InHand, Waiting
  <2>2. EndComesLast'
    BY DEF TypeOK, EndComesLast
  <2>3. TaskFirst'
    BY DEF TypeOK, TaskFirst
  <2>4. LeavingCancels'
    BY DEF TypeOK, LeavingCancels
  <2>5. EventsCounted'
    BY DEF TypeOK, EventsCounted, TaskFirst, InHand, Waiting
  <2>6. DoneIsComplete'
    BY DEF TypeOK, DoneIsComplete, TaskFirst, EventsCounted
  <2> QED
    BY <2>1, <2>2, <2>3, <2>4, <2>5, <2>6
<1>2. ASSUME Emit PROVE StreamInv'
  <2> USE <1>2 DEF Emit
  <2>0. /\ queue \in Seq(Entries) /\ Len(queue) \in Nat /\ Len(queue) <= Capacity
        /\ EndsIt(queue) /\ Events(queue) \in Nat /\ (wpc # "done" => ~HasEnd(queue))
        /\ InHand \in Nat /\ Waiting \in Nat
    BY QueueFacts
  <2>q. /\ queue' \in Seq(Entries) /\ Len(queue') <= Capacity
        /\ EndsIt(queue') /\ ~HasEnd(queue') /\ Events(queue') \in Nat /\ Waiting' \in Nat
        /\ Events(queue') + Waiting' = Events(queue) + Waiting + (emitted' - emitted)
        /\ emitted' \in 0 .. EventBound /\ wpc' \in {"run", "put"} /\ wpc # "done"
    <3>1. emitted \in 0 .. EventBound /\ emitted' = emitted + 1 /\ emitted' \in 1 .. EventBound
      BY DEF TypeOK
    <3>2. CASE Room
      <4>1. queue' = Append(queue, emitted + 1) /\ wpc = "run" /\ wpc' = "run"
        BY <3>2
      <4>2. /\ queue' \in Seq(Entries) /\ Len(queue') = Len(queue) + 1
            /\ ~HasEnd(queue') /\ Events(queue') = Events(queue) + 1
        BY <2>0, <3>1, <4>1, AppendEvent
      <4> QED
        BY <2>0, <3>1, <3>2, <4>1, <4>2 DEF Room, Waiting, HasEnd, EndsIt
    <3>3. CASE ~Room
      BY <2>0, <3>1, <3>3 DEF Waiting
    <3> QED
      BY <3>2, <3>3
  <2>1. TypeOK'
    <3>1. cancelled' \in BOOLEAN /\ leaving' \in BOOLEAN /\ driven' \in BOOLEAN
      BY Zenon DEF TypeOK
    <3> QED
      BY <3>1, <2>0, <2>q DEF TypeOK, EventsCounted, LeavingCancels, InHand, Waiting, Entries
  <2>2. EndComesLast'
    BY <2>q DEF EndComesLast
  <2>3. TaskFirst'
    BY <2>q DEF TypeOK, TaskFirst
  <2>4. LeavingCancels'
    BY <2>q DEF TypeOK, LeavingCancels
  <2>5. EventsCounted'
    <3>1. gpc \notin {"finally", "await", "after", "closed"} \/ leaving
      BY <2>q DEF EventsCounted
    <3>2. emitted \in Nat /\ emitted' \in Nat /\ sent \in Nat
      BY <2>q DEF TypeOK
    <3>3. InHand' = InHand /\ UNCHANGED <<gpc, leaving, sent>>
      BY DEF InHand
    <3>4. ~leaving => sent + InHand + Events(queue) + Waiting = emitted
      BY DEF EventsCounted
    <3>5. ~leaving => sent + InHand + Events(queue') + Waiting' = emitted'
      <4>1. /\ Events(queue) \in Nat /\ Events(queue') \in Nat
            /\ InHand \in Nat /\ Waiting \in Nat /\ Waiting' \in Nat
            /\ Events(queue') + Waiting' = Events(queue) + Waiting + (emitted' - emitted)
        BY <2>0, <2>q, Zenon
      <4> HIDE <1>2
      <4> QED
        BY <3>2, <3>4, <4>1
    <3> QED
      BY <3>1, <3>3, <3>5 DEF EventsCounted
  <2>6. DoneIsComplete'
    BY DEF TypeOK, DoneIsComplete, TaskFirst, EventsCounted
  <2> QED
    BY <2>1, <2>2, <2>3, <2>4, <2>5, <2>6
<1>3. ASSUME EmitLate PROVE StreamInv'
  <2> USE <1>3 DEF EmitLate
  <2>0. /\ queue \in Seq(Entries) /\ Len(queue) \in Nat /\ Len(queue) <= Capacity
        /\ EndsIt(queue) /\ Events(queue) \in Nat /\ (wpc # "done" => ~HasEnd(queue))
        /\ InHand \in Nat /\ Waiting \in Nat
    BY QueueFacts
  <2>q. /\ queue' \in Seq(Entries) /\ Len(queue') <= Capacity
        /\ EndsIt(queue') /\ ~HasEnd(queue') /\ Events(queue') \in Nat /\ Waiting' \in Nat
        /\ Events(queue') + Waiting' = Events(queue) + Waiting + (emitted' - emitted)
        /\ emitted' \in 0 .. EventBound /\ wpc' \in {"run", "put"} /\ wpc # "done"
    <3>1. emitted \in 1 .. EventBound
      BY DEF TypeOK, TaskFirst
    <3>2. queue' = Append(queue, emitted) /\ wpc = "put" /\ wpc' = "run" /\ emitted' = emitted
      OBVIOUS
    <3>3. /\ queue' \in Seq(Entries) /\ Len(queue') = Len(queue) + 1
          /\ ~HasEnd(queue') /\ Events(queue') = Events(queue) + 1
      BY <2>0, <3>1, <3>2, AppendEvent
    <3> QED
      BY <2>0, <3>1, <3>2, <3>3 DEF Room, Waiting, HasEnd, EndsIt
  <2>1. TypeOK'
    <3>1. cancelled' \in BOOLEAN /\ leaving' \in BOOLEAN /\ driven' \in BOOLEAN
      BY Zenon DEF TypeOK
    <3> QED
      BY <3>1, <2>0, <2>q DEF TypeOK, EventsCounted, LeavingCancels, InHand, Waiting, Entries
  <2>2. EndComesLast'
    BY <2>q DEF EndComesLast
  <2>3. TaskFirst'
    BY <2>q DEF TypeOK, TaskFirst
  <2>4. LeavingCancels'
    BY <2>q DEF TypeOK, LeavingCancels
  <2>5. EventsCounted'
    <3>1. gpc \notin {"finally", "await", "after", "closed"} \/ leaving
      BY <2>q DEF EventsCounted
    <3>2. emitted \in Nat /\ emitted' \in Nat /\ sent \in Nat
      BY <2>q DEF TypeOK
    <3>3. InHand' = InHand /\ UNCHANGED <<gpc, leaving, sent>>
      BY DEF InHand
    <3>4. ~leaving => sent + InHand + Events(queue) + Waiting = emitted
      BY DEF EventsCounted
    <3>5. ~leaving => sent + InHand + Events(queue') + Waiting' = emitted'
      <4>1. /\ Events(queue) \in Nat /\ Events(queue') \in Nat
            /\ InHand \in Nat /\ Waiting \in Nat /\ Waiting' \in Nat
            /\ Events(queue') + Waiting' = Events(queue) + Waiting + (emitted' - emitted)
        BY <2>0, <2>q, Zenon
      <4> HIDE <1>3
      <4> QED
        BY <3>2, <3>4, <4>1
    <3> QED
      BY <3>1, <3>3, <3>5 DEF EventsCounted
  <2>6. DoneIsComplete'
    BY DEF TypeOK, DoneIsComplete, TaskFirst, EventsCounted
  <2> QED
    BY <2>1, <2>2, <2>3, <2>4, <2>5, <2>6
<1>4. ASSUME TurnEnds PROVE StreamInv'
  <2> USE <1>4 DEF TurnEnds, Leave
  <2>0. /\ queue \in Seq(Entries) /\ Len(queue) \in Nat /\ Len(queue) <= Capacity
        /\ EndsIt(queue) /\ Events(queue) \in Nat /\ (wpc # "done" => ~HasEnd(queue))
        /\ InHand \in Nat /\ Waiting \in Nat
    BY QueueFacts
  <2>q. /\ queue' \in Seq(Entries) /\ Len(queue') <= Capacity
        /\ EndsIt(queue') /\ (HasEnd(queue') => wpc' = "done")
        /\ Events(queue') = Events(queue) /\ Waiting' = 0
        /\ wpc' \in {"end", "done"} /\ wpc # "done" /\ (~cancelled => Waiting = 0)
        /\ outcome' \in {"ok", "error", "cancelled"} /\ (outcome' = "cancelled" => cancelled \/ wpc = "end")
        /\ UNCHANGED <<emitted, gpc, leaving, driven, sent, final, client>>
        /\ cancelled' = FALSE
    <3>1. CASE Room
      <4>1. queue' = Append(queue, End) /\ wpc' = "done" /\ wpc \in {"run", "put"}
        BY <3>1
      <4>2. /\ queue' \in Seq(Entries) /\ Len(queue') = Len(queue) + 1
            /\ EndsIt(queue') /\ Events(queue') = Events(queue)
        BY <2>0, <4>1, AppendEnd
      <4> QED
        BY <2>0, <3>1, <4>1, <4>2 DEF Room, Waiting
    <3>2. CASE ~Room
      BY <2>0, <3>2 DEF Waiting
    <3> QED
      BY <3>1, <3>2
  <2>1. TypeOK'
    <3>1. cancelled' \in BOOLEAN /\ leaving' \in BOOLEAN /\ driven' \in BOOLEAN
      BY Zenon DEF TypeOK
    <3> QED
      BY <3>1, <2>0, <2>q DEF TypeOK, EventsCounted, LeavingCancels, InHand, Waiting, Entries
  <2>2. EndComesLast'
    BY <2>q DEF EndComesLast
  <2>3. TaskFirst'
    BY <2>q DEF TypeOK, TaskFirst
  <2>4. LeavingCancels'
    BY <2>q DEF TypeOK, LeavingCancels
  <2>5. EventsCounted'
    BY <2>0, <2>q DEF TypeOK, EventsCounted, TaskFirst, LeavingCancels, InHand
  <2>6. DoneIsComplete'
    BY DEF TypeOK, DoneIsComplete, TaskFirst, EventsCounted
  <2> QED
    BY <2>1, <2>2, <2>3, <2>4, <2>5, <2>6
<1>5. ASSUME TurnCancelled PROVE StreamInv'
  <2> USE <1>5 DEF TurnCancelled, Leave
  <2>0. /\ queue \in Seq(Entries) /\ Len(queue) \in Nat /\ Len(queue) <= Capacity
        /\ EndsIt(queue) /\ Events(queue) \in Nat /\ (wpc # "done" => ~HasEnd(queue))
        /\ InHand \in Nat /\ Waiting \in Nat
    BY QueueFacts
  <2>q. /\ queue' \in Seq(Entries) /\ Len(queue') <= Capacity
        /\ EndsIt(queue') /\ (HasEnd(queue') => wpc' = "done")
        /\ Events(queue') = Events(queue) /\ Waiting' = 0
        /\ wpc' \in {"end", "done"} /\ wpc # "done" /\ (~cancelled => Waiting = 0)
        /\ outcome' \in {"ok", "error", "cancelled"} /\ (outcome' = "cancelled" => cancelled \/ wpc = "end")
        /\ UNCHANGED <<emitted, gpc, leaving, driven, sent, final, client>>
        /\ cancelled' = FALSE
    <3>1. CASE Room
      <4>1. queue' = Append(queue, End) /\ wpc' = "done" /\ wpc \in {"run", "put"}
        BY <3>1
      <4>2. /\ queue' \in Seq(Entries) /\ Len(queue') = Len(queue) + 1
            /\ EndsIt(queue') /\ Events(queue') = Events(queue)
        BY <2>0, <4>1, AppendEnd
      <4> QED
        BY <2>0, <3>1, <4>1, <4>2 DEF Room, Waiting
    <3>2. CASE ~Room
      BY <2>0, <3>2 DEF Waiting
    <3> QED
      BY <3>1, <3>2
  <2>1. TypeOK'
    <3>1. cancelled' \in BOOLEAN /\ leaving' \in BOOLEAN /\ driven' \in BOOLEAN
      BY Zenon DEF TypeOK
    <3> QED
      BY <3>1, <2>0, <2>q DEF TypeOK, EventsCounted, LeavingCancels, InHand, Waiting, Entries
  <2>2. EndComesLast'
    BY <2>q DEF EndComesLast
  <2>3. TaskFirst'
    BY <2>q DEF TypeOK, TaskFirst
  <2>4. LeavingCancels'
    BY <2>q DEF TypeOK, LeavingCancels
  <2>5. EventsCounted'
    BY <2>0, <2>q DEF TypeOK, EventsCounted, TaskFirst, LeavingCancels, InHand
  <2>6. DoneIsComplete'
    BY DEF TypeOK, DoneIsComplete, TaskFirst, EventsCounted
  <2> QED
    BY <2>1, <2>2, <2>3, <2>4, <2>5, <2>6
<1>6. ASSUME PutEnd PROVE StreamInv'
  <2> USE <1>6 DEF PutEnd
  <2>0. /\ queue \in Seq(Entries) /\ Len(queue) \in Nat /\ Len(queue) <= Capacity
        /\ EndsIt(queue) /\ Events(queue) \in Nat /\ (wpc # "done" => ~HasEnd(queue))
        /\ InHand \in Nat /\ Waiting \in Nat
    BY QueueFacts
  <2>q. /\ queue' \in Seq(Entries) /\ Len(queue') <= Capacity
        /\ EndsIt(queue') /\ (HasEnd(queue') => wpc' = "done")
        /\ Events(queue') = Events(queue) /\ Waiting' = 0
        /\ wpc' \in {"end", "done"} /\ wpc # "done" /\ (~cancelled => Waiting = 0)
        /\ outcome' \in {"none", "ok", "error", "cancelled"} /\ (outcome' = "cancelled" => outcome = "cancelled")
        /\ UNCHANGED <<emitted, gpc, leaving, driven, sent, final, client>>
        /\ cancelled' = FALSE
    <3>1. queue' = Append(queue, End) /\ wpc' = "done" /\ wpc = "end"
      OBVIOUS
    <3>2. /\ queue' \in Seq(Entries) /\ Len(queue') = Len(queue) + 1
          /\ EndsIt(queue') /\ Events(queue') = Events(queue)
      BY <2>0, <3>1, AppendEnd
    <3>3. /\ outcome' \in {"none", "ok", "error", "cancelled"} /\ cancelled' = FALSE
          /\ UNCHANGED <<emitted, gpc, leaving, driven, sent, final, client>>
      BY DEF TypeOK
    <3>4. Waiting = 0 /\ Waiting' = 0
      BY <3>1 DEF Waiting
    <3> QED
      BY <2>0, <3>1, <3>2, <3>3, <3>4 DEF Room
  <2>1. TypeOK'
    <3>1. cancelled' \in BOOLEAN /\ leaving' \in BOOLEAN /\ driven' \in BOOLEAN
      BY Zenon DEF TypeOK
    <3> QED
      BY <3>1, <2>0, <2>q DEF TypeOK, EventsCounted, LeavingCancels, InHand, Waiting, Entries
  <2>2. EndComesLast'
    BY <2>q DEF EndComesLast
  <2>3. TaskFirst'
    BY <2>q DEF TypeOK, TaskFirst
  <2>4. LeavingCancels'
    BY <2>q DEF TypeOK, LeavingCancels
  <2>5. EventsCounted'
    BY <2>0, <2>q DEF TypeOK, EventsCounted, TaskFirst, LeavingCancels, InHand
  <2>6. DoneIsComplete'
    BY DEF TypeOK, DoneIsComplete, TaskFirst, EventsCounted
  <2> QED
    BY <2>1, <2>2, <2>3, <2>4, <2>5, <2>6
<1>7. ASSUME WorkerCancelled PROVE StreamInv'
  <2> USE <1>7 DEF WorkerCancelled
  <2>1. TypeOK'
    BY DEF TypeOK, EventsCounted, LeavingCancels, InHand, Waiting
  <2>2. EndComesLast'
    BY DEF TypeOK, EndComesLast
  <2>3. TaskFirst'
    BY DEF TypeOK, TaskFirst
  <2>4. LeavingCancels'
    BY DEF TypeOK, LeavingCancels
  <2>5. EventsCounted'
    BY DEF TypeOK, EventsCounted, TaskFirst, InHand, Waiting
  <2>6. DoneIsComplete'
    BY DEF TypeOK, DoneIsComplete, TaskFirst, EventsCounted
  <2> QED
    BY <2>1, <2>2, <2>3, <2>4, <2>5, <2>6
<1>8. ASSUME Loop PROVE StreamInv'
  <2> USE <1>8 DEF Loop, GoTo
  <2>1. TypeOK'
    BY DEF TypeOK, EventsCounted, LeavingCancels, InHand, Waiting
  <2>2. EndComesLast'
    BY DEF TypeOK, EndComesLast
  <2>3. TaskFirst'
    BY DEF TypeOK, TaskFirst
  <2>4. LeavingCancels'
    BY DEF TypeOK, LeavingCancels
  <2>5. EventsCounted'
    BY DEF TypeOK, EventsCounted, TaskFirst, InHand, Waiting
  <2>6. DoneIsComplete'
    BY DEF TypeOK, DoneIsComplete, TaskFirst, EventsCounted
  <2> QED
    BY <2>1, <2>2, <2>3, <2>4, <2>5, <2>6
<1>9. ASSUME Get PROVE StreamInv'
  <2> USE <1>9 DEF Get, Take, CleanUp
  <2>0. /\ queue \in Seq(Entries) /\ Len(queue) \in Nat /\ Len(queue) <= Capacity
        /\ EndsIt(queue) /\ Events(queue) \in Nat /\ (wpc # "done" => ~HasEnd(queue))
        /\ InHand \in Nat /\ Waiting \in Nat
    BY QueueFacts
  <2>q. /\ queue # <<>> => queue' = Tail(queue)
        /\ queue' \in Seq(Entries) /\ Len(queue') <= Capacity
        /\ EndsIt(queue') /\ (HasEnd(queue') => wpc = "done") /\ Events(queue') \in Int
        /\ \/ /\ gpc' = (IF gpc = "get" THEN "check" ELSE "drainCheck")
              /\ Events(queue') = Events(queue) - 1 /\ leaving' = leaving
           \/ /\ gpc' = "finally" /\ ~leaving' /\ wpc = "done"
              /\ queue' = <<>> /\ Events(queue) = 0 /\ Events(queue') = 0
        /\ gpc \in {"get", "drain"}
        /\ UNCHANGED <<emitted, wpc, outcome, cancelled, driven, sent, final, client>>
    <3>1. CASE queue # <<>> /\ Head(queue) # End
      <4>1. /\ queue' = Tail(queue) /\ gpc' = (IF gpc = "get" THEN "check" ELSE "drainCheck")
            /\ gpc \in {"get", "drain"} /\ leaving' = leaving
        BY <3>1
      <4>2. /\ Tail(queue) \in Seq(Entries) /\ Len(Tail(queue)) = Len(queue) - 1
            /\ EndsIt(Tail(queue)) /\ Events(Tail(queue)) = Events(queue) - 1
            /\ HasEnd(Tail(queue)) => HasEnd(queue)
        BY <2>0, <3>1, TakeEvent
      <4>3. StreamAssumption!1
        BY StreamAssumption
      <4> QED
        BY <2>0, <3>1, <4>1, <4>2, <4>3
    <3>2. CASE queue # <<>> /\ Head(queue) = End
      <4>1. queue' = Tail(queue) /\ gpc' = "finally" /\ ~leaving' /\ gpc \in {"get", "drain"}
        BY <3>2
      <4>2. Tail(queue) = <<>> /\ Events(queue) = 0
        BY <2>0, <3>2, TakeEnd
      <4>3. HasEnd(queue)
        BY <2>0, <3>2 DEF HasEnd
      <4>4. wpc = "done"
        BY <2>0, <4>3
      <4>5. queue' = <<>> /\ Len(queue') <= Capacity /\ queue' \in Seq(Entries)
        <5>1. queue' = <<>>
          BY <4>1, <4>2, Zenon
        <5> QED
          BY <5>1, EmptyQueue, Zenon
      <4>6. /\ EndsIt(queue') /\ (HasEnd(queue') => wpc = "done")
            /\ Events(queue') = 0 /\ Events(queue') \in Int
        BY <4>5, EmptyQueue, Zenon
      <4>7. UNCHANGED <<emitted, wpc, outcome, cancelled, driven, sent, final, client>>
        BY <3>2
      <4> QED
        BY <3>2, <4>1, <4>2, <4>4, <4>5, <4>6, <4>7
    <3>3. CASE queue = <<>>
      BY <3>3
    <3> QED
      BY <3>1, <3>2, <3>3
  <2>1. TypeOK'
    <3>1. cancelled' \in BOOLEAN /\ leaving' \in BOOLEAN /\ driven' \in BOOLEAN
      BY Zenon DEF TypeOK
    <3> QED
      BY <3>1, <2>0, <2>q DEF TypeOK, EventsCounted, LeavingCancels, InHand, Waiting, Entries
  <2>2. EndComesLast'
    BY <2>q DEF EndComesLast
  <2>3. TaskFirst'
    BY <2>q DEF TypeOK, TaskFirst
  <2>4. LeavingCancels'
    BY <2>q DEF TypeOK, LeavingCancels
  <2>5. EventsCounted'
    <3>1. sent \in Nat /\ emitted \in Nat /\ UNCHANGED <<sent, emitted, wpc>> /\ Waiting' = Waiting
      BY <2>q DEF TypeOK, Waiting
    <3>2. ~leaving /\ InHand = 0
      BY <2>q DEF LeavingCancels, InHand
    <3>3. sent + Events(queue) + Waiting = emitted
      BY <2>0, <3>1, <3>2 DEF EventsCounted
    <3>4. CASE gpc' = "finally"
      BY <2>0, <2>q, <3>1, <3>3, <3>4 DEF EventsCounted, InHand
    <3>5. CASE gpc' # "finally"
      <4>1. InHand' = 1 /\ Events(queue') = Events(queue) - 1
        BY <2>q, <3>5 DEF InHand
      <4>2. gpc' \notin {"finally", "await", "after", "closed"}
        BY <2>q, <3>5
      <4>3. sent' + InHand' + Events(queue)' + Waiting' = emitted'
        BY <2>0, <3>1, <3>3, <4>1
      <4> QED
        BY <4>2, <4>3 DEF EventsCounted
    <3> QED
      BY <3>4, <3>5
  <2>6. DoneIsComplete'
    BY DEF TypeOK, DoneIsComplete, TaskFirst, EventsCounted
  <2> QED
    BY <2>1, <2>2, <2>3, <2>4, <2>5, <2>6
<1>10. ASSUME GetTimesOut PROVE StreamInv'
  <2> USE <1>10 DEF GetTimesOut, GoTo
  <2>1. TypeOK'
    BY DEF TypeOK, EventsCounted, LeavingCancels, InHand, Waiting
  <2>2. EndComesLast'
    BY DEF TypeOK, EndComesLast
  <2>3. TaskFirst'
    BY DEF TypeOK, TaskFirst
  <2>4. LeavingCancels'
    BY DEF TypeOK, LeavingCancels
  <2>5. EventsCounted'
    BY DEF TypeOK, EventsCounted, TaskFirst, InHand, Waiting
  <2>6. DoneIsComplete'
    BY DEF TypeOK, DoneIsComplete, TaskFirst, EventsCounted
  <2> QED
    BY <2>1, <2>2, <2>3, <2>4, <2>5, <2>6
<1>11. ASSUME Disconnected PROVE StreamInv'
  <2> USE <1>11 DEF Disconnected, CleanUp
  <2>1. TypeOK'
    BY DEF TypeOK, EventsCounted, LeavingCancels, InHand, Waiting
  <2>2. EndComesLast'
    BY DEF TypeOK, EndComesLast
  <2>3. TaskFirst'
    BY DEF TypeOK, TaskFirst
  <2>4. LeavingCancels'
    BY DEF TypeOK, LeavingCancels
  <2>5. EventsCounted'
    BY DEF TypeOK, EventsCounted, TaskFirst, InHand, Waiting
  <2>6. DoneIsComplete'
    BY DEF TypeOK, DoneIsComplete, TaskFirst, EventsCounted
  <2> QED
    BY <2>1, <2>2, <2>3, <2>4, <2>5, <2>6
<1>12. ASSUME Beat PROVE StreamInv'
  <2> USE <1>12 DEF Beat, GoTo
  <2>1. TypeOK'
    BY DEF TypeOK, EventsCounted, LeavingCancels, InHand, Waiting
  <2>2. EndComesLast'
    BY DEF TypeOK, EndComesLast
  <2>3. TaskFirst'
    BY DEF TypeOK, TaskFirst
  <2>4. LeavingCancels'
    BY DEF TypeOK, LeavingCancels
  <2>5. EventsCounted'
    BY DEF TypeOK, EventsCounted, TaskFirst, InHand, Waiting
  <2>6. DoneIsComplete'
    BY DEF TypeOK, DoneIsComplete, TaskFirst, EventsCounted
  <2> QED
    BY <2>1, <2>2, <2>3, <2>4, <2>5, <2>6
<1>13. ASSUME Connected PROVE StreamInv'
  <2> USE <1>13 DEF Connected, GoTo
  <2>1. TypeOK'
    BY DEF TypeOK, EventsCounted, LeavingCancels, InHand, Waiting
  <2>2. EndComesLast'
    BY DEF TypeOK, EndComesLast
  <2>3. TaskFirst'
    BY DEF TypeOK, TaskFirst
  <2>4. LeavingCancels'
    BY DEF TypeOK, LeavingCancels
  <2>5. EventsCounted'
    BY DEF TypeOK, EventsCounted, TaskFirst, InHand, Waiting
  <2>6. DoneIsComplete'
    BY DEF TypeOK, DoneIsComplete, TaskFirst, EventsCounted
  <2> QED
    BY <2>1, <2>2, <2>3, <2>4, <2>5, <2>6
<1>14. ASSUME Yield PROVE StreamInv'
  <2> USE <1>14 DEF Yield
  <2>0. Events(queue) \in Nat /\ InHand \in Nat /\ Waiting \in Nat
    BY QueueFacts
  <2>1. TypeOK'
    <3>1. gpc # "yieldBeat" => sent + 1 \in 0 .. EventBound
      BY <2>0 DEF TypeOK, EventsCounted, LeavingCancels, InHand
    <3>2. cancelled' \in BOOLEAN /\ leaving' \in BOOLEAN /\ driven' \in BOOLEAN
      BY Zenon DEF TypeOK
    <3> QED
      BY <3>1, <3>2 DEF TypeOK
  <2>2. EndComesLast'
    BY DEF TypeOK, EndComesLast
  <2>3. TaskFirst'
    BY DEF TypeOK, TaskFirst
  <2>4. LeavingCancels'
    BY DEF TypeOK, LeavingCancels
  <2>5. EventsCounted'
    BY DEF TypeOK, EventsCounted, TaskFirst, InHand, Waiting
  <2>6. DoneIsComplete'
    BY DEF TypeOK, DoneIsComplete, TaskFirst, EventsCounted
  <2> QED
    BY <2>1, <2>2, <2>3, <2>4, <2>5, <2>6
<1>15. ASSUME Drain PROVE StreamInv'
  <2> USE <1>15 DEF Drain, Take, CleanUp
  <2>0. /\ queue \in Seq(Entries) /\ Len(queue) \in Nat /\ Len(queue) <= Capacity
        /\ EndsIt(queue) /\ Events(queue) \in Nat /\ (wpc # "done" => ~HasEnd(queue))
        /\ InHand \in Nat /\ Waiting \in Nat
    BY QueueFacts
  <2>q. /\ queue # <<>> => queue' = Tail(queue)
        /\ queue' \in Seq(Entries) /\ Len(queue') <= Capacity
        /\ EndsIt(queue') /\ (HasEnd(queue') => wpc = "done") /\ Events(queue') \in Int
        /\ \/ /\ gpc' = (IF gpc = "get" THEN "check" ELSE "drainCheck")
              /\ Events(queue') = Events(queue) - 1 /\ leaving' = leaving
           \/ /\ gpc' = "finally" /\ ~leaving' /\ wpc = "done"
              /\ queue' = <<>> /\ Events(queue) = 0 /\ Events(queue') = 0
        /\ gpc \in {"get", "drain"}
        /\ UNCHANGED <<emitted, wpc, outcome, cancelled, driven, sent, final, client>>
    <3>1. CASE queue # <<>> /\ Head(queue) # End
      <4>1. /\ queue' = Tail(queue) /\ gpc' = (IF gpc = "get" THEN "check" ELSE "drainCheck")
            /\ gpc \in {"get", "drain"} /\ leaving' = leaving
        BY <3>1
      <4>2. /\ Tail(queue) \in Seq(Entries) /\ Len(Tail(queue)) = Len(queue) - 1
            /\ EndsIt(Tail(queue)) /\ Events(Tail(queue)) = Events(queue) - 1
            /\ HasEnd(Tail(queue)) => HasEnd(queue)
        BY <2>0, <3>1, TakeEvent
      <4>3. StreamAssumption!1
        BY StreamAssumption
      <4> QED
        BY <2>0, <3>1, <4>1, <4>2, <4>3
    <3>2. CASE queue # <<>> /\ Head(queue) = End
      <4>1. queue' = Tail(queue) /\ gpc' = "finally" /\ ~leaving' /\ gpc \in {"get", "drain"}
        BY <3>2
      <4>2. Tail(queue) = <<>> /\ Events(queue) = 0
        BY <2>0, <3>2, TakeEnd
      <4>3. HasEnd(queue)
        BY <2>0, <3>2 DEF HasEnd
      <4>4. wpc = "done"
        BY <2>0, <4>3
      <4>5. queue' = <<>> /\ Len(queue') <= Capacity /\ queue' \in Seq(Entries)
        <5>1. queue' = <<>>
          BY <4>1, <4>2, Zenon
        <5> QED
          BY <5>1, EmptyQueue, Zenon
      <4>6. /\ EndsIt(queue') /\ (HasEnd(queue') => wpc = "done")
            /\ Events(queue') = 0 /\ Events(queue') \in Int
        BY <4>5, EmptyQueue, Zenon
      <4>7. UNCHANGED <<emitted, wpc, outcome, cancelled, driven, sent, final, client>>
        BY <3>2
      <4> QED
        BY <3>2, <4>1, <4>2, <4>4, <4>5, <4>6, <4>7
    <3>3. CASE queue = <<>>
      BY <2>0, <3>3, EmptyQueue DEF LeavingCancels, TaskFirst
    <3> QED
      BY <3>1, <3>2, <3>3
  <2>1. TypeOK'
    <3>1. cancelled' \in BOOLEAN /\ leaving' \in BOOLEAN /\ driven' \in BOOLEAN
      BY Zenon DEF TypeOK
    <3> QED
      BY <3>1, <2>0, <2>q DEF TypeOK, EventsCounted, LeavingCancels, InHand, Waiting, Entries
  <2>2. EndComesLast'
    BY <2>q DEF EndComesLast
  <2>3. TaskFirst'
    BY <2>q DEF TypeOK, TaskFirst
  <2>4. LeavingCancels'
    BY <2>q DEF TypeOK, LeavingCancels
  <2>5. EventsCounted'
    <3>1. sent \in Nat /\ emitted \in Nat /\ UNCHANGED <<sent, emitted, wpc>> /\ Waiting' = Waiting
      BY <2>q DEF TypeOK, Waiting
    <3>2. ~leaving /\ InHand = 0
      BY <2>q DEF LeavingCancels, InHand
    <3>3. sent + Events(queue) + Waiting = emitted
      BY <2>0, <3>1, <3>2 DEF EventsCounted
    <3>4. CASE gpc' = "finally"
      BY <2>0, <2>q, <3>1, <3>3, <3>4 DEF EventsCounted, InHand
    <3>5. CASE gpc' # "finally"
      <4>1. InHand' = 1 /\ Events(queue') = Events(queue) - 1
        BY <2>q, <3>5 DEF InHand
      <4>2. gpc' \notin {"finally", "await", "after", "closed"}
        BY <2>q, <3>5
      <4>3. sent' + InHand' + Events(queue)' + Waiting' = emitted'
        BY <2>0, <3>1, <3>3, <4>1
      <4> QED
        BY <4>2, <4>3 DEF EventsCounted
    <3> QED
      BY <3>4, <3>5
  <2>6. DoneIsComplete'
    BY DEF TypeOK, DoneIsComplete, TaskFirst, EventsCounted
  <2> QED
    BY <2>1, <2>2, <2>3, <2>4, <2>5, <2>6
<1>16. ASSUME Finally PROVE StreamInv'
  <2> USE <1>16 DEF Finally
  <2>1. TypeOK'
    BY DEF TypeOK, EventsCounted, LeavingCancels, InHand, Waiting
  <2>2. EndComesLast'
    BY DEF TypeOK, EndComesLast
  <2>3. TaskFirst'
    BY DEF TypeOK, TaskFirst
  <2>4. LeavingCancels'
    BY DEF TypeOK, LeavingCancels, EventsCounted
  <2>5. EventsCounted'
    BY DEF TypeOK, EventsCounted, TaskFirst, InHand, Waiting
  <2>6. DoneIsComplete'
    BY DEF TypeOK, DoneIsComplete, TaskFirst, EventsCounted
  <2> QED
    BY <2>1, <2>2, <2>3, <2>4, <2>5, <2>6
<1>17. ASSUME Awaited PROVE StreamInv'
  <2> USE <1>17 DEF Awaited, GoTo
  <2>1. TypeOK'
    BY DEF TypeOK, EventsCounted, LeavingCancels, InHand, Waiting
  <2>2. EndComesLast'
    BY DEF TypeOK, EndComesLast
  <2>3. TaskFirst'
    BY DEF TypeOK, TaskFirst
  <2>4. LeavingCancels'
    BY DEF TypeOK, LeavingCancels
  <2>5. EventsCounted'
    BY DEF TypeOK, EventsCounted, TaskFirst, InHand, Waiting
  <2>6. DoneIsComplete'
    BY DEF TypeOK, DoneIsComplete, TaskFirst, EventsCounted
  <2> QED
    BY <2>1, <2>2, <2>3, <2>4, <2>5, <2>6
<1>18. ASSUME Close PROVE StreamInv'
  <2> USE <1>18 DEF Close
  <2>1. TypeOK'
    BY DEF TypeOK, EventsCounted, LeavingCancels, InHand, Waiting
  <2>2. EndComesLast'
    BY DEF TypeOK, EndComesLast
  <2>3. TaskFirst'
    BY DEF TypeOK, TaskFirst
  <2>4. LeavingCancels'
    BY DEF TypeOK, LeavingCancels
  <2>5. EventsCounted'
    BY DEF TypeOK, EventsCounted, TaskFirst, InHand, Waiting
  <2>6. DoneIsComplete'
    <3>1. final' = "done" => ~leaving /\ outcome = "ok"
      OBVIOUS
    <3>2. sent = emitted \/ leaving
      <4>1. InHand = 0
        BY DEF InHand
      <4>2. CASE leaving
        BY <4>2
      <4>3. CASE ~leaving
        <5>1. queue = <<>> /\ wpc = "done" /\ sent + InHand + Events(queue) + Waiting = emitted
          BY <4>3 DEF EventsCounted
        <5>2. Events(queue) = 0 /\ Waiting = 0 /\ sent \in Nat
          BY <5>1, EmptyQueue DEF Waiting, TypeOK
        <5> QED
          BY <4>1, <5>1, <5>2
      <4> QED
        BY <4>2, <4>3
    <3> QED
      BY <3>1, <3>2 DEF DoneIsComplete
  <2> QED
    BY <2>1, <2>2, <2>3, <2>4, <2>5, <2>6
<1>19. ASSUME ClientLeaves PROVE StreamInv'
  <2> USE <1>19 DEF ClientLeaves
  <2>1. TypeOK'
    BY DEF TypeOK, EventsCounted, LeavingCancels, InHand, Waiting
  <2>2. EndComesLast'
    BY DEF TypeOK, EndComesLast
  <2>3. TaskFirst'
    BY DEF TypeOK, TaskFirst
  <2>4. LeavingCancels'
    BY DEF TypeOK, LeavingCancels
  <2>5. EventsCounted'
    BY DEF TypeOK, EventsCounted, TaskFirst, InHand, Waiting
  <2>6. DoneIsComplete'
    BY DEF TypeOK, DoneIsComplete, TaskFirst, EventsCounted
  <2> QED
    BY <2>1, <2>2, <2>3, <2>4, <2>5, <2>6
<1>20. ASSUME Abandon PROVE StreamInv'
  <2> USE <1>20 DEF Abandon
  <2>1. TypeOK'
    BY DEF TypeOK, EventsCounted, LeavingCancels, InHand, Waiting
  <2>2. EndComesLast'
    BY DEF TypeOK, EndComesLast
  <2>3. TaskFirst'
    BY DEF TypeOK, TaskFirst
  <2>4. LeavingCancels'
    BY DEF TypeOK, LeavingCancels
  <2>5. EventsCounted'
    BY DEF TypeOK, EventsCounted, TaskFirst, InHand, Waiting
  <2>6. DoneIsComplete'
    BY DEF TypeOK, DoneIsComplete, TaskFirst, EventsCounted
  <2> QED
    BY <2>1, <2>2, <2>3, <2>4, <2>5, <2>6
<1>21. ASSUME CancelGenerator PROVE StreamInv'
  <2> USE <1>21 DEF CancelGenerator, CleanUp
  <2>1. TypeOK'
    BY DEF TypeOK, EventsCounted, LeavingCancels, InHand, Waiting
  <2>2. EndComesLast'
    BY DEF TypeOK, EndComesLast
  <2>3. TaskFirst'
    BY DEF TypeOK, TaskFirst
  <2>4. LeavingCancels'
    BY DEF TypeOK, LeavingCancels
  <2>5. EventsCounted'
    BY DEF TypeOK, EventsCounted, TaskFirst, InHand, Waiting
  <2>6. DoneIsComplete'
    BY DEF TypeOK, DoneIsComplete, TaskFirst, EventsCounted
  <2> QED
    BY <2>1, <2>2, <2>3, <2>4, <2>5, <2>6
<1>22. ASSUME CancelAgain PROVE StreamInv'
  <2> USE <1>22 DEF CancelAgain
  <2>1. TypeOK'
    BY DEF TypeOK, EventsCounted, LeavingCancels, InHand, Waiting
  <2>2. EndComesLast'
    BY DEF TypeOK, EndComesLast
  <2>3. TaskFirst'
    BY DEF TypeOK, TaskFirst
  <2>4. LeavingCancels'
    BY DEF TypeOK, LeavingCancels, EventsCounted
  <2>5. EventsCounted'
    BY DEF TypeOK, EventsCounted, TaskFirst, InHand, Waiting
  <2>6. DoneIsComplete'
    BY DEF TypeOK, DoneIsComplete, TaskFirst, EventsCounted
  <2> QED
    BY <2>1, <2>2, <2>3, <2>4, <2>5, <2>6
<1>23. CASE UNCHANGED vars
    BY <1>23 DEF vars, TypeOK, EndComesLast, TaskFirst, LeavingCancels, EventsCounted,
                 DoneIsComplete, InHand, Waiting
<1> QED
    BY <1>1, <1>2, <1>3, <1>4, <1>5, <1>6, <1>7, <1>8, <1>9, <1>10, <1>11, <1>12, <1>13, <1>14, <1>15, <1>16, <1>17, <1>18, <1>19, <1>20, <1>21, <1>22, <1>23
       DEF Next, Work, Turn, Generate

\* A stream that says "done" has sent every event of a turn that returned, and a
\* stream that has ended leaves no turn running, for every capacity and length.
THEOREM StreamIsWholeHolds == Spec => []StreamIsWhole
<1>1. StreamInv => StreamIsWhole
    BY DEF StreamInv, StreamIsWhole, NoOrphanTurn, TaskFirst
<1> QED
    BY StreamStarts, StreamInductive, <1>1, PTL DEF Spec

(***************************************************************************)
(* ProviderFailover                                                        *)
(***************************************************************************)
\* The places while a call goes on, and those of an attempt of generate.
InCall    == {"request", "put", "backoff", "sleep", "next", "failed"}
InAttempt == {"request", "put", "backoff"}

\* The first place of the configuration with its name.
First(i) == \A k \in 1 .. i - 1 : Configured[k] # Configured[i]

Texted == Seq(Words \cup {"own"})

\* The providers are tried in their order, each under its first place only.
TriedInOrder ==
    /\ \A i \in Slots : requests[i] > 0 => First(i)
    /\ pc \in InCall =>
          /\ First(slot)
          /\ \A i \in Slots : requests[i] > 0 => i <= slot
          /\ \A i \in Slots : First(i) /\ i < slot => requests[i] > 0
          /\ requests[slot] > 0 <=> pc # "next"
    /\ pc = "failed" => ~Eligible(error) \/ Untried(slot) = {}

\* The requests of the attempts that are over, and of the one under way.
Spent == IF retry = 0 THEN 0 ELSE InnerRetries + 2

WithinBudget ==
    /\ pc \in InAttempt => requests[slot] <= Spent + inner + (IF stream THEN 0 ELSE 1)
    /\ pc = "backoff" => inner <= InnerRetries
    /\ pc = "sleep" => requests[slot] <= InnerRetries + 2 /\ retry = 1

\* What the session has counted is what the client has or will be sent.
SentSoFar ==
    /\ pc = "put" => partial # <<>>
    /\ ~lost /\ pc # "done" =>
          accum = IF pc = "put" THEN Append(shown \o deltas, partial[Len(partial)])
                  ELSE shown \o deltas
    /\ pc = "done" => deltas = <<>>

ProviderInv ==
    /\ ProviderTypeOK /\ ShownIsFinal /\ RequestsBounded
    /\ TriedInOrder /\ WithinBudget /\ SentSoFar

---------------------------------------------------------------------------
\* A set of numbers that is not empty has a least.
LEMMA LeastOf ==
    ASSUME NEW T \in SUBSET Nat, T # {}
    PROVE  Least(T) \in T /\ \A k \in T : Least(T) <= k
<1>1. PICK x \in T : \A y \in T : ~(<<y, x>> \in OpToRel(<, Nat))
    BY NatLessThanWellFounded, WFMin
<1>2. \A y \in T : x <= y
  <2> TAKE y \in T
  <2>1. x \in Nat /\ y \in Nat
    OBVIOUS
  <2>2. y < x => <<y, x>> \in OpToRel(<, Nat)
    BY <2>1 DEF OpToRel
  <2>3. ~(y < x)
    BY <1>1, <2>2, Zenon
  <2> QED BY <2>1, <2>3
<1> QED BY <1>2 DEF Least

LEMMA SlotsAreNumbers == Slots = 1 .. Len(Configured) /\ Len(Configured) \in Nat /\ 1 \in Slots
BY ProviderAssumption, EmptySeq, LenProperties DEF Slots

\* Every name has a first place.
LEMMA FirstPlace ==
    ASSUME NEW i \in Slots
    PROVE  \E j \in 1 .. i : j \in Slots /\ Configured[j] = Configured[i] /\ First(j)
<1> DEFINE T == {j \in 1 .. i : Configured[j] = Configured[i]}
<1>1. i \in Nat /\ i >= 1 /\ i <= Len(Configured) /\ Len(Configured) \in Nat
    BY SlotsAreNumbers
<1>2. T \in SUBSET Nat /\ i \in T
    BY <1>1
<1> HIDE DEF T
<1>3. PICK j \in T : \A k \in T : j <= k
    BY <1>2, LeastOf
<1>4. j \in 1 .. i /\ Configured[j] = Configured[i]
    BY <1>3 DEF T
<1>5. ASSUME NEW k \in 1 .. j - 1 PROVE Configured[k] # Configured[j]
  <2>1. k \in 1 .. i /\ ~(j <= k)
    BY <1>1, <1>4
  <2> QED BY <1>3, <1>4, <2>1 DEF T
<1> QED BY <1>1, <1>4, <1>5, SlotsAreNumbers DEF First

\* What the next provider is.
LEMMA NextProvider ==
    ASSUME NEW s \in Slots, Untried(s) # {}
    PROVE  LET n == Least(Untried(s)) IN
           /\ n \in Slots /\ n > s /\ First(n)
           /\ \A i \in Slots : i > s /\ i < n => ~First(i)
<1>1. Untried(s) \in SUBSET Nat
    BY SlotsAreNumbers DEF Untried
<1>2. PICK n \in Untried(s) : n = Least(Untried(s)) /\ \A k \in Untried(s) : n <= k
    BY <1>1, LeastOf
<1>3. n \in Slots /\ n > s /\ First(n)
    BY <1>2, SlotsAreNumbers DEF Untried, First
<1>4. ASSUME NEW i \in Slots, i > s, i < n PROVE ~First(i)
  <2>1. i \notin Untried(s)
    BY <1>2, <1>3, <1>4, SlotsAreNumbers
  <2> QED BY <1>4, <2>1, SlotsAreNumbers DEF Untried, First
<1> QED BY <1>2, <1>3, <1>4

LEMMA OneLonger ==
    ASSUME NEW S, NEW q \in Seq(S), NEW w \in S
    PROVE  /\ Append(q, w) \in Seq(S) /\ Append(q, w) # <<>>
           /\ Len(Append(q, w)) = Len(q) + 1
           /\ Append(q, w)[Len(Append(q, w))] = w
BY AppendProperties, LenProperties

\* A delta that is shown has been sent before.
LEMMA SentLater ==
    ASSUME NEW s \in Texted, NEW d \in Texted, NEW w \in Words \cup {"own"}
    PROVE  Append(s \o d, w) = s \o Append(d, w)
<1>1. <<w>> \in Texted /\ s \o d \in Texted
    BY ConcatProperties DEF Texted
<1>2. Append(s \o d, w) = (s \o d) \o <<w>> /\ Append(d, w) = d \o <<w>>
    BY <1>1, AppendIsConcat DEF Texted
<1>3. (s \o d) \o <<w>> = s \o (d \o <<w>>)
    BY <1>1, ConcatAssociative DEF Texted
<1> QED BY <1>2, <1>3

LEMMA ShownNext ==
    ASSUME NEW s \in Texted, NEW d \in Texted, d # <<>>
    PROVE  Append(s, Head(d)) \o Tail(d) = s \o d
<1>1. Head(d) \in Words \cup {"own"} /\ Tail(d) \in Texted
    BY HeadTailProperties DEF Texted
<1>2. <<Head(d)>> \in Texted /\ Append(s, Head(d)) = s \o <<Head(d)>>
    BY <1>1, AppendIsConcat DEF Texted
<1>3. (s \o <<Head(d)>>) \o Tail(d) = s \o (<<Head(d)>> \o Tail(d))
    BY <1>1, <1>2, ConcatAssociative DEF Texted
<1>4. <<Head(d)>> \o Tail(d) = d
  <2>1. /\ <<Head(d)>> \o Tail(d) \in Texted
        /\ Len(<<Head(d)>> \o Tail(d)) = 1 + Len(Tail(d))
        /\ \A i \in 1 .. 1 + Len(Tail(d)) : (<<Head(d)>> \o Tail(d))[i] =
                IF i <= 1 THEN Head(d) ELSE Tail(d)[i - 1]
    BY <1>1, <1>2, ConcatProperties DEF Texted
  <2>2. /\ Len(Tail(d)) = Len(d) - 1 /\ Len(d) \in Nat /\ Head(d) = d[1]
        /\ \A i \in 1 .. Len(d) - 1 : Tail(d)[i] = d[i + 1]
    BY HeadTailProperties, LenProperties DEF Texted
  <2>3. Len(d) = 1 + Len(Tail(d))
    BY <2>2
  <2>4. \A i \in 1 .. Len(d) : (<<Head(d)>> \o Tail(d))[i] = d[i]
    BY <2>1, <2>2
  <2> QED BY <2>1, <2>3, <2>4, SeqEqual DEF Texted
<1> QED BY <1>2, <1>3, <1>4

LEMMA WordsAreTexts == ASSUME NEW q \in Seq(Words) PROVE q \in Texted
BY SeqMonotonic DEF Texted

---------------------------------------------------------------------------
LEMMA ProviderStarts == ProviderInit => ProviderInv
<1> SUFFICES ASSUME ProviderInit PROVE ProviderInv
    OBVIOUS
<1> USE ProviderAssumption, SlotsAreNumbers DEF ProviderInit
<1>1. ProviderTypeOK
  <2>1. <<>> \in Seq(Words) /\ <<>> \in Seq(Words \cup {"own"}) /\ Len(<<>>) = 0
    OBVIOUS
  <2>2. error \in Kinds \cup {NoError} /\ answers \subseteq Seq(Words) /\ requests \in [Slots -> Nat]
    OBVIOUS
  <2>3. call \in 0 .. Calls /\ slot \in Slots /\ retry \in 0 .. 1 /\ inner \in 1 .. InnerRetries + 1
    OBVIOUS
  <2>4. 0 <= Pieces /\ 0 <= MaxQueue
    OBVIOUS
  <2> QED BY <2>1, <2>2, <2>3, <2>4 DEF ProviderTypeOK
<1>2. ShownIsFinal /\ RequestsBounded /\ WithinBudget
    BY DEF ShownIsFinal, RequestsBounded, WithinBudget, InAttempt
<1>3. <<>> \o <<>> = <<>>
  <2>1. <<>> \in Texted
    BY DEF Texted
  <2> QED BY <2>1, ConcatEmptySeq DEF Texted
<1>4. SentSoFar
    BY <1>3 DEF SentSoFar
<1>5. TriedInOrder
    BY DEF TriedInOrder, InCall
<1> QED BY <1>1, <1>2, <1>4, <1>5 DEF ProviderInv

\* A step that sends no request.
LEMMA NoRequest ==
    ASSUME ProviderInv, UNCHANGED <<requests, slot, retry, inner, stream, error>>,
           pc' \in InCall => pc \in InCall,
           pc' = "next" <=> pc = "next", pc' = "failed" => pc = "failed",
           pc' \in InAttempt => pc \in InAttempt,
           pc' = "backoff" => inner <= InnerRetries, pc' = "sleep" => pc = "sleep"
    PROVE  RequestsBounded' /\ TriedInOrder' /\ WithinBudget'
<1>1. RequestsBounded' /\ WithinBudget'
    BY DEF ProviderInv, RequestsBounded, WithinBudget, Spent
<1>2. TriedInOrder'
    BY DEF ProviderInv, TriedInOrder, Untried, First
<1> QED BY <1>1, <1>2

\* A step that leaves the texts alone.
LEMMA NoText ==
    ASSUME ProviderInv, UNCHANGED textVars, {pc, pc'} \cap {"put", "done"} = {}
    PROVE  ShownIsFinal' /\ SentSoFar'
<1>1. UNCHANGED <<lost, accum, deltas, shown>> /\ pc # "put" /\ pc' # "put" /\ pc # "done" /\ pc' # "done"
    BY DEF textVars
<1>2. SentSoFar
    BY DEF ProviderInv
<1> QED BY <1>1, <1>2 DEF ShownIsFinal, SentSoFar

LEMMA CallGoesOn ==
    ASSUME ProviderInv, Succeed \/ Backoff \/ GiveUp \/ EndTurn
    PROVE  ProviderInv'
<1>1. /\ UNCHANGED <<call, callVars, textVars>>
      /\ {pc, pc'} \cap {"put", "done"} = {}
      /\ pc' \in {"turn", "backoff", "drain"} /\ pc # "next"
      /\ pc' = "backoff" => pc = "request" /\ inner <= InnerRetries
    BY DEF Succeed, Backoff, GiveUp, EndTurn
<1>2. ProviderTypeOK
    BY DEF ProviderInv
<1>3. answers' \subseteq Seq(Words)
  <2>1. CASE Succeed
    <3>1. PICK text \in Texts : answers' = answers \cup {text}
      BY <2>1 DEF Succeed
    <3>2. text \in Seq(Words)
      BY <1>2, ProviderAssumption DEF Texts, ProviderTypeOK
    <3> QED BY <1>2, <3>1, <3>2 DEF ProviderTypeOK
  <2>2. CASE Backoff \/ GiveUp \/ EndTurn
    BY <1>2, <2>2 DEF Backoff, GiveUp, EndTurn, ProviderTypeOK
  <2> QED BY <2>1, <2>2
<1>4. response' \in Texted
  <2>1. CASE EndTurn
    <3>1. Own \in Texted
      BY DEF Own, Texted
    <3> QED BY <1>2, <2>1, <3>1, WordsAreTexts DEF EndTurn, ProviderTypeOK
  <2>2. CASE Succeed \/ Backoff \/ GiveUp
    BY <1>2, <2>2 DEF Succeed, Backoff, GiveUp, ProviderTypeOK, Texted
  <2> QED BY <2>1, <2>2
<1>5. ProviderTypeOK'
    BY <1>1, <1>2, <1>3, <1>4 DEF ProviderTypeOK, callVars, textVars, Texted
<1>6. RequestsBounded' /\ TriedInOrder' /\ WithinBudget'
    BY <1>1, NoRequest DEF callVars, InCall, InAttempt
<1>7. ShownIsFinal' /\ SentSoFar'
    BY <1>1, NoText
<1> QED BY <1>5, <1>6, <1>7 DEF ProviderInv

\* One more request to the provider that is being tried.
LEMMA OneMore ==
    ASSUME ProviderInv, Sends(slot), UNCHANGED <<slot, error>>, pc \in InCall \ {"failed"},
           pc' = "request", UNCHANGED retry,
           inner' \in 1 .. InnerRetries + 1, stream' \in BOOLEAN,
           requests[slot] + 1 <= Spent + inner' + (IF stream' THEN 0 ELSE 1)
    PROVE  /\ RequestsBounded' /\ TriedInOrder' /\ WithinBudget'
           /\ requests' \in [Slots -> Nat]
<1>1. ProviderTypeOK /\ slot \in Slots /\ requests \in [Slots -> Nat] /\ InnerRetries \in Nat
    BY ProviderAssumption DEF ProviderInv, ProviderTypeOK
<1>2. /\ requests' \in [Slots -> Nat] /\ requests'[slot] = requests[slot] + 1
      /\ \A i \in Slots \ {slot} : requests'[i] = requests[i]
    BY <1>1 DEF Sends
<1>3. Spent' = Spent /\ Spent \in Nat /\ Spent <= InnerRetries + 2
    BY <1>1 DEF Spent
<1>4. RequestsBounded'
    BY <1>1, <1>2, <1>3 DEF ProviderInv, RequestsBounded
<1>5. TriedInOrder'
  <2>1. TriedInOrder
    BY DEF ProviderInv
  <2>2. First(slot) /\ \A i \in Slots : requests'[i] > 0 <=> requests[i] > 0 \/ i = slot
    BY <1>1, <1>2, <2>1 DEF TriedInOrder, InCall
  <2>3. /\ \A i \in Slots : requests'[i] > 0 => First(i) /\ i <= slot
        /\ \A i \in Slots : First(i) /\ i < slot => requests'[i] > 0
        /\ requests'[slot] > 0
    BY <1>1, <2>1, <2>2, SlotsAreNumbers DEF TriedInOrder
  <2> QED BY <2>2, <2>3 DEF TriedInOrder, First
<1>6. WithinBudget'
    BY <1>2, <1>3 DEF WithinBudget, InAttempt
<1> QED BY <1>2, <1>4, <1>5, <1>6

LEMMA BeginCallKeeps == ProviderInv /\ BeginCall => ProviderInv'
<1> SUFFICES ASSUME ProviderInv, BeginCall PROVE ProviderInv'
    OBVIOUS
<1> USE ProviderAssumption, SlotsAreNumbers
<1>1. ProviderTypeOK
    BY DEF ProviderInv
<1>2. /\ call' = call + 1 /\ retry' = 0 /\ slot' = 1 /\ inner' = 1 /\ partial' = <<>>
      /\ pc' = "request" /\ pc = "turn" /\ requests' = [i \in Slots |-> IF i = 1 THEN 1 ELSE 0]
      /\ error' = NoError /\ tools' \in BOOLEAN /\ stream' = ~tools' /\ call < Calls
      /\ UNCHANGED <<answers, textVars, response>>
    BY DEF BeginCall
<1>3. ProviderTypeOK'
    BY <1>1, <1>2 DEF ProviderTypeOK, textVars
<1>4. First(1) /\ \A i \in Slots : requests'[i] > 0 <=> i = 1
    BY <1>2 DEF First
<1>5. TriedInOrder'
    BY <1>2, <1>4 DEF TriedInOrder, First, InCall
<1>6. RequestsBounded' /\ WithinBudget'
    BY <1>2 DEF RequestsBounded, WithinBudget, Spent, InAttempt
<1>7. ShownIsFinal' /\ SentSoFar'
    BY <1>2, NoText
<1> QED BY <1>3, <1>5, <1>6, <1>7 DEF ProviderInv

LEMMA UnstreamKeeps == ProviderInv /\ (Unstream \/ AskAgain) => ProviderInv'
<1> SUFFICES ASSUME ProviderInv, Unstream \/ AskAgain PROVE ProviderInv'
    OBVIOUS
<1> USE ProviderAssumption
<1>1. ProviderTypeOK /\ WithinBudget /\ slot \in Slots /\ requests[slot] \in Nat /\ Spent \in Nat
      /\ Spent <= InnerRetries + 2
    BY DEF ProviderInv, ProviderTypeOK, Spent
<1>2. /\ UNCHANGED <<call, slot, retry, tools, error, answers, textVars, response>>
      /\ partial' = <<>> /\ Sends(slot) /\ pc \in {"request", "backoff"} /\ pc' = "request"
    BY DEF Unstream, AskAgain
<1>3. /\ requests[slot] + 1 <= Spent + inner' + (IF stream' THEN 0 ELSE 1)
      /\ inner' \in 1 .. InnerRetries + 1 /\ stream' \in BOOLEAN
  <2>1. requests[slot] <= Spent + inner + (IF stream THEN 0 ELSE 1)
    BY <1>1, <1>2 DEF WithinBudget, InAttempt
  <2>2. stream \in BOOLEAN /\ inner \in 1 .. InnerRetries + 1
    BY <1>1 DEF ProviderTypeOK
  <2>3. CASE Unstream
    <3>1. stream /\ stream' = FALSE /\ inner' = inner
      BY <2>3 DEF Unstream
    <3>2. requests[slot] <= Spent + inner + 0
      BY <2>1, <3>1
    <3>3. (IF stream' THEN 0 ELSE 1) = 1
      BY <3>1
    <3>4. requests[slot] + 1 <= Spent + inner + 1
      BY <1>1, <2>2, <3>2
    <3> QED BY <2>2, <3>1, <3>3, <3>4
  <2>4. CASE AskAgain
    <3>1. stream' = stream /\ inner' = inner + 1 /\ inner <= InnerRetries
      BY <1>1, <2>4 DEF AskAgain, WithinBudget
    <3>2. inner' \in 1 .. InnerRetries + 1
      BY <2>2, <3>1
    <3> DEFINE b == IF stream THEN 0 ELSE 1
    <3>3. b \in Nat /\ requests[slot] <= Spent + inner + b
      BY <2>1, <2>2
    <3> HIDE DEF b
    <3>4. requests[slot] + 1 <= Spent + inner' + b
      BY <1>1, <2>2, <3>1, <3>3
    <3>5. requests[slot] + 1 <= Spent + inner' + (IF stream' THEN 0 ELSE 1)
      BY <3>1, <3>4 DEF b
    <3> QED BY <2>2, <3>1, <3>2, <3>5
  <2> QED BY <2>3, <2>4
<1>4. RequestsBounded' /\ TriedInOrder' /\ WithinBudget' /\ requests' \in [Slots -> Nat]
    BY <1>2, <1>3, OneMore DEF InCall
<1>5. ProviderTypeOK'
    BY <1>1, <1>2, <1>3, <1>4 DEF ProviderTypeOK, textVars
<1>6. ShownIsFinal' /\ SentSoFar'
    BY <1>2, NoText
<1> QED BY <1>4, <1>5, <1>6 DEF ProviderInv

LEMMA AttemptKeeps == ProviderInv /\ (Retry \/ Failover) => ProviderInv'
<1> SUFFICES ASSUME ProviderInv, Retry \/ Failover PROVE ProviderInv'
    OBVIOUS
<1> USE ProviderAssumption
<1>1. ProviderTypeOK /\ WithinBudget /\ slot \in Slots /\ requests[slot] \in Nat /\ Spent \in Nat
      /\ Spent <= InnerRetries + 2
    BY DEF ProviderInv, ProviderTypeOK, Spent
<1>2. /\ UNCHANGED <<call, slot, retry, tools, answers, textVars, response>>
      /\ inner' = 1 /\ Sends(slot) /\ partial' = <<>> /\ stream' = ~tools /\ error' = NoError
      /\ pc \in {"sleep", "next"} /\ pc' = "request"
    BY DEF Retry, Failover, Attempt
<1>3. /\ requests[slot] + 1 <= Spent + 1
      /\ pc = "next" => requests[slot] = 0
  <2>1. pc = "next" => requests[slot] = 0
    BY <1>1 DEF ProviderInv, TriedInOrder, InCall
  <2>2. pc = "sleep" => requests[slot] <= Spent
    BY <1>1 DEF WithinBudget, Spent
  <2> QED BY <1>1, <1>2, <2>1, <2>2
<1>4. /\ requests' \in [Slots -> Nat] /\ requests'[slot] = requests[slot] + 1
      /\ \A i \in Slots \ {slot} : requests'[i] = requests[i]
    BY <1>1, <1>2 DEF Sends, ProviderTypeOK
<1>5. RequestsBounded'
    BY <1>1, <1>3, <1>4 DEF ProviderInv, RequestsBounded
<1>6. TriedInOrder'
  <2>1. TriedInOrder
    BY DEF ProviderInv
  <2>2. First(slot) /\ \A i \in Slots : requests'[i] > 0 <=> requests[i] > 0 \/ i = slot
    BY <1>1, <1>2, <1>4, <2>1 DEF TriedInOrder, ProviderTypeOK, InCall
  <2>3. /\ \A i \in Slots : requests'[i] > 0 => First(i) /\ i <= slot
        /\ \A i \in Slots : First(i) /\ i < slot => requests'[i] > 0
        /\ requests'[slot] > 0
    BY <1>1, <1>2, <2>1, <2>2, SlotsAreNumbers DEF TriedInOrder, InCall
  <2> QED BY <1>2, <2>2, <2>3 DEF TriedInOrder, First
<1>7. WithinBudget'
    BY <1>1, <1>2, <1>3, <1>4 DEF WithinBudget, Spent, InAttempt
<1>8. ProviderTypeOK'
    BY <1>1, <1>2, <1>4 DEF ProviderTypeOK, textVars
<1>9. ShownIsFinal' /\ SentSoFar'
    BY <1>2, NoText
<1> QED BY <1>5, <1>6, <1>7, <1>8, <1>9 DEF ProviderInv

LEMMA FailsKeeps ==
    ASSUME ProviderInv, NEW kind \in Kinds, pc \in InAttempt, Fails(kind)
    PROVE  ProviderInv'
<1> USE ProviderAssumption, SlotsAreNumbers
<1>1. ProviderTypeOK /\ WithinBudget /\ TriedInOrder /\ SentSoFar
      /\ slot \in Slots /\ requests \in [Slots -> Nat] /\ retry \in 0 .. 1 /\ inner \in 1 .. InnerRetries + 1
    BY DEF ProviderInv, ProviderTypeOK
<1>2. /\ UNCHANGED <<call, inner, tools, partial, requests, answers, accum, deltas, shown, response>>
      /\ error' = kind /\ lost' = (lost \/ pc = "put") /\ stream' = stream
    BY DEF Fails
<1>3. pc' \in {"sleep", "next", "failed"}
    BY DEF Fails
<1>4. ShownIsFinal' /\ SentSoFar'
  <2>1. pc # "done"
    BY DEF InAttempt
  <2> QED BY <1>1, <1>2, <1>3, <2>1 DEF ShownIsFinal, SentSoFar
<1>5. RequestsBounded'
    BY <1>2 DEF ProviderInv, RequestsBounded
<1>6. (lost \/ pc = "put") \in BOOLEAN
    OBVIOUS
<1>7. CASE /\ retry < AllowedRetries(kind) /\ retry' = retry + 1 /\ pc' = "sleep" /\ UNCHANGED slot
  <2>1. retry = 0 /\ retry' = 1
    BY <1>1, <1>7 DEF AllowedRetries
  <2>2. WithinBudget'
    BY <1>1, <1>2, <1>7, <2>1 DEF WithinBudget, Spent, InAttempt
  <2>3. TriedInOrder'
    BY <1>1, <1>2, <1>7 DEF TriedInOrder, First, InCall, InAttempt
  <2>4. ProviderTypeOK'
    BY <1>1, <1>2, <1>6, <1>7, <2>1 DEF ProviderTypeOK
  <2> QED BY <1>4, <1>5, <2>2, <2>3, <2>4 DEF ProviderInv
<1>8. CASE /\ Untried(slot) # {} /\ slot' = Least(Untried(slot)) /\ retry' = 0 /\ pc' = "next"
  <2>1. /\ slot' \in Slots /\ slot' > slot /\ First(slot')
        /\ \A i \in Slots : i > slot /\ i < slot' => ~First(i)
    BY <1>1, <1>8, NextProvider
  <2>2. WithinBudget'
    BY <1>8 DEF WithinBudget, InAttempt
  <2>3. /\ \A i \in Slots : requests[i] > 0 => i <= slot /\ First(i)
        /\ \A i \in Slots : First(i) /\ i < slot => requests[i] > 0
        /\ requests[slot] > 0
    BY <1>1 DEF TriedInOrder, InCall, InAttempt
  <2>4. /\ \A i \in Slots : requests[i] > 0 => i <= slot'
        /\ \A i \in Slots : First(i) /\ i < slot' => requests[i] > 0
        /\ ~(requests[slot'] > 0)
    BY <1>1, <2>1, <2>3
  <2>5. TriedInOrder'
    BY <1>2, <1>8, <2>1, <2>3, <2>4 DEF TriedInOrder, First
  <2>6. ProviderTypeOK'
    BY <1>1, <1>2, <1>6, <1>8, <2>1 DEF ProviderTypeOK
  <2> QED BY <1>4, <1>5, <2>2, <2>5, <2>6 DEF ProviderInv
<1>9. CASE /\ ~Eligible(kind) \/ Untried(slot) = {}
           /\ pc' = "failed" /\ UNCHANGED <<slot, retry>>
  <2>1. WithinBudget'
    BY <1>9 DEF WithinBudget, InAttempt
  <2>2. TriedInOrder'
    BY <1>1, <1>2, <1>9 DEF TriedInOrder, First, InCall, InAttempt, Untried
  <2>3. ProviderTypeOK'
    BY <1>1, <1>2, <1>6, <1>9 DEF ProviderTypeOK
  <2> QED BY <1>4, <1>5, <2>1, <2>2, <2>3 DEF ProviderInv
<1> QED BY <1>7, <1>8, <1>9 DEF Fails

---------------------------------------------------------------------------
LEMMA DeltaKeeps == ProviderInv /\ (Delta \/ DeltaLate) => ProviderInv'
<1> SUFFICES ASSUME ProviderInv, Delta \/ DeltaLate PROVE ProviderInv'
    OBVIOUS
<1> USE ProviderAssumption
<1>1. /\ ProviderTypeOK /\ SentSoFar
      /\ partial \in Seq(Words) /\ accum \in Seq(Words) /\ deltas \in Seq(Words)
      /\ shown \in Texted /\ deltas \in Texted /\ Len(partial) \in Nat /\ Len(deltas) \in Nat
    BY WordsAreTexts, LenProperties DEF ProviderInv, ProviderTypeOK, Texted
<1>2. UNCHANGED <<call, slot, retry, inner, stream, tools, requests, error, answers, lost, shown, response>>
    BY DEF Delta, DeltaLate, callVars
<1>3. CASE Delta
  <2>1. PICK w \in Words :
          /\ partial' = Append(partial, w) /\ accum' = Append(accum, w)
          /\ IF Len(deltas) < MaxQueue
             THEN deltas' = Append(deltas, w) /\ UNCHANGED pc
             ELSE pc' = "put" /\ UNCHANGED deltas
    BY <1>3 DEF Delta
  <2>2. pc = "request" /\ Len(partial) < Pieces
    BY <1>3 DEF Delta
  <2>3. /\ partial' \in Seq(Words) /\ Len(partial') = Len(partial) + 1 /\ partial'[Len(partial')] = w
        /\ accum' \in Seq(Words) /\ partial' # <<>>
    <3>1. /\ Append(partial, w) \in Seq(Words) /\ Len(Append(partial, w)) = Len(partial) + 1
          /\ Append(partial, w)[Len(Append(partial, w))] = w /\ Append(partial, w) # <<>>
      BY <1>1, OneLonger
    <3>2. Append(accum, w) \in Seq(Words)
      BY <1>1, OneLonger
    <3> QED BY <2>1, <3>1, <3>2
  <2>4. deltas' \in Seq(Words) /\ Len(deltas') <= MaxQueue
    <3>1. Len(deltas) <= MaxQueue
      BY <1>1 DEF ProviderTypeOK
    <3>2. Append(deltas, w) \in Seq(Words) /\ Len(Append(deltas, w)) = Len(deltas) + 1
      BY <1>1, OneLonger
    <3>3. CASE Len(deltas) < MaxQueue
      <4>1. deltas' = Append(deltas, w)
        BY <2>1, <3>3
      <4>2. MaxQueue \in Nat /\ Len(deltas) + 1 <= MaxQueue
        BY <1>1, <3>3
      <4>3. Len(Append(deltas, w)) <= MaxQueue
        BY <3>2, <4>2
      <4> QED BY <3>2, <4>1, <4>3
    <3>4. CASE ~(Len(deltas) < MaxQueue)
      <4>1. deltas' = deltas
        BY <2>1, <3>4
      <4> QED BY <1>1, <3>1, <4>1
    <3> QED BY <3>3, <3>4
  <2>5. pc' \in {"request", "put"}
    BY <2>1, <2>2
  <2>6. ProviderTypeOK'
    BY <1>1, <1>2, <2>2, <2>3, <2>4, <2>5 DEF ProviderTypeOK
  <2>7. RequestsBounded' /\ TriedInOrder' /\ WithinBudget'
    BY <1>2, <2>2, <2>5, NoRequest DEF InCall, InAttempt
  <2>8. ASSUME ~lost PROVE accum' = IF pc' = "put" THEN Append(shown \o deltas', w) ELSE shown \o deltas'
    <3>1. accum' = Append(shown \o deltas, w)
      BY <1>1, <2>1, <2>2, <2>8 DEF SentSoFar
    <3>2. w \in Words \cup {"own"}
      OBVIOUS
    <3>3. Append(shown \o deltas, w) = shown \o Append(deltas, w)
      BY <1>1, <3>2, SentLater
    <3> QED BY <2>1, <2>2, <3>1, <3>3
  <2>9. ShownIsFinal' /\ SentSoFar'
    BY <1>2, <2>3, <2>5, <2>8 DEF ShownIsFinal, SentSoFar
  <2> QED BY <2>6, <2>7, <2>9 DEF ProviderInv
<1>4. CASE DeltaLate
  <2>1. /\ pc = "put" /\ pc' = "request" /\ Len(deltas) < MaxQueue
        /\ deltas' = Append(deltas, partial[Len(partial)]) /\ UNCHANGED <<partial, accum>>
    BY <1>4 DEF DeltaLate, callVars
  <2>2. partial # <<>>
    BY <1>1, <2>1 DEF SentSoFar
  <2>3. partial[Len(partial)] \in Words
    BY <1>1, <2>2, EmptySeq, ElementOfSeq
  <2>4. deltas' \in Seq(Words) /\ Len(deltas') <= MaxQueue
    BY <1>1, <2>1, <2>3, AppendProperties
  <2>5. ProviderTypeOK'
    BY <1>1, <1>2, <2>1, <2>4 DEF ProviderTypeOK
  <2>6. RequestsBounded' /\ TriedInOrder' /\ WithinBudget'
    <3>1. pc = "put"
      BY <2>1
    <3>2. RequestsBounded' /\ WithinBudget'
      BY <1>2, <2>1 DEF ProviderInv, RequestsBounded, WithinBudget, Spent, InAttempt
    <3>3. TriedInOrder'
      BY <1>2, <2>1 DEF ProviderInv, TriedInOrder, Untried, First, InCall
    <3> QED BY <3>2, <3>3
  <2>7. ASSUME ~lost PROVE accum' = shown \o deltas'
    <3>1. accum = Append(shown \o deltas, partial[Len(partial)])
      BY <1>1, <2>1, <2>7 DEF SentSoFar
    <3>2. partial[Len(partial)] \in Words \cup {"own"}
      BY <2>3
    <3>3. Append(shown \o deltas, partial[Len(partial)]) = shown \o Append(deltas, partial[Len(partial)])
      BY <1>1, <3>2, SentLater
    <3> QED BY <2>1, <3>1, <3>3
  <2>8. ShownIsFinal' /\ SentSoFar'
    BY <1>2, <2>1, <2>7 DEF ShownIsFinal, SentSoFar
  <2> QED BY <2>5, <2>6, <2>8 DEF ProviderInv
<1> QED BY <1>3, <1>4

LEMMA DeliverKeeps == ProviderInv /\ Deliver => ProviderInv'
<1> SUFFICES ASSUME ProviderInv, Deliver PROVE ProviderInv'
    OBVIOUS
<1> USE ProviderAssumption
<1>1. /\ ProviderTypeOK /\ SentSoFar
      /\ deltas \in Seq(Words) /\ shown \in Texted /\ deltas \in Texted
    BY WordsAreTexts DEF ProviderInv, ProviderTypeOK, Texted
<1>2. /\ deltas # <<>> /\ shown' = Append(shown, Head(deltas)) /\ deltas' = Tail(deltas)
      /\ UNCHANGED <<call, pc, slot, retry, inner, stream, tools, partial, requests, error>>
      /\ UNCHANGED <<answers, lost, accum, response>>
    BY DEF Deliver, callVars
<1>3. /\ Head(deltas) \in Words /\ deltas' \in Seq(Words) /\ Len(deltas') = Len(deltas) - 1
      /\ Len(deltas) \in Nat
    BY <1>1, <1>2, HeadTailProperties, LenProperties
<1>4. Head(deltas) \in Words \cup {"own"} /\ deltas' \in Texted
    BY <1>3, WordsAreTexts
<1>5. shown' \in Texted
    BY <1>1, <1>2, <1>4, AppendProperties DEF Texted
<1>6. ProviderTypeOK'
    BY <1>1, <1>2, <1>3, <1>5 DEF ProviderTypeOK, Texted
<1>7. RequestsBounded' /\ TriedInOrder' /\ WithinBudget'
  <2>1. RequestsBounded' /\ WithinBudget'
    BY <1>2 DEF ProviderInv, RequestsBounded, WithinBudget, Spent
  <2>2. TriedInOrder'
    BY <1>2 DEF ProviderInv, TriedInOrder, Untried, First
  <2> QED BY <2>1, <2>2
<1>8. pc # "done"
    BY <1>1, <1>2 DEF SentSoFar
<1>9. shown' \o deltas' = shown \o deltas
    BY <1>1, <1>2, ShownNext
<1>10. ShownIsFinal' /\ SentSoFar'
    BY <1>1, <1>2, <1>8, <1>9 DEF ShownIsFinal, SentSoFar
<1> QED BY <1>6, <1>7, <1>10 DEF ProviderInv

\* At the end of the turn the client has all that was counted: the text
\* of the turn is either that or sent whole.
LEMMA SettleKeeps == ProviderInv /\ Settle => ProviderInv'
<1> SUFFICES ASSUME ProviderInv, Settle PROVE ProviderInv'
    OBVIOUS
<1> USE ProviderAssumption
<1>1. /\ ProviderTypeOK /\ SentSoFar /\ shown \in Texted /\ response \in Texted
    BY DEF ProviderInv, ProviderTypeOK, Texted
<1>2. /\ pc = "drain" /\ pc' = "done" /\ deltas = <<>>
      /\ shown' = IF accum = <<>> \/ response # accum THEN response ELSE shown
      /\ UNCHANGED <<call, slot, retry, inner, stream, tools, partial, requests, error>>
      /\ UNCHANGED <<answers, lost, accum, deltas, response>>
    BY DEF Settle, callVars
<1>3. ProviderTypeOK'
    BY <1>1, <1>2 DEF ProviderTypeOK, Texted
<1>4. RequestsBounded' /\ TriedInOrder' /\ WithinBudget'
    BY <1>2, NoRequest DEF InCall, InAttempt
<1>5. ASSUME ~lost PROVE accum = shown
  <2>1. accum = shown \o <<>>
    BY <1>1, <1>2, <1>5 DEF SentSoFar
  <2>2. shown \o <<>> = shown
    BY <1>1, ConcatEmptySeq DEF Texted
  <2> QED BY <2>1, <2>2
<1>6. ShownIsFinal' /\ SentSoFar'
    BY <1>2, <1>5 DEF ShownIsFinal, SentSoFar
<1> QED BY <1>3, <1>4, <1>6 DEF ProviderInv

LEMMA ProviderStutters == ProviderInv /\ UNCHANGED providerVars => ProviderInv'
<1> SUFFICES ASSUME ProviderInv, UNCHANGED providerVars PROVE ProviderInv'
    OBVIOUS
<1>1. UNCHANGED <<call, pc, slot, retry, inner, stream, tools, partial, requests, error>>
      /\ UNCHANGED <<answers, lost, accum, deltas, shown, response>>
    BY DEF providerVars, callVars, textVars
<1>2. ProviderTypeOK'
    BY <1>1 DEF ProviderInv, ProviderTypeOK
<1>3. RequestsBounded' /\ WithinBudget'
    BY <1>1 DEF ProviderInv, RequestsBounded, WithinBudget, Spent
<1>4. TriedInOrder'
    BY <1>1 DEF ProviderInv, TriedInOrder, Untried, First
<1>5. ShownIsFinal' /\ SentSoFar'
    BY <1>1 DEF ProviderInv, ShownIsFinal, SentSoFar
<1> QED BY <1>2, <1>3, <1>4, <1>5 DEF ProviderInv

LEMMA ProviderInductive == ProviderInv /\ [ProviderNext]_providerVars => ProviderInv'
<1> SUFFICES ASSUME ProviderInv, [ProviderNext]_providerVars PROVE ProviderInv'
    OBVIOUS
<1>1. CASE BeginCall
    BY <1>1, BeginCallKeeps
<1>2. CASE Delta \/ DeltaLate
    BY <1>2, DeltaKeeps
<1>3. CASE Unstream \/ AskAgain
    BY <1>3, UnstreamKeeps
<1>4. CASE Succeed \/ Backoff \/ GiveUp \/ EndTurn
    BY <1>4, CallGoesOn
<1>5. CASE Raise
  <2>1. PICK kind \in Kinds : Fails(kind)
    BY <1>5 DEF Raise
  <2>2. pc \in InAttempt
    BY <1>5 DEF Raise, InAttempt
  <2> QED BY <2>1, <2>2, FailsKeeps
<1>6. CASE TimesOut
  <2>1. "timeout" \in Kinds /\ pc \in InAttempt /\ Fails("timeout")
    BY <1>6 DEF TimesOut, InAttempt, Kinds
  <2> DEFINE k == "timeout"
  <2>2. k \in Kinds /\ Fails(k)
    BY <2>1
  <2> HIDE DEF k
  <2> QED BY <2>1, <2>2, FailsKeeps
<1>7. CASE Retry \/ Failover
    BY <1>7, AttemptKeeps
<1>8. CASE Deliver
    BY <1>8, DeliverKeeps
<1>9. CASE Settle
    BY <1>9, SettleKeeps
<1>10. CASE Ended \/ UNCHANGED providerVars
    BY <1>10, ProviderStutters DEF Ended
<1> QED BY <1>1, <1>2, <1>3, <1>4, <1>5, <1>6, <1>7, <1>8, <1>9, <1>10
        DEF ProviderNext, CallStep

\* What the order of the attempts says of a failure and of the names.
LEMMA OrderIsEarned == ProviderInv => FailureIsEarned
<1> SUFFICES ASSUME ProviderInv PROVE FailureIsEarned
    OBVIOUS
<1>1. TriedInOrder /\ slot \in Slots /\ requests \in [Slots -> Nat]
    BY DEF ProviderInv, ProviderTypeOK
<1>2. ASSUME pc = "failed", Eligible(error), NEW i \in Slots
      PROVE  \E j \in 1 .. i : Configured[j] = Configured[i] /\ requests[j] > 0
  <2>1. PICK j \in 1 .. i : j \in Slots /\ Configured[j] = Configured[i] /\ First(j)
    BY FirstPlace
  <2>2. Untried(slot) = {}
    BY <1>1, <1>2 DEF TriedInOrder
  <2>3. ~(j > slot)
    BY <2>1, <2>2 DEF Untried, First
  <2>4. j <= slot
    BY <1>1, <2>1, <2>3, SlotsAreNumbers
  <2>5. requests[j] > 0
    BY <1>1, <1>2, <2>1, <2>4, SlotsAreNumbers DEF TriedInOrder, InCall
  <2> QED BY <2>1, <2>5
<1>3. ASSUME NEW i \in Slots, NEW j \in Slots,
             Configured[i] = Configured[j], requests[i] > 0, requests[j] > 0
      PROVE  i = j
  <2>1. First(i) /\ First(j) /\ i \in Nat /\ j \in Nat /\ i >= 1 /\ j >= 1
    BY <1>1, <1>3, SlotsAreNumbers DEF TriedInOrder
  <2>2. ~(i < j)
    BY <1>3, <2>1 DEF First
  <2>3. ~(j < i)
    BY <1>3, <2>1 DEF First
  <2> QED BY <2>1, <2>2, <2>3
<1> QED BY <1>2, <1>3 DEF FailureIsEarned

\* For every list of providers, whatever names repeat in it, every number
\* of retries and every size of the queue: what the client is left with is
\* the text of the turn, a failure has tried all there was, and the nested
\* loops stay within their product (ProviderExecutionService.execute).
THEOREM CallIsHonestHolds == ProviderSpec => []CallIsHonest
<1>1. ProviderInit => ProviderInv
    BY ProviderStarts
<1>2. ProviderInv /\ [ProviderNext]_providerVars => ProviderInv'
    BY ProviderInductive
<1>3. ProviderInv => CallIsHonest
    BY OrderIsEarned DEF ProviderInv, CallIsHonest
<1> QED BY <1>1, <1>2, <1>3, PTL DEF ProviderSpec

(***************************************************************************)
(* ExecutiveCycle                                                          *)
(***************************************************************************)
\* The tasks of a cycle: one runs at a time, a task that is not the first
\* waits only for a first one that can still complete, and a follow-up is
\* there only when the plan's task of its type is not to be done any more.
Planned(c) == phase[c] \in {"looping", "executing"}

LoopFits(c) ==
    /\ phase[c] \notin {"executing", "dead"} => Having(c, "running") = {}
    /\ phase[c] = "executing" =>
          /\ executed[c] < MaxSteps
          /\ \E t \in Tasks : Having(c, "running") = {t}
    /\ Planned(c) => task[c]["reason"] \notin {"absent", "skipped"}
    /\ task[c]["reason"] = "failed" =>
          \A u \in PlanTypes : task[c][u] \notin {"pending", "running"}
    /\ task[c]["more_research"] # "absent" => task[c]["research"] \in {"absent", "failed", "skipped"}
    /\ task[c]["more_learn"] # "absent" => task[c]["learn"] \in {"absent", "failed", "skipped"}

\* The durable graph of a cycle and the effects of its nodes.
GraphFits(c) ==
    /\ held[c] = graph[c]
    /\ \A n \in Nodes : graph[c].node[n] = "completed" => Done(c, n)
    /\ graph[c].status = "completed" => \A n \in Nodes : graph[c].node[n] # "pending"
    /\ graph[c].status = "running" => \E n \in Nodes : graph[c].node[n] \in {"pending", "failed"}
    /\ phase[c] \in {"inserting", "saving"} => ok[c]
    /\ phase[c] = "saving" => Done(c, at[c])

\* A cycle records effects when its result is known, and then it stands.
Resulted == {"marking", "inserting", "saving", "done", "dead"}

EffectsFit ==
    \A k \in Keys : effect[k] # Nobody => ok[effect[k]] /\ phase[effect[k]] \in Resulted

ExecInv ==
    /\ ExecTypeOK /\ EffectsFit
    /\ \A c \in Cycles : LoopFits(c) /\ GraphFits(c)

---------------------------------------------------------------------------
\* What a cycle was asked, and the values of its own.
LEMMA Shapes ==
    ASSUME ExecTypeOK, NEW c \in Cycles
    PROVE  /\ "reason" \in ask[c].plan /\ ask[c].plan \subseteq PlanTypes
           /\ ask[c].nodes \subseteq Nodes /\ ask[c].dry \in BOOLEAN
           /\ graph[c] \in Graphs /\ held[c] \in Graphs /\ task[c] \in [Tasks -> TaskState]
           /\ executed[c] \in 0 .. MaxSteps /\ MaxSteps \in Nat \ {0} /\ at[c] \in Nodes
           /\ phase[c] \in Phases /\ ok[c] \in BOOLEAN
<1>1. ask[c] \in Asks
    BY ExecAssumption DEF ExecTypeOK
<1>2. "reason" \in ask[c].plan /\ ask[c].plan \subseteq PlanTypes /\ ask[c].dry \in BOOLEAN
      /\ ask[c].nodes \subseteq TurnNodes
    BY <1>1 DEF Asks
<1> QED BY <1>2, ExecAssumption DEF ExecTypeOK, Nodes

LEMMA KeyIsKey == ASSUME NEW c \in Cycles, NEW n \in Nodes PROVE Key(c, n) \in Keys
BY DEF Key, Keys

\* The graph after a node has been completed.
LEMMA MarkedNode ==
    ASSUME NEW g \in Graphs, NEW n \in Nodes
    PROVE  /\ Marked(g, n) \in Graphs
           /\ Marked(g, n).node[n] = "completed"
           /\ \A m \in Nodes \ {n} : Marked(g, n).node[m] = g.node[m]
           /\ Marked(g, n).status = "completed" =>
                  \A m \in Nodes : Marked(g, n).node[m] # "pending"
           /\ Marked(g, n).status # "completed" =>
                  \E m \in Nodes : Marked(g, n).node[m] = "pending"
<1> DEFINE node == [g.node EXCEPT ![n] = "completed"]
           status == IF \E m \in Nodes : node[m] = "pending" THEN "running" ELSE "completed"
<1>1. Marked(g, n) = [g EXCEPT !.node = node, !.status = status]
    BY DEF Marked
<1>2. g = [status |-> g.status, node |-> g.node, replans |-> g.replans]
      /\ g.node \in [Nodes -> NodeState] /\ g.replans \in 0 .. 2
    BY DEF Graphs
<1>3. node \in [Nodes -> NodeState] /\ node[n] = "completed" /\ \A m \in Nodes \ {n} : node[m] = g.node[m]
    BY <1>2 DEF NodeState
<1>4. /\ status \in {"running", "completed"}
      /\ status = "completed" => \A m \in Nodes : node[m] # "pending"
      /\ status # "completed" => \E m \in Nodes : node[m] = "pending"
    OBVIOUS
<1> HIDE DEF node, status
<1>5. Marked(g, n).node = node /\ Marked(g, n).status = status
    BY <1>1, <1>2
<1>6. Marked(g, n) \in Graphs
    BY <1>1, <1>2, <1>3, <1>4 DEF Graphs
<1> QED BY <1>3, <1>4, <1>5, <1>6

\* The graph after a node has failed.
LEMMA FailedNode ==
    ASSUME NEW g \in Graphs, NEW n \in Nodes
    PROVE  /\ Failed(g, n) \in Graphs
           /\ Failed(g, n).node[n] = "failed"
           /\ \A m \in Nodes \ {n} : Failed(g, n).node[m] = g.node[m]
           /\ Failed(g, n).status \in {"running", "failed"}
<1> DEFINE node == [g.node EXCEPT ![n] = "failed"]
<1>1. g = [status |-> g.status, node |-> g.node, replans |-> g.replans]
      /\ g.node \in [Nodes -> NodeState] /\ g.replans \in 0 .. 2
    BY DEF Graphs
<1>2. node \in [Nodes -> NodeState] /\ node[n] = "failed" /\ \A m \in Nodes \ {n} : node[m] = g.node[m]
    BY <1>1 DEF NodeState
<1>3. CASE g.replans >= 2
  <2>1. Failed(g, n) = [g EXCEPT !.node = node, !.status = "failed"]
    BY <1>3 DEF Failed
  <2> HIDE DEF node
  <2>2. Failed(g, n).node = node /\ Failed(g, n).status = "failed"
    BY <1>1, <2>1
  <2>3. Failed(g, n) \in Graphs
    BY <1>1, <1>2, <2>1 DEF Graphs
  <2> QED BY <1>2, <2>2, <2>3
<1>4. CASE ~(g.replans >= 2)
  <2>1. Failed(g, n) = [g EXCEPT !.node = node, !.status = "running", !.replans = @ + 1]
    BY <1>4 DEF Failed
  <2>2. g.replans + 1 \in 0 .. 2
    BY <1>1, <1>4
  <2> HIDE DEF node
  <2>3. Failed(g, n).node = node /\ Failed(g, n).status = "running"
    BY <1>1, <2>1
  <2>4. Failed(g, n) \in Graphs
    BY <1>1, <1>2, <2>1, <2>2 DEF Graphs
  <2> QED BY <1>2, <2>3, <2>4
<1> QED BY <1>3, <1>4

\* The graph a resumption makes: nothing is completed that has no effect.
LEMMA ResumedGraph ==
    ASSUME ExecTypeOK, NEW c \in Cycles, GraphFits(c)
    PROVE  /\ Resumed(c) \in Graphs
           /\ \A n \in Nodes : Resumed(c).node[n] = "completed" => Done(c, n)
           /\ Resumed(c).status = "completed" =>
                  \A n \in Nodes : Resumed(c).node[n] # "pending"
           /\ Resumed(c).status = "running" =>
                  \E n \in Nodes : Resumed(c).node[n] = "pending"
<1> DEFINE g == graph[c]
           node == [n \in Nodes |-> IF g.node[n] # "absent" /\ Done(c, n)
                                    THEN "completed" ELSE g.node[n]]
           open == \E n \in Nodes : node[n] = "pending"
           status == IF ~open /\ g.status # "failed" THEN "completed"
                     ELSE IF g.status \in {"pending", "running"} THEN "running" ELSE g.status
<1>1. g \in Graphs
    BY Shapes
<1>2. Resumed(c) = [g EXCEPT !.node = node, !.status = status]
  <2>1. g = [status |-> g.status, node |-> g.node, replans |-> g.replans]
    BY <1>1 DEF Graphs
  <2> QED BY <2>1 DEF Resumed
<1>3. g = [status |-> g.status, node |-> g.node, replans |-> g.replans]
      /\ g.status \in {"none", "pending", "running", "completed", "failed"}
      /\ g.node \in [Nodes -> NodeState] /\ g.replans \in 0 .. 2
    BY <1>1 DEF Graphs
<1>4. node \in [Nodes -> NodeState] /\ \A n \in Nodes : node[n] = "completed" => Done(c, n)
    BY <1>3 DEF NodeState, GraphFits
<1>5. \A n \in Nodes : node[n] = "pending" => g.node[n] = "pending"
    OBVIOUS
<1>6. status = "completed" => ~open
    BY <1>5 DEF GraphFits
<1>7. status = "running" => open
    BY <1>3
<1>8. status \in {"none", "pending", "running", "completed", "failed"}
    BY <1>3
<1> HIDE DEF status, node
<1>9. Resumed(c).node = node /\ Resumed(c).status = status
    BY <1>2, <1>3
<1>10. Resumed(c) \in Graphs
    BY <1>2, <1>3, <1>4, <1>8 DEF Graphs
<1> QED BY <1>4, <1>6, <1>7, <1>9, <1>10

\* The graph of new nodes.
LEMMA NewNodes ==
    ASSUME NEW nodes \in SUBSET Nodes
    PROVE  /\ NewGraph(nodes) \in Graphs /\ NewGraph(nodes).status = "pending"
           /\ \A n \in Nodes : NewGraph(nodes).node[n] = IF n \in nodes THEN "pending" ELSE "absent"
BY DEF NewGraph, Graphs, NodeState

---------------------------------------------------------------------------
\* The effects of a step of cycle c beside its own state.
Alone(c) ==
    /\ UNCHANGED ask
    /\ \A d \in Cycles \ {c} :
          /\ phase'[d] = phase[d] /\ task'[d] = task[d] /\ executed'[d] = executed[d]
          /\ ok'[d] = ok[d] /\ graph'[d] = graph[d] /\ held'[d] = held[d] /\ at'[d] = at[d]
    /\ \A k \in Keys : effect[k] # Nobody => effect'[k] = effect[k]

LEMMA DoneStays ==
    ASSUME UNCHANGED ask, \A k \in Keys : effect[k] # Nobody => effect'[k] = effect[k],
           NEW d \in Cycles, NEW n \in Nodes, Done(d, n)
    PROVE  Done(d, n)'
<1>1. Key(d, n)' = Key(d, n) /\ Key(d, n) \in Keys
    BY KeyIsKey DEF Key
<1> QED BY <1>1 DEF Done

LEMMA OthersStay ==
    ASSUME ExecInv, NEW c \in Cycles, Alone(c), NEW d \in Cycles \ {c}
    PROVE  LoopFits(d)' /\ GraphFits(d)'
<1>1. /\ phase'[d] = phase[d] /\ task'[d] = task[d] /\ executed'[d] = executed[d]
      /\ ok'[d] = ok[d] /\ graph'[d] = graph[d] /\ held'[d] = held[d] /\ at'[d] = at[d]
    BY DEF Alone
<1>2. LoopFits(d) /\ GraphFits(d) /\ at[d] \in Nodes
    BY DEF ExecInv, ExecTypeOK
<1>3. LoopFits(d)'
    BY <1>1, <1>2 DEF LoopFits, Having, Planned
<1>4. \A n \in Nodes : Done(d, n) => Done(d, n)'
    BY DoneStays DEF Alone
<1>5. Done(d, at[d]) => Done(d, at[d])'
    BY <1>1, <1>2, <1>4
<1>6. GraphFits(d)'
    BY <1>1, <1>2, <1>4, <1>5 DEF GraphFits
<1> QED BY <1>3, <1>6

\* It is enough to look at the cycle that makes the step.
LEMMA OwnStep ==
    ASSUME ExecInv, NEW c \in Cycles, Alone(c), ExecTypeOK', LoopFits(c)', GraphFits(c)',
           phase[c] \in Resulted => phase'[c] \in Resulted /\ ok'[c] = ok[c],
           \A k \in Keys : effect'[k] # effect[k] =>
                 effect'[k] = c /\ ok'[c] /\ phase'[c] \in Resulted
    PROVE  ExecInv'
<1>1. \A d \in Cycles : LoopFits(d)' /\ GraphFits(d)'
    BY OthersStay
<1>2. ASSUME NEW k \in Keys, effect'[k] # Nobody
      PROVE  ok'[effect'[k]] /\ phase'[effect'[k]] \in Resulted
  <2>1. CASE effect'[k] # effect[k]
    BY <2>1
  <2>2. CASE effect'[k] = effect[k]
    <3>1. effect[k] \in Cycles /\ ok[effect[k]] /\ phase[effect[k]] \in Resulted
      BY <1>2, <2>2 DEF ExecInv, ExecTypeOK, EffectsFit
    <3>2. CASE effect[k] = c
      BY <2>2, <3>1, <3>2
    <3>3. CASE effect[k] # c
      BY <2>2, <3>1, <3>3 DEF Alone
    <3> QED BY <3>2, <3>3
  <2> QED BY <2>1, <2>2
<1>3. EffectsFit'
    BY <1>2 DEF EffectsFit
<1> QED BY <1>1, <1>3 DEF ExecInv

\* The step leaves the cycle's tasks, or its graph, as they are.
LEMMA LoopStays ==
    ASSUME NEW c \in Cycles, LoopFits(c), task'[c] = task[c],
           phase'[c] # "executing", phase[c] = "executing" => phase'[c] = "dead",
           phase[c] = "dead" => phase'[c] = "dead", phase'[c] = "looping" => Planned(c)
    PROVE  LoopFits(c)'
BY DEF LoopFits, Having, Planned

LEMMA GraphStays ==
    ASSUME NEW c \in Cycles, GraphFits(c), Alone(c), graph'[c] = graph[c], held'[c] = held[c],
           phase'[c] = "inserting" => ok'[c], phase'[c] = "saving" => ok'[c] /\ Done(c, at[c])'
    PROVE  GraphFits(c)'
<1>1. \A n \in Nodes : Done(c, n) => Done(c, n)'
    BY DoneStays DEF Alone
<1> QED BY <1>1 DEF GraphFits

---------------------------------------------------------------------------
LEMMA GotoGoes ==
    ASSUME ExecTypeOK, NEW c \in Cycles, NEW p \in Phases, Goto(c, p)
    PROVE  /\ phase' \in [Cycles -> Phases] /\ phase'[c] = p
           /\ \A d \in Cycles \ {c} : phase'[d] = phase[d]
BY DEF ExecTypeOK, Goto

LEMMA SaveSaves ==
    ASSUME ExecTypeOK, NEW c \in Cycles, NEW g \in Graphs, Save(c, g)
    PROVE  /\ graph' \in [Cycles -> Graphs] /\ held' \in [Cycles -> Graphs]
           /\ graph'[c] = g /\ held'[c] = g
           /\ \A d \in Cycles \ {c} : graph'[d] = graph[d] /\ held'[d] = held[d]
BY DEF ExecTypeOK, Save

\* A graph is saved and nothing else than the place of the cycle changes.
LEMMA SavedStep ==
    ASSUME ExecInv, NEW c \in Cycles, NEW g \in Graphs, NEW p \in Phases, Save(c, g), Goto(c, p),
           UNCHANGED <<ask, task, executed, ok, at, effect, crashes>>,
           p \notin {"executing", "looping", "inserting", "saving"}, phase[c] \notin {"executing", "dead"},
           phase[c] \in Resulted => p \in Resulted,
           \A n \in Nodes : g.node[n] = "completed" => Done(c, n),
           g.status = "completed" => \A n \in Nodes : g.node[n] # "pending",
           g.status = "running" => \E n \in Nodes : g.node[n] \in {"pending", "failed"}
    PROVE  ExecInv'
<1>1. ExecTypeOK /\ LoopFits(c) /\ GraphFits(c)
    BY DEF ExecInv
<1>2. /\ phase' \in [Cycles -> Phases] /\ phase'[c] = p
      /\ \A d \in Cycles \ {c} : phase'[d] = phase[d]
    BY <1>1, GotoGoes
<1>3. /\ graph' \in [Cycles -> Graphs] /\ held' \in [Cycles -> Graphs]
      /\ graph'[c] = g /\ held'[c] = g
      /\ \A d \in Cycles \ {c} : graph'[d] = graph[d] /\ held'[d] = held[d]
    BY <1>1, SaveSaves
<1>4. ExecTypeOK'
    BY <1>1, <1>2, <1>3 DEF ExecTypeOK
<1>5. Alone(c)
    BY <1>2, <1>3 DEF Alone
<1>6. LoopFits(c)'
    BY <1>1, <1>2, LoopStays
<1>7. \A n \in Nodes : Done(c, n) => Done(c, n)'
    BY <1>5, DoneStays DEF Alone
<1>8. GraphFits(c)'
    BY <1>2, <1>3, <1>7 DEF GraphFits
<1> QED BY <1>2, <1>4, <1>5, <1>6, <1>8, OwnStep

\* Only the place of the cycle changes.
LEMMA PlaceStep ==
    ASSUME ExecInv, NEW c \in Cycles, NEW p \in Phases, Goto(c, p),
           UNCHANGED <<ask, task, executed, ok, graph, held, at, effect, crashes>>,
           p \notin {"executing", "inserting", "saving", "looping"},
           phase[c] \in {"executing", "dead"} => p = "dead",
           phase[c] \in Resulted => p \in Resulted
    PROVE  ExecInv'
<1>1. ExecTypeOK /\ LoopFits(c) /\ GraphFits(c)
    BY DEF ExecInv
<1>2. /\ phase' \in [Cycles -> Phases] /\ phase'[c] = p
      /\ \A d \in Cycles \ {c} : phase'[d] = phase[d]
    BY <1>1, GotoGoes
<1>3. ExecTypeOK'
    BY <1>1, <1>2 DEF ExecTypeOK
<1>4. Alone(c)
    BY <1>2 DEF Alone
<1>5. LoopFits(c)'
    BY <1>1, <1>2, LoopStays
<1>6. GraphFits(c)'
    BY <1>1, <1>2, <1>4, GraphStays
<1> QED BY <1>2, <1>3, <1>4, <1>5, <1>6, OwnStep

LEMMA DecideKeeps == ASSUME ExecInv, NEW c \in Cycles, Decide(c) PROVE ExecInv'
<1> DEFINE p == "decided"
<1>1. /\ phase[c] = "idle" /\ Goto(c, p) /\ p \in Phases
      /\ UNCHANGED <<ask, task, executed, ok, at, effect, crashes>>
      /\ p \notin {"executing", "looping", "inserting", "saving"} /\ p \notin Resulted
    BY DEF Decide, loopVars, Phases, Resulted
<1>2. phase[c] \notin Resulted /\ phase[c] \notin {"executing", "dead"}
    BY <1>1 DEF Resulted
<1> HIDE DEF p
<1>3. CASE ask[c].nodes = {}
  <2>1. UNCHANGED <<graph, held>>
    BY <1>3 DEF Decide
  <2> QED BY <1>1, <1>2, <2>1, PlaceStep
<1>4. CASE ask[c].nodes # {}
  <2> DEFINE g == NewGraph(ask[c].nodes)
  <2>1. Save(c, g)
    BY <1>4 DEF Decide
  <2>2. ask[c].nodes \in SUBSET Nodes
    BY Shapes DEF ExecInv
  <2>3. /\ g \in Graphs /\ g.status = "pending" /\ \A n \in Nodes : g.node[n] # "completed"
    BY <2>2, NewNodes
  <2> HIDE DEF g
  <2> QED BY <1>1, <1>2, <2>1, <2>3, SavedStep
<1> QED BY <1>3, <1>4

LEMMA HandOffKeeps == ASSUME ExecInv, NEW c \in Cycles, HandOff(c) PROVE ExecInv'
<1> DEFINE p == "handed"
<1>1. /\ phase[c] = "decided" /\ Goto(c, p) /\ p \in Phases
      /\ UNCHANGED <<ask, task, executed, ok, at, effect, crashes>>
      /\ p \notin {"executing", "looping", "inserting", "saving"} /\ p \notin Resulted
    BY DEF HandOff, loopVars, Phases, Resulted
<1>2. phase[c] \notin Resulted /\ phase[c] \notin {"executing", "dead"}
    BY <1>1 DEF Resulted
<1> HIDE DEF p
<1>3. CASE graph[c].status = "none"
  <2>1. UNCHANGED <<graph, held>>
    BY <1>3 DEF HandOff
  <2> QED BY <1>1, <1>2, <2>1, PlaceStep
<1>4. CASE graph[c].status # "none"
  <2> DEFINE g == Resumed(c)
  <2>1. Save(c, g)
    BY <1>4 DEF HandOff
  <2>2. /\ g \in Graphs /\ \A n \in Nodes : g.node[n] = "completed" => Done(c, n)
        /\ g.status = "completed" => \A n \in Nodes : g.node[n] # "pending"
        /\ g.status = "running" => \E n \in Nodes : g.node[n] = "pending"
    BY ResumedGraph DEF ExecInv
  <2> HIDE DEF g
  <2> QED BY <1>1, <1>2, <2>1, <2>2, SavedStep
<1> QED BY <1>3, <1>4

LEMMA MovesKeep ==
    ASSUME ExecInv, NEW c \in Cycles,
           StayInChat(c) \/ AbandonGraph(c) \/ InsertConflict(c) \/ Finish(c)
    PROVE  ExecInv'
<1>1. PICK p \in {"done", "dead"} :
        /\ Goto(c, p) /\ UNCHANGED <<ask, task, executed, ok, graph, held, at, effect, crashes>>
        /\ phase[c] # "dead" /\ (phase[c] = "executing" => p = "dead")
    BY DEF StayInChat, AbandonGraph, InsertConflict, Finish, loopVars, wkVars
<1>2. p \in Phases /\ p \in Resulted /\ p \notin {"executing", "inserting", "saving", "looping"}
    BY DEF Phases, Resulted
<1> QED BY <1>1, <1>2, PlaceStep

LEMMA BindKeeps == ASSUME ExecInv, NEW c \in Cycles, Bind(c) PROVE ExecInv'
<1> DEFINE p == IF ask[c].dry THEN "marking" ELSE IF ask[c].planned THEN "looping" ELSE "light"
           tasks == [t \in Tasks |-> IF t \in ask[c].plan THEN "pending" ELSE "absent"]
           g == IF graph[c].status # "none" THEN Resumed(c)
                ELSE [NewGraph(ask[c].plan) EXCEPT !.status = "running"]
<1>1. ExecTypeOK /\ GraphFits(c) /\ phase[c] \in {"handed", "idle"} /\ ask[c].dry \in BOOLEAN
      /\ "reason" \in ask[c].plan /\ ask[c].plan \subseteq PlanTypes
    BY Shapes DEF ExecInv, Bind, Entered
<1>2. /\ Goto(c, p) /\ Save(c, g) /\ task' = [task EXCEPT ![c] = tasks]
      /\ ok' = [ok EXCEPT ![c] = ask[c].dry] /\ UNCHANGED <<ask, executed, at, effect, crashes>>
    BY DEF Bind
<1>3. p \in Phases /\ p \in {"marking", "looping", "light"}
    BY DEF Phases
<1>4. /\ tasks \in [Tasks -> TaskState] /\ tasks["reason"] = "pending"
      /\ \A t \in Tasks : tasks[t] \in {"pending", "absent"}
      /\ tasks["more_research"] = "absent" /\ tasks["more_learn"] = "absent"
    BY <1>1 DEF Tasks, PlanTypes, FollowUps, TaskState
<1>5. /\ g \in Graphs /\ \A n \in Nodes : g.node[n] = "completed" => Done(c, n)
      /\ g.status = "completed" => \A n \in Nodes : g.node[n] # "pending"
      /\ g.status = "running" => \E n \in Nodes : g.node[n] = "pending"
  <2>1. CASE graph[c].status # "none"
    BY <1>1, <2>1, ResumedGraph
  <2>2. CASE graph[c].status = "none"
    <3> DEFINE h == NewGraph(ask[c].plan)
    <3>1. /\ h \in Graphs /\ "reason" \in Nodes
          /\ \A n \in Nodes : h.node[n] = IF n \in ask[c].plan THEN "pending" ELSE "absent"
      BY <1>1, NewNodes DEF Nodes, PlanTypes
    <3> HIDE DEF h
    <3>2. g = [h EXCEPT !.status = "running"]
      BY <2>2 DEF h
    <3>3. h = [status |-> h.status, node |-> h.node, replans |-> h.replans]
          /\ h.node \in [Nodes -> NodeState] /\ h.replans \in 0 .. 2
      BY <3>1 DEF Graphs
    <3>4. g \in Graphs /\ g.status = "running" /\ g.node = h.node
      BY <3>2, <3>3 DEF Graphs
    <3>5. \A n \in Nodes : g.node[n] \in {"pending", "absent"}
      BY <3>1, <3>4
    <3>6. g.node["reason"] = "pending"
      BY <1>1, <3>1, <3>4
    <3> QED BY <3>1, <3>4, <3>5, <3>6
  <2> QED BY <2>1, <2>2
<1> HIDE DEF p, tasks, g
<1>6. /\ phase' \in [Cycles -> Phases] /\ phase'[c] = p
      /\ \A d \in Cycles \ {c} : phase'[d] = phase[d]
    BY <1>1, <1>2, <1>3, GotoGoes
<1>7. /\ graph' \in [Cycles -> Graphs] /\ held' \in [Cycles -> Graphs]
      /\ graph'[c] = g /\ held'[c] = g
      /\ \A d \in Cycles \ {c} : graph'[d] = graph[d] /\ held'[d] = held[d]
    BY <1>1, <1>2, <1>5, SaveSaves
<1>8. /\ task' \in [Cycles -> [Tasks -> TaskState]] /\ task'[c] = tasks
      /\ ok' \in [Cycles -> BOOLEAN]
      /\ \A d \in Cycles \ {c} : task'[d] = task[d] /\ ok'[d] = ok[d]
    BY <1>1, <1>2, <1>4 DEF ExecTypeOK
<1>9. ExecTypeOK'
    BY <1>1, <1>2, <1>6, <1>7, <1>8 DEF ExecTypeOK
<1>10. Alone(c)
    BY <1>2, <1>6, <1>7, <1>8 DEF Alone
<1>11. LoopFits(c)'
    BY <1>3, <1>4, <1>6, <1>8 DEF LoopFits, Having, Planned, Tasks, PlanTypes
<1>12. \A n \in Nodes : Done(c, n) => Done(c, n)'
    BY <1>10, DoneStays DEF Alone
<1>13. GraphFits(c)'
    BY <1>3, <1>5, <1>6, <1>7, <1>12 DEF GraphFits
<1> QED BY <1>1, <1>2, <1>9, <1>10, <1>11, <1>13, OwnStep DEF Resulted

---------------------------------------------------------------------------
\* Only the tasks of the cycle, its result and its place change.
LEMMA LoopStep ==
    ASSUME ExecInv, NEW c \in Cycles, NEW p \in Phases, Goto(c, p),
           UNCHANGED <<ask, graph, held, at, effect, crashes>>,
           task' \in [Cycles -> [Tasks -> TaskState]], executed' \in [Cycles -> 0 .. MaxSteps],
           ok' \in [Cycles -> BOOLEAN],
           \A d \in Cycles \ {c} : task'[d] = task[d] /\ executed'[d] = executed[d] /\ ok'[d] = ok[d],
           phase[c] \notin Resulted, p \notin {"inserting", "saving"},
           LoopFits(c)'
    PROVE  ExecInv'
<1>1. ExecTypeOK /\ GraphFits(c)
    BY DEF ExecInv
<1>2. /\ phase' \in [Cycles -> Phases] /\ phase'[c] = p
      /\ \A d \in Cycles \ {c} : phase'[d] = phase[d]
    BY <1>1, GotoGoes
<1>3. ExecTypeOK'
    BY <1>1, <1>2 DEF ExecTypeOK
<1>4. Alone(c)
    BY <1>2 DEF Alone
<1>5. GraphFits(c)'
    BY <1>1, <1>2, <1>4, GraphStays
<1> QED BY <1>3, <1>4, <1>5, OwnStep

LEMMA RunTaskKeeps == ASSUME ExecInv, NEW c \in Cycles, RunTask(c) PROVE ExecInv'
<1> DEFINE p == "executing"
<1>1. /\ phase[c] = "looping" /\ Goto(c, p) /\ p \in Phases /\ ~AtLimit(c)
      /\ UNCHANGED <<ask, executed, ok, graph, held, at, effect, crashes>>
      /\ phase[c] \notin Resulted /\ p \notin {"inserting", "saving"}
    BY DEF RunTask, Phases, Resulted, wkVars
<1>2. PICK t \in Next1(c) : task' = [task EXCEPT ![c][t] = "running"]
    BY DEF RunTask
<1>3. /\ ExecTypeOK /\ LoopFits(c) /\ task[c] \in [Tasks -> TaskState]
      /\ executed[c] \in 0 .. MaxSteps /\ MaxSteps \in Nat
    BY Shapes DEF ExecInv
<1>4. t \in Tasks /\ task[c][t] = "pending"
    BY <1>2 DEF Next1, Ready, Having
<1>5. /\ task' \in [Cycles -> [Tasks -> TaskState]] /\ task'[c][t] = "running"
      /\ \A u \in Tasks \ {t} : task'[c][u] = task[c][u]
      /\ \A d \in Cycles \ {c} : task'[d] = task[d]
    BY <1>2, <1>3, <1>4 DEF ExecTypeOK, TaskState
<1>6. phase'[c] = "executing"
    BY <1>1, <1>3, GotoGoes
<1>7. executed'[c] < MaxSteps
    BY <1>1, <1>3 DEF AtLimit
<1>8. Having(c, "running") = {}
    BY <1>1, <1>3 DEF LoopFits
<1>9. Having(c, "running")' = {t}
    BY <1>4, <1>5, <1>8 DEF Having
<1>10. task[c]["reason"] \notin {"absent", "skipped"}
    BY <1>1, <1>3 DEF LoopFits, Planned
<1>11. /\ "reason" \in Tasks /\ "research" \in Tasks /\ "learn" \in Tasks
       /\ "more_research" \in Tasks /\ "more_learn" \in Tasks /\ PlanTypes \subseteq Tasks
    BY DEF Tasks, PlanTypes, FollowUps
<1>12. task'[c]["reason"] \notin {"absent", "skipped"}
    BY <1>5, <1>10, <1>11
<1>13. task'[c]["reason"] = "failed" =>
          \A u \in PlanTypes : task'[c][u] \notin {"pending", "running"}
  <2>1. task'[c]["reason"] = "failed" => task[c]["reason"] = "failed"
    BY <1>5, <1>11
  <2>2. task[c]["reason"] = "failed" => t \notin PlanTypes
    BY <1>3, <1>4 DEF LoopFits
  <2> QED BY <1>3, <1>5, <1>11, <2>1, <2>2 DEF LoopFits
<1>14. /\ task'[c]["more_research"] # "absent" => task[c]["more_research"] # "absent"
       /\ task'[c]["more_learn"] # "absent" => task[c]["more_learn"] # "absent"
    BY <1>4, <1>5, <1>11
<1>15. /\ task[c]["research"] \in {"absent", "failed", "skipped"} => task'[c]["research"] = task[c]["research"]
       /\ task[c]["learn"] \in {"absent", "failed", "skipped"} => task'[c]["learn"] = task[c]["learn"]
    BY <1>4, <1>5, <1>11
<1>16. LoopFits(c)'
    BY <1>3, <1>4, <1>6, <1>7, <1>9, <1>12, <1>13, <1>14, <1>15 DEF LoopFits, Planned
<1> HIDE DEF p
<1> QED BY <1>1, <1>3, <1>5, <1>16, LoopStep DEF ExecTypeOK

LEMMA TaskEndsKeeps == ASSUME ExecInv, NEW c \in Cycles, TaskEnds(c) PROVE ExecInv'
<1> DEFINE p == "looping"
<1>1. /\ phase[c] = "executing" /\ Goto(c, p) /\ p \in Phases
      /\ executed' = [executed EXCEPT ![c] = @ + 1]
      /\ UNCHANGED <<ask, ok, graph, held, at, effect, crashes>>
      /\ phase[c] \notin Resulted /\ p \notin {"inserting", "saving"}
    BY DEF TaskEnds, Phases, Resulted, wkVars
<1>2. PICK t \in Having(c, "running"), good \in BOOLEAN, found \in BOOLEAN :
          task' = [task EXCEPT ![c] = [u \in Tasks |->
              IF u \in (IF ask[c].followups THEN FollowUp(MarkComplete(c, t, good), t, found /\ good) ELSE {})
              THEN "pending" ELSE MarkComplete(c, t, good)[u]]]
    BY DEF TaskEnds
<1> DEFINE state == MarkComplete(c, t, good)
           more == IF ask[c].followups THEN FollowUp(state, t, found /\ good) ELSE {}
<1>3. /\ ExecTypeOK /\ LoopFits(c) /\ task[c] \in [Tasks -> TaskState]
      /\ executed[c] \in 0 .. MaxSteps /\ MaxSteps \in Nat
    BY Shapes DEF ExecInv
<1>4. /\ executed[c] < MaxSteps /\ t \in Tasks /\ task[c][t] = "running"
      /\ Having(c, "running") = {t}
    BY <1>1, <1>2, <1>3 DEF LoopFits, Having
<1>5. \A u \in Tasks \ {t} : task[c][u] # "running"
    BY <1>4 DEF Having
<1>6. /\ "reason" \in Tasks /\ "research" \in Tasks /\ "learn" \in Tasks
      /\ "more_research" \in Tasks /\ "more_learn" \in Tasks /\ PlanTypes \subseteq Tasks
      /\ PlanTypes \cap FollowUps = {} /\ FollowUps = {"more_research", "more_learn"}
    BY DEF Tasks, PlanTypes, FollowUps
<1>7. /\ state \in [Tasks -> TaskState]
      /\ state[t] = IF good THEN "completed" ELSE "failed"
      /\ \A u \in Tasks \ {t} : state[u] =
             IF ~good /\ task[c][u] = "pending" /\ t \in DependsOn(u) THEN "skipped" ELSE task[c][u]
    BY <1>3, <1>4 DEF MarkComplete, TaskState
<1>8. /\ more \subseteq FollowUps
      /\ "more_research" \in more => state["research"] \in {"absent", "failed", "skipped"}
      /\ "more_learn" \in more => state["learn"] \in {"absent", "failed", "skipped"}
      /\ t = "reason" => more = {}
  <2>1. more \subseteq Wanted(t, found /\ good)
        /\ \A f \in more : \A u \in SameType(f) : state[u] \notin {"pending", "running", "completed"}
    BY DEF FollowUp
  <2>2. Wanted(t, found /\ good) \subseteq FollowUps /\ (t = "reason" => Wanted(t, found /\ good) = {})
    BY DEF Wanted, FollowUps
  <2>3. "research" \in SameType("more_research") /\ "learn" \in SameType("more_learn")
    BY DEF SameType
  <2>4. state["research"] \in TaskState /\ state["learn"] \in TaskState
    BY <1>6, <1>7
  <2> QED BY <2>1, <2>2, <2>3, <2>4 DEF TaskState
<1> HIDE DEF state, more
<1>9. /\ task' \in [Cycles -> [Tasks -> TaskState]]
      /\ \A u \in Tasks : task'[c][u] = IF u \in more THEN "pending" ELSE state[u]
      /\ \A d \in Cycles \ {c} : task'[d] = task[d]
  <2> DEFINE new == [u \in Tasks |-> IF u \in more THEN "pending" ELSE state[u]]
  <2>1. new \in [Tasks -> TaskState] /\ task' = [task EXCEPT ![c] = new]
    BY <1>2, <1>7 DEF state, more, TaskState
  <2>2. \A u \in Tasks : new[u] = IF u \in more THEN "pending" ELSE state[u]
    OBVIOUS
  <2> HIDE DEF new
  <2> QED BY <1>3, <2>1, <2>2 DEF ExecTypeOK
<1>10. /\ executed' \in [Cycles -> 0 .. MaxSteps]
       /\ \A d \in Cycles \ {c} : executed'[d] = executed[d]
    BY <1>1, <1>3, <1>4 DEF ExecTypeOK
<1>11. phase'[c] = "looping"
    BY <1>1, <1>3, GotoGoes
<1>12. Having(c, "running")' = {}
  <2>1. \A u \in Tasks : state[u] # "running"
    BY <1>4, <1>5, <1>7
  <2> QED BY <1>9, <2>1 DEF Having
<1>13. DependsOn("reason") = {} /\ \A u \in PlanTypes \ {"reason"} : DependsOn(u) = {"reason"}
    BY <1>6 DEF DependsOn
<1>14. task'[c]["reason"] \notin {"absent", "skipped"}
  <2>1. task[c]["reason"] \notin {"absent", "skipped"}
    BY <1>1, <1>3 DEF LoopFits, Planned
  <2>2. state["reason"] \notin {"absent", "skipped"}
    BY <1>6, <1>7, <1>13, <2>1
  <2> QED BY <1>6, <1>9, <2>2
<1>15. task'[c]["reason"] = "failed" =>
          \A u \in PlanTypes : task'[c][u] \notin {"pending", "running"}
  <2> SUFFICES ASSUME task'[c]["reason"] = "failed", NEW u \in PlanTypes
               PROVE  task'[c][u] \notin {"pending", "running"}
    OBVIOUS
  <2>1. u \in Tasks /\ u \notin more /\ task'[c][u] = state[u] /\ "reason" \notin more
        /\ "reason" \in PlanTypes
    BY <1>6, <1>8, <1>9 DEF PlanTypes
  <2>2. state["reason"] = "failed"
    BY <1>6, <1>9, <2>1
  <2>3. CASE t = "reason"
    <3>1. ~good
      BY <1>7, <2>2, <2>3
    <3>2. CASE u = t
      BY <1>7, <2>1, <3>1, <3>2
    <3>3. CASE u # t
      <4>1. t \in DependsOn(u)
        BY <1>13, <2>3, <3>3
      <4>2. state[u] = IF task[c][u] = "pending" THEN "skipped" ELSE task[c][u]
        BY <1>7, <2>1, <3>1, <3>3, <4>1
      <4> QED BY <1>5, <2>1, <3>3, <4>2
    <3> QED BY <3>2, <3>3
  <2>4. CASE t # "reason"
    <3>1. task[c]["reason"] = "failed"
      BY <1>6, <1>7, <2>2, <2>4, <1>13
    <3>2. task[c][u] \notin {"pending", "running"}
      BY <1>3, <3>1 DEF LoopFits
    <3> QED BY <1>4, <1>7, <2>1, <3>2
  <2> QED BY <2>3, <2>4
<1>16. /\ task'[c]["more_research"] # "absent" => task'[c]["research"] \in {"absent", "failed", "skipped"}
  <2>1. task'[c]["research"] = state["research"]
    BY <1>6, <1>8, <1>9 DEF PlanTypes
  <2>2. CASE "more_research" \in more
    BY <1>8, <2>1, <2>2
  <2>3. CASE "more_research" \notin more
    <3>1. task'[c]["more_research"] = state["more_research"]
      BY <1>6, <1>9, <2>3
    <3>2. state["more_research"] # "absent" => task[c]["more_research"] # "absent"
      BY <1>4, <1>6, <1>7
    <3>3. task[c]["research"] \in {"absent", "failed", "skipped"} => state["research"] = task[c]["research"]
      BY <1>4, <1>6, <1>7
    <3> QED BY <1>3, <2>1, <3>1, <3>2, <3>3 DEF LoopFits
  <2> QED BY <2>2, <2>3
<1>17. /\ task'[c]["more_learn"] # "absent" => task'[c]["learn"] \in {"absent", "failed", "skipped"}
  <2>1. task'[c]["learn"] = state["learn"]
    BY <1>6, <1>8, <1>9 DEF PlanTypes
  <2>2. CASE "more_learn" \in more
    BY <1>8, <2>1, <2>2
  <2>3. CASE "more_learn" \notin more
    <3>1. task'[c]["more_learn"] = state["more_learn"]
      BY <1>6, <1>9, <2>3
    <3>2. state["more_learn"] # "absent" => task[c]["more_learn"] # "absent"
      BY <1>4, <1>6, <1>7
    <3>3. task[c]["learn"] \in {"absent", "failed", "skipped"} => state["learn"] = task[c]["learn"]
      BY <1>4, <1>6, <1>7
    <3> QED BY <1>3, <2>1, <3>1, <3>2, <3>3 DEF LoopFits
  <2> QED BY <2>2, <2>3
<1>18. LoopFits(c)'
    BY <1>11, <1>12, <1>14, <1>15, <1>16, <1>17 DEF LoopFits, Planned
<1> HIDE DEF p
<1> QED BY <1>1, <1>3, <1>9, <1>10, <1>18, LoopStep DEF ExecTypeOK

LEMMA LoopEndsKeeps == ASSUME ExecInv, NEW c \in Cycles, LoopEnds(c) PROVE ExecInv'
<1> DEFINE p == "marking"
<1>1. /\ phase[c] = "looping" /\ Goto(c, p) /\ p \in Phases
      /\ UNCHANGED <<ask, task, executed, graph, held, at, effect, crashes>>
      /\ phase[c] \notin Resulted /\ p \notin {"inserting", "saving"}
    BY DEF LoopEnds, Phases, Resulted, wkVars, loopVars
<1>2. ExecTypeOK /\ LoopFits(c)
    BY DEF ExecInv
<1>3. /\ ok' \in [Cycles -> BOOLEAN] /\ \A d \in Cycles \ {c} : ok'[d] = ok[d]
  <2>1. PICK b \in BOOLEAN : ok' = [ok EXCEPT ![c] = b]
    BY DEF LoopEnds
  <2> QED BY <1>2, <2>1 DEF ExecTypeOK
<1>4. phase'[c] = "marking"
    BY <1>1, <1>2, GotoGoes
<1>5. LoopFits(c)'
    BY <1>1, <1>2, <1>4, LoopStays
<1> HIDE DEF p
<1> QED BY <1>1, <1>2, <1>3, <1>5, LoopStep DEF ExecTypeOK

LEMMA LightPassKeeps == ASSUME ExecInv, NEW c \in Cycles, LightPass(c) PROVE ExecInv'
<1> DEFINE p == "marking"
<1>1. /\ phase[c] = "light" /\ Goto(c, p) /\ p \in Phases
      /\ UNCHANGED <<ask, executed, graph, held, at, effect, crashes>>
      /\ phase[c] \notin Resulted /\ p \notin {"inserting", "saving"}
    BY DEF LightPass, Phases, Resulted, wkVars
<1>2. PICK bad \in SUBSET (ask[c].plan \cap {"memory_query", "learn"}), good \in BOOLEAN :
          /\ task' = [task EXCEPT ![c] = [t \in Tasks |->
                          IF t \in bad THEN "failed"
                          ELSE IF t \in ask[c].plan THEN "completed" ELSE "absent"]]
          /\ ok' = [ok EXCEPT ![c] = good]
    BY DEF LightPass
<1>3. ExecTypeOK /\ "reason" \in ask[c].plan /\ ask[c].plan \subseteq PlanTypes
    BY Shapes DEF ExecInv
<1> DEFINE new == [t \in Tasks |-> IF t \in bad THEN "failed"
                                   ELSE IF t \in ask[c].plan THEN "completed" ELSE "absent"]
<1>4. /\ new \in [Tasks -> TaskState] /\ \A t \in Tasks : new[t] \notin {"running", "pending"}
      /\ new["reason"] = "completed" /\ new["more_research"] = "absent" /\ new["more_learn"] = "absent"
    BY <1>3 DEF TaskState, Tasks, PlanTypes, FollowUps
<1> HIDE DEF new
<1>5. /\ task' \in [Cycles -> [Tasks -> TaskState]] /\ task'[c] = new
      /\ ok' \in [Cycles -> BOOLEAN]
      /\ \A d \in Cycles \ {c} : task'[d] = task[d] /\ ok'[d] = ok[d]
    BY <1>2, <1>3, <1>4 DEF ExecTypeOK, new
<1>6. phase'[c] = "marking"
    BY <1>1, <1>3, GotoGoes
<1>7. LoopFits(c)'
    BY <1>4, <1>5, <1>6 DEF LoopFits, Having, Planned
<1> HIDE DEF p
<1> QED BY <1>1, <1>3, <1>5, <1>7, LoopStep DEF ExecTypeOK

---------------------------------------------------------------------------
\* The marking of the durable graph: a node is completed after its effect.
LEMMA MarkStep ==
    ASSUME ExecInv, NEW c \in Cycles, NEW n \in Nodes, Done(c, n), Save(c, Marked(held[c], n)),
           UNCHANGED <<ask, task, executed, ok, at, effect, crashes>>,
           phase[c] \in {"marking", "saving"}, Goto(c, "marking")
    PROVE  ExecInv'
<1> DEFINE g == Marked(held[c], n)
           p == "marking"
<1>1. ExecTypeOK /\ GraphFits(c) /\ held[c] = graph[c] /\ held[c] \in Graphs
    BY Shapes DEF ExecInv, GraphFits
<1>2. /\ g \in Graphs /\ \A m \in Nodes : g.node[m] = "completed" => Done(c, m)
      /\ g.status = "completed" => \A m \in Nodes : g.node[m] # "pending"
  <2>1. /\ g \in Graphs /\ \A m \in Nodes \ {n} : g.node[m] = held[c].node[m]
        /\ g.status = "completed" => \A m \in Nodes : g.node[m] # "pending"
    BY <1>1, MarkedNode
  <2> HIDE DEF g
  <2> QED BY <1>1, <2>1 DEF GraphFits
<1>3. g.status = "running" => \E m \in Nodes : g.node[m] = "pending"
    BY <1>1, MarkedNode
<1>4. /\ p \in Phases /\ p \in Resulted /\ Goto(c, p) /\ Save(c, g)
      /\ p \notin {"executing", "looping", "inserting", "saving"} /\ phase[c] \notin {"executing", "dead"}
    BY DEF Phases, Resulted
<1> HIDE DEF g, p
<1> QED BY <1>2, <1>3, <1>4, SavedStep

LEMMA MarkKnownKeeps == ASSUME ExecInv, NEW c \in Cycles, MarkKnown(c) PROVE ExecInv'
<1>1. PICK n \in FirstOpen(c) : Done(c, n) /\ Save(c, Marked(held[c], n))
    BY DEF MarkKnown
<1>2. n \in Nodes
    BY <1>1 DEF FirstOpen, Open, In
<1>3. /\ UNCHANGED <<ask, task, executed, ok, at, effect, crashes>> /\ phase[c] = "marking" /\ phase' = phase
    BY DEF MarkKnown, loopVars
<1>4. Goto(c, "marking")
    BY <1>3 DEF Goto, ExecInv, ExecTypeOK
<1> QED BY <1>1, <1>2, <1>3, <1>4, MarkStep

LEMMA SaveNodeKeeps == ASSUME ExecInv, NEW c \in Cycles, SaveNode(c) PROVE ExecInv'
<1>1. /\ phase[c] = "saving" /\ Save(c, Marked(held[c], at[c])) /\ Goto(c, "marking")
      /\ UNCHANGED <<ask, task, executed, ok, at, effect, crashes>>
    BY DEF SaveNode, loopVars
<1>2. at[c] \in Nodes /\ Done(c, at[c])
    BY <1>1 DEF ExecInv, ExecTypeOK, GraphFits
<1> QED BY <1>1, <1>2, MarkStep

LEMMA MarkNewKeeps == ASSUME ExecInv, NEW c \in Cycles, MarkNew(c) PROVE ExecInv'
<1> DEFINE p == "inserting"
<1>1. /\ phase[c] = "marking" /\ ok[c] /\ Goto(c, p) /\ p \in Phases
      /\ UNCHANGED <<ask, task, executed, ok, graph, held, effect, crashes>>
    BY DEF MarkNew, Phases, loopVars
<1>2. PICK n \in FirstOpen(c) : at' = [at EXCEPT ![c] = n]
    BY DEF MarkNew
<1>3. ExecTypeOK /\ LoopFits(c) /\ GraphFits(c) /\ n \in Nodes
    BY <1>2 DEF ExecInv, FirstOpen, Open, In
<1>4. /\ phase' \in [Cycles -> Phases] /\ phase'[c] = "inserting"
      /\ \A d \in Cycles \ {c} : phase'[d] = phase[d]
    BY <1>1, <1>3, GotoGoes
<1>5. at' \in [Cycles -> Nodes] /\ \A d \in Cycles \ {c} : at'[d] = at[d]
    BY <1>2, <1>3 DEF ExecTypeOK
<1>6. ExecTypeOK'
    BY <1>1, <1>3, <1>4, <1>5 DEF ExecTypeOK
<1>7. Alone(c)
    BY <1>1, <1>4, <1>5 DEF Alone
<1>8. LoopFits(c)'
    BY <1>1, <1>3, <1>4, LoopStays
<1>9. GraphFits(c)'
    BY <1>1, <1>3, <1>4, <1>7, GraphStays
<1>10. phase'[c] \in Resulted
    BY <1>4 DEF Resulted
<1> QED BY <1>1, <1>6, <1>7, <1>8, <1>9, <1>10, OwnStep

LEMMA RecordEffectKeeps == ASSUME ExecInv, NEW c \in Cycles, RecordEffect(c) PROVE ExecInv'
<1> DEFINE p == "saving"
           key == Key(c, at[c])
<1>1. /\ phase[c] = "inserting" /\ ~Done(c, at[c]) /\ Goto(c, p) /\ p \in Phases
      /\ effect' = [effect EXCEPT ![key] = c]
      /\ UNCHANGED <<ask, task, executed, ok, graph, held, at, crashes>>
    BY DEF RecordEffect, Phases, loopVars
<1>2. ExecTypeOK /\ LoopFits(c) /\ GraphFits(c) /\ at[c] \in Nodes /\ ok[c] /\ c # Nobody
    BY <1>1, ExecAssumption DEF ExecInv, ExecTypeOK, GraphFits, Nobody
<1>3. key \in Keys /\ effect[key] = Nobody /\ key' = key
    BY <1>1, <1>2, KeyIsKey DEF Done, Key
<1> HIDE DEF key
<1>4. /\ phase' \in [Cycles -> Phases] /\ phase'[c] = "saving"
      /\ \A d \in Cycles \ {c} : phase'[d] = phase[d]
    BY <1>1, <1>2, GotoGoes
<1>5. /\ effect' \in [Keys -> Cycles \cup {Nobody}] /\ effect'[key] = c
      /\ \A k \in Keys \ {key} : effect'[k] = effect[k]
    BY <1>1, <1>2, <1>3 DEF ExecTypeOK
<1>6. ExecTypeOK'
    BY <1>1, <1>2, <1>4, <1>5 DEF ExecTypeOK
<1>7. Alone(c)
    BY <1>1, <1>3, <1>4, <1>5 DEF Alone
<1>8. LoopFits(c)'
    BY <1>1, <1>2, <1>4, LoopStays
<1>9. Done(c, at[c])'
  <2>1. effect'[key'] = c
    BY <1>3, <1>5
  <2> QED BY <1>2, <2>1 DEF Done, key
<1>10. GraphFits(c)'
    BY <1>1, <1>2, <1>4, <1>7, <1>9, GraphStays
<1>11. phase'[c] \in Resulted
    BY <1>4 DEF Resulted
<1> QED BY <1>1, <1>2, <1>5, <1>6, <1>7, <1>8, <1>10, <1>11, OwnStep

LEMMA FailNodeKeeps == ASSUME ExecInv, NEW c \in Cycles, FailNode(c) PROVE ExecInv'
<1> DEFINE p == "done"
<1>1. PICK n \in FirstOpen(c) : Save(c, Failed(held[c], n))
    BY DEF FailNode
<1>2. n \in Nodes
    BY <1>1 DEF FirstOpen, Open, In
<1>3. /\ phase[c] = "marking" /\ Goto(c, p) /\ p \in Phases /\ p \in Resulted
      /\ UNCHANGED <<ask, task, executed, ok, at, effect, crashes>>
      /\ p \notin {"executing", "looping", "inserting", "saving"}
    BY DEF FailNode, loopVars, Phases, Resulted
<1>4. ExecTypeOK /\ GraphFits(c) /\ held[c] = graph[c] /\ held[c] \in Graphs
    BY Shapes DEF ExecInv, GraphFits
<1> DEFINE g == Failed(held[c], n)
<1>5. /\ g \in Graphs /\ g.node[n] = "failed" /\ g.status \in {"running", "failed"}
      /\ \A m \in Nodes \ {n} : g.node[m] = held[c].node[m]
    BY <1>2, <1>4, FailedNode
<1>6. Save(c, g)
    BY <1>1
<1> HIDE DEF g, p
<1>7. \A m \in Nodes : g.node[m] = "completed" => Done(c, m)
    BY <1>4, <1>5 DEF GraphFits
<1>8. g.status # "completed" /\ (g.status = "running" => \E m \in Nodes : g.node[m] \in {"pending", "failed"})
    BY <1>2, <1>5
<1> QED BY <1>3, <1>5, <1>6, <1>7, <1>8, SavedStep

LEMMA ExecCrashKeeps == ExecInv /\ ExecCrash => ExecInv'
<1> SUFFICES ASSUME ExecInv, ExecCrash PROVE ExecInv'
    OBVIOUS
<1>1. /\ UNCHANGED <<ask, task, executed, ok, graph, held, at, effect>>
      /\ crashes < CrashLimit /\ crashes' = crashes + 1
      /\ phase' = [c \in Cycles |-> IF phase[c] \in {"idle", "done"} THEN phase[c] ELSE "dead"]
    BY DEF ExecCrash, loopVars, wkVars
<1>2. ExecTypeOK /\ EffectsFit
    BY DEF ExecInv
<1>3. ExecTypeOK'
    BY <1>1, <1>2, ExecAssumption DEF ExecTypeOK, Phases
<1>4. \A c \in Cycles : phase'[c] \in {phase[c], "dead"} /\ phase'[c] \in {"idle", "done", "dead"}
    BY <1>1
<1>5. ASSUME NEW c \in Cycles PROVE LoopFits(c)' /\ GraphFits(c)'
  <2>1. LoopFits(c) /\ GraphFits(c) /\ phase'[c] \in {"idle", "done", "dead"}
        /\ (phase[c] = "dead" \/ phase[c] = "executing" => phase'[c] = "dead")
    BY <1>1, <1>4 DEF ExecInv
  <2>2. LoopFits(c)'
    BY <1>1, <2>1 DEF LoopFits, Having, Planned
  <2>3. GraphFits(c)'
    BY <1>1, <2>1 DEF GraphFits, Done, Key
  <2> QED BY <2>2, <2>3
<1>6. EffectsFit'
  <2> SUFFICES ASSUME NEW k \in Keys, effect'[k] # Nobody
               PROVE  ok'[effect'[k]] /\ phase'[effect'[k]] \in Resulted
    BY DEF EffectsFit
  <2>1. effect[k] \in Cycles /\ ok[effect[k]] /\ phase[effect[k]] \in Resulted
    BY <1>1, <1>2 DEF EffectsFit, ExecTypeOK
  <2>2. phase'[effect[k]] \in Resulted
    BY <1>4, <2>1 DEF Resulted
  <2> QED BY <1>1, <2>1, <2>2
<1> QED BY <1>3, <1>5, <1>6 DEF ExecInv

LEMMA ExecStarts == ExecInit => ExecInv
<1> SUFFICES ASSUME ExecInit PROVE ExecInv
    OBVIOUS
<1>1. NoGraph \in Graphs /\ NoGraph.status = "none" /\ \A n \in Nodes : NoGraph.node[n] = "absent"
    BY DEF NoGraph, Graphs, NodeState
<1>2. /\ "idle" \in Phases /\ "absent" \in TaskState /\ "reason" \in Nodes /\ "reason" \in Tasks
      /\ "more_research" \in Tasks /\ "more_learn" \in Tasks
    BY DEF Phases, TaskState, Nodes, Tasks, PlanTypes, FollowUps
<1>3. ExecTypeOK
  <2>1. \A c \in Cycles : ask[c] \in Requests[c]
    BY DEF ExecInit
  <2>2. 0 \in 0 .. MaxSteps /\ 0 \in 0 .. CrashLimit
    BY ExecAssumption
  <2> QED BY <1>1, <1>2, <2>1, <2>2 DEF ExecInit, ExecTypeOK
<1>4. EffectsFit
    BY DEF ExecInit, EffectsFit
<1>5. ASSUME NEW c \in Cycles PROVE LoopFits(c) /\ GraphFits(c)
  <2>1. /\ phase[c] = "idle" /\ \A t \in Tasks : task[c][t] = "absent"
        /\ graph[c] = NoGraph /\ held[c] = NoGraph
    BY DEF ExecInit
  <2>2. LoopFits(c)
    BY <1>2, <2>1 DEF LoopFits, Having, Planned
  <2>3. GraphFits(c)
    BY <1>1, <2>1 DEF GraphFits
  <2> QED BY <2>2, <2>3
<1> QED BY <1>3, <1>4, <1>5 DEF ExecInv

LEMMA ExecInductive == ExecInv /\ [ExecNext]_execVars => ExecInv'
<1> SUFFICES ASSUME ExecInv, [ExecNext]_execVars PROVE ExecInv'
    OBVIOUS
<1>1. CASE ExecCrash
    BY <1>1, ExecCrashKeeps
<1>2. ASSUME NEW c \in Cycles, Step(c) PROVE ExecInv'
  <2>1. CASE Decide(c) \/ HandOff(c) \/ Bind(c)
    BY <2>1, DecideKeeps, HandOffKeeps, BindKeeps
  <2>2. CASE StayInChat(c) \/ AbandonGraph(c) \/ InsertConflict(c) \/ Finish(c)
    BY <2>2, MovesKeep
  <2>3. CASE RunTask(c) \/ TaskEnds(c) \/ LoopEnds(c) \/ LightPass(c)
    BY <2>3, RunTaskKeeps, TaskEndsKeeps, LoopEndsKeeps, LightPassKeeps
  <2>4. CASE MarkKnown(c) \/ MarkNew(c) \/ RecordEffect(c)
    BY <2>4, MarkKnownKeeps, MarkNewKeeps, RecordEffectKeeps
  <2>5. CASE SaveNode(c) \/ FailNode(c)
    BY <2>5, SaveNodeKeeps, FailNodeKeeps
  <2> QED BY <1>2, <2>1, <2>2, <2>3, <2>4, <2>5 DEF Step
<1>3. CASE UNCHANGED execVars
  <2>1. UNCHANGED <<phase, ask, task, executed, ok, graph, held, at, effect, crashes>>
    BY <1>3 DEF execVars
  <2>2. ExecTypeOK' /\ EffectsFit'
    BY <2>1 DEF ExecInv, ExecTypeOK, EffectsFit
  <2>3. ASSUME NEW c \in Cycles PROVE LoopFits(c)' /\ GraphFits(c)'
    <3>1. LoopFits(c) /\ GraphFits(c)
      BY DEF ExecInv
    <3>2. LoopFits(c)'
      BY <2>1, <3>1 DEF LoopFits, Having, Planned
    <3>3. GraphFits(c)'
      BY <2>1, <3>1 DEF GraphFits, Done, Key
    <3> QED BY <3>2, <3>3
  <2> QED BY <2>2, <2>3 DEF ExecInv
<1> QED BY <1>1, <1>2, <1>3 DEF ExecNext

---------------------------------------------------------------------------
\* The planned task that comes first is ready when it may still complete.
LEMMA SomeNext ==
    ASSUME ExecInv, NEW c \in Cycles, phase[c] = "looping", HasPending(c)
    PROVE  Next1(c) # {}
<1>1. LoopFits(c) /\ task[c] \in [Tasks -> TaskState]
    BY Shapes DEF ExecInv
<1>2. PICK t \in Tasks : task[c][t] = "pending"
    BY <1>1 DEF HasPending, Having, LoopFits
<1>3. /\ Tasks = PlanTypes \cup FollowUps /\ PlanTypes \cap FollowUps = {} /\ "reason" \in PlanTypes
      /\ PlanTypes = {"reason", "memory_query", "research", "learn", "action"}
    BY DEF Tasks, PlanTypes, FollowUps
<1>4. /\ \A f \in FollowUps : DependsOn(f) = {}
      /\ DependsOn("reason") = {} /\ \A u \in PlanTypes \ {"reason"} : DependsOn(u) = {"reason"}
    BY <1>3 DEF DependsOn
<1>5. /\ Place["reason"] = 1 /\ Place["memory_query"] = 2 /\ Place["research"] = 3
      /\ Place["learn"] = 4 /\ Place["action"] = 5
    BY DEF Place
<1>6. CASE t \in FollowUps
  <2>1. t \in Ready(c)
    BY <1>2, <1>4, <1>6 DEF Ready, Having
  <2> QED BY <1>6, <2>1 DEF Next1
<1>7. CASE t \in PlanTypes
  <2>1. Ready(c) \cap PlanTypes # {}
    <3>1. CASE task[c]["reason"] = "pending"
      <4>1. "reason" \in Ready(c)
        BY <1>3, <1>4, <3>1 DEF Ready, Having
      <4> QED BY <1>3, <4>1
    <3>2. CASE task[c]["reason"] # "pending"
      <4>1. task[c]["reason"] = "completed"
        <5>1. task[c]["reason"] \notin {"absent", "skipped"}
          BY <1>1 DEF LoopFits, Planned
        <5>2. task[c]["reason"] # "failed"
          BY <1>1, <1>2, <1>7 DEF LoopFits
        <5>3. task[c]["reason"] # "running"
          BY <1>1, <1>3 DEF LoopFits, Having
        <5> QED BY <1>1, <1>3, <3>2, <5>1, <5>2, <5>3 DEF TaskState
      <4>2. t # "reason"
        BY <1>2, <4>1
      <4>3. "reason" \in Having(c, "completed")
        BY <1>3, <4>1 DEF Having
      <4>4. t \in Ready(c)
        BY <1>2, <1>4, <1>7, <4>2, <4>3 DEF Ready, Having
      <4> QED BY <1>7, <4>4
    <3> QED BY <3>1, <3>2
  <2>2. PICK u \in Ready(c) \cap PlanTypes : \A v \in Ready(c) \cap PlanTypes : Place[u] <= Place[v]
    <3> DEFINE R == Ready(c) \cap PlanTypes
    <3>1. \A v \in R : v = "reason" \/ v = "memory_query" \/ v = "research" \/ v = "learn" \/ v = "action"
      BY <1>3
    <3> HIDE DEF R
    <3>2. CASE "reason" \in R
      BY <1>5, <3>1, <3>2 DEF R
    <3>3. CASE "reason" \notin R /\ "memory_query" \in R
      BY <1>5, <3>1, <3>3 DEF R
    <3>4. CASE "reason" \notin R /\ "memory_query" \notin R /\ "research" \in R
      BY <1>5, <3>1, <3>4 DEF R
    <3>5. CASE "reason" \notin R /\ "memory_query" \notin R /\ "research" \notin R /\ "learn" \in R
      BY <1>5, <3>1, <3>5 DEF R
    <3>6. CASE "reason" \notin R /\ "memory_query" \notin R /\ "research" \notin R /\ "learn" \notin R
      <4>1. "action" \in R
        BY <2>1, <3>1, <3>6 DEF R
      <4> QED BY <1>5, <3>1, <3>6, <4>1 DEF R
    <3> QED BY <3>2, <3>3, <3>4, <3>5, <3>6
  <2>3. Ready(c) \ FollowUps = Ready(c) \cap PlanTypes
    BY <1>3 DEF Ready, Having
  <2>4. u \in Next1(c)
    BY <2>2, <2>3 DEF Next1
  <2> QED BY <2>4
<1> QED BY <1>2, <1>3, <1>6, <1>7

\* Of a follow-up and the task of its type in the plan one completes at most.
LEMMA OneOfAType ==
    ASSUME ExecInv, NEW c \in Cycles, NEW f \in FollowUps
    PROVE  Cardinality(SameType(f) \cap Having(c, "completed")) <= 1
<1> DEFINE S == SameType(f) \cap Having(c, "completed")
<1>1. LoopFits(c)
    BY DEF ExecInv
<1>2. PICK x, y : SameType(f) = {x, y} /\ (task[c][x] # "completed" \/ task[c][y] # "completed")
  <2>1. CASE f = "more_research"
    <3>1. SameType(f) = {"research", "more_research"}
      BY <2>1 DEF SameType
    <3>2. task[c]["research"] # "completed" \/ task[c]["more_research"] # "completed"
      BY <1>1 DEF LoopFits
    <3> QED BY <3>1, <3>2
  <2>2. CASE f = "more_learn"
    <3>1. SameType(f) = {"learn", "more_learn"}
      BY <2>2 DEF SameType
    <3>2. task[c]["learn"] # "completed" \/ task[c]["more_learn"] # "completed"
      BY <1>1 DEF LoopFits
    <3> QED BY <3>1, <3>2
  <2> QED BY <2>1, <2>2 DEF FollowUps
<1>3. S = {} \/ S = {x} \/ S = {y}
    BY <1>2 DEF Having
<1> HIDE DEF S
<1>4. Cardinality(S) \in {0, 1}
  <2>1. CASE S = {}
    BY <2>1, FS_EmptySet
  <2>2. CASE S = {x}
    BY <2>2, FS_Singleton
  <2>3. CASE S = {y}
    BY <2>3, FS_Singleton
  <2> QED BY <1>3, <2>1, <2>2, <2>3
<1> QED BY <1>4 DEF S

\* For any number of cycles, whatever they were asked and however they share
\* their effects: the reasoning loop always finds a task to run and does no
\* work twice, a completed node has its effect and the effect a cycle that
\* succeeded, and the status of a graph agrees with its nodes, whenever a
\* process dies (executive_controller, reasoning_engine, execution_graph).
THEOREM CycleAgreesHolds == ExecSpec => []CycleAgrees
<1>1. ExecInit => ExecInv
    BY ExecStarts
<1>2. ExecInv /\ [ExecNext]_execVars => ExecInv'
    BY ExecInductive
<1>3. ExecInv => CycleAgrees
  <2> SUFFICES ASSUME ExecInv PROVE CycleAgrees
    OBVIOUS
  <2>1. NoWorkTwice
    BY OneOfAType DEF NoWorkTwice
  <2>2. NeverDeadlocked
    BY SomeNext DEF NeverDeadlocked
  <2>3. CompletedHasEffect
    BY DEF ExecInv, GraphFits, CompletedHasEffect, In
  <2>4. StatusAgrees
    BY DEF ExecInv, GraphFits, StatusAgrees, In
  <2>5. EffectOfSuccess
    BY DEF ExecInv, EffectsFit, EffectOfSuccess
  <2> QED BY <2>1, <2>2, <2>3, <2>4, <2>5 DEF CycleAgrees, ExecInv
<1> QED BY <1>1, <1>2, <1>3, PTL DEF ExecSpec
================================================================================
