----------------------------- MODULE ChatStream -----------------------------
(***************************************************************************)
(* The event stream of one chat turn: _sse_chat_turn of aihub/chat_api.py. *)
(*                                                                         *)
(* A worker task runs the turn and puts its events into a bounded queue;   *)
(* the generator takes them out and yields them to the client; the client  *)
(* may leave at any moment.  Both run on one event loop, so a step lasts   *)
(* from one suspension to the next.  Starlette drives the generator: it    *)
(* cancels the task that iterates it when the client is gone, and an       *)
(* abandoned generator is closed where it is suspended in a yield.         *)
(*                                                                         *)
(* What the turn does between its events is TurnExecution; the text that   *)
(* is sent after the last event is one step.                               *)
(***************************************************************************)
EXTENDS Naturals, Sequences

CONSTANTS
    Capacity,       \* maxsize of the queue
    EventBound,     \* bound on the events of a turn
    End             \* STREAM_END

ASSUME StreamAssumption ==
    /\ Capacity \in Nat \ {0}
    /\ EventBound \in Nat
    /\ End \notin 1 .. EventBound

VARIABLES
    queue,      \* the events not yet taken, by number
    emitted,    \* how many events the turn has put
    wpc,        \* where the worker task is
    outcome,    \* how run_turn ended, as result and error tell it
    cancelled,  \* the worker task is to be cancelled where it is suspended
    gpc,        \* where the generator is
    leaving,    \* it was left by return, cancellation or close
    driven,     \* it runs in the task that Starlette cancels
    sent,       \* how many events it has yielded
    final,      \* how the stream ended
    client      \* "here" or "gone"

workerVars == <<queue, emitted, wpc, outcome>>
genVars == <<gpc, leaving, driven, sent, final>>
vars == <<workerVars, cancelled, genVars, client>>

\* asyncio.Queue.full
Room == Len(queue) < Capacity

---------------------------------------------------------------------------
Init ==
    /\ queue = <<>> /\ emitted = 0
    /\ wpc = "new" /\ outcome = "none" /\ cancelled = FALSE
    /\ gpc = "loop" /\ leaving = FALSE /\ driven = TRUE
    /\ sent = 0 /\ final = "none"
    /\ client = "here"

WorkerStarts ==
    /\ wpc = "new" /\ ~cancelled
    /\ wpc' = "run"
    /\ UNCHANGED <<queue, emitted, outcome, cancelled, genVars, client>>

\* chat_stream_emit: a put waits while the queue is full.
Emit ==
    /\ wpc = "run" /\ ~cancelled /\ emitted < EventBound
    /\ emitted' = emitted + 1
    /\ IF Room
       THEN queue' = Append(queue, emitted + 1) /\ UNCHANGED wpc
       ELSE wpc' = "put" /\ UNCHANGED queue
    /\ UNCHANGED <<outcome, cancelled, genVars, client>>

EmitLate ==
    /\ wpc = "put" /\ ~cancelled /\ Room
    /\ queue' = Append(queue, emitted)
    /\ wpc' = "run"
    /\ UNCHANGED <<emitted, outcome, cancelled, genVars, client>>

\* The finally clause of the worker: STREAM_END, at once if there is room.
Leave(o) ==
    /\ outcome' = o
    /\ IF Room
       THEN queue' = Append(queue, End) /\ wpc' = "done"
       ELSE wpc' = "end" /\ UNCHANGED queue
    /\ UNCHANGED <<emitted, genVars, client>>

\* run_turn returns or raises.
TurnEnds ==
    /\ wpc = "run" /\ ~cancelled
    /\ \E o \in {"ok", "error"} : Leave(o)
    /\ UNCHANGED cancelled

\* The CancelledError leaves run_turn and is caught with every other exception.
TurnCancelled ==
    /\ wpc \in {"run", "put"} /\ cancelled
    /\ cancelled' = FALSE
    /\ Leave("cancelled")

PutEnd ==
    /\ wpc = "end" /\ ~cancelled /\ Room
    /\ queue' = Append(queue, End)
    /\ wpc' = "done"
    /\ UNCHANGED <<emitted, outcome, cancelled, genVars, client>>

\* Cancelled before its first step, or once more while it waits to put STREAM_END.
WorkerCancelled ==
    /\ wpc \in {"new", "end"} /\ cancelled
    /\ cancelled' = FALSE
    /\ wpc' = "done"
    /\ UNCHANGED <<queue, emitted, outcome, genVars, client>>

---------------------------------------------------------------------------
GoTo(where) ==
    /\ gpc' = where
    /\ UNCHANGED <<workerVars, cancelled, leaving, driven, sent, final, client>>

\* The generator goes to its finally clause, through a return if it leaves.
CleanUp(leaves) ==
    /\ gpc' = "finally"
    /\ leaving' = leaves
    /\ UNCHANGED <<driven, sent, final, client>>

\* if task.done()
Loop ==
    /\ gpc = "loop"
    /\ GoTo(IF wpc = "done" THEN "drain" ELSE "get")

\* The queue gives its first event; STREAM_END is the last there is.
Take(next) ==
    /\ queue # <<>>
    /\ queue' = Tail(queue)
    /\ IF Head(queue) = End
       THEN CleanUp(FALSE)
       ELSE gpc' = next /\ UNCHANGED <<leaving, driven, sent, final, client>>
    /\ UNCHANGED <<emitted, wpc, outcome, cancelled>>

Get == gpc = "get" /\ Take("check")

\* Nothing comes within 50 ms.
GetTimesOut == gpc = "get" /\ queue = <<>> /\ GoTo("beat")

\* await request.is_disconnected()
Disconnected ==
    /\ gpc \in {"beat", "check", "drainCheck"} /\ client = "gone"
    /\ cancelled' = (wpc # "done")
    /\ CleanUp(TRUE)
    /\ UNCHANGED workerVars

\* A heartbeat, when it is due.
Beat ==
    /\ gpc = "beat" /\ client = "here"
    /\ \E next \in {"loop", "yieldBeat"} : GoTo(next)

Connected ==
    /\ gpc \in {"check", "drainCheck"} /\ client = "here"
    /\ GoTo(IF gpc = "check" THEN "yield" ELSE "drainYield")

\* The yield comes back: the event was sent, or written to a closed socket.
Yield ==
    /\ gpc \in {"yield", "yieldBeat", "drainYield"}
    /\ gpc' = IF gpc = "drainYield" THEN "drain" ELSE "loop"
    /\ sent' = IF gpc = "yieldBeat" THEN sent ELSE sent + 1
    /\ UNCHANGED <<workerVars, cancelled, leaving, driven, final, client>>

\* q.get_nowait() until the queue is empty.
Drain ==
    /\ gpc = "drain"
    /\ \/ Take("drainCheck")
       \/ queue = <<>> /\ CleanUp(FALSE) /\ UNCHANGED <<workerVars, cancelled>>

\* A variant of Finally that does not wait for the task it cancels.
FinallyNoWait ==
    /\ gpc = "finally"
    /\ gpc' = "after"
    /\ cancelled' = (wpc # "done")
    /\ UNCHANGED <<workerVars, leaving, driven, sent, final, client>>

\* if not task.done(): task.cancel(); await task
Finally ==
    /\ gpc = "finally"
    /\ gpc' = IF wpc = "done" THEN "after" ELSE "await"
    /\ cancelled' = (wpc # "done")
    /\ UNCHANGED <<workerVars, leaving, driven, sent, final, client>>

Awaited == gpc = "await" /\ wpc = "done" /\ GoTo("after")

\* The text and "done", an HTTPException in the middle of the response, or
\* nothing for a client that has left or a turn that was cancelled.
Close ==
    /\ gpc = "after"
    /\ gpc' = "closed"
    /\ final' = IF leaving \/ outcome = "cancelled" THEN "left"
                ELSE IF outcome # "ok" THEN "broken"
                ELSE IF client = "gone" THEN "left" ELSE "done"
    /\ UNCHANGED <<workerVars, cancelled, leaving, driven, sent, client>>

---------------------------------------------------------------------------
ClientLeaves ==
    /\ client = "here"
    /\ client' = "gone"
    /\ UNCHANGED <<workerVars, cancelled, genVars>>

\* The task that iterates the generator was cancelled while it sent an event:
\* the generator is closed, in a task of its own, where it is suspended.
Abandon ==
    /\ client = "gone" /\ gpc \in {"yield", "yieldBeat", "drainYield"}
    /\ gpc' = "finally" /\ leaving' = TRUE /\ driven' = FALSE
    /\ UNCHANGED <<workerVars, cancelled, sent, final, client>>

\* The task that iterates the generator is cancelled inside it.
CancelGenerator ==
    /\ client = "gone" /\ driven
    /\ gpc \in {"get", "beat", "check", "drainCheck"}
    /\ CleanUp(TRUE)
    /\ UNCHANGED <<workerVars, cancelled>>

\* It is cancelled again until it ends, and passes that on to the task that
\* it waits for.
CancelAgain ==
    /\ client = "gone" /\ driven /\ ~cancelled
    /\ gpc = "await" /\ wpc # "done"
    /\ cancelled' = TRUE
    /\ UNCHANGED <<workerVars, genVars, client>>

\* The generator does not run through to its next suspension: another task may.
Suspended == gpc \notin {"loop", "drain", "finally"}

Work ==
    /\ Suspended
    /\ WorkerStarts \/ EmitLate \/ TurnCancelled \/ PutEnd \/ WorkerCancelled

Turn == Suspended /\ (Emit \/ TurnEnds)

Generate ==
    \/ Loop \/ Get \/ GetTimesOut \/ Disconnected \/ Beat \/ Connected
    \/ Yield \/ Drain \/ Finally \/ Awaited \/ Close

Next ==
    \/ Work \/ Turn \/ Generate
    \/ ClientLeaves \/ Abandon \/ CancelGenerator \/ CancelAgain

Spec == Init /\ [][Next]_vars

\* The event loop runs what can run and Starlette repeats its cancellation;
\* a turn need not end by itself, nor a client leave.
FairSpec == Spec /\ WF_vars(Work) /\ WF_vars(Generate) /\ WF_vars(CancelAgain)

---------------------------------------------------------------------------
TypeOK ==
    /\ queue \in Seq(1 .. EventBound \cup {End}) /\ Len(queue) <= Capacity
    /\ emitted \in 0 .. EventBound
    /\ wpc \in {"new", "run", "put", "end", "done"}
    /\ outcome \in {"none", "ok", "error", "cancelled"}
    /\ cancelled \in BOOLEAN
    /\ gpc \in {"loop", "get", "beat", "check", "yield", "yieldBeat", "drain",
                "drainCheck", "drainYield", "finally", "await", "after", "closed"}
    /\ leaving \in BOOLEAN /\ driven \in BOOLEAN
    /\ sent \in 0 .. EventBound
    /\ final \in {"none", "left", "broken", "done"}
    /\ client \in {"here", "gone"}

\* A client that is told "done" was sent every event of the turn before, and
\* the turn did return: whether the last ones came out of the queue one by one
\* or were drained after the task had ended.
DoneIsComplete ==
    final = "done" => outcome = "ok" /\ sent = emitted

\* A stream that has ended leaves no turn running behind it, however it was
\* left: by its end, a disconnect, a cancellation or a close.
NoOrphanTurn == gpc = "closed" => wpc = "done"

\* However the stream ends, what it says of the turn is so.
StreamIsWhole == TypeOK /\ DoneIsComplete /\ NoOrphanTurn

\* "Disconnect nadal canceluje task workera": when the client is gone the turn
\* stops, though it would not end by itself and its queue may be full
\* (14.07-runtime-full-rebuild.md, line 122).  Its task need not end: with a
\* full queue it waits to put STREAM_END where nobody takes anything.
DisconnectStopsTurn == client = "gone" ~> wpc \in {"end", "done"}
=============================================================================
