---------------------------- MODULE ChatTranscript ----------------------------
(***************************************************************************)
(* The transcript of a chat session: what ChatRuntime.run_turn leaves      *)
(* behind (aihub/chat_session_transcript.py and the statements of          *)
(* aihub/db/runtime.py) and the session endpoints                          *)
(* (aihub/chat_sessions_api.py).                                           *)
(*                                                                         *)
(* run_turn persists in its finally clause, without an await: one pair at  *)
(* a time, in the thread of the event loop.  The endpoints are plain       *)
(* functions, so each runs in a thread of the pool, between any two        *)
(* statements of the persist.  Every statement is its own transaction.     *)
(***************************************************************************)
EXTENDS Naturals, Sequences, FiniteSets

CONSTANTS
    Turns,          \* the turns of one session
    Requests,       \* the requests to its endpoints
    Replays         \* bound on the answers a turn's key is given again

ASSUME TranscriptAssumption ==
    /\ Replays \in Nat
    /\ Turns \cap Requests = {} /\ "none" \notin Turns

VARIABLES
    session,        \* the row of chat_sessions: "none", "active" or "archived"
    messages,       \* chat_session_messages in the order of created_at
    asked,          \* how often run_turn has returned or raised, by turn
    step,           \* where the persist of the event loop is
    turn,           \* the turn that it persists
    request,        \* where each request is, and what it asks for
    lost,           \* history: turns of which a persist wrote nothing
    torn,           \* history: turns of which one wrote only the question
    failed,         \* history: turns whose persist met a failure
    crossed         \* history: turns whose persist met a deletion

transcriptVars ==
    <<session, messages, asked, step, turn, request, lost, torn, failed, crossed>>

Operations == {"rename", "archive", "unarchive", "delete"}
NoTurn == "none"

Message(t, role) == [turn |-> t, role |-> role]

TranscriptInit ==
    /\ session = "none"
    /\ messages = <<>>
    /\ asked = [t \in Turns |-> 0]
    /\ step = "idle" /\ turn = NoTurn
    /\ request = [r \in Requests |-> [at |-> "new", op |-> "none"]]
    /\ lost = {} /\ torn = {} /\ failed = {} /\ crossed = {}

---------------------------------------------------------------------------
\* The next statement of the persist, or its end.
Proceed(next) ==
    /\ step' = next
    /\ turn' = IF next = "idle" THEN NoTurn ELSE turn
    /\ UNCHANGED <<asked, request, failed, crossed>>

\* A turn ends, with an answer or an exception, or its result is given again.
\* Audit turns and empty messages return here and leave nothing.
EndTurn(t) ==
    /\ step = "idle" /\ asked[t] <= Replays
    /\ asked' = [asked EXCEPT ![t] = @ + 1]
    /\ step' = "look" /\ turn' = t
    /\ UNCHANGED <<session, messages, request, lost, torn, failed, crossed>>

\* ensure_chat_session_row
LookForRow ==
    /\ step = "look"
    /\ Proceed(IF session = "none" THEN "create" ELSE "question")
    /\ UNCHANGED <<session, messages, lost, torn>>

\* The exception of a second row for the session ends the whole persist.
CreateRow ==
    /\ step = "create"
    /\ IF session = "none"
       THEN session' = "active" /\ Proceed("question") /\ UNCHANGED lost
       ELSE lost' = lost \cup {turn} /\ Proceed("idle") /\ UNCHANGED session
    /\ UNCHANGED <<messages, torn>>

\* A variant of InsertQuestion that puts the answer first.
InsertAnswerFirst ==
    /\ step = "question"
    /\ messages' = Append(messages, Message(turn, "assistant"))
    /\ Proceed("answer")
    /\ UNCHANGED <<session, lost, torn>>

\* insert_chat_session_message_pair
InsertQuestion ==
    /\ step = "question"
    /\ messages' = Append(messages, Message(turn, "user"))
    /\ Proceed("answer")
    /\ UNCHANGED <<session, lost, torn>>

\* The last statement only touches updated_at.
InsertAnswer ==
    /\ step = "answer"
    /\ messages' = Append(messages, Message(turn, "assistant"))
    /\ Proceed("idle")
    /\ UNCHANGED <<session, lost, torn>>

\* sqlite3.OperationalError in a statement, which is logged; or the end of the
\* process, which takes the requests with it.
BreaksOff ==
    /\ lost' = IF step \in {"look", "create", "question"} THEN lost \cup {turn} ELSE lost
    /\ torn' = IF step = "answer" THEN torn \cup {turn} ELSE torn
    /\ failed' = failed \cup {turn}
    /\ step' = "idle" /\ turn' = NoTurn
    /\ UNCHANGED <<session, messages, asked, crossed>>

PersistFails == step # "idle" /\ BreaksOff /\ UNCHANGED request

ProcessDies ==
    /\ step # "idle"
    /\ BreaksOff
    /\ request' = [r \in Requests |->
            IF request[r].at = "new" THEN request[r]
            ELSE [request[r] EXCEPT !.at = "done"]]

---------------------------------------------------------------------------
(***************************************************************************)
(* The endpoints.  rename stands for auto-title as well.                   *)
(***************************************************************************)
Moves(r, at) == request' = [request EXCEPT ![r].at = at]
OfTheLoop == UNCHANGED <<asked, step, turn, lost, torn, failed>>

Persisting == IF step = "idle" THEN {} ELSE {turn}
Shown == {messages[i].turn : i \in DOMAIN messages}

Ask(r, op) ==
    /\ request[r].at = "new"
    /\ request' = [request EXCEPT ![r] =
            [at |-> IF op = "delete" THEN "deleteMessages" ELSE "look", op |-> op]]
    /\ UNCHANGED <<session, messages, crossed>> /\ OfTheLoop

RequestLooks(r) ==
    /\ request[r].at = "look"
    /\ Moves(r, IF session = "none" THEN "create" ELSE "update")
    /\ UNCHANGED <<session, messages, crossed>> /\ OfTheLoop

\* Without a row: one is inserted, and a second one is an error 500.  A title
\* is inserted with the row, the mark of an archived session after it.
RequestCreates(r) ==
    /\ request[r].at = "create"
    /\ IF session = "none"
       THEN /\ session' = "active"
            /\ Moves(r, IF request[r].op = "rename" THEN "done" ELSE "update")
       ELSE Moves(r, "done") /\ UNCHANGED session
    /\ UNCHANGED <<messages, crossed>> /\ OfTheLoop

RequestUpdates(r) ==
    /\ request[r].at = "update"
    /\ session' = IF session = "none" THEN session
                  ELSE CASE request[r].op = "archive" -> "archived"
                         [] request[r].op = "unarchive" -> "active"
                         [] OTHER -> session
    /\ Moves(r, "done")
    /\ UNCHANGED <<messages, crossed>> /\ OfTheLoop

\* delete_session: the messages, then the row.
DeleteMessages(r) ==
    /\ request[r].at = "deleteMessages"
    /\ messages' = <<>>
    /\ crossed' = crossed \cup Persisting
    /\ Moves(r, "deleteRow")
    /\ UNCHANGED session /\ OfTheLoop

DeleteRow(r) ==
    /\ request[r].at = "deleteRow"
    /\ session' = "none"
    /\ crossed' = crossed \cup Persisting \cup Shown
    /\ Moves(r, "done")
    /\ UNCHANGED messages /\ OfTheLoop

Persist == LookForRow \/ CreateRow \/ InsertQuestion \/ InsertAnswer \/ PersistFails

Request(r) ==
    \/ \E op \in Operations : Ask(r, op)
    \/ RequestLooks(r) \/ RequestCreates(r) \/ RequestUpdates(r)
    \/ DeleteMessages(r) \/ DeleteRow(r)

TranscriptNext ==
    \/ \E t \in Turns : EndTurn(t)
    \/ Persist
    \/ \E r \in Requests : Request(r)
    \/ ProcessDies

TranscriptSpec == TranscriptInit /\ [][TranscriptNext]_transcriptVars

---------------------------------------------------------------------------
TranscriptTypeOK ==
    /\ session \in {"none", "active", "archived"}
    /\ messages \in Seq([turn : Turns, role : {"user", "assistant"}])
    /\ asked \in [Turns -> 0 .. Replays + 1]
    /\ step \in {"idle", "look", "create", "question", "answer"}
    /\ (turn \in Turns) = (step # "idle")
    /\ request \in [Requests -> [at : {"new", "look", "create", "update",
                                       "deleteMessages", "deleteRow", "done"},
                                 op : Operations \cup {"none"}]]

\* The history that the cockpit shows is a conversation: an answer stands right
\* behind its own question, and a question without one is the one being written
\* or was cut off there by a failure.  Only a deletion that ran into a persist
\* leaves an answer alone.
HistoryReads ==
    \A i \in DOMAIN messages :
        LET m == messages[i] IN
        /\ m.role = "assistant" =>
              \/ i > 1 /\ messages[i - 1] = Message(m.turn, "user")
              \/ m.turn \in crossed
        /\ m.role = "user" =>
              \/ i < Len(messages) /\ messages[i + 1] = Message(m.turn, "assistant")
              \/ m.turn \in torn
              \/ i = Len(messages) /\ step = "answer" /\ turn = m.turn

\* Messages are reached through the list of sessions: there are none without a
\* row, but for those of a turn whose persist or transcript met a deletion
\* between its two statements.
TranscriptIsListed == session = "none" => Shown \subseteq crossed

\* An archived session stays so while turns go on in it and titles are set: only
\* unarchive and delete take the mark away.
ArchiveIsKept ==
    [][session = "archived" /\ session' # "archived" =>
          \E r \in Requests : /\ request[r].op \in {"unarchive", "delete"}
                              /\ request'[r] # request[r]]_transcriptVars

\* What the cockpit shows of a session is a readable conversation that it can
\* also reach (chat_session_transcript, delete_session).
TranscriptHolds == TranscriptTypeOK /\ HistoryReads /\ TranscriptIsListed

\* A turn leaves its pair unless the database or the process fails.
EveryTurnIsKept == lost \subseteq failed

=============================================================================
