----------------------------- MODULE StoresProofs -----------------------------
(***************************************************************************)
(* What turns and cycles leave in the stores, for every number of turns,   *)
(* requests, goals, actors, items, threads and lessons: the transcript of  *)
(* a session, the goals of a user, the rows of Memory V2 and what the      *)
(* learner reports of itself.                                              *)
(***************************************************************************)
EXTENDS MCStores, SequenceTheorems, FiniteSetTheorems, TLAPS

(***************************************************************************)
(* ChatTranscript                                                          *)
(***************************************************************************)
\* The answer is written behind its own question, unless a deletion came between.
AnswerFollows ==
    step = "answer" =>
        \/ Len(messages) > 0 /\ messages[Len(messages)] = Message(turn, "user")
        \/ turn \in crossed

\* The persist has seen or made the row, and only a deletion takes it away.
RowSeen == step \in {"question", "answer"} /\ session = "none" => turn \in crossed

\* Only a request to delete deletes.
DeletesAsAsked ==
    \A r \in Requests :
        request[r].at \in {"deleteMessages", "deleteRow"} => request[r].op = "delete"

\* The shapes of a request.
Asked ==
    [at : {"new", "look", "create", "update", "deleteMessages", "deleteRow", "done"},
     op : Operations \cup {"none"}]

\* TranscriptHolds is not inductive by itself: the pair is two statements, and
\* between them a deletion may take the question or the row.
TranscriptInv == TranscriptHolds /\ AnswerFollows /\ RowSeen /\ DeletesAsAsked

LEMMA TranscriptStarts == TranscriptInit => TranscriptInv
<1> SUFFICES ASSUME TranscriptInit PROVE TranscriptInv
    OBVIOUS
<1> USE TranscriptAssumption DEF TranscriptInit
<1>1. TranscriptTypeOK
    BY DEF TranscriptTypeOK, NoTurn, Operations
<1>2. HistoryReads /\ TranscriptIsListed
    BY DEF HistoryReads, TranscriptIsListed, Shown
<1>3. AnswerFollows /\ RowSeen /\ DeletesAsAsked
    BY DEF AnswerFollows, RowSeen, DeletesAsAsked
<1> QED BY <1>1, <1>2, <1>3 DEF TranscriptInv, TranscriptHolds

\* The persist goes on without writing a message.
LEMMA RowMade ==
    ASSUME TranscriptInv, (\E t \in Turns : EndTurn(t)) \/ LookForRow \/ CreateRow
    PROVE  TranscriptInv'
<1> USE TranscriptAssumption DEF TranscriptInv, TranscriptHolds
<1>1. messages' = messages /\ crossed' = crossed /\ UNCHANGED torn /\ step # "answer"
    BY DEF EndTurn, LookForRow, CreateRow, Proceed
<1>2. TranscriptTypeOK'
  <2>1. CASE \E t \in Turns : EndTurn(t)
    BY <2>1 DEF EndTurn, TranscriptTypeOK
  <2>2. CASE LookForRow \/ CreateRow
    BY <2>2 DEF LookForRow, CreateRow, Proceed, NoTurn, TranscriptTypeOK
  <2> QED BY <2>1, <2>2
<1>3. step' # "answer"
    BY DEF EndTurn, LookForRow, CreateRow, Proceed
<1>4. HistoryReads' /\ AnswerFollows'
    BY <1>1, <1>3 DEF HistoryReads, AnswerFollows
<1>5. session' = "none" => session = "none"
    BY DEF EndTurn, LookForRow, CreateRow
<1>6. TranscriptIsListed'
    BY <1>1, <1>5 DEF TranscriptIsListed, Shown
<1>7. RowSeen'
    BY DEF RowSeen, EndTurn, LookForRow, CreateRow, Proceed
<1>8. DeletesAsAsked'
    BY DEF DeletesAsAsked, EndTurn, LookForRow, CreateRow, Proceed
<1> QED BY <1>2, <1>4, <1>6, <1>7, <1>8

\* Appending a message leaves the others where they are.
LEMMA Appended ==
    ASSUME NEW S, NEW s \in Seq(S), NEW m \in S
    PROVE  /\ Append(s, m) \in Seq(S)
           /\ DOMAIN Append(s, m) = 1 .. Len(s) + 1
           /\ Len(Append(s, m)) = Len(s) + 1 /\ Len(s) \in Nat
           /\ \A i \in 1 .. Len(s) : Append(s, m)[i] = s[i]
           /\ Append(s, m)[Len(s) + 1] = m
OBVIOUS

\* The question goes behind all that is there.
LEMMA QuestionWritten == TranscriptInv /\ InsertQuestion => TranscriptInv'
<1> SUFFICES ASSUME TranscriptInv, InsertQuestion PROVE TranscriptInv'
    OBVIOUS
<1> USE TranscriptAssumption DEF TranscriptInv, TranscriptHolds
<1> DEFINE Lines == [turn : Turns, role : {"user", "assistant"}]
           q == Message(turn, "user")
<1>1. /\ step = "question" /\ step' = "answer" /\ turn' = turn /\ turn \in Turns
      /\ messages' = Append(messages, q)
      /\ UNCHANGED <<session, lost, torn, asked, request, failed, crossed>>
    BY DEF InsertQuestion, Proceed, TranscriptTypeOK
<1>2. messages \in Seq(Lines) /\ q \in Lines
    BY <1>1 DEF TranscriptTypeOK, Message
<1>3. /\ messages' \in Seq(Lines)
      /\ DOMAIN messages' = 1 .. Len(messages) + 1 /\ DOMAIN messages = 1 .. Len(messages)
      /\ Len(messages') = Len(messages) + 1 /\ Len(messages) \in Nat
      /\ \A i \in 1 .. Len(messages) : messages'[i] = messages[i]
      /\ messages'[Len(messages) + 1] = q
    BY <1>1, <1>2, Appended
<1>4. TranscriptTypeOK'
    BY <1>1, <1>3 DEF TranscriptTypeOK
<1>5. HistoryReads'
  <2>1. ASSUME NEW i \in 1 .. Len(messages), messages[i].role = "assistant"
        PROVE  \/ i > 1 /\ messages'[i - 1] = Message(messages[i].turn, "user")
               \/ messages[i].turn \in crossed'
    <3>1. i > 1 => i - 1 \in 1 .. Len(messages)
      OBVIOUS
    <3> QED BY <1>1, <1>3, <2>1, <3>1 DEF HistoryReads
  <2>2. ASSUME NEW i \in 1 .. Len(messages), messages[i].role = "user"
        PROVE  \/ i < Len(messages') /\ messages'[i + 1] = Message(messages[i].turn, "assistant")
               \/ messages[i].turn \in torn'
    <3>1. i < Len(messages) => i + 1 \in 1 .. Len(messages)
      OBVIOUS
    <3> QED BY <1>1, <1>3, <2>2, <3>1 DEF HistoryReads
  <2>3. q.role = "user" /\ q.turn = turn
    BY DEF Message
  <2> QED BY <1>1, <1>3, <2>1, <2>2, <2>3 DEF HistoryReads
<1>6. TranscriptIsListed'
  <2>1. Shown' \subseteq Shown \cup {turn}
    BY <1>3 DEF Shown, Message
  <2> QED BY <1>1, <2>1 DEF TranscriptIsListed, RowSeen
<1>7. AnswerFollows'
    BY <1>1, <1>3 DEF AnswerFollows
<1>8. RowSeen' /\ DeletesAsAsked'
    BY <1>1 DEF RowSeen, DeletesAsAsked
<1> QED BY <1>4, <1>5, <1>6, <1>7, <1>8

\* The answer goes behind its question, the last message there is.
LEMMA AnswerWritten == TranscriptInv /\ InsertAnswer => TranscriptInv'
<1> SUFFICES ASSUME TranscriptInv, InsertAnswer PROVE TranscriptInv'
    OBVIOUS
<1> USE TranscriptAssumption DEF TranscriptInv, TranscriptHolds
<1> DEFINE Lines == [turn : Turns, role : {"user", "assistant"}]
           a == Message(turn, "assistant")
<1>1. /\ step = "answer" /\ step' = "idle" /\ turn' = NoTurn /\ turn \in Turns
      /\ messages' = Append(messages, a)
      /\ UNCHANGED <<session, lost, torn, asked, request, failed, crossed>>
    BY DEF InsertAnswer, Proceed, TranscriptTypeOK
<1>2. messages \in Seq(Lines) /\ a \in Lines
    BY <1>1 DEF TranscriptTypeOK, Message
<1>3. /\ messages' \in Seq(Lines)
      /\ DOMAIN messages' = 1 .. Len(messages) + 1 /\ DOMAIN messages = 1 .. Len(messages)
      /\ Len(messages') = Len(messages) + 1 /\ Len(messages) \in Nat
      /\ \A i \in 1 .. Len(messages) : messages'[i] = messages[i]
      /\ messages'[Len(messages) + 1] = a
    BY <1>1, <1>2, Appended
<1>4. TranscriptTypeOK'
    BY <1>1, <1>3 DEF TranscriptTypeOK, NoTurn
<1>5. HistoryReads'
  <2>1. ASSUME NEW i \in 1 .. Len(messages), messages[i].role = "assistant"
        PROVE  \/ i > 1 /\ messages'[i - 1] = Message(messages[i].turn, "user")
               \/ messages[i].turn \in crossed'
    <3>1. i > 1 => i - 1 \in 1 .. Len(messages)
      OBVIOUS
    <3> QED BY <1>1, <1>3, <2>1, <3>1 DEF HistoryReads
  <2>2. ASSUME NEW i \in 1 .. Len(messages), messages[i].role = "user"
        PROVE  \/ i < Len(messages') /\ messages'[i + 1] = Message(messages[i].turn, "assistant")
               \/ messages[i].turn \in torn'
    <3>1. i < Len(messages) => i + 1 \in 1 .. Len(messages)
      OBVIOUS
    <3>2. CASE i < Len(messages)
      BY <1>1, <1>3, <2>2, <3>1, <3>2 DEF HistoryReads
    <3>3. CASE i = Len(messages) /\ turn = messages[i].turn
      BY <1>3, <3>3
    <3> QED BY <1>1, <1>3, <2>2, <3>2, <3>3 DEF HistoryReads
  <2>3. a.role = "assistant" /\ a.turn = turn
    BY DEF Message
  <2>4. \/ Len(messages) + 1 > 1 /\ messages'[Len(messages)] = Message(turn, "user")
        \/ turn \in crossed'
    <3>1. CASE turn \in crossed
      BY <1>1, <3>1
    <3>2. CASE Len(messages) > 0 /\ messages[Len(messages)] = Message(turn, "user")
      <4>1. Len(messages) \in 1 .. Len(messages)
        BY <1>3, <3>2
      <4>2. messages'[Len(messages)] = messages[Len(messages)]
        BY <1>3, <4>1
      <4> QED BY <1>3, <3>2, <4>2
    <3> QED BY <1>1, <3>1, <3>2 DEF AnswerFollows
  <2> DEFINE Reads(i) ==
        LET m == messages'[i] IN
        /\ m.role = "assistant" =>
              \/ i > 1 /\ messages'[i - 1] = Message(m.turn, "user")
              \/ m.turn \in crossed'
        /\ m.role = "user" =>
              \/ i < Len(messages') /\ messages'[i + 1] = Message(m.turn, "assistant")
              \/ m.turn \in torn'
  <2>5. \A i \in 1 .. Len(messages) : Reads(i)
    BY <1>3, <2>1, <2>2
  <2>6. Reads(Len(messages) + 1)
    <3>1. messages'[Len(messages) + 1].role = "assistant"
          /\ messages'[Len(messages) + 1].turn = turn
      BY <1>3, <2>3
    <3>2. Len(messages) + 1 - 1 = Len(messages)
      BY <1>3
    <3>3. \/ /\ Len(messages) + 1 > 1
             /\ messages'[Len(messages) + 1 - 1] = Message(messages'[Len(messages) + 1].turn, "user")
          \/ messages'[Len(messages) + 1].turn \in crossed'
      BY <2>4, <3>1, <3>2, Zenon
    <3> QED BY <3>1, <3>3
  <2>7. \A i \in DOMAIN messages' : Reads(i)
    <3> HIDE DEF Reads
    <3> QED BY <1>3, <2>5, <2>6
  <2> QED BY <2>7 DEF HistoryReads
<1>6. TranscriptIsListed'
  <2>1. Shown' \subseteq Shown \cup {turn}
    BY <1>3 DEF Shown, Message
  <2> QED BY <1>1, <2>1 DEF TranscriptIsListed, RowSeen
<1>7. AnswerFollows' /\ RowSeen' /\ DeletesAsAsked'
    BY <1>1 DEF AnswerFollows, RowSeen, DeletesAsAsked
<1> QED BY <1>4, <1>5, <1>6, <1>7

\* A failure, or the end of the process, cuts the pair off after its question.
LEMMA CutOff == TranscriptInv /\ (PersistFails \/ ProcessDies) => TranscriptInv'
<1> SUFFICES ASSUME TranscriptInv, PersistFails \/ ProcessDies PROVE TranscriptInv'
    OBVIOUS
<1> USE TranscriptAssumption DEF TranscriptInv, TranscriptHolds
<1>1. BreaksOff
    BY DEF PersistFails, ProcessDies
<1>2. TranscriptTypeOK'
  <2>1. request \in [Requests -> Asked]
    BY DEF TranscriptTypeOK, Asked
  <2>2. \A r \in Requests : [request[r] EXCEPT !.at = "done"] \in Asked
    BY <2>1 DEF Asked
  <2>3. request' \in [Requests -> Asked]
    BY <2>1, <2>2 DEF PersistFails, ProcessDies
  <2> QED BY <1>1, <2>3 DEF BreaksOff, TranscriptTypeOK, NoTurn, Asked
<1>3. HistoryReads'
    BY <1>1 DEF BreaksOff, HistoryReads
<1>4. TranscriptIsListed' /\ AnswerFollows' /\ RowSeen'
    BY <1>1 DEF BreaksOff, TranscriptIsListed, Shown, AnswerFollows, RowSeen
<1>5. DeletesAsAsked'
    BY DEF PersistFails, ProcessDies, DeletesAsAsked, TranscriptTypeOK
<1> QED BY <1>2, <1>3, <1>4, <1>5

\* A request to the endpoints, between any two statements of a persist.
LEMMA Requested ==
    ASSUME TranscriptInv, NEW r \in Requests, Request(r)
    PROVE  TranscriptInv'
<1> USE TranscriptAssumption DEF TranscriptInv, TranscriptHolds
<1>1. UNCHANGED <<asked, step, turn, lost, torn, failed>>
    BY DEF Request, Ask, RequestLooks, RequestCreates, RequestUpdates, DeleteMessages,
           DeleteRow, OfTheLoop
<1>2. /\ request' \in [Requests -> Asked]
      /\ DeletesAsAsked'
  <2>1. request \in [Requests -> Asked]
    BY DEF TranscriptTypeOK, Asked
  <2>2. PICK q \in Asked : /\ request' = [request EXCEPT ![r] = q]
                           /\ q.at \in {"deleteMessages", "deleteRow"} => q.op = "delete"
    <3>1. ASSUME NEW op \in Operations, Ask(r, op)
          PROVE  \E q \in Asked : /\ request' = [request EXCEPT ![r] = q]
                                  /\ q.at \in {"deleteMessages", "deleteRow"} => q.op = "delete"
      <4> DEFINE q == [at |-> IF op = "delete" THEN "deleteMessages" ELSE "look", op |-> op]
      <4>1. q \in Asked
        BY DEF Asked
      <4> QED BY <3>1, <4>1 DEF Ask
    <3>2. ASSUME NEW to \in {"create", "update", "done"}, Moves(r, to)
          PROVE  \E q \in Asked : /\ request' = [request EXCEPT ![r] = q]
                                  /\ q.at \in {"deleteMessages", "deleteRow"} => q.op = "delete"
      <4> DEFINE q == [request[r] EXCEPT !.at = to]
      <4>1. q \in Asked /\ q.at = to
        BY <2>1 DEF Asked
      <4> QED BY <3>2, <4>1 DEF Moves
    <3>3. CASE DeleteMessages(r)
      <4> DEFINE q == [request[r] EXCEPT !.at = "deleteRow"]
      <4>1. request[r].op = "delete"
        BY <3>3 DEF DeleteMessages, DeletesAsAsked
      <4>2. q \in Asked /\ q.at = "deleteRow" /\ q.op = "delete"
        BY <2>1, <4>1 DEF Asked
      <4> QED BY <3>3, <4>2 DEF DeleteMessages, Moves
    <3> QED BY <3>1, <3>2, <3>3 DEF Request, RequestLooks, RequestCreates, RequestUpdates,
                                    DeleteRow
  <2>3. request' = [request EXCEPT ![r] = q]
    BY <2>2
  <2>4. request' \in [Requests -> Asked]
    BY <2>1, <2>3
  <2>5. request'[r] = q /\ \A p \in Requests \ {r} : request'[p] = request[p]
    BY <2>1, <2>3
  <2>6. DeletesAsAsked'
    BY <2>2, <2>5 DEF DeletesAsAsked
  <2> QED BY <2>4, <2>6
<1>3. CASE DeleteMessages(r)
  <2>1. /\ messages' = <<>> /\ session' = session
        /\ crossed \subseteq crossed' /\ (step # "idle" => turn \in crossed')
    BY <1>3 DEF DeleteMessages, Persisting
  <2>2. TranscriptTypeOK'
    BY <1>1, <1>2, <2>1 DEF TranscriptTypeOK, Asked
  <2> QED BY <1>1, <1>2, <2>1, <2>2
          DEF HistoryReads, TranscriptIsListed, Shown, AnswerFollows, RowSeen
<1>4. CASE DeleteRow(r)
  <2>1. /\ messages' = messages /\ session' = "none"
        /\ crossed \subseteq crossed' /\ (step # "idle" => turn \in crossed')
        /\ Shown \subseteq crossed'
    BY <1>4 DEF DeleteRow, Persisting
  <2>2. TranscriptTypeOK'
    BY <1>1, <1>2, <2>1 DEF TranscriptTypeOK, Asked
  <2>3. HistoryReads'
    BY <1>1, <2>1 DEF HistoryReads
  <2> QED BY <1>1, <1>2, <2>1, <2>2, <2>3
          DEF TranscriptIsListed, Shown, AnswerFollows, RowSeen
<1>5. CASE (\E op \in Operations : Ask(r, op)) \/ RequestLooks(r) \/ RequestCreates(r)
           \/ RequestUpdates(r)
  <2>1. /\ messages' = messages /\ crossed' = crossed
        /\ session' \in {"none", "active", "archived"}
        /\ session' = "none" => session = "none"
    BY <1>5 DEF Ask, RequestLooks, RequestCreates, RequestUpdates, TranscriptTypeOK
  <2>2. TranscriptTypeOK'
    BY <1>1, <1>2, <2>1 DEF TranscriptTypeOK, Asked
  <2>3. HistoryReads'
    BY <1>1, <2>1 DEF HistoryReads
  <2> QED BY <1>1, <1>2, <2>1, <2>2, <2>3
          DEF TranscriptIsListed, Shown, AnswerFollows, RowSeen
<1> QED BY <1>3, <1>4, <1>5 DEF Request

LEMMA TranscriptInductive == TranscriptInv /\ [TranscriptNext]_transcriptVars => TranscriptInv'
<1> SUFFICES ASSUME TranscriptInv, [TranscriptNext]_transcriptVars PROVE TranscriptInv'
    OBVIOUS
<1>1. CASE UNCHANGED transcriptVars
    BY <1>1 DEF transcriptVars, TranscriptInv, TranscriptHolds, TranscriptTypeOK,
                HistoryReads, TranscriptIsListed, Shown, AnswerFollows, RowSeen,
                DeletesAsAsked
<1>2. CASE TranscriptNext
    BY <1>2, RowMade, QuestionWritten, AnswerWritten, CutOff, Requested
       DEF TranscriptNext, Persist
<1> QED BY <1>1, <1>2

\* However deletions, failures and other requests fall between the statements
\* of a persist, the cockpit shows a conversation (chat_session_transcript).
THEOREM TranscriptHoldsAlways == TranscriptSpec => []TranscriptHolds
<1>1. TranscriptInv => TranscriptHolds
    BY DEF TranscriptInv
<1> QED BY <1>1, TranscriptStarts, TranscriptInductive, PTL DEF TranscriptSpec

\* Neither a turn that goes on nor a title takes the archive mark away
\* (set_archived, delete_session).
THEOREM ArchiveIsKeptHolds == TranscriptSpec => ArchiveIsKept
<1>1. ASSUME TranscriptInv, [TranscriptNext]_transcriptVars
      PROVE  [session = "archived" /\ session' # "archived" =>
                 \E r \in Requests : /\ request[r].op \in {"unarchive", "delete"}
                                     /\ request'[r] # request[r]]_transcriptVars
  <2> SUFFICES ASSUME session = "archived", session' # "archived"
               PROVE  \E r \in Requests : /\ request[r].op \in {"unarchive", "delete"}
                                          /\ request'[r] # request[r]
      OBVIOUS
  <2>1. PICK r \in Requests : Request(r)
    BY <1>1 DEF transcriptVars, TranscriptNext, Persist, EndTurn, LookForRow, CreateRow,
                InsertQuestion, InsertAnswer, PersistFails, ProcessDies, BreaksOff
  <2>2. RequestUpdates(r) \/ DeleteRow(r)
    BY <2>1 DEF Request, Ask, RequestLooks, RequestCreates, DeleteMessages
  <2>3. request[r].op \in {"unarchive", "delete"}
    BY <1>1, <2>2 DEF RequestUpdates, DeleteRow, TranscriptInv, DeletesAsAsked
  <2>4. request[r].at # "done" /\ request'[r].at = "done"
    BY <1>1, <2>2 DEF RequestUpdates, DeleteRow, Moves, TranscriptInv, TranscriptHolds,
                      TranscriptTypeOK
  <2> QED BY <2>3, <2>4
<1> QED BY <1>1, TranscriptStarts, TranscriptInductive, PTL DEF TranscriptSpec, ArchiveIsKept

\* A request that inserts the row while the persist stands between its look
\* and its own INSERT.
RivalCreates == step = "create" /\ \E r \in Requests : RequestCreates(r)

\* Nothing else loses a turn: unless a request comes between the two
\* statements of ensure_chat_session_row, a turn of which nothing was written
\* has met a failure of the database or the end of the process.
THEOREM KeptUnlessRivalled ==
    TranscriptSpec /\ [][~RivalCreates]_transcriptVars => []EveryTurnIsKept
<1> DEFINE Kept == EveryTurnIsKept /\ (step = "create" => session = "none")
<1>1. TranscriptInit => Kept
    BY DEF TranscriptInit, EveryTurnIsKept
<1>2. Kept /\ [TranscriptNext]_transcriptVars /\ [~RivalCreates]_transcriptVars => Kept'
  <2> SUFFICES ASSUME Kept, [TranscriptNext]_transcriptVars, [~RivalCreates]_transcriptVars
               PROVE  Kept'
      OBVIOUS
  <2>1. CASE UNCHANGED transcriptVars
    BY <2>1 DEF transcriptVars, EveryTurnIsKept
  <2>2. CASE (\E t \in Turns : EndTurn(t)) \/ LookForRow
    BY <2>2 DEF EndTurn, LookForRow, Proceed, EveryTurnIsKept
  <2>3. CASE CreateRow
    BY <2>3 DEF CreateRow, Proceed, EveryTurnIsKept
  <2>4. CASE InsertQuestion \/ InsertAnswer
    BY <2>4 DEF InsertQuestion, InsertAnswer, Proceed, EveryTurnIsKept
  <2>5. CASE PersistFails \/ ProcessDies
    BY <2>5 DEF PersistFails, ProcessDies, BreaksOff, EveryTurnIsKept
  <2>6. ASSUME NEW r \in Requests, Request(r), ~UNCHANGED transcriptVars PROVE Kept'
    <3>1. step' = step /\ lost' = lost /\ failed' = failed
      BY <2>6 DEF Request, Ask, RequestLooks, RequestCreates, RequestUpdates, DeleteMessages,
                  DeleteRow, OfTheLoop
    <3>2. ASSUME step = "create" PROVE session' = "none"
      <4>1. ~RivalCreates /\ session = "none"
        BY <2>6, <3>2
      <4>2. ~RequestCreates(r)
        BY <3>2, <4>1 DEF RivalCreates
      <4>3. CASE (\E op \in Operations : Ask(r, op)) \/ RequestLooks(r) \/ DeleteMessages(r)
        BY <4>1, <4>3 DEF Ask, RequestLooks, DeleteMessages
      <4>4. CASE RequestUpdates(r) \/ DeleteRow(r)
        BY <4>1, <4>4 DEF RequestUpdates, DeleteRow
      <4> QED BY <2>6, <4>2, <4>3, <4>4 DEF Request
    <3> QED BY <3>1, <3>2 DEF EveryTurnIsKept
  <2> QED
    BY <2>1, <2>2, <2>3, <2>4, <2>5, <2>6 DEF TranscriptNext, Persist
<1> QED BY <1>1, <1>2, PTL DEF TranscriptSpec

-------------------------------------------------------------------------------
(***************************************************************************)
(* Goals                                                                   *)
(***************************************************************************)
Updating == {"expire", "dedupe", "activate", "link", "tool"}

\* The tables and the actors between their steps: an update under way is an
\* update, the goal a cycle is about exists, and no error count that is read,
\* held or about to be written exceeds the failures of its goal.
ActorHolds(a) ==
    /\ pc[a] \in Updating =>
          upd[a] \in Updates /\ \A n \in upd[a].errors : n <= failures[upd[a].goal]
    /\ pc[a] \in {"dedupe", "activating", "running", "linking", "link"} => chosen[a] \in GoalIds
    /\ pc[a] \in {"running", "linking"} => goal[chosen[a]].status \in Statuses
    /\ seen[a] # NoGoal =>
          /\ pc[a] \in Updating
          /\ seen[a].status \in Statuses /\ seen[a].errors <= failures[upd[a].goal]
    /\ pc[a] = "linking" =>
          found[a].status \in Statuses /\ found[a].errors <= failures[chosen[a]]
    /\ pc[a] = "inserting" => found[a].status = "proposed" /\ found[a].errors = 0

\* A row of the table has a status.
RowsAreGoals == \A g \in GoalIds : goal[g] # NoGoal => goal[g].status \in Statuses

\* ErrorsAreReal is not inductive by itself: an update writes what its caller
\* and update_goal have read before.
GoalsInv ==
    GoalsTypeOK /\ ErrorsAreReal /\ RowsAreGoals /\ \A a \in Actors : ActorHolds(a)

LEMMA Points == DOMAIN After = Updating
BY DEF After, Updating

LEMMA GoalsStart == GoalsInit => GoalsInv
<1> SUFFICES ASSUME GoalsInit PROVE GoalsInv
    OBVIOUS
<1> USE GoalsAssumption DEF GoalsInit, NoGoal
<1>1. GoalsTypeOK
    BY DEF GoalsTypeOK, Rows, None
<1>2. ErrorsAreReal /\ RowsAreGoals
    BY DEF ErrorsAreReal, RowsAreGoals
<1>3. ASSUME NEW a \in Actors PROVE ActorHolds(a)
    BY DEF ActorHolds, Updating
<1> QED BY <1>1, <1>2, <1>3 DEF GoalsInv

\* What an actor holds stays right while others step: failures only grow.
LEMMA Elsewhere ==
    ASSUME NEW b \in Actors, ActorHolds(b), GoalsTypeOK, failures' \in [GoalIds -> 0 .. 3],
           \A g \in GoalIds :
               /\ failures[g] <= failures'[g]
               /\ goal[g].status \in Statuses => goal'[g].status \in Statuses,
           pc'[b] = pc[b], upd'[b] = upd[b], seen'[b] = seen[b],
           found'[b] = found[b], chosen'[b] = chosen[b]
    PROVE  ActorHolds(b)'
<1>1. \A g \in GoalIds : failures[g] \in Nat /\ failures'[g] \in Nat
    BY DEF GoalsTypeOK
<1>2. found[b].errors \in Nat /\ seen[b].errors \in Nat
  <2>1. found[b] \in Rows /\ seen[b] \in Rows
    BY DEF GoalsTypeOK
  <2> QED BY <2>1 DEF Rows
<1>3. ASSUME pc[b] \in Updating
      PROVE  /\ upd[b] \in Updates /\ upd[b].goal \in GoalIds
             /\ \A n \in upd[b].errors : n \in Nat /\ n <= failures'[upd[b].goal]
    BY <1>1, <1>3 DEF ActorHolds, Updates
<1>4. seen[b] # NoGoal =>
         /\ pc[b] \in Updating
         /\ seen[b].status \in Statuses /\ seen[b].errors <= failures'[upd[b].goal]
    BY <1>1, <1>2, <1>3 DEF ActorHolds
<1>5. pc[b] = "linking" =>
         found[b].status \in Statuses /\ found[b].errors <= failures'[chosen[b]]
    BY <1>1, <1>2 DEF ActorHolds
<1>6. pc[b] \in {"running", "linking"} => goal'[chosen[b]].status \in Statuses
    BY DEF ActorHolds
<1> QED BY <1>3, <1>4, <1>5, <1>6 DEF ActorHolds

\* A step of one actor keeps the invariant when its own part is right after it.
LEMMA OneActor ==
    ASSUME GoalsInv, NEW a \in Actors, GoalsTypeOK', ErrorsAreReal', ActorHolds(a)',
           RowsAreGoals',
           \A g \in GoalIds :
               /\ failures[g] <= failures'[g]
               /\ goal[g].status \in Statuses => goal'[g].status \in Statuses,
           \A b \in Actors \ {a} :
               /\ pc'[b] = pc[b] /\ upd'[b] = upd[b] /\ seen'[b] = seen[b]
               /\ found'[b] = found[b] /\ chosen'[b] = chosen[b]
    PROVE  GoalsInv'
<1>1. ASSUME NEW b \in Actors \ {a} PROVE ActorHolds(b)'
  <2>1. failures' \in [GoalIds -> 0 .. 3]
    BY DEF GoalsTypeOK
  <2> QED BY <2>1, Elsewhere DEF GoalsInv
<1> QED BY <1>1 DEF GoalsInv

\* What is written for a column, from the update and from the row read before.
LEMMA Picked ==
    ASSUME NEW S, NEW new \in SUBSET S, NEW old \in S
    PROVE  Pick(new, old) \in S /\ (Pick(new, old) \in new \/ Pick(new, old) = old)
BY DEF Pick, Keep

\* An update of an actor that is under way.
LEMMA UpdateUnderWay ==
    ASSUME GoalsInv, NEW a \in Actors, pc[a] \in Updating
    PROVE  /\ upd[a] \in Updates /\ upd[a].goal \in GoalIds
           /\ upd[a].status \in SUBSET Statuses /\ upd[a].progress \in SUBSET (0 .. Full)
           /\ upd[a].errors \in SUBSET (0 .. 3)
           /\ \A n \in upd[a].errors : n <= failures[upd[a].goal]
BY DEF GoalsInv, ActorHolds, Updates

\* The end of an update: the caller goes on with its goal or holds nothing.
LEMMA Ended ==
    ASSUME GoalsInv, NEW a \in Actors, pc[a] \in Updating, End(a)
    PROVE  /\ pc' \in [Actors -> {"idle", "expiring", "activating", "selecting"} \cup
                          {pc[b] : b \in Actors}]
           /\ pc'[a] \in {"idle", "expiring", "activating", "selecting"}
           /\ pc'[a] = "activating" => chosen'[a] \in GoalIds
           /\ upd' = [upd EXCEPT ![a] = NoUpdate]
           /\ found' = [found EXCEPT ![a] = NoGoal]
           /\ chosen' \in [Actors -> GoalIds \cup {None}]
           /\ \A b \in Actors \ {a} : pc'[b] = pc[b] /\ chosen'[b] = chosen[b]
<1> USE DEF GoalsInv, GoalsTypeOK, End, Goto
<1>1. /\ After[pc[a]] \in {"idle", "expiring", "activating", "selecting"}
      /\ After[pc[a]] = "activating" => pc[a] = "dedupe"
    BY DEF After, Updating
<1>2. pc' = [pc EXCEPT ![a] = After[pc[a]]]
    OBVIOUS
<1>3. /\ pc'[a] = After[pc[a]] /\ \A b \in Actors \ {a} : pc'[b] = pc[b]
      /\ pc' \in [Actors -> {"idle", "expiring", "activating", "selecting"} \cup
                          {pc[b] : b \in Actors}]
    BY <1>1, <1>2
<1>4. \/ chosen' = [chosen EXCEPT ![a] = None] /\ After[pc[a]] = "idle"
      \/ chosen' = chosen
    OBVIOUS
<1>5. pc[a] = "dedupe" => chosen[a] \in GoalIds
    BY DEF ActorHolds
<1> QED BY <1>1, <1>3, <1>4, <1>5

LEMMA RowRead ==
    ASSUME GoalsInv, NEW a \in Actors, ReadRow(a)
    PROVE  GoalsInv'
<1> USE GoalsAssumption
<1>1. pc[a] \in Updating /\ upd[a].goal \in GoalIds /\ UNCHANGED <<goal, overdue, runs, failures>>
    BY Points, UpdateUnderWay DEF ReadRow
<1>2. GoalsTypeOK /\ ErrorsAreReal /\ RowsAreGoals /\ RowsAreGoals' /\ ActorHolds(a)
    BY <1>1 DEF GoalsInv, RowsAreGoals
<1>3. CASE UNCHANGED <<pc, upd, chosen, found>> /\ seen' = [seen EXCEPT ![a] = goal[upd[a].goal]]
  <2>1. goal[upd[a].goal] \in Rows /\ goal[upd[a].goal].errors <= failures[upd[a].goal]
    BY <1>1, <1>2 DEF GoalsTypeOK, ErrorsAreReal
  <2>2. GoalsTypeOK'
    BY <1>1, <1>2, <1>3, <2>1 DEF GoalsTypeOK
  <2>3. ErrorsAreReal'
    BY <1>1, <1>2 DEF ErrorsAreReal
  <2>4. ActorHolds(a)'
    <3>1. seen'[a] = goal[upd[a].goal] /\ pc'[a] = pc[a]
      BY <1>2, <1>3 DEF GoalsTypeOK
    <3>2. pc[a] \notin {"running", "linking", "inserting"}
      BY <1>1 DEF Updating
    <3>3. goal[upd[a].goal] # NoGoal => goal[upd[a].goal].status \in Statuses
      BY <1>1, <1>2 DEF RowsAreGoals
    <3> QED BY <1>1, <1>2, <1>3, <2>1, <3>1, <3>2, <3>3 DEF ActorHolds
  <2>5. \A g \in GoalIds :
           /\ failures[g] <= failures'[g]
           /\ goal[g].status \in Statuses => goal'[g].status \in Statuses
    BY <1>1, <1>2 DEF GoalsTypeOK
  <2>6. \A b \in Actors \ {a} : seen'[b] = seen[b]
    BY <1>2, <1>3 DEF GoalsTypeOK
  <2> QED BY <1>1, <1>2, <1>3, <2>2, <2>3, <2>4, <2>5, <2>6, OneActor
<1>4. CASE End(a) /\ seen' = seen
  <2>1. seen[a] = NoGoal
    BY DEF ReadRow
  <2>2. GoalsTypeOK'
    <3>1. NoGoal \in Rows
      BY GoalsAssumption DEF NoGoal, Rows
    <3>2. pc' \in [Actors -> {"idle", "expiring", "expire", "dedupe", "inserting", "activating",
                          "activate", "selecting", "running", "linking", "link", "tool"}]
      BY <1>1, <1>2, <1>4, Ended DEF GoalsTypeOK
    <3> QED BY <1>1, <1>2, <1>4, <3>1, <3>2, Ended DEF GoalsTypeOK
  <2>3. ErrorsAreReal'
    BY <1>1, <1>2 DEF ErrorsAreReal
  <2>4. ActorHolds(a)'
    BY <1>1, <1>4, <2>1, Ended DEF ActorHolds, Updating
  <2>5. \A g \in GoalIds :
           /\ failures[g] <= failures'[g]
           /\ goal[g].status \in Statuses => goal'[g].status \in Statuses
    BY <1>1, <1>2 DEF GoalsTypeOK
  <2>6. \A b \in Actors \ {a} : /\ pc'[b] = pc[b] /\ upd'[b] = upd[b] /\ seen'[b] = seen[b]
                                /\ found'[b] = found[b] /\ chosen'[b] = chosen[b]
    BY <1>1, <1>2, <1>4, Ended DEF GoalsTypeOK
  <2> QED BY <1>2, <2>2, <2>3, <2>4, <2>5, <2>6, OneActor
<1> QED BY <1>3, <1>4 DEF ReadRow

\* The row that update_goal writes: the columns of the update, and of the row it
\* has read where the update has none.
LEMMA RowToWrite ==
    ASSUME GoalsInv, NEW a \in Actors, pc[a] \in Updating, seen[a] # NoGoal
    PROVE  LET s == Pick(upd[a].status, seen[a].status)
               p == Pick(upd[a].progress, seen[a].progress)
               e == Pick(upd[a].errors, seen[a].errors)
           IN  /\ s \in Statuses /\ p \in 0 .. Full
               /\ e \in 0 .. 3 /\ e <= failures[upd[a].goal]
<1>1. /\ seen[a] \in Rows /\ seen[a].status \in Statuses
      /\ seen[a].errors <= failures[upd[a].goal]
    BY DEF GoalsInv, GoalsTypeOK, ActorHolds
<1>2. /\ seen[a].status \in Statuses /\ seen[a].progress \in 0 .. Full
      /\ seen[a].errors \in 0 .. 3
    BY <1>1 DEF Rows
<1>3. Pick(upd[a].status, seen[a].status) \in Statuses
    BY <1>2, UpdateUnderWay, Picked
<1>4. Pick(upd[a].progress, seen[a].progress) \in 0 .. Full
    BY <1>2, UpdateUnderWay, Picked
<1>5. /\ Pick(upd[a].errors, seen[a].errors) \in 0 .. 3
      /\ \/ Pick(upd[a].errors, seen[a].errors) \in upd[a].errors
         \/ Pick(upd[a].errors, seen[a].errors) = seen[a].errors
  <2>1. PICK S : S = 0 .. 3
    OBVIOUS
  <2>2. PICK new \in SUBSET S, old \in S : new = upd[a].errors /\ old = seen[a].errors
    BY <1>2, <2>1, UpdateUnderWay
  <2>3. Pick(new, old) \in S /\ (Pick(new, old) \in new \/ Pick(new, old) = old)
    BY Picked
  <2> QED BY <2>1, <2>2, <2>3
<1> QED BY <1>1, <1>3, <1>4, <1>5, UpdateUnderWay

LEMMA RowWritten ==
    ASSUME GoalsInv, NEW a \in Actors, WriteRow(a)
    PROVE  GoalsInv'
<1> USE GoalsAssumption
<1>1. /\ pc[a] \in Updating /\ upd[a].goal \in GoalIds /\ seen[a] # NoGoal
      /\ UNCHANGED <<overdue, runs, failures>> /\ End(a)
      /\ seen' = [seen EXCEPT ![a] = NoGoal]
    BY Points, UpdateUnderWay DEF WriteRow
<1>2. GoalsTypeOK /\ ErrorsAreReal /\ ActorHolds(a)
    BY DEF GoalsInv
<1> DEFINE g0 == upd[a].goal
           s == Pick(upd[a].status, seen[a].status)
           p == Pick(upd[a].progress, seen[a].progress)
           e == Pick(upd[a].errors, seen[a].errors)
           row == [title |-> goal[g0].title, status |-> s, progress |-> p, errors |-> e]
<1>3. s \in Statuses /\ p \in 0 .. Full /\ e \in 0 .. 3 /\ e <= failures[g0]
    BY <1>1, RowToWrite
<1>4. goal' = [goal EXCEPT ![g0] = row]
    BY DEF WriteRow
<1> HIDE DEF s, p, e
<1>5. row \in Rows /\ row.errors = e /\ row.status = s
  <2>1. goal[g0].title \in Titles \cup {"none"}
    BY <1>1, <1>2 DEF GoalsTypeOK, Rows
  <2> QED BY <1>3, <2>1 DEF Rows
<1> HIDE DEF row
<1>6. GoalsTypeOK'
  <2>1. NoGoal \in Rows
    BY DEF NoGoal, Rows
  <2>2. pc' \in [Actors -> {"idle", "expiring", "expire", "dedupe", "inserting", "activating",
                        "activate", "selecting", "running", "linking", "link", "tool"}]
    BY <1>1, <1>2, Ended DEF GoalsTypeOK
  <2> HIDE DEF g0
  <2>3. goal' \in [GoalIds -> Rows]
    BY <1>2, <1>4, <1>5 DEF GoalsTypeOK
  <2> QED BY <1>1, <1>2, <2>1, <2>2, <2>3, Ended DEF GoalsTypeOK
<1>7. ErrorsAreReal'
  <2>1. ASSUME NEW g \in GoalIds PROVE goal'[g].errors <= failures'[g]
    BY <1>1, <1>2, <1>3, <1>4, <1>5 DEF ErrorsAreReal, GoalsTypeOK
  <2> QED BY <2>1 DEF ErrorsAreReal
<1>8. ActorHolds(a)'
  <2>1. seen'[a] = NoGoal
    BY <1>1, <1>2 DEF GoalsTypeOK
  <2> QED BY <1>1, <2>1, Ended DEF ActorHolds, Updating
<1>9. /\ \A g \in GoalIds : goal[g].status \in Statuses => goal'[g].status \in Statuses
      /\ RowsAreGoals'
  <2>1. \A g \in GoalIds : goal'[g] = goal[g] \/ goal'[g].status \in Statuses
    BY <1>1, <1>2, <1>3, <1>4, <1>5 DEF GoalsTypeOK
  <2> QED BY <2>1 DEF GoalsInv, RowsAreGoals
<1>10. \A b \in Actors \ {a} : /\ pc'[b] = pc[b] /\ upd'[b] = upd[b] /\ seen'[b] = seen[b]
                               /\ found'[b] = found[b] /\ chosen'[b] = chosen[b]
    BY <1>1, <1>2, Ended DEF GoalsTypeOK
<1>11. \A g \in GoalIds : failures[g] <= failures'[g]
    BY <1>1, <1>2 DEF GoalsTypeOK
<1> QED BY <1>6, <1>7, <1>8, <1>9, <1>10, <1>11, OneActor

\* The points where an actor may be.
Places == Updating \cup {"idle", "expiring", "inserting", "activating", "selecting",
                         "running", "linking"}

\* A step that leaves the table and the failures alone, and changes of its actor
\* what the type allows, needs only its actor's own part.
LEMMA QuietStep ==
    ASSUME GoalsInv, NEW a \in Actors, UNCHANGED <<goal, seen, failures>>,
           overdue' \in [Actors -> SUBSET GoalIds], runs' \in [Cycling -> 0 .. Again],
           pc' = [pc EXCEPT ![a] = pc'[a]], pc'[a] \in Places,
           chosen' = [chosen EXCEPT ![a] = chosen'[a]], chosen'[a] \in GoalIds \cup {None},
           found' = [found EXCEPT ![a] = found'[a]], found'[a] \in Rows,
           upd' = [upd EXCEPT ![a] = upd'[a]], upd'[a] \in Updates \cup {NoUpdate},
           ActorHolds(a)'
    PROVE  GoalsInv'
<1> USE GoalsAssumption
<1>1. GoalsTypeOK /\ ErrorsAreReal
    BY DEF GoalsInv
<1>2. GoalsTypeOK'
    BY <1>1 DEF GoalsTypeOK, Places, Updating
<1>3. ErrorsAreReal'
    BY <1>1 DEF ErrorsAreReal
<1>4. \A b \in Actors \ {a} : /\ pc'[b] = pc[b] /\ upd'[b] = upd[b] /\ seen'[b] = seen[b]
                              /\ found'[b] = found[b] /\ chosen'[b] = chosen[b]
    BY <1>1 DEF GoalsTypeOK
<1>5. \A g \in GoalIds : failures[g] <= failures'[g]
    BY <1>1 DEF GoalsTypeOK
<1>6. RowsAreGoals'
    BY DEF GoalsInv, RowsAreGoals
<1> QED BY <1>2, <1>3, <1>4, <1>5, <1>6, OneActor

\* An actor that is not within update_goal has read nothing there.
LEMMA NothingSeen ==
    ASSUME GoalsInv, NEW a \in Actors, pc[a] \notin Updating
    PROVE  seen[a] = NoGoal
BY DEF GoalsInv, ActorHolds

\* A caller that begins an update.
LEMMA Began ==
    ASSUME GoalsInv, NEW a \in Actors, NEW back \in Updating,
           NEW g \in GoalIds, NEW s \in SUBSET Statuses, NEW p \in SUBSET (0 .. Full),
           NEW e \in SUBSET (0 .. 3),
           Begin(a, Update(g, s, p, e), back)
    PROVE  /\ pc' = [pc EXCEPT ![a] = pc'[a]] /\ pc'[a] = back
           /\ upd' = [upd EXCEPT ![a] = upd'[a]] /\ upd'[a] \in Updates
           /\ upd'[a].goal = g /\ upd'[a].errors = e
<1>1. Update(g, s, p, e) \in Updates /\ Update(g, s, p, e).goal = g
      /\ Update(g, s, p, e).errors = e
    BY DEF Update, Updates
<1> HIDE DEF Update
<1>2. pc'[a] = back /\ upd'[a] = Update(g, s, p, e)
    BY DEF Begin, Goto, GoalsInv, GoalsTypeOK
<1> QED BY <1>1, <1>2 DEF Begin, Goto

\* build_goal_context before it looks for a candidate.
LEMMA Expiring ==
    ASSUME GoalsInv, NEW c \in Cycling, StartCycle(c) \/ ExpireOne(c) \/ NoCandidate(c)
    PROVE  GoalsInv'
<1> USE GoalsAssumption
<1> DEFINE a == c
<1>0. c \in Actors /\ GoalsTypeOK /\ ActorHolds(c)
    BY DEF Actors, GoalsInv
<1>1. CASE StartCycle(c)
  <2>1. PICK due \in SUBSET {g \in GoalIds : goal[g].status \in Open} :
           overdue' = [overdue EXCEPT ![c] = due]
    BY <1>1 DEF StartCycle
  <2>2. overdue' \in [Actors -> SUBSET GoalIds]
    BY <1>0, <2>1 DEF GoalsTypeOK
  <2>3. runs' \in [Cycling -> 0 .. Again]
    BY <1>0, <1>1 DEF StartCycle, GoalsTypeOK
  <2>4. pc' = [pc EXCEPT ![c] = pc'[c]] /\ pc'[c] = "expiring"
    BY <1>0, <1>1 DEF StartCycle, Goto, GoalsTypeOK
  <2>5. seen[c] = NoGoal
    BY <1>0, <1>1, NothingSeen DEF StartCycle, Updating
  <2>6. ActorHolds(c)'
    BY <1>1, <2>4, <2>5 DEF StartCycle, ActorHolds, Updating
  <2> QED BY <1>0, <1>1, <2>2, <2>3, <2>4, <2>6, QuietStep DEF StartCycle, GoalsTypeOK, Places
<1>2. CASE ExpireOne(c)
  <2>1. PICK g \in overdue[c] : /\ overdue' = [overdue EXCEPT ![c] = @ \ {g}]
                                /\ Begin(c, Update(g, {"expired"}, Keep, Keep), "expire")
    BY <1>2 DEF ExpireOne
  <2>2. g \in GoalIds /\ overdue' \in [Actors -> SUBSET GoalIds]
    BY <1>0, <2>1 DEF GoalsTypeOK
  <2>3. /\ pc' = [pc EXCEPT ![c] = pc'[c]] /\ pc'[c] = "expire"
        /\ upd' = [upd EXCEPT ![c] = upd'[c]] /\ upd'[c] \in Updates
        /\ upd'[c].goal = g /\ upd'[c].errors = {}
    <3>1. {"expired"} \in SUBSET Statuses /\ "expire" \in Updating
      BY DEF Statuses, Closed, Updating
    <3> QED BY <1>0, <2>1, <2>2, <3>1, Began DEF Keep
  <2>4. seen[c] = NoGoal
    BY <1>0, <1>2, NothingSeen DEF ExpireOne, Updating
  <2>5. ActorHolds(c)'
    BY <1>2, <2>3, <2>4 DEF ExpireOne, ActorHolds, Updating
  <2> QED BY <1>0, <1>2, <2>2, <2>3, <2>5, QuietStep
          DEF ExpireOne, GoalsTypeOK, Places, Updating
<1>3. CASE NoCandidate(c)
  <2>1. pc' = [pc EXCEPT ![c] = pc'[c]] /\ pc'[c] = "selecting"
    BY <1>0, <1>3 DEF NoCandidate, Goto, GoalsTypeOK
  <2>2. seen[c] = NoGoal
    BY <1>0, <1>3, NothingSeen DEF NoCandidate, Updating
  <2>3. ActorHolds(c)'
    BY <1>3, <2>1, <2>2 DEF NoCandidate, ActorHolds, Updating
  <2> QED BY <1>0, <1>3, <2>1, <2>3, QuietStep DEF NoCandidate, GoalsTypeOK, Places
<1> QED BY <1>1, <1>2, <1>3

\* create_goal, called by a cycle or by a tool.
LEMMA LooksFor ==
    ASSUME GoalsInv, NEW a \in Actors, NEW t \in Titles, LookFor(a, t),
           pc[a] \in {"idle", "expiring"}, UNCHANGED <<goal, overdue, seen, runs, failures>>
    PROVE  GoalsInv'
<1> USE GoalsAssumption
<1>0. GoalsTypeOK /\ ActorHolds(a) /\ ErrorsAreReal /\ seen[a] = NoGoal
    BY NothingSeen DEF GoalsInv, Updating
<1>1. CASE Similar(t) = {}
  <2> DEFINE row == [NoGoal EXCEPT !.title = t, !.status = "proposed"]
  <2>1. row \in Rows /\ row.errors = 0 /\ row.status = "proposed"
    <3>0. NoGoal \in Rows /\ NoGoal.errors = 0
      BY DEF NoGoal, Rows
    <3>1. PICK r \in Rows : r = NoGoal /\ r.errors = 0
      BY <3>0
    <3>2. "proposed" \in Statuses
      BY DEF Statuses, Open
    <3>3. PICK p \in Rows : p = [r EXCEPT !.title = t, !.status = "proposed"]
      BY <3>2 DEF Rows
    <3>4. p.errors = 0 /\ p.status = "proposed"
      BY <3>1, <3>3 DEF Rows
    <3>5. row = p
      BY <3>1, <3>3
    <3> QED BY <3>4, <3>5
  <2> HIDE DEF row
  <2>2. /\ pc' = [pc EXCEPT ![a] = pc'[a]] /\ pc'[a] = "inserting"
        /\ found' = [found EXCEPT ![a] = found'[a]] /\ found'[a] = row
        /\ UNCHANGED <<chosen, upd>>
    BY <1>0, <1>1 DEF LookFor, Goto, GoalsTypeOK, row
  <2>3. ActorHolds(a)'
    BY <1>0, <2>1, <2>2 DEF ActorHolds, Updating
  <2> QED BY <1>0, <2>1, <2>2, <2>3, QuietStep DEF GoalsTypeOK, Places
<1>2. CASE Similar(t) # {}
  <2>1. PICK g \in Similar(t) :
           /\ chosen' = [chosen EXCEPT ![a] = g]
           /\ Begin(a, Update(g, Keep, Keep, {goal[g].errors}),
                    IF a \in Cycling THEN "dedupe" ELSE "tool")
           /\ UNCHANGED found
    BY <1>2 DEF LookFor
  <2>2. /\ g \in GoalIds /\ goal[g].errors \in 0 .. 3 /\ goal[g].errors <= failures[g]
    BY <1>0 DEF Similar, GoalsTypeOK, Rows, ErrorsAreReal
  <2>3. /\ pc' = [pc EXCEPT ![a] = pc'[a]] /\ pc'[a] \in {"dedupe", "tool"}
        /\ upd' = [upd EXCEPT ![a] = upd'[a]] /\ upd'[a] \in Updates
        /\ upd'[a].goal = g /\ upd'[a].errors = {goal[g].errors}
    <3>1. (IF a \in Cycling THEN "dedupe" ELSE "tool") \in {"dedupe", "tool"}
      OBVIOUS
    <3>2. PICK back \in {"dedupe", "tool"} :
             Begin(a, Update(g, {}, {}, {goal[g].errors}), back)
      BY <2>1, <3>1 DEF Keep
    <3>3. back \in Updating /\ {goal[g].errors} \in SUBSET (0 .. 3)
          /\ {} \in SUBSET Statuses /\ {} \in SUBSET (0 .. Full)
      BY <2>2 DEF Updating
    <3> QED BY ZenonT(40), <1>0, <2>2, <3>2, <3>3, Began
  <2>4. chosen'[a] = g
    BY <1>0, <2>1 DEF GoalsTypeOK
  <2>5. ActorHolds(a)'
    BY <1>0, <2>2, <2>3, <2>4 DEF ActorHolds, Updating
  <2> QED BY <1>0, <2>1, <2>2, <2>3, <2>4, <2>5, QuietStep DEF GoalsTypeOK, Places, Updating
<1> QED BY <1>1, <1>2

\* The row goes into the table under a number that no goal has.
LEMMA Inserted ==
    ASSUME GoalsInv, NEW a \in Actors, InsertGoal(a)
    PROVE  GoalsInv'
<1> USE GoalsAssumption
<1>0. GoalsTypeOK /\ ErrorsAreReal /\ ActorHolds(a) /\ seen[a] = NoGoal
    BY NothingSeen DEF GoalsInv, InsertGoal, Updating
<1>1. PICK g \in Unused :
         /\ goal' = [goal EXCEPT ![g] = found[a]]
         /\ chosen' = [chosen EXCEPT ![a] = IF a \in Cycling THEN g ELSE None]
    BY DEF InsertGoal
<1>2. /\ g \in GoalIds /\ found[a] \in Rows /\ found[a].errors = 0
      /\ found[a].status \in Statuses
    BY <1>0 DEF Unused, InsertGoal, ActorHolds, GoalsTypeOK, Statuses, Open
<1>3. /\ pc' = [pc EXCEPT ![a] = pc'[a]] /\ pc'[a] \in {"activating", "idle"}
      /\ pc'[a] = "activating" => chosen'[a] \in GoalIds
    BY <1>0, <1>1, <1>2 DEF InsertGoal, Goto, GoalsTypeOK
<1>4. NoGoal \in Rows
    BY DEF NoGoal, Rows
<1>5. GoalsTypeOK'
    BY ZenonT(40), <1>0, <1>1, <1>2, <1>3, <1>4 DEF InsertGoal, GoalsTypeOK
<1>6. ErrorsAreReal'
  <2>1. \A h \in GoalIds : goal'[h].errors = 0 \/ goal'[h] = goal[h]
    BY <1>0, <1>1, <1>2 DEF GoalsTypeOK
  <2>2. \A h \in GoalIds : failures'[h] = failures[h] /\ failures[h] \in 0 .. 3
    BY <1>0 DEF InsertGoal, GoalsTypeOK
  <2>3. \A h \in GoalIds : 0 <= failures[h]
    BY <2>2
  <2> QED BY <1>0, <2>1, <2>2, <2>3 DEF ErrorsAreReal
<1>7. ActorHolds(a)'
    BY <1>0, <1>3 DEF InsertGoal, ActorHolds, Updating
<1>8. /\ \A g2 \in GoalIds : failures[g2] <= failures'[g2]
      /\ \A b \in Actors \ {a} : /\ pc'[b] = pc[b] /\ upd'[b] = upd[b] /\ seen'[b] = seen[b]
                                 /\ found'[b] = found[b] /\ chosen'[b] = chosen[b]
  <2>1. \A g2 \in GoalIds : failures[g2] <= failures'[g2]
    BY <1>0 DEF InsertGoal, GoalsTypeOK
  <2> QED BY <1>0, <1>1, <1>3, <2>1 DEF InsertGoal, GoalsTypeOK
<1>9. /\ \A h \in GoalIds : goal[h].status \in Statuses => goal'[h].status \in Statuses
      /\ RowsAreGoals'
  <2>1. \A h \in GoalIds : goal'[h] = goal[h] \/ goal'[h].status \in Statuses
    BY <1>0, <1>1, <1>2 DEF GoalsTypeOK
  <2> QED BY <2>1 DEF GoalsInv, RowsAreGoals
<1> QED BY <1>5, <1>6, <1>7, <1>8, <1>9, OneActor

\* The goal of a cycle is activated and selected, and read before its result is linked.
LEMMA Selecting ==
    ASSUME GoalsInv, NEW c \in Cycling,
           Activate(c) \/ LeaveProposed(c) \/ Select(c) \/ LinkReads(c)
    PROVE  GoalsInv'
<1> USE GoalsAssumption
<1>0. c \in Actors /\ GoalsTypeOK /\ ActorHolds(c) /\ ErrorsAreReal
    BY DEF Actors, GoalsInv
<1>1. seen[c] = NoGoal
    BY <1>0, NothingSeen DEF Activate, LeaveProposed, Select, LinkReads, Updating
<1>2. CASE Activate(c)
  <2>1. chosen[c] \in GoalIds
    BY <1>0, <1>2 DEF Activate, ActorHolds
  <2>2. /\ pc' = [pc EXCEPT ![c] = pc'[c]] /\ pc'[c] = "activate"
        /\ upd' = [upd EXCEPT ![c] = upd'[c]] /\ upd'[c] \in Updates
        /\ upd'[c].goal = chosen[c] /\ upd'[c].errors = {}
    <3>1. {"active"} \in SUBSET Statuses /\ "activate" \in Updating
      BY DEF Statuses, Open, Updating
    <3>2. Begin(c, Update(chosen[c], {"active"}, {}, {}), "activate")
      BY <1>2 DEF Activate, Keep
    <3> QED BY <1>0, <2>1, <3>1, <3>2, Began
  <2>3. ActorHolds(c)'
    BY <1>1, <1>2, <2>1, <2>2 DEF Activate, ActorHolds, Updating
  <2> QED BY <1>0, <1>2, <2>2, <2>3, QuietStep DEF Activate, GoalsTypeOK, Places, Updating
<1>3. CASE LeaveProposed(c)
  <2>1. pc' = [pc EXCEPT ![c] = pc'[c]] /\ pc'[c] = "selecting"
    BY <1>0, <1>3 DEF LeaveProposed, Goto, GoalsTypeOK
  <2>2. ActorHolds(c)'
    BY <1>1, <1>3, <2>1 DEF LeaveProposed, ActorHolds, Updating
  <2> QED BY <1>0, <1>3, <2>1, <2>2, QuietStep DEF LeaveProposed, GoalsTypeOK, Places
<1>4. CASE Select(c)
  <2>1. /\ pc' = [pc EXCEPT ![c] = pc'[c]] /\ pc'[c] \in {"idle", "running"}
        /\ chosen' = [chosen EXCEPT ![c] = chosen'[c]] /\ chosen'[c] \in GoalIds \cup {None}
        /\ pc'[c] = "running" => chosen'[c] \in GoalIds /\ goal[chosen'[c]].status \in Statuses
    <3>1. CASE {g \in GoalIds : goal[g].status \in Working} = {}
      BY <1>0, <1>4, <3>1 DEF Select, Goto, GoalsTypeOK
    <3>2. CASE {g \in GoalIds : goal[g].status \in Working} # {}
      <4>1. PICK g \in GoalIds : /\ chosen' = [chosen EXCEPT ![c] = g]
                                 /\ goal[g].status \in Statuses
        BY <1>4, <3>2 DEF Select, Working, Statuses, Open
      <4>2. pc' = [pc EXCEPT ![c] = "running"]
        BY <1>4, <3>2 DEF Select, Goto
      <4> QED BY <1>0, <4>1, <4>2 DEF GoalsTypeOK
    <3> QED BY <3>1, <3>2
  <2>2. ActorHolds(c)'
    BY <1>1, <1>4, <2>1 DEF Select, ActorHolds, Updating
  <2> QED BY <1>0, <1>4, <2>1, <2>2, QuietStep DEF Select, GoalsTypeOK, Places
<1>5. CASE LinkReads(c)
  <2>1. chosen[c] \in GoalIds /\ goal[chosen[c]].status \in Statuses
    BY <1>0, <1>5 DEF LinkReads, ActorHolds
  <2>2. /\ pc' = [pc EXCEPT ![c] = pc'[c]] /\ pc'[c] = "linking"
        /\ found' = [found EXCEPT ![c] = found'[c]] /\ found'[c] = goal[chosen[c]]
    BY <1>0, <1>5 DEF LinkReads, Goto, GoalsTypeOK
  <2>3. goal[chosen[c]] \in Rows /\ goal[chosen[c]].errors <= failures[chosen[c]]
    BY <1>0, <2>1 DEF GoalsTypeOK, ErrorsAreReal
  <2>4. ActorHolds(c)'
    BY <1>1, <1>5, <2>1, <2>2, <2>3 DEF LinkReads, ActorHolds, Updating
  <2> QED BY <1>0, <1>5, <2>2, <2>3, <2>4, QuietStep DEF LinkReads, GoalsTypeOK, Places
<1> QED BY <1>2, <1>3, <1>4, <1>5

\* The result of a cycle: progress, or one more failure.
LEMMA Linking ==
    ASSUME GoalsInv, NEW c \in Cycling, LinkSuccess(c) \/ LinkFailure(c)
    PROVE  GoalsInv'
<1> USE GoalsAssumption
<1>0. /\ c \in Actors /\ GoalsTypeOK /\ ActorHolds(c) /\ ErrorsAreReal
      /\ pc[c] = "linking" /\ chosen[c] \in GoalIds /\ found[c] \in Rows
      /\ UNCHANGED <<goal, overdue, chosen, found, seen, runs>>
    BY DEF Actors, GoalsInv, LinkSuccess, LinkFailure, ActorHolds, GoalsTypeOK
<1>1. seen[c] = NoGoal
    BY <1>0, NothingSeen DEF Updating
<1>2. CASE LinkSuccess(c)
  <2>1. PICK delta \in 0 .. Full - 1 :
           LET p == Grown(found[c].progress, delta)
           IN  Begin(c, Update(chosen[c], IF p >= Full THEN {"completed"} ELSE Keep, {p}, Keep),
                     "link")
    BY <1>2 DEF LinkSuccess
  <2> DEFINE p == Grown(found[c].progress, delta)
             st == IF p >= Full THEN {"completed"} ELSE Keep
  <2>2. p \in 0 .. Full
    <3>1. found[c].progress \in 0 .. Full
      BY <1>0 DEF Rows
    <3> QED BY <3>1 DEF Grown
  <2>3. st \in SUBSET Statuses
    BY DEF Statuses, Closed, Keep
  <2>4. Begin(c, Update(chosen[c], st, {p}, {}), "link")
    BY <2>1 DEF Keep
  <2> HIDE DEF p, st
  <2>5. /\ pc' = [pc EXCEPT ![c] = pc'[c]] /\ pc'[c] = "link"
        /\ upd' = [upd EXCEPT ![c] = upd'[c]] /\ upd'[c] \in Updates
        /\ upd'[c].goal = chosen[c] /\ upd'[c].errors = {}
    <3>1. "link" \in Updating /\ {p} \in SUBSET (0 .. Full)
      BY <2>2 DEF Updating
    <3> QED BY <1>0, <2>3, <2>4, <3>1, Began
  <2>6. ActorHolds(c)'
    BY <1>0, <1>1, <2>5 DEF ActorHolds, Updating
  <2> QED BY <1>0, <1>2, <2>5, <2>6, QuietStep DEF LinkSuccess, GoalsTypeOK, Places, Updating
<1>3. CASE LinkFailure(c)
  <2>1. failures' = [failures EXCEPT ![chosen[c]] = ErrorCount(@ + 1)]
    BY <1>3 DEF LinkFailure
  <2>2. /\ failures' \in [GoalIds -> 0 .. 3]
        /\ \A g \in GoalIds : failures[g] <= failures'[g]
        /\ failures'[chosen[c]] = ErrorCount(failures[chosen[c]] + 1)
    BY <1>0, <2>1 DEF GoalsTypeOK, ErrorCount
  <2> DEFINE n == ErrorsAfter(found[c])
  <2>3. n \in 0 .. 3 /\ n <= failures'[chosen[c]]
    <3>1. found[c].errors \in 0 .. 3 /\ found[c].errors <= failures[chosen[c]]
          /\ failures[chosen[c]] \in 0 .. 3
      BY <1>0 DEF ActorHolds, Rows, GoalsTypeOK
    <3> QED BY <2>2, <3>1 DEF ErrorsAfter, ErrorCount
  <2> HIDE DEF n
  <2>4. /\ pc' = [pc EXCEPT ![c] = pc'[c]] /\ pc'[c] = "link"
        /\ upd' = [upd EXCEPT ![c] = upd'[c]] /\ upd'[c] \in Updates
        /\ upd'[c].goal = chosen[c] /\ upd'[c].errors \in {{}, {n}}
    <3>1. "link" \in Updating /\ {n} \in SUBSET (0 .. 3) /\ {} \in SUBSET (0 .. Full)
          /\ {} \in SUBSET (0 .. 3) /\ {"failed"} \in SUBSET Statuses
      BY <2>3 DEF Updating, Statuses, Closed
    <3>2. found[c].status \in Statuses
      BY <1>0 DEF ActorHolds
    <3>3. PICK st \in SUBSET Statuses, e \in {{}, {n}} :
             Begin(c, Update(chosen[c], st, {}, e), "link")
      <4>1. {"failed"} \in SUBSET Statuses /\ {"blocked"} \in SUBSET Statuses
            /\ {found[c].status} \in SUBSET Statuses
        BY <3>2 DEF Statuses, Closed, Open
      <4> QED BY <1>3, <4>1 DEF LinkFailure, Keep, n
    <3>4. e \in SUBSET (0 .. 3)
      BY <2>3
    <3> QED BY <1>0, <3>1, <3>3, <3>4, Began
  <2>5. ActorHolds(c)'
    <3>1. \A k \in upd'[c].errors : k <= failures'[upd'[c].goal]
      BY <2>3, <2>4
    <3> QED BY <1>0, <1>1, <2>4, <3>1 DEF ActorHolds, Updating
  <2>6. GoalsTypeOK'
    BY <1>0, <2>2, <2>4 DEF GoalsTypeOK
  <2>7. ErrorsAreReal' /\ RowsAreGoals'
    <3>1. \A g \in GoalIds : goal[g].errors \in Nat
      BY <1>0 DEF GoalsTypeOK, Rows
    <3>2. \A g \in GoalIds : failures[g] \in Nat /\ failures'[g] \in Nat
      BY <1>0, <2>2 DEF GoalsTypeOK
    <3> QED BY <1>0, <2>2, <3>1, <3>2 DEF ErrorsAreReal, RowsAreGoals, GoalsInv
  <2>8. \A b \in Actors \ {c} : /\ pc'[b] = pc[b] /\ upd'[b] = upd[b] /\ seen'[b] = seen[b]
                                /\ found'[b] = found[b] /\ chosen'[b] = chosen[b]
    BY <1>0, <2>4 DEF GoalsTypeOK
  <2> QED BY <1>0, <2>2, <2>5, <2>6, <2>7, <2>8, OneActor
<1> QED BY <1>2, <1>3

\* The goal tools.
LEMMA ToolCalls ==
    ASSUME GoalsInv, NEW a \in Tooling, ToolCreates(a) \/ ToolUpdates(a)
    PROVE  GoalsInv'
<1> USE GoalsAssumption
<1>0. a \in Actors /\ GoalsTypeOK /\ ActorHolds(a)
    BY DEF Actors, GoalsInv
<1>1. CASE ToolCreates(a)
    BY <1>0, <1>1, LooksFor DEF ToolCreates
<1>2. CASE ToolUpdates(a)
  <2>1. PICK g \in GoalIds, st \in SUBSET Statuses, p \in SUBSET (0 .. Full) :
           Begin(a, Update(g, st, p, {}), "tool")
    <3>1. /\ \A s \in Statuses : {s} \in SUBSET Statuses
          /\ {"completed"} \in SUBSET Statuses /\ {Full} \in SUBSET (0 .. Full)
          /\ {} \in SUBSET (0 .. Full)
      BY DEF Statuses, Closed
    <3> QED BY <1>2, <3>1 DEF ToolUpdates, Keep
  <2>2. /\ pc' = [pc EXCEPT ![a] = pc'[a]] /\ pc'[a] = "tool"
        /\ upd' = [upd EXCEPT ![a] = upd'[a]] /\ upd'[a] \in Updates
        /\ upd'[a].goal = g /\ upd'[a].errors = {}
    <3>1. "tool" \in Updating /\ {} \in SUBSET (0 .. 3)
      BY DEF Updating
    <3> QED BY <1>0, <2>1, <3>1, Began
  <2>3. seen[a] = NoGoal
    BY <1>0, <1>2, NothingSeen DEF ToolUpdates, Updating
  <2>4. ActorHolds(a)'
    BY <1>2, <2>2, <2>3 DEF ToolUpdates, ActorHolds, Updating
  <2> QED BY <1>0, <1>2, <2>2, <2>4, QuietStep DEF ToolUpdates, GoalsTypeOK, Places, Updating
<1> QED BY <1>1, <1>2

LEMMA GoalsInductive == GoalsInv /\ [GoalsNext]_goalVars => GoalsInv'
<1> SUFFICES ASSUME GoalsInv, [GoalsNext]_goalVars PROVE GoalsInv'
    OBVIOUS
<1>1. ASSUME NEW a \in Actors, ReadRow(a) \/ WriteRow(a) \/ InsertGoal(a) PROVE GoalsInv'
    BY <1>1, RowRead, RowWritten, Inserted
<1>2. ASSUME NEW c \in Cycling, StartCycle(c) \/ ExpireOne(c) \/ NoCandidate(c) PROVE GoalsInv'
    BY <1>2, Expiring
<1>3. ASSUME NEW c \in Cycling, Candidate(c) PROVE GoalsInv'
    BY <1>3, LooksFor DEF Candidate, Actors
<1>4. ASSUME NEW c \in Cycling, Activate(c) \/ LeaveProposed(c) \/ Select(c) \/ LinkReads(c)
      PROVE  GoalsInv'
    BY <1>4, Selecting
<1>5. ASSUME NEW c \in Cycling, LinkSuccess(c) \/ LinkFailure(c) PROVE GoalsInv'
    BY <1>5, Linking
<1>6. ASSUME NEW a \in Tooling, ToolCreates(a) \/ ToolUpdates(a) PROVE GoalsInv'
    BY <1>6, ToolCalls
<1>7. CASE UNCHANGED goalVars
    BY <1>7 DEF goalVars, GoalsInv, GoalsTypeOK, ErrorsAreReal, RowsAreGoals, ActorHolds
<1> QED BY <1>1, <1>2, <1>3, <1>4, <1>5, <1>6, <1>7 DEF GoalsNext

\* No goal is blocked or given up for errors it did not have, whatever threads
\* the actors run on and whichever updates get lost (link_goal_to_result).
THEOREM ErrorsAreRealHolds == GoalsSpec => [](GoalsTypeOK /\ ErrorsAreReal)
<1>1. GoalsInv => GoalsTypeOK /\ ErrorsAreReal
    BY DEF GoalsInv
<1> QED BY <1>1, GoalsStart, GoalsInductive, PTL DEF GoalsSpec

---------------------------------------------------------------------------
\* Every actor runs on one thread, the event loop.
OneThread == \A a, b \in Actors : ThreadOf[a] = ThreadOf[b]

\* What an actor of one thread has read of the table is still so: the row that
\* update_goal validates, and the absence of a similar goal.
StillSo(a) ==
    /\ seen[a] # NoGoal =>
          /\ seen[a] = goal[upd[a].goal]
          /\ Pick(upd[a].status, seen[a].status) \in Allowed(seen[a].status)
    /\ pc[a] = "inserting" => Similar(found[a].title) = {}

AloneOnThread == \A a, b \in Actors : a # b /\ pc[a] \notin Awaiting => pc[b] \in Awaiting

\* OneOpenPerTitle needs that nobody writes between a read and its write.
OneThreadInv ==
    GoalsInv /\ OneOpenPerTitle /\ AloneOnThread /\ \A a \in Actors : StillSo(a)

\* _ALLOWED_TRANSITIONS opens nothing that is closed.
LEMMA AllowedKeeps ==
    ASSUME NEW s \in Statuses, NEW t \in Allowed(s)
    PROVE  (t \in Open => s \in Open) /\ (s \in Closed => t = s)
BY DEF Allowed, Statuses, Open, Closed

LEMMA OneThreadStarts == GoalsInit => OneThreadInv
<1> SUFFICES ASSUME GoalsInit PROVE OneThreadInv
    OBVIOUS
<1>1. GoalsInv
    BY GoalsStart
<1>2. OneOpenPerTitle
    BY DEF GoalsInit, OneOpenPerTitle, NoGoal, Open
<1>3. AloneOnThread
    BY DEF GoalsInit, AloneOnThread, Awaiting
<1>4. \A a \in Actors : StillSo(a)
    BY DEF GoalsInit, StillSo
<1> QED BY <1>1, <1>2, <1>3, <1>4 DEF OneThreadInv

\* The actor that steps is the only one on the thread: what the others hold
\* they read before they awaited, and read again afterwards.
LEMMA OneSteps ==
    ASSUME OneThread, OneThreadInv, GoalsInv', NEW a \in Actors, HasThread(a),
           \A b \in Actors \ {a} : pc'[b] = pc[b] /\ seen'[b] = seen[b],
           StillSo(a)', OneOpenPerTitle'
    PROVE  OneThreadInv'
<1>1. ASSUME NEW b \in Actors \ {a} PROVE pc[b] \in Awaiting
    BY DEF OneThread, HasThread
<1>2. ASSUME NEW b \in Actors \ {a} PROVE StillSo(b)'
  <2>1. pc[b] \notin Updating /\ pc'[b] # "inserting"
    BY <1>1 DEF Awaiting, Updating
  <2>2. seen'[b] = NoGoal
    BY <2>1, NothingSeen DEF OneThreadInv
  <2> QED BY <2>1, <2>2 DEF StillSo
<1>3. AloneOnThread'
    BY <1>1 DEF AloneOnThread
<1> QED BY <1>2, <1>3 DEF OneThreadInv

\* A step that leaves the table alone and reads nothing for a decision.
LEMMA ReadsNothing ==
    ASSUME OneThread, OneThreadInv, GoalsInv', NEW a \in Actors, HasThread(a),
           pc[a] \notin Updating, UNCHANGED <<goal, seen>>,
           NEW p, p # "inserting", pc' = [pc EXCEPT ![a] = p]
    PROVE  OneThreadInv'
<1>1. OneOpenPerTitle'
    BY DEF OneOpenPerTitle, OneThreadInv
<1>2. pc'[a] # "inserting" /\ \A b \in Actors \ {a} : pc'[b] = pc[b] /\ seen'[b] = seen[b]
    BY DEF OneThreadInv, GoalsInv, GoalsTypeOK
<1>3. seen'[a] = NoGoal
    BY NothingSeen DEF OneThreadInv
<1>4. StillSo(a)'
    BY <1>2, <1>3 DEF StillSo
<1> QED BY <1>1, <1>2, <1>4, OneSteps

\* update_goal reads, validates and writes without anyone in between.
LEMMA UpdateAlone ==
    ASSUME OneThread, OneThreadInv, GoalsInv', NEW a \in Actors, ReadRow(a) \/ WriteRow(a)
    PROVE  /\ OneThreadInv'
           /\ \A g \in GoalIds : goal[g].status \in Closed => goal'[g].status = goal[g].status
<1>1. /\ pc[a] \in Updating /\ HasThread(a) /\ upd[a].goal \in GoalIds
      /\ GoalsTypeOK /\ OneOpenPerTitle /\ StillSo(a) /\ GoalsInv
    BY Points, UpdateUnderWay DEF ReadRow, WriteRow, OneThreadInv, GoalsInv
<1>2. CASE ReadRow(a)
  <2>1. UNCHANGED goal /\ OneOpenPerTitle' /\ seen[a] = NoGoal
    BY <1>1, <1>2 DEF ReadRow, OneOpenPerTitle
  <2>2. \A b \in Actors \ {a} : pc'[b] = pc[b] /\ seen'[b] = seen[b]
    BY <1>1, <1>2, Ended DEF ReadRow, GoalsTypeOK
  <2>3. StillSo(a)'
    <3>1. CASE UNCHANGED <<pc, upd>> /\ seen' = [seen EXCEPT ![a] = goal[upd[a].goal]]
               /\ Pick(upd[a].status, goal[upd[a].goal].status) \in
                     Allowed(goal[upd[a].goal].status)
      <4>1. seen'[a] = goal[upd[a].goal] /\ pc'[a] # "inserting"
        BY <1>1, <3>1 DEF GoalsTypeOK, Updating
      <4> QED BY <2>1, <3>1, <4>1 DEF StillSo
    <3>2. CASE End(a) /\ UNCHANGED seen
      BY <1>1, <2>1, <3>2, Ended DEF StillSo
    <3> QED BY <1>2, <3>1, <3>2 DEF ReadRow
  <2> QED BY <1>1, <2>1, <2>2, <2>3, OneSteps
<1>3. CASE WriteRow(a)
  <2> DEFINE g0 == upd[a].goal
             s == Pick(upd[a].status, seen[a].status)
  <2>1. /\ seen[a] # NoGoal /\ End(a) /\ seen' = [seen EXCEPT ![a] = NoGoal]
        /\ seen[a] = goal[g0] /\ s \in Allowed(goal[g0].status)
    BY <1>1, <1>3 DEF WriteRow, StillSo
  <2>2. goal[g0].status \in Statuses
    BY <1>1, <2>1 DEF GoalsInv, ActorHolds
  <2>3. /\ s \in Open => goal[g0].status \in Open
        /\ goal[g0].status \in Closed => s = goal[g0].status
    <3> HIDE DEF s, g0
    <3> QED BY <2>1, <2>2, AllowedKeeps
  <2>4. /\ goal'[g0].status = s /\ goal'[g0].title = goal[g0].title
        /\ \A g \in GoalIds \ {g0} : goal'[g] = goal[g]
    BY <1>1, <1>3 DEF WriteRow, GoalsTypeOK
  <2> HIDE DEF s, g0
  <2>5. OneOpenPerTitle'
    <3>1. \A g \in GoalIds : /\ goal'[g].title = goal[g].title
                             /\ goal'[g].status \in Open => goal[g].status \in Open
      BY <2>3, <2>4
    <3> QED BY <1>1, <3>1 DEF OneOpenPerTitle
  <2>6. \A b \in Actors \ {a} : pc'[b] = pc[b] /\ seen'[b] = seen[b]
    BY <1>1, <2>1, Ended DEF GoalsTypeOK
  <2>7. StillSo(a)'
    <3>1. seen'[a] = NoGoal
      BY <1>1, <2>1 DEF GoalsTypeOK
    <3>2. pc'[a] # "inserting"
      BY <1>1, <2>1, Ended
    <3> QED BY <3>1, <3>2 DEF StillSo
  <2>8. \A g \in GoalIds : goal[g].status \in Closed => goal'[g].status = goal[g].status
    BY <2>3, <2>4
  <2> QED BY <1>1, <2>5, <2>6, <2>7, <2>8, OneSteps
<1> QED BY <1>2, <1>3

\* create_goal looks and inserts without anyone in between.
LEMMA CreateAlone ==
    ASSUME OneThread, OneThreadInv, GoalsInv', NEW a \in Actors,
           InsertGoal(a) \/ \E t \in Titles : HasThread(a) /\ LookFor(a, t) /\
                               pc[a] \in {"idle", "expiring"} /\ UNCHANGED <<goal, seen>>
    PROVE  /\ OneThreadInv'
           /\ \A g \in GoalIds : goal[g].status \in Closed => goal'[g].status = goal[g].status
<1>1. GoalsTypeOK /\ OneOpenPerTitle /\ StillSo(a) /\ GoalsInv /\ ActorHolds(a)
    BY DEF OneThreadInv, GoalsInv
<1>2. seen[a] = NoGoal /\ HasThread(a) /\ UNCHANGED seen
    BY <1>1, NothingSeen DEF InsertGoal, Updating
<1>3. CASE InsertGoal(a)
  <2>1. PICK g0 \in Unused : goal' = [goal EXCEPT ![g0] = found[a]]
    BY <1>3 DEF InsertGoal
  <2>2. /\ g0 \in GoalIds /\ goal[g0].status \notin Closed
        /\ goal'[g0] = found[a] /\ \A g \in GoalIds \ {g0} : goal'[g] = goal[g]
        /\ Similar(found[a].title) = {}
    BY <1>1, <1>3, <2>1 DEF Unused, NoGoal, Closed, GoalsTypeOK, InsertGoal, StillSo
  <2>3. OneOpenPerTitle'
    <3>1. \A g \in GoalIds \ {g0} : goal[g].status \in Open => goal[g].title # found[a].title
      BY <2>2 DEF Similar
    <3> QED BY <1>1, <2>2, <3>1 DEF OneOpenPerTitle
  <2>4. pc'[a] # "inserting" /\ \A b \in Actors \ {a} : pc'[b] = pc[b]
    BY <1>1, <1>3 DEF InsertGoal, Goto, GoalsTypeOK
  <2>5. StillSo(a)'
    BY <1>2, <2>4 DEF StillSo
  <2> QED BY <1>2, <2>2, <2>3, <2>4, <2>5, OneSteps
<1>4. ASSUME NEW t \in Titles, LookFor(a, t), UNCHANGED goal
      PROVE  OneThreadInv'
  <2>1. OneOpenPerTitle'
    BY <1>1, <1>4 DEF OneOpenPerTitle
  <2>2. CASE Similar(t) = {}
    <3>1. /\ pc' = [pc EXCEPT ![a] = "inserting"]
          /\ found' = [found EXCEPT ![a] = [NoGoal EXCEPT !.title = t, !.status = "proposed"]]
      BY <1>4, <2>2 DEF LookFor, Goto
    <3>2. found'[a].title = t /\ \A b \in Actors \ {a} : pc'[b] = pc[b]
      BY <1>1, <3>1 DEF GoalsTypeOK, NoGoal
    <3>3. StillSo(a)'
      BY <1>2, <1>4, <2>2, <3>2 DEF StillSo, Similar
    <3> QED BY <1>2, <2>1, <3>2, <3>3, OneSteps
  <2>3. CASE Similar(t) # {}
    <3>1. pc' = [pc EXCEPT ![a] = IF a \in Cycling THEN "dedupe" ELSE "tool"]
      BY <1>4, <2>3 DEF LookFor, Begin, Goto
    <3>2. pc'[a] # "inserting" /\ \A b \in Actors \ {a} : pc'[b] = pc[b]
      BY <1>1, <3>1 DEF GoalsTypeOK
    <3>3. StillSo(a)'
      BY <1>2, <3>2 DEF StillSo
    <3> QED BY <1>2, <2>1, <3>2, <3>3, OneSteps
  <2> QED BY <2>2, <2>3
<1> QED BY <1>3, <1>4

LEMMA OneThreadStep ==
    ASSUME OneThread, OneThreadInv, [GoalsNext]_goalVars
    PROVE  /\ OneThreadInv'
           /\ \A g \in GoalIds : goal[g].status \in Closed => goal'[g].status = goal[g].status
<1>0. GoalsInv' /\ GoalsInv
    BY GoalsInductive DEF OneThreadInv
<1>1. ASSUME NEW a \in Actors, ReadRow(a) \/ WriteRow(a)
      PROVE  /\ OneThreadInv'
             /\ \A g \in GoalIds : goal[g].status \in Closed => goal'[g].status = goal[g].status
    BY <1>0, <1>1, UpdateAlone
<1>2. ASSUME NEW a \in Actors,
             InsertGoal(a) \/ (a \in Cycling /\ Candidate(a)) \/ (a \in Tooling /\ ToolCreates(a))
      PROVE  /\ OneThreadInv'
             /\ \A g \in GoalIds : goal[g].status \in Closed => goal'[g].status = goal[g].status
    BY <1>0, <1>2, CreateAlone DEF Candidate, ToolCreates
<1>3. ASSUME NEW a \in Actors,
             \/ a \in Cycling /\ (StartCycle(a) \/ ExpireOne(a) \/ NoCandidate(a) \/ Activate(a)
                                  \/ LeaveProposed(a) \/ Select(a) \/ LinkReads(a)
                                  \/ LinkSuccess(a) \/ LinkFailure(a))
             \/ a \in Tooling /\ ToolUpdates(a)
      PROVE  OneThreadInv' /\ UNCHANGED goal
  <2>1. HasThread(a) /\ UNCHANGED <<goal, seen>> /\ pc[a] \notin Updating
    BY <1>3 DEF StartCycle, ExpireOne, NoCandidate, Activate, LeaveProposed, Select,
                LinkReads, LinkSuccess, LinkFailure, ToolUpdates, Updating
  <2>2. PICK p \in Places \ {"inserting"} : pc' = [pc EXCEPT ![a] = p]
    BY <1>3 DEF StartCycle, ExpireOne, NoCandidate, Activate, LeaveProposed, Select,
                LinkReads, LinkSuccess, LinkFailure, ToolUpdates, Begin, Goto, Places, Updating
  <2>3. p # "inserting"
    BY <2>2
  <2> QED BY <1>0, <2>1, <2>2, <2>3, ReadsNothing
<1>4. CASE UNCHANGED goalVars
    BY <1>0, <1>4 DEF goalVars, OneThreadInv, OneOpenPerTitle, AloneOnThread, StillSo, Similar
<1> QED BY <1>1, <1>2, <1>3, <1>4 DEF GoalsNext, Actors

\* On one thread no title is open twice and no error is invented, whatever
\* cycles and tools do to the goals in between (create_goal, update_goal).
THEOREM GoalsAgreeHolds == OneThread => (GoalsSpec => []GoalsAgree)
<1> SUFFICES ASSUME OneThread PROVE GoalsSpec => []GoalsAgree
    OBVIOUS
<1>1. OneThreadInv /\ [GoalsNext]_goalVars => OneThreadInv'
    BY OneThreadStep
<1>2. OneThreadInv => GoalsAgree
    BY DEF OneThreadInv, GoalsInv, GoalsAgree
<1> QED BY <1>1, <1>2, OneThreadStarts, PTL DEF GoalsSpec

\* And nothing that is closed is opened again (_ALLOWED_TRANSITIONS).
THEOREM ClosedStaysClosedHolds == OneThread => (GoalsSpec => ClosedStaysClosed)
<1> SUFFICES ASSUME OneThread PROVE GoalsSpec => ClosedStaysClosed
    OBVIOUS
<1>1. OneThreadInv /\ [GoalsNext]_goalVars => OneThreadInv'
    BY OneThreadStep
<1>2. OneThreadInv /\ [GoalsNext]_goalVars =>
        [\A g \in GoalIds : goal[g].status \in Closed
                                => goal'[g].status = goal[g].status]_goalVars
    BY OneThreadStep
<1> QED BY <1>1, <1>2, OneThreadStarts, PTL DEF GoalsSpec, ClosedStaysClosed

-------------------------------------------------------------------------------
(***************************************************************************)
(* MemoryItems                                                             *)
(***************************************************************************)
\* The counters of a row were counted together, and carry its tier.
Sound(r) ==
    /\ r.count = r.success + r.failure
    /\ r.tier = "stable" => r.count >= StableCount /\ r.success >= StableSuccess

\* A row of an item, on record or held by a thread, is sound: it counts no more
\* than was reinforced, and it says that it is indexed only when it is.
Kept(i, r) ==
    IsRow(r) =>
        /\ Sound(r)
        /\ r.kind = "fact" => r.count <= hits[i]
        /\ r.ref => i \in vectors

\* What a change of other columns leaves alone.
Alike(r, q) ==
    /\ q \in Row
    /\ q.kind = r.kind /\ q.count = r.count /\ q.ref = r.ref
    /\ Sound(r) => Sound(q)

LEMMA RowIsRow == ASSUME NEW r \in Row PROVE IsRow(r)
BY DEF Row, IsRow, NoRow

LEMMA FreshRow ==
    ASSUME epoch \in 0 .. Epochs, NEW tier \in {"transient", "developing"}, NEW contra \in Contras
    PROVE  LET r == NewRow(tier, contra)
           IN  /\ r \in Row /\ Sound(r) /\ r.count = 0 /\ r.success = 0 /\ r.failure = 0
               /\ ~r.ref /\ r.kind = "fact" /\ r.tier = tier
BY DEF NewRow, Row, Sound, Tiers

LEMMA RolledUp ==
    ASSUME epoch \in 0 .. Epochs, NEW inputs \in SUBSET Items
    PROVE  LET r == RollupRow(inputs)
           IN  r \in Row /\ Sound(r) /\ ~r.ref /\ r.kind = "rollup"
<1>1. Cardinality(inputs) \in Nat
    BY MemoryAssumption, FS_Subset, FS_CardinalityType
<1> DEFINE n == AtMost3(Cardinality(inputs))
<1>2. n \in Nat
    BY <1>1 DEF AtMost3
<1>3. PICK b \in Row : /\ b = NewRow("developing", "none") /\ b.failure = 0 /\ ~b.ref
                       /\ b.tier = "developing"
    BY FreshRow DEF Contras
<1>4. RollupRow(inputs) = [b EXCEPT !.kind = "rollup", !.count = n, !.success = n]
    BY <1>3 DEF RollupRow
<1> HIDE DEF n
<1>5. PICK r \in Row : r = [b EXCEPT !.kind = "rollup", !.count = n, !.success = n]
    BY <1>2 DEF Row
<1>6. r.kind = "rollup" /\ r.count = n /\ r.success = n /\ r.failure = 0 /\ ~r.ref
      /\ r.tier = "developing"
    BY <1>3, <1>5 DEF Row
<1> QED BY <1>2, <1>4, <1>5, <1>6 DEF Sound

\* apply_stability_evaluation moves the tier as the counters allow.
LEMMA EvaluatedAlike ==
    ASSUME epoch \in 0 .. Epochs, NEW r \in Row
    PROVE  Alike(r, Evaluated(r))
<1> USE MemoryAssumption
<1>1. Tier(r) \in Tiers
    BY DEF Tier, Tiers
<1>2. Sound(r) /\ Tier(r) = "stable" => r.count >= StableCount /\ r.success >= StableSuccess
  <2>1. r.tier \in Tiers
    BY DEF Row
  <2>2. CASE r.tier = "stable"
    BY <2>2 DEF Sound
  <2>3. CASE r.tier = "developing"
    BY <2>3 DEF Tier, Promotable
  <2>4. CASE r.tier = "transient"
    BY <2>4 DEF Tier
  <2> QED BY <2>1, <2>2, <2>3, <2>4 DEF Tiers
<1>3. PICK q \in Row : q = [r EXCEPT !.tier = Tier(r)]
    BY <1>1 DEF Row
<1>4. /\ q.kind = r.kind /\ q.count = r.count /\ q.success = r.success
      /\ q.failure = r.failure /\ q.ref = r.ref /\ q.tier = Tier(r)
    BY <1>3 DEF Row
<1>5. Bucket(q) \in {"live", "archive_candidate"}
    BY DEF Bucket, Row
<1>6. PICK p \in Row : p = [q EXCEPT !.bucket = Bucket(q)]
    BY <1>5 DEF Row
<1>7. /\ p.kind = q.kind /\ p.count = q.count /\ p.success = q.success
      /\ p.failure = q.failure /\ p.ref = q.ref /\ p.tier = q.tier
    BY <1>6 DEF Row
<1>8. PICK e \in Row : e = [p EXCEPT !.archived = TRUE]
    BY DEF Row
<1>9. /\ e.kind = p.kind /\ e.count = p.count /\ e.success = p.success
      /\ e.failure = p.failure /\ e.ref = p.ref /\ e.tier = p.tier
    BY <1>8 DEF Row
<1>10. Evaluated(r) \in {p, e}
    BY <1>3, <1>6, <1>8 DEF Evaluated
<1>11. Sound(r) => Sound(p) /\ Sound(e)
    BY <1>2, <1>4, <1>7, <1>9 DEF Sound
<1>12. Alike(r, p) /\ Alike(r, e)
    BY <1>4, <1>7, <1>9, <1>11 DEF Alike
<1> QED BY <1>10, <1>12

LEMMA EditedAlike ==
    ASSUME epoch \in 0 .. Epochs, NEW r \in Row, NEW edit \in Edits
    PROVE  Alike(r, Edited(r, edit))
<1>1. edit \in {"archive", "suppress", "unsuppress", "pin", "unpin", "touch", "supersede",
                "conflict"}
    BY MemoryAssumption
<1>2. /\ "superseded" \in Contras /\ "conflicted" \in Contras
    BY DEF Contras
<1>3. ASSUME NEW q, \/ q = [r EXCEPT !.archived = TRUE]
                    \/ q = [r EXCEPT !.suppressed = TRUE]
                    \/ q = [r EXCEPT !.suppressed = FALSE]
      PROVE  Alike(r, q)
    BY <1>3 DEF Alike, Sound, Row
<1>4. ASSUME NEW q, \/ q = [r EXCEPT !.pinned = TRUE]
                    \/ q = [r EXCEPT !.pinned = FALSE]
                    \/ q = [r EXCEPT !.touched = epoch]
      PROVE  Alike(r, q)
    BY <1>4 DEF Alike, Sound, Row
<1>5. ASSUME NEW q, \/ q = [r EXCEPT !.contra = "superseded"]
                    \/ q = [r EXCEPT !.contra = "conflicted"]
      PROVE  Alike(r, q)
    BY <1>2, <1>5 DEF Alike, Sound, Row
<1> QED BY <1>1, <1>3, <1>4, <1>5 DEF Edited

\* Other single columns that are set.
LEMMA ColumnSet ==
    ASSUME NEW r \in Row, NEW bucket \in {"live", "archive_candidate"}
    PROVE  /\ Alike(r, [r EXCEPT !.suppressed = TRUE])
           /\ Alike(r, [r EXCEPT !.bucket = bucket])
BY DEF Alike, Sound, Row

LEMMA Referred ==
    ASSUME NEW r \in Row
    PROVE  LET q == [r EXCEPT !.ref = TRUE]
           IN  q \in Row /\ q.kind = r.kind /\ q.count = r.count /\ q.ref /\ (Sound(r) => Sound(q))
BY DEF Sound, Row

\* reinforce_memory_item adds to the columns together.
LEMMA CountedTogether ==
    ASSUME epoch \in 0 .. Epochs, NEW r \in Row, NEW outcome \in {"success", "failure"}
    PROVE  LET q == Counted(r, outcome)
           IN  q \in Row /\ q.kind = r.kind /\ q.count = r.count + 1 /\ q.ref = r.ref
               /\ (Sound(r) => Sound(q))
<1> USE MemoryAssumption
<1> DEFINE s == r.success + (IF outcome = "success" THEN 1 ELSE 0)
           f == r.failure + (IF outcome = "failure" THEN 1 ELSE 0)
<1>1. /\ r.count + 1 \in Nat /\ s \in Nat /\ f \in Nat
      /\ r.count = r.success + r.failure => r.count + 1 = s + f
      /\ \A k \in Nat : /\ r.success >= k => s >= k
                        /\ r.count >= k => r.count + 1 >= k
    BY DEF Row
<1>2. Counted(r, outcome) = [r EXCEPT !.count = r.count + 1, !.success = s, !.failure = f,
                                      !.touched = epoch]
    BY DEF Counted
<1> HIDE DEF s, f
<1>3. PICK q \in Row : q = [r EXCEPT !.count = r.count + 1, !.success = s, !.failure = f,
                                     !.touched = epoch]
    BY <1>1 DEF Row
<1>4. /\ q.kind = r.kind /\ q.count = r.count + 1 /\ q.ref = r.ref /\ q.success = s
      /\ q.failure = f /\ q.tier = r.tier
    BY <1>3 DEF Row
<1> QED BY <1>1, <1>2, <1>3, <1>4 DEF Sound

---------------------------------------------------------------------------
\* The places of a thread where it holds nothing, where it holds the row of one
\* of its items, and where it is about one item.
Bare   == {"idle", "hit", "link", "job", "sweepRead", "sweep"}
OneOf  == {"reread", "evaluate", "jobSave", "jobRecord"}
Rolling == {"rollup", "rollupRecord", "rollupLinks"}
Single == {"insert", "vector", "saveRef", "record", "write", "link"} \cup Rolling
Holding == {"insert", "vector", "saveRef", "record", "write"} \cup Rolling

\* An item that is in no table yet: its maker is the only one to know it.
New(t) == IF at[t] \in {"insert", "rollup"} THEN todo[t] ELSE {}

HeldBy(t) == {j \in Items : IsRow(copy[t][j]) /\ j \notin todo[t]}

\* What a thread holds fits the tables, and it handles items that are in them.
CopiesFit(t) ==
    /\ \A i \in Items : Kept(i, copy[t][i])
    /\ \A i \in Items : IsRow(copy[t][i]) /\ IsRow(rows[i]) /\ at[t] # "reread" =>
          copy[t][i].kind = rows[i].kind
    /\ at[t] \in Bare => copy[t] = NoCopies
    /\ at[t] \in OneOf => \E i \in todo[t] : \A j \in Items \ {i} : copy[t][j] = NoRow
    /\ at[t] \in Holding => \A i \in todo[t] : IsRow(copy[t][i])
    /\ at[t] = "decay" => \A i \in Items : IsRow(copy[t][i]) <=> i \in todo[t]
    /\ at[t] \in {"jobSave", "jobRecord"} =>
          \A i \in Items : IsRow(copy[t][i]) => copy[t][i].ref
    /\ at[t] = "rollup" => \A i \in todo[t] : copy[t][i].kind = "rollup"

TasksFit(t) ==
    /\ at[t] \in Single => \E i \in Items : todo[t] = {i}
    /\ at[t] \notin {"insert", "rollup"} => \A i \in todo[t] : IsRow(rows[i])
    /\ at[t] = "write" => doing[t] \in Edits
    /\ at[t] \in {"hit", "reread", "evaluate"} => doing[t] \in {"success", "failure"}
    /\ at[t] = "saveRef" => doing[t] = "indexed" /\ todo[t] \subseteq vectors
    /\ at[t] = "record" =>
          \/ doing[t] = "pending"
          \/ doing[t] = "indexed" /\ todo[t] \subseteq vectors
    /\ at[t] \in Rolling => \A j \in HeldBy(t) : IsRow(rows[j])
    /\ at[t] = "rollupLinks" => \A i \in todo[t] : <<i, HeldBy(t)>> \in rollups

NewIsOwn ==
    \A t \in Threads : \A i \in New(t) :
        ~IsRow(rows[i]) /\ \A u \in Threads \ {t} : ~IsRow(copy[u][i])

JobsFit ==
    /\ \A i \in Items : jobs[i] # "none" => IsRow(rows[i])
    /\ \A i \in Items : jobs[i] = "indexed" => i \in vectors

LineageTyped ==
    links \subseteq {"refines", "supersedes"} \X Items \X Items /\ rollups \subseteq Items \X SUBSET Items

\* The rows are earned because every copy that is laid over them is.
MemInv ==
    /\ MemTypeOK
    /\ hits \in [Items -> Nat]
    /\ \A i \in Items : Kept(i, rows[i])
    /\ \A t \in Threads : CopiesFit(t) /\ TasksFit(t)
    /\ NewIsOwn
    /\ JobsFit
    /\ JobKnown
    /\ LineageTyped
    /\ LineageIsSound

LEMMA MemStarts == MemInit => MemInv
<1> SUFFICES ASSUME MemInit PROVE MemInv
    OBVIOUS
<1> USE MemoryAssumption DEF MemInit, NoCopies
<1>1. \A i \in Items : ~IsRow(rows[i]) /\ \A t \in Threads : ~IsRow(copy[t][i])
    BY DEF IsRow
<1>2. MemTypeOK /\ hits \in [Items -> Nat]
    BY DEF MemTypeOK, Steps, Doings
<1>3. \A i \in Items : Kept(i, rows[i])
    BY <1>1 DEF Kept
<1>4. \A t \in Threads : CopiesFit(t)
    BY <1>1 DEF CopiesFit, Kept, Bare, OneOf, Holding, Rolling
<1>5. \A t \in Threads : TasksFit(t)
    BY DEF TasksFit, Single, Rolling
<1>6. NewIsOwn /\ JobsFit /\ JobKnown
    BY <1>1 DEF NewIsOwn, New, JobsFit, JobKnown
<1>7. LineageTyped /\ LineageIsSound
    BY DEF LineageTyped, LineageIsSound
<1> QED BY <1>2, <1>3, <1>4, <1>5, <1>6, <1>7 DEF MemInv

\* What a step of a thread may do to the tables and to its own copies.
Advances(t) ==
    /\ \A i \in Items : IsRow(rows[i]) => IsRow(rows'[i]) /\ rows'[i].kind = rows[i].kind
    /\ \A i \in Items : ~IsRow(rows[i]) /\ IsRow(rows'[i]) => i \in New(t)
    /\ vectors \subseteq vectors' /\ rollups \subseteq rollups'
    /\ \A i \in Items : hits[i] <= hits'[i]
    /\ \A u \in Threads \ {t} :
          at'[u] = at[u] /\ todo'[u] = todo[u] /\ copy'[u] = copy[u] /\ doing'[u] = doing[u]

\* The other threads' parts hold on.
LEMMA OthersFit ==
    ASSUME MemInv, NEW t \in Threads, Advances(t), hits' \in [Items -> Nat],
           NEW u \in Threads \ {t}
    PROVE  CopiesFit(u)' /\ TasksFit(u)'
<1>1. CopiesFit(u) /\ TasksFit(u) /\ MemTypeOK /\ hits \in [Items -> Nat]
    BY DEF MemInv
<1>2. at'[u] = at[u] /\ todo'[u] = todo[u] /\ copy'[u] = copy[u] /\ doing'[u] = doing[u]
    BY DEF Advances
<1>3. \A i \in Items : Kept(i, copy[u][i])'
  <2> SUFFICES ASSUME NEW i \in Items, IsRow(copy[u][i]) PROVE Kept(i, copy[u][i])'
      BY <1>2 DEF Kept
  <2>1. Kept(i, copy[u][i]) /\ copy[u][i] \in Row
    BY <1>1 DEF CopiesFit, MemTypeOK, IsRow
  <2>2. hits[i] \in Nat /\ hits'[i] \in Nat /\ hits[i] <= hits'[i] /\ copy[u][i].count \in Nat
    BY <1>1, <2>1 DEF Advances, Row
  <2>3. copy[u][i].kind = "fact" => copy[u][i].count <= hits'[i]
    BY <2>1, <2>2 DEF Kept
  <2> QED BY <1>2, <2>1, <2>3 DEF Kept, Advances
<1>4. ASSUME NEW i \in Items, IsRow(copy[u][i]), IsRow(rows'[i]), at[u] # "reread"
      PROVE  copy[u][i].kind = rows'[i].kind
  <2>1. CASE IsRow(rows[i])
    BY <1>1, <1>4, <2>1 DEF CopiesFit, Advances
  <2>2. CASE ~IsRow(rows[i])
    BY <1>4, <2>2 DEF Advances, MemInv, NewIsOwn
  <2> QED BY <2>1, <2>2
<1>5. CopiesFit(u)'
    BY <1>1, <1>2, <1>3, <1>4 DEF CopiesFit
<1>6. todo[u] \subseteq Items
    BY <1>1 DEF MemTypeOK
<1>7. HeldBy(u)' = HeldBy(u) /\ HeldBy(u) \subseteq Items
    BY <1>2 DEF HeldBy
<1>8. TasksFit(u)'
    BY <1>1, <1>2, <1>6, <1>7 DEF TasksFit, Advances
<1> QED BY <1>5, <1>8

\* A step of one thread keeps the invariant when the tables and its own part do.
LEMMA OneThreadSteps ==
    ASSUME MemInv, NEW t \in Threads, Advances(t), MemTypeOK', hits' \in [Items -> Nat],
           \A i \in Items : Kept(i, rows[i])',
           CopiesFit(t)', TasksFit(t)',
           \A i \in Items : IsRow(copy'[t][i]) =>
               IsRow(copy[t][i]) \/ IsRow(rows[i]) \/ ~Taken(i),
           \A i \in New(t)' : ~IsRow(rows'[i]) /\ (i \in New(t) \/ ~Taken(i)),
           JobsFit', JobKnown', LineageTyped', LineageIsSound'
    PROVE  MemInv'
<1>1. \A u \in Threads : CopiesFit(u)' /\ TasksFit(u)'
    BY OthersFit
<1>2. ASSUME NEW u \in Threads \ {t}, NEW i \in New(u)'
      PROVE  ~IsRow(rows'[i]) /\ \A v \in Threads \ {u} : ~IsRow(copy'[v][i])
  <2>1. i \in New(u) /\ New(u)' = New(u)
    BY <1>2 DEF New, Advances
  <2>2. i \in Items
    BY <2>1 DEF New, MemInv, MemTypeOK
  <2>3. ~IsRow(rows[i]) /\ \A v \in Threads \ {u} : ~IsRow(copy[v][i])
    BY <2>1 DEF MemInv, NewIsOwn
  <2>4. IsRow(copy[u][i])
    BY <2>1 DEF New, MemInv, CopiesFit, Holding, Rolling
  <2>5. i \notin New(t)
    BY <2>1, <2>4 DEF MemInv, NewIsOwn
  <2>6. ~IsRow(rows'[i])
    BY <2>2, <2>3, <2>5 DEF Advances
  <2>7. ~IsRow(copy'[t][i])
    BY <2>2, <2>3, <2>4 DEF Taken
  <2> QED BY <2>3, <2>6, <2>7 DEF Advances
<1>3. ASSUME NEW i \in New(t)'
      PROVE  ~IsRow(rows'[i]) /\ \A v \in Threads \ {t} : ~IsRow(copy'[v][i])
  <2>1. ~IsRow(rows'[i])
    BY <1>3
  <2>2. CASE i \in New(t)
    BY <2>1, <2>2 DEF Advances, MemInv, NewIsOwn
  <2>3. CASE ~Taken(i)
    BY <2>1, <2>3 DEF Advances, Taken
  <2> QED BY <1>3, <2>2, <2>3
<1>4. NewIsOwn'
    BY <1>2, <1>3 DEF NewIsOwn
<1> QED BY <1>1, <1>4 DEF MemInv

\* A step of one thread, whose variables keep their shape.
StepOf(t) ==
    /\ at' = [at EXCEPT ![t] = at'[t]] /\ at'[t] \in Steps
    /\ todo' = [todo EXCEPT ![t] = todo'[t]] /\ todo'[t] \in SUBSET Items
    /\ copy' = [copy EXCEPT ![t] = copy'[t]] /\ copy'[t] \in [Items -> Row \cup {NoRow}]
    /\ doing' = [doing EXCEPT ![t] = doing'[t]] /\ doing'[t] \in Doings
    /\ todo'[t] = {} <=> at'[t] \in {"idle", "sweepRead", "decayRead"}
    /\ begun' \in 0 .. Begun /\ UNCHANGED <<epoch, cut>>

LEMMA TypedStep ==
    ASSUME MemInv, NEW t \in Threads, StepOf(t),
           rows' \in [Items -> Row \cup {NoRow}],
           jobs' \in [Items -> {"none", "pending", "failed", "stale", "indexed"}],
           vectors' \subseteq Items
    PROVE  /\ MemTypeOK'
           /\ \A u \in Threads \ {t} :
                 at'[u] = at[u] /\ todo'[u] = todo[u] /\ copy'[u] = copy[u] /\ doing'[u] = doing[u]
<1>1. MemTypeOK
    BY DEF MemInv
<1>2. \A u \in Threads \ {t} :
        at'[u] = at[u] /\ todo'[u] = todo[u] /\ copy'[u] = copy[u] /\ doing'[u] = doing[u]
    BY <1>1 DEF MemTypeOK, StepOf
<1>3. at' \in [Threads -> Steps] /\ todo' \in [Threads -> SUBSET Items] /\ doing' \in [Threads -> Doings]
    BY <1>1 DEF MemTypeOK, StepOf
<1>4. copy' \in [Threads -> [Items -> Row \cup {NoRow}]]
    BY <1>1 DEF MemTypeOK, StepOf
<1>5. \A u \in Threads : todo'[u] = {} <=> at'[u] \in {"idle", "sweepRead", "decayRead"}
    BY <1>1, <1>2 DEF MemTypeOK, StepOf
<1> QED BY <1>1, <1>2, <1>3, <1>4, <1>5 DEF MemTypeOK, StepOf

\* A step that reads the tables and writes none.
LEMMA ReadingStep ==
    ASSUME MemInv, NEW t \in Threads, StepOf(t),
           UNCHANGED <<tableVars, hits>>,
           CopiesFit(t)', TasksFit(t)',
           \A i \in InTheMaking(t) : i \in InTheMaking(t)' \/ ~IsRow(rows[i]),
           \A i \in Items : IsRow(copy'[t][i]) =>
               IsRow(copy[t][i]) \/ IsRow(rows[i]) \/ ~Taken(i),
           \A i \in New(t)' : i \in New(t) \/ ~Taken(i)
    PROVE  MemInv'
<1>1. MemTypeOK /\ hits \in [Items -> Nat]
    BY DEF MemInv
<1>2. /\ MemTypeOK'
      /\ \A u \in Threads \ {t} :
            at'[u] = at[u] /\ todo'[u] = todo[u] /\ copy'[u] = copy[u] /\ doing'[u] = doing[u]
    BY <1>1, TypedStep DEF tableVars, MemTypeOK
<1>3. Advances(t)
    BY <1>1, <1>2 DEF Advances, tableVars
<1>4. \A i \in New(t)' : ~IsRow(rows'[i])
    BY <1>2 DEF New, MemTypeOK, MemInv, NewIsOwn, Taken, tableVars
<1>5. \A i \in Items : Kept(i, rows[i])'
    BY DEF MemInv, Kept, tableVars
<1>6. JobsFit' /\ LineageTyped' /\ LineageIsSound'
    BY DEF MemInv, JobsFit, LineageTyped, LineageIsSound, tableVars
<1>7. JobKnown'
  <2>1. \A u \in Threads \ {t} : InTheMaking(u)' = InTheMaking(u)
    BY <1>2 DEF InTheMaking
  <2> QED BY <2>1 DEF MemInv, JobKnown, tableVars, StepOf
<1> QED BY <1>1, <1>2, <1>3, <1>4, <1>5, <1>6, <1>7, OneThreadSteps

\* A step that writes the row of one item, an earlier one or a new one.
LEMMA SavingStep ==
    ASSUME MemInv, NEW t \in Threads, StepOf(t),
           NEW i \in Items, NEW r \in Row, Save(i, r), Kept(i, r)',
           UNCHANGED <<jobs, vectors, rollups, links>>,
           hits' \in [Items -> Nat], \A j \in Items : hits[j] <= hits'[j],
           \/ IsRow(rows[i]) /\ r.kind = rows[i].kind
           \/ i \in New(t) /\ (r.kind = "fact" => i \in InTheMaking(t)'),
           InTheMaking(t) \subseteq InTheMaking(t)',
           CopiesFit(t)', TasksFit(t)',
           \A j \in Items : IsRow(copy'[t][j]) => IsRow(copy[t][j]) \/ IsRow(rows[j]),
           New(t)' = {}
    PROVE  MemInv'
<1>1. MemTypeOK /\ hits \in [Items -> Nat]
    BY DEF MemInv
<1>2. IsRow(r)
    BY RowIsRow
<1>3. /\ rows' \in [Items -> Row \cup {NoRow}] /\ rows'[i] = r
      /\ \A j \in Items \ {i} : rows'[j] = rows[j]
    BY <1>1 DEF Save, MemTypeOK
<1>4. /\ MemTypeOK'
      /\ \A u \in Threads \ {t} :
            at'[u] = at[u] /\ todo'[u] = todo[u] /\ copy'[u] = copy[u] /\ doing'[u] = doing[u]
    BY <1>1, <1>3, TypedStep DEF MemTypeOK
<1>5. \A j \in Items : IsRow(rows[j]) => IsRow(rows'[j]) /\ rows'[j].kind = rows[j].kind
    BY <1>2, <1>3 DEF MemInv, NewIsOwn
<1>6. Advances(t)
    BY <1>3, <1>4, <1>5 DEF Advances
<1>7. \A j \in Items : Kept(j, rows[j])'
  <2>1. ASSUME NEW j \in Items, j # i, IsRow(rows[j]) PROVE Kept(j, rows[j])'
    <3>1. rows[j] \in Row /\ Kept(j, rows[j]) /\ rows'[j] = rows[j]
      BY <1>1, <1>3, <2>1 DEF MemTypeOK, MemInv, IsRow
    <3>2. hits[j] \in Nat /\ hits'[j] \in Nat /\ hits[j] <= hits'[j] /\ rows[j].count \in Nat
      BY <1>1, <3>1 DEF Row
    <3>3. rows[j].kind = "fact" => rows[j].count <= hits'[j]
      BY <2>1, <3>1, <3>2 DEF Kept
    <3> QED BY <3>1, <3>3 DEF Kept
  <2>2. Kept(i, rows[i])'
    BY <1>3 DEF Kept
  <2> QED BY <1>3, <2>1, <2>2 DEF Kept
<1>8. JobsFit'
    BY <1>5 DEF MemInv, JobsFit
<1>9. JobKnown'
  <2>1. \A u \in Threads : InTheMaking(u) \subseteq InTheMaking(u)'
    BY <1>4 DEF InTheMaking
  <2> SUFFICES ASSUME NEW j \in Items, IsRow(rows'[j]), rows'[j].kind = "fact",
                      jobs'[j] = "none"
               PROVE  j \in cut' \/ \E u \in Threads : j \in InTheMaking(u)'
      BY DEF JobKnown
  <2>2. CASE IsRow(rows[j])
    <3>1. rows[j].kind = "fact"
      BY <1>5, <2>2
    <3>2. j \in cut \/ \E u \in Threads : j \in InTheMaking(u)
      BY <2>2, <3>1 DEF MemInv, JobKnown
    <3> QED BY <2>1, <3>2 DEF StepOf
  <2>3. CASE ~IsRow(rows[j])
    BY <1>3, <2>3
  <2> QED BY <2>2, <2>3
<1>10. LineageTyped'
    BY DEF MemInv, LineageTyped
<1>11. LineageIsSound'
  <2>1. \A l \in links : l[2] \in Items /\ l[3] \in Items
    BY DEF MemInv, LineageTyped
  <2>2. \A c \in rollups : c[1] \in Items
    BY DEF MemInv, LineageTyped
  <2> QED BY <1>5, <2>1, <2>2 DEF MemInv, LineageIsSound
<1>12. \A j \in Items : IsRow(copy'[t][j]) => IsRow(copy[t][j]) \/ IsRow(rows[j]) \/ ~Taken(j)
    OBVIOUS
<1>13. \A j \in New(t)' : ~IsRow(rows'[j]) /\ (j \in New(t) \/ ~Taken(j))
    OBVIOUS
<1> QED BY <1>4, <1>6, <1>7, <1>8, <1>9, <1>10, <1>11, <1>12, <1>13, OneThreadSteps

\* What the invariant says of one thread.
LEMMA Facts ==
    ASSUME MemInv, NEW t \in Threads
    PROVE  /\ MemTypeOK /\ hits \in [Items -> Nat] /\ CopiesFit(t) /\ TasksFit(t)
           /\ at[t] \in Steps /\ todo[t] \in SUBSET Items /\ doing[t] \in Doings
           /\ copy[t] \in [Items -> Row \cup {NoRow}]
           /\ todo[t] = {} <=> at[t] \in {"idle", "sweepRead", "decayRead"}
           /\ rows \in [Items -> Row \cup {NoRow}]
           /\ NoCopies \in [Items -> Row \cup {NoRow}]
BY DEF MemInv, MemTypeOK, NoCopies

\* The threads' variables are functions on the threads.
LEMMA Shapes ==
    ASSUME MemTypeOK
    PROVE  /\ at \in [Threads -> Steps] /\ todo \in [Threads -> SUBSET Items]
           /\ copy \in [Threads -> [Items -> Row \cup {NoRow}]] /\ doing \in [Threads -> Doings]
BY DEF MemTypeOK

\* The ways in which a thread keeps or changes what it holds and is about.
LEMMA Copies ==
    ASSUME MemTypeOK, NEW t \in Threads
    PROVE  /\ UNCHANGED copy => copy' = [copy EXCEPT ![t] = copy[t]]
           /\ UNCHANGED doing => doing' = [doing EXCEPT ![t] = doing[t]]
           /\ \A i \in Items : \A r : Hold(t, i, r) => copy' = [copy EXCEPT ![t] = [copy[t] EXCEPT ![i] = r]]
           /\ DropAll(t) => copy' = [copy EXCEPT ![t] = NoCopies]
           /\ UNCHANGED begun => begun' \in 0 .. Begun
           /\ Begins(t) => begun' \in 0 .. Begun
BY MemoryAssumption DEF MemTypeOK, Hold, DropAll, Begins

LEMMA BeginCreateKeeps == ASSUME MemInv, NEW t \in Threads, BeginCreate(t) PROVE MemInv'
<1>1. MemTypeOK /\ CopiesFit(t) /\ doing[t] \in Doings /\ hits \in [Items -> Nat]
    BY Facts
<1>2. PICK i \in Items, r \in Row : /\ ~Taken(i) /\ Sound(r) /\ r.count = 0 /\ ~r.ref
                                    /\ r.kind = "fact" /\ Hold(t, i, r) /\ Go(t, "insert", {i})
  <2>1. epoch \in 0 .. Epochs
    BY <1>1 DEF MemTypeOK
  <2>2. PICK i \in Items, tier \in {"transient", "developing"}, contra \in {"none", "suspected"} :
            ~Taken(i) /\ Hold(t, i, NewRow(tier, contra)) /\ Go(t, "insert", {i})
    BY DEF BeginCreate
  <2> QED BY <2>1, <2>2, FreshRow DEF Contras
<1> DEFINE held == [NoCopies EXCEPT ![i] = r]
<1>3. copy[t] = NoCopies /\ at[t] = "idle"
    BY <1>1 DEF BeginCreate, Begins, CopiesFit, Bare
<1>4. held \in [Items -> Row \cup {NoRow}] /\ held[i] = r /\ \A j \in Items \ {i} : held[j] = NoRow
    BY DEF NoCopies
<1>5. StepOf(t) /\ at'[t] = "insert" /\ todo'[t] = {i} /\ copy'[t] = held /\ doing'[t] = doing[t]
  <2>1. "insert" \in Steps /\ {i} \in SUBSET Items
    BY DEF Steps
  <2>2. copy' = [copy EXCEPT ![t] = held]
    BY <1>1, <1>2, <1>3, Copies
  <2>3. doing' = [doing EXCEPT ![t] = doing[t]] /\ begun' \in 0 .. Begun /\ UNCHANGED <<epoch, cut>>
    BY <1>1, Copies DEF BeginCreate, historyVars
  <2> HIDE DEF held
  <2> QED BY <1>1, <1>2, <1>4, <2>1, <2>2, <2>3, Shapes DEF Go, StepOf
<1> HIDE DEF held
<1>6. UNCHANGED <<tableVars, hits>>
    BY DEF BeginCreate, historyVars
<1>7. \A j \in Items : IsRow(held[j]) => j = i
    BY <1>4 DEF IsRow
<1>8. IsRow(r) /\ ~IsRow(rows[i])
    BY <1>2, RowIsRow DEF Taken
<1>9. CopiesFit(t)'
  <2>1. \A j \in Items : Kept(j, copy[t][j])'
    BY <1>1, <1>2, <1>4, <1>5, <1>6, <1>7 DEF Kept
  <2> QED BY <1>4, <1>5, <1>6, <1>7, <1>8, <2>1 DEF CopiesFit, Bare, OneOf, Holding, Rolling, tableVars
<1>10. TasksFit(t)'
    BY <1>5 DEF TasksFit, Single, Rolling
<1>11. \A j \in New(t)' : ~Taken(j)
    BY <1>2, <1>5 DEF New
<1>12. \A j \in Items : IsRow(copy'[t][j]) => ~Taken(j)
    BY <1>2, <1>5, <1>7
<1> QED BY <1>3, <1>5, <1>6, <1>9, <1>10, <1>11, <1>12, ReadingStep DEF InTheMaking

\* A thread that holds no row.
LEMMA EmptyFit ==
    ASSUME NEW t \in Threads, copy'[t] = NoCopies, at'[t] \notin OneOf \cup Holding \cup {"decay"}
    PROVE  CopiesFit(t)'
<1>1. \A i \in Items : copy'[t][i] = NoRow /\ ~IsRow(copy'[t][i])
    BY DEF NoCopies, IsRow
<1> QED BY <1>1 DEF CopiesFit, Kept, Holding, Rolling, OneOf, NoCopies

LEMMA BeginOutcomeKeeps == ASSUME MemInv, NEW t \in Threads, BeginOutcome(t) PROVE MemInv'
<1>1. MemTypeOK /\ CopiesFit(t) /\ copy[t] \in [Items -> Row \cup {NoRow}]
    BY Facts
<1>2. PICK ids \in SUBSET Items : ids # {} /\ Go(t, "hit", ids) /\ \A i \in ids : IsRow(rows[i])
    BY DEF BeginOutcome, Alive
<1>3. PICK outcome \in {"success", "failure"} : doing' = [doing EXCEPT ![t] = outcome]
    BY DEF BeginOutcome, Does
<1>4. copy[t] = NoCopies /\ at[t] = "idle"
    BY <1>1 DEF BeginOutcome, Begins, CopiesFit, Bare
<1>5. StepOf(t) /\ at'[t] = "hit" /\ todo'[t] = ids /\ copy'[t] = copy[t] /\ doing'[t] = outcome
  <2>1. "hit" \in Steps /\ outcome \in Doings
    BY DEF Steps, Doings
  <2>2. copy' = [copy EXCEPT ![t] = copy[t]] /\ begun' \in 0 .. Begun /\ UNCHANGED <<epoch, cut>>
    BY <1>1, Copies DEF BeginOutcome, historyVars
  <2> QED BY <1>1, <1>2, <1>3, <2>1, <2>2, Shapes DEF Go, StepOf
<1>6. UNCHANGED <<tableVars, hits>>
    BY DEF BeginOutcome, historyVars
<1>7. CopiesFit(t)'
    BY <1>4, <1>5, EmptyFit DEF OneOf, Holding, Rolling
<1>8. TasksFit(t)'
    BY <1>2, <1>5, <1>6 DEF TasksFit, Single, Rolling, tableVars
<1>9. New(t)' = {}
    BY <1>5 DEF New
<1> QED BY <1>4, <1>5, <1>6, <1>7, <1>8, <1>9, ReadingStep DEF InTheMaking

\* A thread that holds the row of one of its items holds no other.
LEMMA OnlyOne ==
    ASSUME MemInv, NEW t \in Threads, at[t] \in OneOf, NEW i \in todo[t], IsRow(copy[t][i])
    PROVE  /\ i \in Items /\ copy[t][i] \in Row /\ Kept(i, copy[t][i]) /\ IsRow(rows[i])
           /\ rows[i] \in Row /\ Kept(i, rows[i])
           /\ \A j \in Items \ {i} : copy[t][j] = NoRow /\ ~IsRow(copy[t][j])
           /\ at[t] # "reread" => copy[t][i].kind = rows[i].kind
<1>1. CopiesFit(t) /\ TasksFit(t) /\ i \in Items /\ copy[t] \in [Items -> Row \cup {NoRow}]
      /\ rows \in [Items -> Row \cup {NoRow}]
    BY Facts
<1>2. IsRow(rows[i])
    BY <1>1 DEF TasksFit, OneOf
<1> QED BY <1>1, <1>2 DEF CopiesFit, IsRow, MemInv

LEMMA RereadKeeps == ASSUME MemInv, NEW t \in Threads, Reread(t) PROVE MemInv'
<1>1. MemTypeOK /\ CopiesFit(t) /\ TasksFit(t) /\ copy[t] \in [Items -> Row \cup {NoRow}]
      /\ doing[t] \in Doings /\ todo[t] \in SUBSET Items /\ rows \in [Items -> Row \cup {NoRow}]
    BY Facts
<1>2. PICK i \in todo[t] : IsRow(copy[t][i]) /\ Hold(t, i, rows[i]) /\ Go(t, "evaluate", todo[t])
    BY DEF Reread
<1>3. at[t] = "reread" /\ at[t] \in OneOf
    BY DEF Reread, OneOf
<1>4. /\ i \in Items /\ IsRow(rows[i]) /\ rows[i] \in Row /\ Kept(i, rows[i])
      /\ \A j \in Items \ {i} : copy[t][j] = NoRow /\ ~IsRow(copy[t][j])
    BY <1>2, <1>3, OnlyOne
<1> DEFINE held == [copy[t] EXCEPT ![i] = rows[i]]
<1>5. held \in [Items -> Row \cup {NoRow}] /\ held[i] = rows[i]
      /\ \A j \in Items \ {i} : held[j] = NoRow /\ ~IsRow(held[j])
    BY <1>1, <1>4
<1> HIDE DEF held
<1>6. StepOf(t) /\ at'[t] = "evaluate" /\ todo'[t] = todo[t] /\ copy'[t] = held /\ doing'[t] = doing[t]
  <2>1. "evaluate" \in Steps /\ todo[t] # {}
    BY DEF Steps, Reread
  <2>2. copy' = [copy EXCEPT ![t] = held]
    BY <1>1, <1>2, <1>4, Copies DEF held
  <2>3. doing' = [doing EXCEPT ![t] = doing[t]] /\ begun' \in 0 .. Begun /\ UNCHANGED <<epoch, cut>>
    BY <1>1, Copies DEF Reread, historyVars
  <2> QED BY <1>1, <1>2, <1>5, <2>1, <2>2, <2>3, Shapes DEF Go, StepOf
<1>7. UNCHANGED <<tableVars, hits>>
    BY DEF Reread, historyVars
<1>8. CopiesFit(t)'
    BY <1>4, <1>5, <1>6, <1>7 DEF CopiesFit, Bare, OneOf, Holding, Rolling, tableVars, Kept
<1>9. TasksFit(t)'
    BY <1>1, <1>3, <1>6, <1>7 DEF TasksFit, Single, Rolling, tableVars
<1>10. New(t)' = {}
    BY <1>6 DEF New
<1>11. \A j \in Items : IsRow(copy'[t][j]) => IsRow(rows[j])
    BY <1>4, <1>5, <1>6
<1> QED BY <1>3, <1>6, <1>7, <1>8, <1>9, <1>10, <1>11, ReadingStep DEF InTheMaking

LEMMA BeginEditKeeps == ASSUME MemInv, NEW t \in Threads, BeginEdit(t) PROVE MemInv'
<1>1. MemTypeOK /\ CopiesFit(t) /\ rows \in [Items -> Row \cup {NoRow}]
      /\ NoCopies \in [Items -> Row \cup {NoRow}]
    BY Facts
<1>2. PICK i \in Items, edit \in Edits : /\ IsRow(rows[i]) /\ Hold(t, i, rows[i])
                                         /\ doing' = [doing EXCEPT ![t] = edit] /\ Go(t, "write", {i})
    BY DEF BeginEdit, Does
<1>3. copy[t] = NoCopies /\ at[t] = "idle"
    BY <1>1 DEF BeginEdit, Begins, CopiesFit, Bare
<1> DEFINE held == [NoCopies EXCEPT ![i] = rows[i]]
<1>4. held \in [Items -> Row \cup {NoRow}] /\ held[i] = rows[i]
      /\ \A j \in Items \ {i} : held[j] = NoRow /\ ~IsRow(held[j])
    BY <1>1 DEF NoCopies, IsRow
<1> HIDE DEF held
<1>5. StepOf(t) /\ at'[t] = "write" /\ todo'[t] = {i} /\ copy'[t] = held /\ doing'[t] = edit
  <2>1. "write" \in Steps /\ {i} \in SUBSET Items /\ edit \in Doings
    BY DEF Steps, Doings
  <2>2. copy' = [copy EXCEPT ![t] = held]
    BY <1>1, <1>2, <1>3, Shapes DEF held, Hold
  <2>3. begun' \in 0 .. Begun /\ UNCHANGED <<epoch, cut>>
    BY <1>1, Copies DEF BeginEdit, historyVars
  <2> QED BY <1>1, <1>2, <1>4, <2>1, <2>2, <2>3, Shapes DEF Go, StepOf
<1>6. UNCHANGED <<tableVars, hits>>
    BY DEF BeginEdit, historyVars
<1>7. Kept(i, rows[i])
    BY DEF MemInv
<1>8. CopiesFit(t)'
  <2>1. \A j \in Items : Kept(j, copy[t][j])'
    BY <1>4, <1>5, <1>6, <1>7 DEF tableVars, Kept
  <2> QED BY <1>2, <1>4, <1>5, <1>6, <2>1 DEF CopiesFit, Bare, OneOf, Holding, Rolling, tableVars
<1>9. TasksFit(t)'
    BY <1>2, <1>5, <1>6 DEF TasksFit, Single, Rolling, tableVars
<1>10. New(t)' = {}
    BY <1>5 DEF New
<1>11. \A j \in Items : IsRow(copy'[t][j]) => IsRow(rows[j])
    BY <1>2, <1>4, <1>5
<1> QED BY <1>3, <1>5, <1>6, <1>8, <1>9, <1>10, <1>11, ReadingStep DEF InTheMaking

LEMMA BeginIndexingKeeps == ASSUME MemInv, NEW t \in Threads, BeginIndexing(t) PROVE MemInv'
<1>1. MemTypeOK /\ CopiesFit(t) /\ copy[t] \in [Items -> Row \cup {NoRow}] /\ doing[t] \in Doings
    BY Facts
<1>2. PICK due \in SUBSET Items : due = Due /\ due # {} /\ Go(t, "job", due)
    BY DEF BeginIndexing, Due
<1>3. copy[t] = NoCopies /\ at[t] = "idle"
    BY <1>1 DEF BeginIndexing, Begins, CopiesFit, Bare
<1>4. StepOf(t) /\ at'[t] = "job" /\ todo'[t] = due /\ copy'[t] = copy[t] /\ doing'[t] = doing[t]
  <2>1. "job" \in Steps
    BY DEF Steps
  <2>2. copy' = [copy EXCEPT ![t] = copy[t]] /\ doing' = [doing EXCEPT ![t] = doing[t]]
        /\ begun' \in 0 .. Begun /\ UNCHANGED <<epoch, cut>>
    BY <1>1, Copies DEF BeginIndexing, historyVars
  <2> QED BY <1>1, <1>2, <2>1, <2>2, Shapes DEF Go, StepOf
<1>5. UNCHANGED <<tableVars, hits>>
    BY DEF BeginIndexing, historyVars
<1>6. CopiesFit(t)'
    BY <1>3, <1>4, EmptyFit DEF OneOf, Holding, Rolling
<1>7. \A i \in Due : IsRow(rows[i])
    BY DEF Due, MemInv, JobsFit
<1>8. TasksFit(t)'
    BY <1>2, <1>4, <1>5, <1>7 DEF TasksFit, Single, Rolling, tableVars
<1>9. New(t)' = {}
    BY <1>4 DEF New
<1> QED BY <1>3, <1>4, <1>5, <1>6, <1>8, <1>9, ReadingStep DEF InTheMaking

LEMMA SweepReadKeeps == ASSUME MemInv, SweepRead PROVE MemInv'
<1> Worker \in Threads
    BY DEF Threads
<1>1. MemTypeOK /\ CopiesFit(Worker) /\ copy[Worker] \in [Items -> Row \cup {NoRow}]
      /\ doing[Worker] \in Doings
    BY Facts
<1>2. PICK low \in SUBSET Forgettable : Go(Worker, IF low = {} THEN "decayRead" ELSE "sweep", low)
    BY DEF SweepRead
<1>3. low \in SUBSET Items /\ \A i \in low : IsRow(rows[i])
    BY DEF Forgettable, Alive
<1> DEFINE where == IF low = {} THEN "decayRead" ELSE "sweep"
<1>4. copy[Worker] = NoCopies /\ at[Worker] = "sweepRead"
    BY <1>1 DEF SweepRead, CopiesFit, Bare
<1>5. StepOf(Worker) /\ at'[Worker] = where /\ todo'[Worker] = low /\ copy'[Worker] = copy[Worker]
      /\ doing'[Worker] = doing[Worker]
  <2>1. where \in Steps /\ (low = {} <=> where \in {"idle", "sweepRead", "decayRead"})
    BY DEF Steps
  <2>2. copy' = [copy EXCEPT ![Worker] = copy[Worker]]
        /\ doing' = [doing EXCEPT ![Worker] = doing[Worker]]
        /\ begun' \in 0 .. Begun /\ UNCHANGED <<epoch, cut>>
    BY <1>1, Copies DEF SweepRead, historyVars
  <2>3. Go(Worker, where, low)
    BY <1>2
  <2> HIDE DEF where
  <2> QED BY <1>1, <1>3, <2>1, <2>2, <2>3, Shapes DEF Go, StepOf
<1>6. UNCHANGED <<tableVars, hits>>
    BY DEF SweepRead, historyVars
<1>7. CopiesFit(Worker)'
    BY <1>4, <1>5, EmptyFit DEF OneOf, Holding, Rolling
<1>8. TasksFit(Worker)'
    BY <1>3, <1>5, <1>6 DEF TasksFit, Single, Rolling, tableVars
<1>9. New(Worker)' = {}
    BY <1>5 DEF New
<1> QED BY <1>4, <1>5, <1>6, <1>7, <1>8, <1>9, ReadingStep DEF InTheMaking

LEMMA DecayReadKeeps == ASSUME MemInv, DecayRead PROVE MemInv'
<1> Worker \in Threads
    BY DEF Threads
<1>1. MemTypeOK /\ rows \in [Items -> Row \cup {NoRow}] /\ doing[Worker] \in Doings
    BY Facts
<1> DEFINE held == [i \in Items |-> IF Alive(i) THEN rows[i] ELSE NoRow]
           alive == {i \in Items : Alive(i)}
           where == IF \E i \in Items : Alive(i) THEN "decay" ELSE "idle"
<1>2. held \in [Items -> Row \cup {NoRow}] /\ alive \in SUBSET Items
      /\ where \in Steps /\ (alive = {} <=> where \in {"idle", "sweepRead", "decayRead"})
    BY <1>1 DEF Steps
<1>3. copy' = [copy EXCEPT ![Worker] = held] /\ Go(Worker, where, alive) /\ at[Worker] = "decayRead"
    BY DEF DecayRead
<1>4. \A i \in Items : /\ IsRow(held[i]) <=> i \in alive
                       /\ i \in alive => IsRow(rows[i]) /\ held[i] = rows[i]
                       /\ i \notin alive => held[i] = NoRow
    BY DEF Alive, IsRow
<1>5. where = "decay" \/ (where = "idle" /\ alive = {})
    OBVIOUS
<1> HIDE DEF held, alive, where
<1>6. StepOf(Worker) /\ at'[Worker] = where /\ todo'[Worker] = alive /\ copy'[Worker] = held
      /\ doing'[Worker] = doing[Worker]
  <2>1. doing' = [doing EXCEPT ![Worker] = doing[Worker]]
        /\ begun' \in 0 .. Begun /\ UNCHANGED <<epoch, cut>>
    BY <1>1, Copies DEF DecayRead, historyVars
  <2> QED BY <1>1, <1>2, <1>3, <2>1, Shapes DEF Go, StepOf
<1>7. UNCHANGED <<tableVars, hits>>
    BY DEF DecayRead, historyVars
<1>8. \A i \in Items : Kept(i, copy[Worker][i])'
    BY <1>4, <1>6, <1>7 DEF MemInv, Kept, IsRow, tableVars
<1>9. alive = {} => held = NoCopies
    BY <1>2, <1>4 DEF NoCopies
<1>10. CopiesFit(Worker)'
    BY <1>2, <1>4, <1>5, <1>6, <1>7, <1>8, <1>9 DEF CopiesFit, Bare, OneOf, Holding, Rolling, tableVars, Kept
<1>11. TasksFit(Worker)'
  <2>1. \A i \in alive : IsRow(rows'[i])
    BY <1>2, <1>4, <1>7 DEF tableVars
  <2> QED BY <1>5, <1>6, <2>1 DEF TasksFit, Single, Rolling
<1>12. New(Worker)' = {}
    BY <1>5, <1>6 DEF New
<1>13. \A i \in Items : IsRow(copy'[Worker][i]) => IsRow(rows[i])
    BY <1>4, <1>6
<1> QED BY <1>3, <1>6, <1>7, <1>10, <1>11, <1>12, <1>13, ReadingStep DEF InTheMaking

LEMMA BeginRoundKeeps == ASSUME MemInv, BeginRound PROVE MemInv'
<1> Worker \in Threads
    BY DEF Threads
<1>1. MemTypeOK /\ CopiesFit(Worker) /\ TasksFit(Worker) /\ copy[Worker] \in [Items -> Row \cup {NoRow}]
      /\ doing[Worker] \in Doings /\ hits \in [Items -> Nat] /\ rows \in [Items -> Row \cup {NoRow}]
    BY Facts
<1>2. copy[Worker] = NoCopies /\ at[Worker] = "idle"
    BY <1>1 DEF BeginRound, CopiesFit, Bare
<1>3. UNCHANGED <<tableVars, hits>> /\ UNCHANGED <<epoch, cut>> /\ begun' \in 0 .. Begun
  <2>1. Begun \in Nat /\ begun \in 0 .. Begun
    BY <1>1, MemoryAssumption DEF MemTypeOK
  <2> QED BY <2>1 DEF BeginRound, historyVars
<1>4. doing' = [doing EXCEPT ![Worker] = doing[Worker]]
    BY <1>1, Shapes DEF BeginRound
<1>5. CASE Go(Worker, "sweepRead", {}) /\ UNCHANGED copy
  <2>1. copy' = [copy EXCEPT ![Worker] = copy[Worker]]
    BY <1>1, <1>5, Shapes
  <2>2. StepOf(Worker) /\ at'[Worker] = "sweepRead" /\ todo'[Worker] = {}
        /\ copy'[Worker] = copy[Worker] /\ doing'[Worker] = doing[Worker]
    BY <1>1, <1>3, <1>4, <1>5, <2>1, Shapes DEF Go, StepOf, Steps
  <2>3. CopiesFit(Worker)'
    BY <1>2, <2>2, EmptyFit DEF OneOf, Holding, Rolling
  <2>4. TasksFit(Worker)'
    BY <2>2 DEF TasksFit, Single, Rolling
  <2>5. New(Worker)' = {}
    BY <2>2 DEF New
  <2> QED BY <1>2, <1>3, <2>2, <2>3, <2>4, <2>5, ReadingStep DEF InTheMaking
<1>6. ASSUME NEW i \in Items, ~Taken(i), Go(Worker, "rollup", {i}),
             copy' = [copy EXCEPT ![Worker] =
                        [j \in Items |-> IF j = i THEN RollupRow(Inputs)
                                         ELSE IF j \in Inputs THEN rows[j] ELSE NoRow]]
      PROVE  MemInv'
  <2>1. PICK r \in Row : r = RollupRow(Inputs) /\ Sound(r) /\ ~r.ref /\ r.kind = "rollup"
    <3>1. epoch \in 0 .. Epochs /\ Inputs \in SUBSET Items
      BY <1>1 DEF MemTypeOK, Inputs
    <3> QED BY <3>1, RolledUp
  <2>2. PICK inputs \in SUBSET Items : inputs = Inputs
    BY DEF Inputs
  <2>3. \A j \in inputs : IsRow(rows[j]) /\ rows[j] \in Row
    BY <1>1, <2>2 DEF Inputs, Alive, IsRow
  <2>4. IsRow(r) /\ ~IsRow(rows[i]) /\ i \notin inputs
    BY <1>6, <2>1, <2>3, RowIsRow DEF Taken
  <2> DEFINE held == [j \in Items |-> IF j = i THEN r ELSE IF j \in inputs THEN rows[j] ELSE NoRow]
  <2>5. held \in [Items -> Row \cup {NoRow}] /\ held[i] = r
        /\ (\A j \in inputs : held[j] = rows[j])
        /\ \A j \in Items \ {i} : j \notin inputs => held[j] = NoRow /\ ~IsRow(held[j])
    BY <2>3, <2>4 DEF IsRow
  <2>6. copy' = [copy EXCEPT ![Worker] = held]
    BY <1>6, <2>1, <2>2
  <2> HIDE DEF held
  <2>7. StepOf(Worker) /\ at'[Worker] = "rollup" /\ todo'[Worker] = {i}
        /\ copy'[Worker] = held /\ doing'[Worker] = doing[Worker]
    <3>1. "rollup" \in Steps
      BY DEF Steps
    <3> QED BY <1>1, <1>3, <1>4, <1>6, <2>5, <2>6, <3>1, Shapes DEF Go, StepOf
  <2>8. \A j \in Items : Kept(j, copy[Worker][j])'
    <3>1. \A j \in inputs : Kept(j, rows[j])
      BY DEF MemInv
    <3> QED BY <1>3, <2>1, <2>3, <2>4, <2>5, <2>7, <3>1 DEF Kept, tableVars
  <2>9. CopiesFit(Worker)'
    BY <1>3, <2>1, <2>4, <2>5, <2>7, <2>8 DEF CopiesFit, Bare, OneOf, Holding, Rolling, tableVars
  <2>10. HeldBy(Worker)' \subseteq inputs
    BY <2>5, <2>7 DEF HeldBy
  <2>11. TasksFit(Worker)'
    BY <1>3, <2>3, <2>7, <2>10 DEF TasksFit, Single, Rolling, tableVars
  <2>12. \A j \in New(Worker)' : ~Taken(j)
    BY <1>6, <2>7 DEF New
  <2>13. \A j \in Items : IsRow(copy'[Worker][j]) => IsRow(rows[j]) \/ ~Taken(j)
    BY <1>6, <2>3, <2>5, <2>7
  <2> QED BY <1>2, <1>3, <2>7, <2>9, <2>11, <2>12, <2>13, ReadingStep DEF InTheMaking
<1> QED BY <1>5, <1>6 DEF BeginRound

\* What a save of the tables' other columns leaves as it is.
LEMMA KeptAlike ==
    ASSUME NEW i, NEW r, NEW q, Alike(r, q), IsRow(r), Kept(i, r), UNCHANGED <<vectors, hits>>
    PROVE  Kept(i, q)'
BY DEF Alike, Kept

LEMMA SavedRow ==
    ASSUME MemTypeOK, NEW i \in Items, NEW r, Save(i, r)
    PROVE  rows'[i] = r /\ \A j \in Items \ {i} : rows'[j] = rows[j]
BY DEF MemTypeOK, Save

LEMMA InsertKeeps == ASSUME MemInv, NEW t \in Threads, Insert(t) PROVE MemInv'
<1>1. MemTypeOK /\ CopiesFit(t) /\ TasksFit(t) /\ copy[t] \in [Items -> Row \cup {NoRow}]
      /\ doing[t] \in Doings /\ hits \in [Items -> Nat] /\ NoCopies \in [Items -> Row \cup {NoRow}]
    BY Facts
<1>2. at[t] = "insert" /\ "vector" \in Steps /\ "idle" \in Steps
    BY DEF Insert, Steps
<1>3. PICK i \in Items : todo[t] = {i}
    BY <1>1, <1>2 DEF TasksFit, Single
<1>4. PICK r \in Row : r = copy[t][i] /\ IsRow(r) /\ Kept(i, r)
    BY <1>1, <1>2, <1>3 DEF CopiesFit, Holding, IsRow
<1>5. ~IsRow(rows[i]) /\ New(t) = {i} /\ InTheMaking(t) = {i}
    BY <1>2, <1>3 DEF MemInv, NewIsOwn, New, InTheMaking
<1>6. UNCHANGED <<jobs, vectors, rollups, links, epoch, hits, cut>> /\ begun' \in 0 .. Begun
      /\ doing' = [doing EXCEPT ![t] = doing[t]]
  <2>1. UNCHANGED <<jobs, vectors, rollups, links, doing, begun, epoch, hits, cut>>
    BY DEF Insert, historyVars
  <2> QED BY <1>1, <2>1, Copies
<1>7. CASE Save(i, r) /\ Go(t, "vector", {i}) /\ UNCHANGED copy
  <2>1. copy' = [copy EXCEPT ![t] = copy[t]]
    BY <1>1, <1>7, Shapes
  <2>2. StepOf(t) /\ at'[t] = "vector" /\ todo'[t] = {i} /\ copy'[t] = copy[t] /\ doing'[t] = doing[t]
    BY <1>1, <1>2, <1>3, <1>6, <1>7, <2>1, Shapes DEF Go, StepOf
  <2>3. rows'[i] = r /\ \A j \in Items \ {i} : rows'[j] = rows[j]
    BY <1>1, <1>7, SavedRow
  <2>4. Kept(i, r)'
    BY <1>4, <1>6 DEF Kept
  <2>5. CopiesFit(t)'
    <3>1. \A j \in Items : Kept(j, copy[t][j])'
      BY <1>1, <1>6, <2>2 DEF CopiesFit, Kept
    <3> QED BY <1>1, <1>2, <1>4, <2>2, <2>3, <3>1 DEF CopiesFit, Bare, OneOf, Holding, Rolling
  <2>6. TasksFit(t)'
    BY <1>4, <2>2, <2>3 DEF TasksFit, Single, Rolling
  <2>7. New(t)' = {} /\ InTheMaking(t)' = {i}
    BY <2>2 DEF New, InTheMaking
  <2>8. \A j \in Items : hits[j] <= hits'[j]
    BY <1>1, <1>6
  <2>9. \A j \in Items : IsRow(copy'[t][j]) => IsRow(copy[t][j]) \/ IsRow(rows[j])
    BY <2>2
  <2> QED BY <1>1, <1>5, <1>6, <1>7, <2>2, <2>4, <2>5, <2>6, <2>7, <2>8, <2>9, SavingStep
<1>8. CASE Go(t, "idle", {}) /\ DropAll(t) /\ UNCHANGED rows
  <2>1. StepOf(t) /\ at'[t] = "idle" /\ todo'[t] = {} /\ copy'[t] = NoCopies /\ doing'[t] = doing[t]
    BY <1>1, <1>2, <1>6, <1>8, Shapes DEF Go, DropAll, StepOf
  <2>2. CopiesFit(t)'
    BY <2>1, EmptyFit DEF OneOf, Holding, Rolling
  <2>3. TasksFit(t)'
    BY <2>1 DEF TasksFit, Single, Rolling
  <2>4. New(t)' = {} /\ \A j \in Items : ~IsRow(copy'[t][j])
    BY <2>1 DEF New, NoCopies, IsRow
  <2> QED BY <1>5, <1>6, <1>8, <2>1, <2>2, <2>3, <2>4, ReadingStep DEF tableVars
<1> QED BY <1>3, <1>4, <1>7, <1>8 DEF Insert

LEMMA SaveRefKeeps == ASSUME MemInv, NEW t \in Threads, SaveRef(t) PROVE MemInv'
<1>1. MemTypeOK /\ CopiesFit(t) /\ TasksFit(t) /\ copy[t] \in [Items -> Row \cup {NoRow}]
      /\ doing[t] \in Doings /\ hits \in [Items -> Nat]
    BY Facts
<1>2. at[t] = "saveRef" /\ "record" \in Steps
    BY DEF SaveRef, Steps
<1>3. PICK i \in Items : todo[t] = {i}
    BY <1>1, <1>2 DEF TasksFit, Single
<1>4. PICK r \in Row : r = copy[t][i] /\ IsRow(r) /\ Kept(i, r)
    BY <1>1, <1>2, <1>3 DEF CopiesFit, Holding, IsRow
<1>5. IsRow(rows[i]) /\ r.kind = rows[i].kind /\ InTheMaking(t) = {i}
    BY <1>1, <1>2, <1>3, <1>4 DEF TasksFit, CopiesFit, InTheMaking
<1>6. UNCHANGED <<jobs, vectors, rollups, links, epoch, hits, cut>> /\ begun' \in 0 .. Begun
      /\ doing' = [doing EXCEPT ![t] = doing[t]] /\ copy' = [copy EXCEPT ![t] = copy[t]]
    BY <1>1, Copies DEF SaveRef, historyVars
<1>7. StepOf(t) /\ at'[t] = "record" /\ todo'[t] = {i} /\ copy'[t] = copy[t] /\ doing'[t] = doing[t]
  <2>1. at' = [at EXCEPT ![t] = "record"] /\ todo' = [todo EXCEPT ![t] = {i}]
    BY <1>3 DEF SaveRef, Go
  <2> QED BY <1>1, <1>2, <1>6, <2>1, Shapes DEF StepOf
<1>8. New(t)' = {} /\ InTheMaking(t)' = {i}
    BY <1>7 DEF New, InTheMaking
<1>9. \A j \in Items : Kept(j, copy[t][j])'
    BY <1>1, <1>6, <1>7 DEF CopiesFit, Kept
<1>10. doing[t] = "indexed" /\ {i} \subseteq vectors
    BY <1>1, <1>2, <1>3 DEF TasksFit
<1>11. CASE Save(i, r)
  <2>1. rows'[i] = r /\ \A j \in Items \ {i} : rows'[j] = rows[j]
    BY <1>1, <1>11, SavedRow
  <2>2. Kept(i, r)'
    BY <1>4, <1>6 DEF Kept
  <2>3. CopiesFit(t)'
    BY <1>1, <1>2, <1>4, <1>7, <1>9, <2>1 DEF CopiesFit, Bare, OneOf, Holding, Rolling
  <2>4. TasksFit(t)'
    BY <1>4, <1>6, <1>7, <1>10, <2>1 DEF TasksFit, Single, Rolling
  <2>5. \A j \in Items : hits[j] <= hits'[j]
    BY <1>1, <1>6
  <2>6. \A j \in Items : IsRow(copy'[t][j]) => IsRow(copy[t][j]) \/ IsRow(rows[j])
    BY <1>7
  <2> QED BY <1>1, <1>5, <1>6, <1>7, <1>8, <1>11, <2>2, <2>3, <2>4, <2>5, <2>6, SavingStep
<1>12. CASE UNCHANGED rows
  <2>1. CopiesFit(t)'
    BY <1>1, <1>2, <1>3, <1>4, <1>7, <1>9, <1>12 DEF CopiesFit, Bare, OneOf, Holding, Rolling
  <2>2. TasksFit(t)'
    BY <1>5, <1>6, <1>7, <1>10, <1>12 DEF TasksFit, Single, Rolling
  <2> QED BY <1>5, <1>6, <1>7, <1>8, <1>12, <2>1, <2>2, ReadingStep DEF tableVars
<1> QED BY <1>3, <1>4, <1>11, <1>12 DEF SaveRef

LEMMA HitKeeps == ASSUME MemInv, NEW t \in Threads, Hit(t) PROVE MemInv'
<1>1. MemTypeOK /\ CopiesFit(t) /\ TasksFit(t) /\ copy[t] \in [Items -> Row \cup {NoRow}]
      /\ doing[t] \in Doings /\ hits \in [Items -> Nat] /\ todo[t] \in SUBSET Items
      /\ NoCopies \in [Items -> Row \cup {NoRow}] /\ rows \in [Items -> Row \cup {NoRow}]
    BY Facts
<1>2. at[t] = "hit" /\ "reread" \in Steps /\ todo[t] # {}
    BY DEF Hit, Steps
<1>3. PICK i \in todo[t] : /\ Save(i, Counted(rows[i], doing[t])) /\ hits' = [hits EXCEPT ![i] = @ + 1]
                           /\ Hold(t, i, NewRow("transient", "none")) /\ Go(t, "reread", todo[t])
    BY DEF Hit
<1>4. i \in Items /\ IsRow(rows[i]) /\ rows[i] \in Row /\ Kept(i, rows[i])
    BY <1>1, <1>2 DEF TasksFit, MemInv, IsRow
<1>5. copy[t] = NoCopies /\ doing[t] \in {"success", "failure"} /\ epoch \in 0 .. Epochs
    BY <1>1, <1>2 DEF CopiesFit, Bare, TasksFit, MemTypeOK
<1>6. PICK r \in Row : /\ r = Counted(rows[i], doing[t]) /\ r.kind = rows[i].kind
                       /\ r.count = rows[i].count + 1 /\ r.ref = rows[i].ref
                       /\ Sound(rows[i]) => Sound(r)
    BY <1>4, <1>5, CountedTogether
<1>7. PICK n \in Row : n = NewRow("transient", "none") /\ Sound(n) /\ n.count = 0 /\ ~n.ref
    BY <1>5, FreshRow DEF Contras
<1> DEFINE held == [NoCopies EXCEPT ![i] = n]
<1>8. held \in [Items -> Row \cup {NoRow}] /\ held[i] = n
      /\ \A j \in Items \ {i} : held[j] = NoRow /\ ~IsRow(held[j])
    BY <1>1, <1>4 DEF NoCopies, IsRow
<1>9. copy' = [copy EXCEPT ![t] = held]
    BY <1>1, <1>3, <1>5, <1>7, Shapes DEF Hold
<1> HIDE DEF held
<1>10. UNCHANGED <<jobs, vectors, rollups, links, epoch, cut>> /\ begun' \in 0 .. Begun
       /\ doing' = [doing EXCEPT ![t] = doing[t]]
    BY <1>1, Copies DEF Hit
<1>11. StepOf(t) /\ at'[t] = "reread" /\ todo'[t] = todo[t] /\ copy'[t] = held /\ doing'[t] = doing[t]
    BY <1>1, <1>2, <1>3, <1>8, <1>9, <1>10, Shapes DEF Go, StepOf
<1>12. hits' \in [Items -> Nat] /\ hits'[i] = hits[i] + 1 /\ \A j \in Items : hits[j] <= hits'[j]
    BY <1>1, <1>3, <1>4
<1>13. Save(i, r) /\ rows'[i] = r /\ IsRow(r) /\ \A j \in Items \ {i} : rows'[j] = rows[j]
    BY <1>1, <1>3, <1>4, <1>6, SavedRow, RowIsRow
<1>14. Kept(i, r)'
  <2>1. rows[i].count \in Nat /\ hits[i] \in Nat
    BY <1>1, <1>4 DEF Row
  <2>2. r.kind = "fact" => r.count <= hits'[i]
    BY <1>4, <1>6, <1>12, <2>1 DEF Kept
  <2> QED BY <1>4, <1>6, <1>10, <2>2 DEF Kept
<1>15. Kept(i, n)'
    BY <1>4, <1>7, <1>12 DEF Kept
<1>16. CopiesFit(t)'
  <2>1. \A j \in Items : Kept(j, copy[t][j])'
    BY <1>8, <1>11, <1>15 DEF Kept
  <2> QED BY <1>3, <1>8, <1>11, <2>1 DEF CopiesFit, Bare, OneOf, Holding, Rolling
<1>17. TasksFit(t)'
  <2>1. \A j \in todo[t] : IsRow(rows'[j])
    BY <1>1, <1>2, <1>13 DEF TasksFit
  <2> QED BY <1>5, <1>11, <2>1 DEF TasksFit, Single, Rolling
<1>18. New(t)' = {} /\ InTheMaking(t) = {}
    BY <1>2, <1>11 DEF New, InTheMaking
<1>19. \A j \in Items : IsRow(copy'[t][j]) => IsRow(rows[j])
    BY <1>4, <1>8, <1>11
<1> QED BY <1>4, <1>6, <1>10, <1>11, <1>12, <1>13, <1>14, <1>16, <1>17, <1>18, <1>19, SavingStep

LEMMA EvaluateKeeps == ASSUME MemInv, NEW t \in Threads, Evaluate(t) PROVE MemInv'
<1>1. MemTypeOK /\ CopiesFit(t) /\ TasksFit(t) /\ copy[t] \in [Items -> Row \cup {NoRow}]
      /\ doing[t] \in Doings /\ hits \in [Items -> Nat] /\ todo[t] \in SUBSET Items
      /\ NoCopies \in [Items -> Row \cup {NoRow}]
    BY Facts
<1>2. at[t] = "evaluate" /\ at[t] \in OneOf
    BY DEF Evaluate, OneOf
<1>3. PICK i \in todo[t] : IsRow(copy[t][i]) /\ Save(i, Evaluated(copy[t][i])) /\ Hold(t, i, NoRow)
                           /\ Loop(t, "hit", i)
    BY DEF Evaluate
<1>4. /\ i \in Items /\ copy[t][i] \in Row /\ Kept(i, copy[t][i]) /\ IsRow(rows[i])
      /\ \A j \in Items \ {i} : copy[t][j] = NoRow
      /\ copy[t][i].kind = rows[i].kind
    BY <1>2, <1>3, OnlyOne
<1>5. PICK r \in Row : r = Evaluated(copy[t][i]) /\ Alike(copy[t][i], r)
  <2>1. epoch \in 0 .. Epochs
    BY <1>1 DEF MemTypeOK
  <2> QED BY <1>4, <2>1, EvaluatedAlike DEF Alike
<1>6. copy' = [copy EXCEPT ![t] = NoCopies]
  <2>1. [copy[t] EXCEPT ![i] = NoRow] = NoCopies
    BY <1>1, <1>4 DEF NoCopies
  <2> QED BY <1>1, <1>3, <2>1, Shapes DEF Hold
<1>7. UNCHANGED <<jobs, vectors, rollups, links, epoch, hits, cut>> /\ begun' \in 0 .. Begun
    BY <1>1, Copies DEF Evaluate, historyVars
<1> DEFINE rest == todo[t] \ {i}
           where == IF rest = {} THEN "idle" ELSE "hit"
<1>8. at' = [at EXCEPT ![t] = where] /\ todo' = [todo EXCEPT ![t] = rest]
    BY <1>3 DEF Loop, Go
<1>9. where \in Steps /\ (where = "hit" \/ where = "idle") /\ rest \in SUBSET Items
      /\ (rest = {} <=> where \in {"idle", "sweepRead", "decayRead"})
    BY <1>1 DEF Steps
<1> HIDE DEF where
<1>10. at'[t] = where /\ todo'[t] = rest
    BY <1>1, <1>8, Shapes
<1>11. StepOf(t) /\ copy'[t] = NoCopies /\ (where = "hit" => doing'[t] = doing[t])
  <2>1. PICK what \in Doings : doing' = [doing EXCEPT ![t] = what] /\ (where = "hit" => what = doing[t])
    BY <1>1, <1>9, <1>10 DEF Evaluate, Settles, Does, Doings
  <2> QED BY <1>1, <1>6, <1>7, <1>8, <1>9, <1>10, <2>1, Shapes DEF StepOf
<1>12. Save(i, r) /\ rows'[i] = r /\ IsRow(r) /\ \A j \in Items \ {i} : rows'[j] = rows[j]
    BY <1>1, <1>3, <1>4, <1>5, SavedRow, RowIsRow
<1>13. Kept(i, r)'
    BY <1>3, <1>4, <1>5, <1>7, KeptAlike
<1>14. CopiesFit(t)'
    BY <1>9, <1>10, <1>11, EmptyFit DEF OneOf, Holding, Rolling
<1>15. TasksFit(t)'
  <2>1. \A j \in rest : IsRow(rows'[j])
    BY <1>1, <1>2, <1>12 DEF TasksFit
  <2>2. doing[t] \in {"success", "failure"}
    BY <1>1, <1>2 DEF TasksFit
  <2> QED BY <1>9, <1>10, <1>11, <2>1, <2>2 DEF TasksFit, Single, Rolling
<1>16. New(t)' = {} /\ InTheMaking(t) = {}
    BY <1>2, <1>9, <1>10 DEF New, InTheMaking
<1>17. (\A j \in Items : ~IsRow(copy'[t][j])) /\ \A j \in Items : hits[j] <= hits'[j]
    BY <1>1, <1>7, <1>11 DEF NoCopies, IsRow
<1>18. r.kind = rows[i].kind
    BY <1>4, <1>5 DEF Alike
<1> QED BY <1>1, <1>4, <1>7, <1>11, <1>12, <1>13, <1>14, <1>15, <1>16, <1>17, <1>18, SavingStep

LEMMA WriteKeeps == ASSUME MemInv, NEW t \in Threads, Write(t) PROVE MemInv'
<1>1. MemTypeOK /\ CopiesFit(t) /\ TasksFit(t) /\ copy[t] \in [Items -> Row \cup {NoRow}]
      /\ doing[t] \in Doings /\ hits \in [Items -> Nat]
      /\ NoCopies \in [Items -> Row \cup {NoRow}]
    BY Facts
<1>2. at[t] = "write"
    BY DEF Write
<1>3. PICK i \in Items : todo[t] = {i}
    BY <1>1, <1>2 DEF TasksFit, Single
<1>4. IsRow(copy[t][i]) /\ copy[t][i] \in Row /\ Kept(i, copy[t][i])
    BY <1>1, <1>2, <1>3 DEF CopiesFit, Holding, IsRow
<1>5. IsRow(rows[i]) /\ copy[t][i].kind = rows[i].kind /\ doing[t] \in Edits
    BY <1>1, <1>2, <1>3, <1>4 DEF TasksFit, CopiesFit
<1>6. PICK r \in Row : r = Edited(copy[t][i], doing[t]) /\ Alike(copy[t][i], r)
  <2>1. epoch \in 0 .. Epochs
    BY <1>1 DEF MemTypeOK
  <2> QED BY <1>4, <1>5, <2>1, EditedAlike DEF Alike
<1>7. Save(i, r)
    BY <1>3, <1>6 DEF Write
<1>8. UNCHANGED <<jobs, vectors, rollups, links, epoch, hits, cut>> /\ begun' \in 0 .. Begun
      /\ copy' = [copy EXCEPT ![t] = NoCopies]
    BY <1>1, Copies DEF Write, historyVars
<1>9. PICK where \in {"link", "idle"}, rest \in {{i}, {}} :
          /\ at' = [at EXCEPT ![t] = where] /\ todo' = [todo EXCEPT ![t] = rest]
          /\ rest = {} <=> where = "idle"
    BY <1>3 DEF Write, Go
<1>10. at'[t] = where /\ todo'[t] = rest
    BY <1>1, <1>9, Shapes
<1>11. StepOf(t) /\ copy'[t] = NoCopies
  <2>1. PICK what \in Doings : doing' = [doing EXCEPT ![t] = what]
    BY <1>1, <1>10 DEF Write, Settles, Does, Doings
  <2> QED BY <1>1, <1>8, <1>9, <1>10, <2>1, Shapes DEF StepOf, Steps
<1>12. rows'[i] = r /\ IsRow(r) /\ \A j \in Items \ {i} : rows'[j] = rows[j]
    BY <1>1, <1>7, SavedRow, RowIsRow
<1>13. Kept(i, r)'
    BY <1>4, <1>6, <1>8, KeptAlike
<1>14. CopiesFit(t)'
    BY <1>10, <1>11, EmptyFit DEF OneOf, Holding, Rolling
<1>15. TasksFit(t)'
    BY <1>9, <1>10, <1>12 DEF TasksFit, Single, Rolling
<1>16. New(t)' = {} /\ InTheMaking(t) = {}
    BY <1>2, <1>10 DEF New, InTheMaking
<1>17. (\A j \in Items : ~IsRow(copy'[t][j])) /\ \A j \in Items : hits[j] <= hits'[j]
    BY <1>1, <1>8, <1>11 DEF NoCopies, IsRow
<1>18. r.kind = rows[i].kind
    BY <1>5, <1>6 DEF Alike
<1> QED BY <1>1, <1>5, <1>7, <1>8, <1>11, <1>13, <1>14, <1>15, <1>16, <1>17, <1>18, SavingStep

LEMMA JobSaveKeeps == ASSUME MemInv, NEW t \in Threads, JobSave(t) PROVE MemInv'
<1>1. MemTypeOK /\ CopiesFit(t) /\ TasksFit(t) /\ copy[t] \in [Items -> Row \cup {NoRow}]
      /\ doing[t] \in Doings /\ hits \in [Items -> Nat] /\ todo[t] \in SUBSET Items
    BY Facts
<1>2. at[t] = "jobSave" /\ at[t] \in OneOf /\ todo[t] # {}
    BY DEF JobSave, OneOf
<1>3. PICK i \in todo[t] : IsRow(copy[t][i]) /\ Save(i, copy[t][i]) /\ Go(t, "jobRecord", todo[t])
    BY DEF JobSave
<1>4. /\ i \in Items /\ copy[t][i] \in Row /\ Kept(i, copy[t][i]) /\ IsRow(rows[i])
      /\ \A j \in Items \ {i} : copy[t][j] = NoRow
      /\ copy[t][i].kind = rows[i].kind
    BY <1>2, <1>3, OnlyOne
<1>5. PICK r \in Row : r = copy[t][i]
    BY <1>4
<1>6. UNCHANGED <<jobs, vectors, rollups, links, epoch, hits, cut>> /\ begun' \in 0 .. Begun
      /\ doing' = [doing EXCEPT ![t] = doing[t]] /\ copy' = [copy EXCEPT ![t] = copy[t]]
    BY <1>1, Copies DEF JobSave, historyVars
<1>7. StepOf(t) /\ at'[t] = "jobRecord" /\ todo'[t] = todo[t] /\ copy'[t] = copy[t]
      /\ doing'[t] = doing[t]
    BY <1>1, <1>2, <1>3, <1>6, Shapes DEF Go, StepOf, Steps
<1>8. Save(i, r) /\ rows'[i] = r /\ IsRow(r) /\ \A j \in Items \ {i} : rows'[j] = rows[j]
    BY <1>1, <1>3, <1>4, <1>5, SavedRow, RowIsRow
<1>9. Kept(i, r)'
    BY <1>4, <1>5, <1>6 DEF Kept
<1>10. CopiesFit(t)'
  <2>1. \A j \in Items : Kept(j, copy[t][j])'
    BY <1>1, <1>6, <1>7 DEF CopiesFit, Kept
  <2> QED BY <1>1, <1>2, <1>5, <1>7, <1>8, <2>1 DEF CopiesFit, Bare, OneOf, Holding, Rolling
<1>11. TasksFit(t)'
  <2>1. \A j \in todo[t] : IsRow(rows'[j])
    BY <1>1, <1>2, <1>8 DEF TasksFit
  <2> QED BY <1>7, <2>1 DEF TasksFit, Single, Rolling
<1>12. New(t)' = {} /\ InTheMaking(t) = {}
    BY <1>2, <1>7 DEF New, InTheMaking
<1>13. \A j \in Items : hits[j] <= hits'[j]
    BY <1>1, <1>6
<1>14. \A j \in Items : IsRow(copy'[t][j]) => IsRow(copy[t][j])
    BY <1>7
<1> QED BY <1>1, <1>4, <1>5, <1>6, <1>7, <1>8, <1>9, <1>10, <1>11, <1>12, <1>13, <1>14, SavingStep

LEMMA RollupKeeps == ASSUME MemInv, Rollup PROVE MemInv'
<1> Worker \in Threads
    BY DEF Threads
<1>1. MemTypeOK /\ CopiesFit(Worker) /\ TasksFit(Worker) /\ copy[Worker] \in [Items -> Row \cup {NoRow}]
      /\ doing[Worker] \in Doings /\ hits \in [Items -> Nat]
    BY Facts
<1>2. at[Worker] = "rollup"
    BY DEF Rollup
<1>3. PICK i \in Items : todo[Worker] = {i}
    BY <1>1, <1>2 DEF TasksFit, Single, Rolling
<1>4. PICK r \in Row : r = copy[Worker][i] /\ IsRow(r) /\ Kept(i, r) /\ r.kind = "rollup"
    BY <1>1, <1>2, <1>3 DEF CopiesFit, Holding, Rolling, IsRow
<1>5. New(Worker) = {i} /\ InTheMaking(Worker) = {}
    BY <1>2, <1>3 DEF New, InTheMaking
<1>6. UNCHANGED <<jobs, vectors, rollups, links, epoch, hits, cut>> /\ begun' \in 0 .. Begun
      /\ doing' = [doing EXCEPT ![Worker] = doing[Worker]]
      /\ copy' = [copy EXCEPT ![Worker] = copy[Worker]]
    BY <1>1, Copies DEF Rollup, historyVars
<1>7. StepOf(Worker) /\ at'[Worker] = "rollupRecord" /\ todo'[Worker] = {i}
      /\ copy'[Worker] = copy[Worker] /\ doing'[Worker] = doing[Worker]
    BY <1>1, <1>3, <1>6, Shapes DEF Go, StepOf, Rollup, Steps
<1>8. Save(i, r)
    BY <1>3, <1>4 DEF Rollup
<1>9. rows'[i] = r /\ IsRow(r) /\ \A j \in Items \ {i} : rows'[j] = rows[j]
    BY <1>1, <1>4, <1>8, SavedRow
<1>10. Kept(i, r)'
    BY <1>4, <1>6 DEF Kept
<1>11. CopiesFit(Worker)'
  <2>1. \A j \in Items : Kept(j, copy[Worker][j])'
    BY <1>1, <1>6, <1>7 DEF CopiesFit, Kept
  <2> QED BY <1>1, <1>2, <1>4, <1>7, <1>9, <2>1 DEF CopiesFit, Bare, OneOf, Holding, Rolling
<1>12. TasksFit(Worker)'
  <2>1. HeldBy(Worker)' = HeldBy(Worker) /\ HeldBy(Worker) \subseteq Items
    BY <1>3, <1>7 DEF HeldBy
  <2>2. \A j \in HeldBy(Worker) : IsRow(rows'[j])
    BY <1>1, <1>2, <1>9, <2>1 DEF TasksFit, Rolling
  <2> QED BY <1>7, <1>9, <2>1, <2>2 DEF TasksFit, Single, Rolling
<1>13. New(Worker)' = {}
    BY <1>7 DEF New
<1>14. \A j \in Items : hits[j] <= hits'[j]
    BY <1>1, <1>6
<1>15. \A j \in Items : IsRow(copy'[Worker][j]) => IsRow(copy[Worker][j])
    BY <1>7
<1> QED BY <1>1, <1>4, <1>5, <1>6, <1>7, <1>8, <1>10, <1>11, <1>12, <1>13, <1>14, <1>15, SavingStep

LEMMA SweepKeeps == ASSUME MemInv, Sweep PROVE MemInv'
<1> Worker \in Threads
    BY DEF Threads
<1>1. MemTypeOK /\ CopiesFit(Worker) /\ TasksFit(Worker) /\ copy[Worker] \in [Items -> Row \cup {NoRow}]
      /\ doing[Worker] \in Doings /\ hits \in [Items -> Nat] /\ todo[Worker] \in SUBSET Items
      /\ rows \in [Items -> Row \cup {NoRow}]
    BY Facts
<1>2. at[Worker] = "sweep" /\ copy[Worker] = NoCopies
    BY <1>1 DEF Sweep, CopiesFit, Bare
<1>3. PICK i \in todo[Worker], rest \in SUBSET todo[Worker], where \in {"decayRead", "sweep"} :
          /\ Save(i, [rows[i] EXCEPT !.suppressed = TRUE])
          /\ rest = {} <=> where = "decayRead"
          /\ at' = [at EXCEPT ![Worker] = where] /\ todo' = [todo EXCEPT ![Worker] = rest]
    BY <1>1 DEF Sweep, Go
<1>4. i \in Items /\ IsRow(rows[i]) /\ rows[i] \in Row /\ Kept(i, rows[i])
    BY <1>1, <1>2 DEF TasksFit, MemInv, IsRow
<1>5. PICK r \in Row : r = [rows[i] EXCEPT !.suppressed = TRUE] /\ Alike(rows[i], r)
    BY <1>4, ColumnSet DEF Alike
<1>6. UNCHANGED <<jobs, vectors, rollups, links, epoch, hits, cut>> /\ begun' \in 0 .. Begun
      /\ doing' = [doing EXCEPT ![Worker] = doing[Worker]]
      /\ copy' = [copy EXCEPT ![Worker] = copy[Worker]]
    BY <1>1, Copies DEF Sweep, historyVars
<1>7. StepOf(Worker) /\ at'[Worker] = where /\ todo'[Worker] = rest
      /\ copy'[Worker] = copy[Worker] /\ doing'[Worker] = doing[Worker]
    BY <1>1, <1>3, <1>6, Shapes DEF StepOf, Steps
<1>8. Save(i, r) /\ rows'[i] = r /\ IsRow(r) /\ \A j \in Items \ {i} : rows'[j] = rows[j]
    BY <1>1, <1>3, <1>4, <1>5, SavedRow, RowIsRow
<1>9. Kept(i, r)'
    BY <1>4, <1>5, <1>6, KeptAlike
<1>10. CopiesFit(Worker)'
    BY <1>2, <1>7, EmptyFit DEF OneOf, Holding, Rolling
<1>11. TasksFit(Worker)'
  <2>1. \A j \in rest : IsRow(rows'[j])
    BY <1>1, <1>2, <1>8 DEF TasksFit
  <2> QED BY <1>7, <2>1 DEF TasksFit, Single, Rolling
<1>12. New(Worker)' = {} /\ InTheMaking(Worker) = {}
    BY <1>2, <1>7 DEF New, InTheMaking
<1>13. \A j \in Items : hits[j] <= hits'[j]
    BY <1>1, <1>6
<1>14. \A j \in Items : IsRow(copy'[Worker][j]) => IsRow(copy[Worker][j])
    BY <1>7
<1>15. r.kind = rows[i].kind
    BY <1>5 DEF Alike
<1> QED BY <1>1, <1>4, <1>6, <1>7, <1>8, <1>9, <1>10, <1>11, <1>12, <1>13, <1>14, <1>15, SavingStep

LEMMA DecayRowKeeps == ASSUME MemInv, Decay PROVE MemInv'
<1> Worker \in Threads
    BY DEF Threads
<1>1. MemTypeOK /\ CopiesFit(Worker) /\ TasksFit(Worker) /\ copy[Worker] \in [Items -> Row \cup {NoRow}]
      /\ doing[Worker] \in Doings /\ hits \in [Items -> Nat] /\ todo[Worker] \in SUBSET Items
    BY Facts
<1>2. at[Worker] = "decay" /\ \A j \in Items : IsRow(copy[Worker][j]) <=> j \in todo[Worker]
    BY <1>1 DEF Decay, CopiesFit
<1>3. PICK i \in todo[Worker], bucket \in {"live", "archive_candidate"} :
          /\ Save(i, [copy[Worker][i] EXCEPT !.bucket = bucket])
          /\ Hold(Worker, i, NoRow) /\ Loop(Worker, "decay", i)
    BY DEF Decay
<1>4. /\ i \in Items /\ IsRow(copy[Worker][i]) /\ copy[Worker][i] \in Row
      /\ Kept(i, copy[Worker][i]) /\ IsRow(rows[i]) /\ copy[Worker][i].kind = rows[i].kind
    BY <1>1, <1>2 DEF CopiesFit, TasksFit, IsRow
<1>5. PICK r \in Row : r = [copy[Worker][i] EXCEPT !.bucket = bucket] /\ Alike(copy[Worker][i], r)
    BY <1>4, ColumnSet DEF Alike
<1> DEFINE held == [copy[Worker] EXCEPT ![i] = NoRow]
           rest == todo[Worker] \ {i}
           where == IF rest = {} THEN "idle" ELSE "decay"
<1>6. copy' = [copy EXCEPT ![Worker] = held]
    BY <1>1, <1>3, Shapes DEF Hold
<1>7. held \in [Items -> Row \cup {NoRow}]
      /\ (\A j \in Items \ {i} : held[j] = copy[Worker][j]) /\ held[i] = NoRow
    BY <1>1, <1>4
<1>8. at' = [at EXCEPT ![Worker] = where] /\ todo' = [todo EXCEPT ![Worker] = rest]
    BY <1>3 DEF Loop, Go
<1>9. where \in Steps /\ (where = "decay" \/ (where = "idle" /\ rest = {})) /\ rest \in SUBSET Items
      /\ (rest = {} <=> where \in {"idle", "sweepRead", "decayRead"})
    BY <1>1 DEF Steps
<1>10. \A j \in Items : IsRow(held[j]) <=> j \in rest
    BY <1>2, <1>7 DEF IsRow
<1>11. rest = {} => held = NoCopies
    BY <1>7, <1>10 DEF NoCopies, IsRow
<1> HIDE DEF held, where
<1>12. UNCHANGED <<jobs, vectors, rollups, links, epoch, hits, cut>> /\ begun' \in 0 .. Begun
       /\ doing' = [doing EXCEPT ![Worker] = doing[Worker]]
    BY <1>1, Copies DEF Decay, historyVars
<1>13. StepOf(Worker) /\ at'[Worker] = where /\ todo'[Worker] = rest
       /\ copy'[Worker] = held /\ doing'[Worker] = doing[Worker]
    BY <1>1, <1>6, <1>7, <1>8, <1>9, <1>12, Shapes DEF StepOf
<1>14. Save(i, r) /\ rows'[i] = r /\ IsRow(r) /\ \A j \in Items \ {i} : rows'[j] = rows[j]
    BY <1>1, <1>3, <1>4, <1>5, SavedRow, RowIsRow
<1>15. Kept(i, r)'
    BY <1>4, <1>5, <1>12, KeptAlike
<1>16. CopiesFit(Worker)'
  <2>1. \A j \in Items : Kept(j, copy[Worker][j])'
    <3>1. \A j \in Items \ {i} : Kept(j, copy[Worker][j])
      BY <1>1 DEF CopiesFit
    <3> QED BY <1>7, <1>12, <1>13, <3>1 DEF Kept, IsRow
  <2>2. \A j \in Items : IsRow(held[j]) /\ IsRow(rows'[j]) => held[j].kind = rows'[j].kind
    <3>1. \A j \in Items \ {i} : IsRow(held[j]) /\ IsRow(rows[j]) => held[j].kind = rows[j].kind
      BY <1>1, <1>2, <1>7 DEF CopiesFit
    <3> QED BY <1>7, <1>14, <3>1 DEF IsRow
  <2> QED BY <1>9, <1>10, <1>11, <1>13, <2>1, <2>2 DEF CopiesFit, Bare, OneOf, Holding, Rolling
<1>17. TasksFit(Worker)'
  <2>1. \A j \in rest : IsRow(rows'[j])
    BY <1>1, <1>2, <1>14 DEF TasksFit
  <2> QED BY <1>9, <1>13, <2>1 DEF TasksFit, Single, Rolling
<1>18. New(Worker)' = {} /\ InTheMaking(Worker) = {}
    BY <1>2, <1>9, <1>13 DEF New, InTheMaking
<1>19. \A j \in Items : hits[j] <= hits'[j]
    BY <1>1, <1>12
<1>20. \A j \in Items : IsRow(copy'[Worker][j]) => IsRow(copy[Worker][j])
    BY <1>2, <1>10, <1>13
<1>21. r.kind = rows[i].kind
    BY <1>4, <1>5 DEF Alike
<1> QED BY <1>1, <1>4, <1>12, <1>13, <1>14, <1>15, <1>16, <1>17, <1>18, <1>19, <1>20, <1>21, SavingStep

\* A step that writes another table than the items'.
LEMMA OtherTableStep ==
    ASSUME MemInv, NEW t \in Threads, StepOf(t), UNCHANGED <<rows, hits>>,
           vectors' \subseteq Items, vectors \subseteq vectors', rollups \subseteq rollups',
           jobs' \in [Items -> {"none", "pending", "failed", "stale", "indexed"}],
           \A i \in Items : jobs[i] # "none" => jobs'[i] # "none",
           \A i \in InTheMaking(t) : i \in InTheMaking(t)' \/ jobs'[i] # "none",
           JobsFit', LineageTyped', LineageIsSound', CopiesFit(t)', TasksFit(t)',
           \A i \in Items : IsRow(copy'[t][i]) => IsRow(copy[t][i]) \/ IsRow(rows[i]),
           New(t)' = {}
    PROVE  MemInv'
<1>1. MemTypeOK /\ hits \in [Items -> Nat]
    BY DEF MemInv
<1>2. /\ MemTypeOK'
      /\ \A u \in Threads \ {t} :
            at'[u] = at[u] /\ todo'[u] = todo[u] /\ copy'[u] = copy[u] /\ doing'[u] = doing[u]
    BY <1>1, TypedStep DEF MemTypeOK
<1>3. Advances(t)
    BY <1>1, <1>2 DEF Advances
<1>4. \A i \in Items : Kept(i, rows[i])'
    BY DEF MemInv, Kept
<1>5. JobKnown'
  <2>1. \A u \in Threads \ {t} : InTheMaking(u)' = InTheMaking(u)
    BY <1>2 DEF InTheMaking
  <2> QED BY <2>1 DEF MemInv, JobKnown, StepOf
<1> QED BY <1>1, <1>2, <1>3, <1>4, <1>5, OneThreadSteps

LEMMA SameLineage ==
    ASSUME MemInv, UNCHANGED <<rows, rollups, links>> PROVE LineageTyped' /\ LineageIsSound'
BY DEF MemInv, LineageTyped, LineageIsSound

LEMMA VectorKeeps == ASSUME MemInv, NEW t \in Threads, Vector(t) PROVE MemInv'
<1>1. MemTypeOK /\ CopiesFit(t) /\ TasksFit(t) /\ copy[t] \in [Items -> Row \cup {NoRow}]
      /\ doing[t] \in Doings /\ hits \in [Items -> Nat]
    BY Facts
<1>2. at[t] = "vector"
    BY DEF Vector
<1>3. PICK i \in Items : todo[t] = {i}
    BY <1>1, <1>2 DEF TasksFit, Single
<1>4. IsRow(copy[t][i]) /\ copy[t][i] \in Row /\ Kept(i, copy[t][i]) /\ IsRow(rows[i])
      /\ copy[t][i].kind = rows[i].kind /\ InTheMaking(t) = {i}
    BY <1>1, <1>2, <1>3 DEF CopiesFit, TasksFit, Holding, IsRow, InTheMaking
<1>5. UNCHANGED <<rows, jobs, rollups, links, epoch, hits, cut>> /\ begun' \in 0 .. Begun
    BY <1>1, Copies DEF Vector, historyVars
<1>6. PICK held \in [Items -> Row \cup {NoRow}], what \in {"indexed", "pending"},
           where \in {"saveRef", "record"} :
        /\ copy' = [copy EXCEPT ![t] = held] /\ doing' = [doing EXCEPT ![t] = what]
        /\ at' = [at EXCEPT ![t] = where] /\ todo' = [todo EXCEPT ![t] = {i}]
        /\ \A j \in Items \ {i} : held[j] = copy[t][j]
        /\ IsRow(held[i]) /\ held[i].kind = copy[t][i].kind /\ held[i].count = copy[t][i].count
        /\ Sound(held[i]) /\ (held[i].ref => copy[t][i].ref \/ what = "indexed")
        /\ (what = "indexed" /\ vectors' = vectors \cup {i}) \/ (what = "pending" /\ vectors' = vectors)
        /\ what = "pending" => where = "record"
  <2>1. CASE /\ vectors' = vectors \cup {i}
             /\ Hold(t, i, [copy[t][i] EXCEPT !.ref = TRUE])
             /\ Does(t, "indexed")
             /\ Go(t, "saveRef", {i})
    <3>1. PICK r \in Row : r = [copy[t][i] EXCEPT !.ref = TRUE] /\ r.kind = copy[t][i].kind
                           /\ r.count = copy[t][i].count /\ Sound(r)
      BY <1>4, Referred DEF Kept
    <3> DEFINE held == [copy[t] EXCEPT ![i] = r]
    <3>2. copy' = [copy EXCEPT ![t] = held]
      BY <1>1, <2>1, <3>1, Shapes DEF Hold
    <3>3. held \in [Items -> Row \cup {NoRow}] /\ held[i] = r /\ IsRow(r)
          /\ \A j \in Items \ {i} : held[j] = copy[t][j]
      BY <1>1, <3>1, RowIsRow
    <3> HIDE DEF held
    <3> QED BY <2>1, <3>1, <3>2, <3>3 DEF Go, Does
  <2>2. CASE /\ Does(t, "pending")
             /\ Go(t, "record", {i})
             /\ UNCHANGED <<vectors, copy>>
    <3>1. copy' = [copy EXCEPT ![t] = copy[t]] /\ Sound(copy[t][i])
      BY <1>1, <1>4, <2>2, Shapes DEF Kept
    <3> QED BY <1>1, <1>4, <2>2, <3>1 DEF Go, Does
  <2> QED BY <1>3, <2>1, <2>2 DEF Vector
<1>7. StepOf(t) /\ at'[t] = where /\ todo'[t] = {i} /\ copy'[t] = held /\ doing'[t] = what
  <2>1. what \in Doings /\ where \in Steps
    BY DEF Doings, Steps
  <2> QED BY <1>1, <1>5, <1>6, <2>1, Shapes DEF StepOf
<1>8. vectors' \subseteq Items /\ vectors \subseteq vectors'
    BY <1>1, <1>6 DEF MemTypeOK
<1>9. jobs' \in [Items -> {"none", "pending", "failed", "stale", "indexed"}]
    BY <1>1, <1>5 DEF MemTypeOK
<1>10. JobsFit'
    BY <1>5, <1>8 DEF MemInv, JobsFit
<1>11. CopiesFit(t)'
  <2>1. \A j \in Items : Kept(j, copy[t][j])'
    <3>1. Kept(i, copy[t][i])'
      BY <1>4, <1>5, <1>6, <1>7, <1>8 DEF Kept
    <3>2. \A j \in Items \ {i} : Kept(j, copy[t][j])'
      BY <1>1, <1>5, <1>6, <1>7, <1>8 DEF CopiesFit, Kept
    <3> QED BY <3>1, <3>2
  <2>2. \A j \in Items : IsRow(held[j]) /\ IsRow(rows[j]) => held[j].kind = rows[j].kind
    BY <1>1, <1>2, <1>4, <1>6 DEF CopiesFit
  <2> QED BY <1>5, <1>6, <1>7, <2>1, <2>2 DEF CopiesFit, Bare, OneOf, Holding, Rolling
<1>12. TasksFit(t)'
    BY <1>4, <1>5, <1>6, <1>7 DEF TasksFit, Single, Rolling
<1>13. New(t)' = {} /\ InTheMaking(t)' = {i}
    BY <1>7 DEF New, InTheMaking
<1>14. \A j \in Items : IsRow(copy'[t][j]) => IsRow(copy[t][j])
    BY <1>4, <1>6, <1>7
<1> QED BY <1>4, <1>5, <1>7, <1>8, <1>9, <1>10, <1>11, <1>12, <1>13, <1>14, SameLineage, OtherTableStep

LEMMA RecordKeeps == ASSUME MemInv, NEW t \in Threads, Record(t) PROVE MemInv'
<1>1. MemTypeOK /\ TasksFit(t) /\ NoCopies \in [Items -> Row \cup {NoRow}]
    BY Facts
<1>2. at[t] = "record"
    BY DEF Record
<1>3. PICK i \in Items : todo[t] = {i}
    BY <1>1, <1>2 DEF TasksFit, Single
<1>4. IsRow(rows[i]) /\ InTheMaking(t) = {i}
      /\ doing[t] \in {"pending", "indexed"} /\ (doing[t] = "indexed" => i \in vectors)
    BY <1>1, <1>2, <1>3 DEF TasksFit, InTheMaking
<1>5. UNCHANGED <<rows, vectors, rollups, links, epoch, hits, cut>> /\ begun' \in 0 .. Begun
      /\ copy' = [copy EXCEPT ![t] = NoCopies]
    BY <1>1, Copies DEF Record, historyVars
<1>6. at' = [at EXCEPT ![t] = "idle"] /\ todo' = [todo EXCEPT ![t] = {}]
      /\ doing' = [doing EXCEPT ![t] = "none"] /\ jobs' = [jobs EXCEPT ![i] = doing[t]]
    BY <1>3 DEF Record, Go, Does
<1>7. StepOf(t) /\ at'[t] = "idle" /\ todo'[t] = {} /\ copy'[t] = NoCopies
    BY <1>1, <1>5, <1>6, Shapes DEF StepOf, Steps, Doings
<1>8. jobs' \in [Items -> {"none", "pending", "failed", "stale", "indexed"}]
      /\ jobs'[i] = doing[t] /\ \A j \in Items \ {i} : jobs'[j] = jobs[j]
    BY <1>1, <1>4, <1>6 DEF MemTypeOK
<1>9. vectors' \subseteq Items
    BY <1>1, <1>5 DEF MemTypeOK
<1>10. JobsFit'
    BY <1>4, <1>5, <1>8 DEF MemInv, JobsFit
<1>11. CopiesFit(t)'
    BY <1>7, EmptyFit DEF OneOf, Holding, Rolling
<1>12. TasksFit(t)'
    BY <1>7 DEF TasksFit, Single, Rolling
<1>13. New(t)' = {} /\ \A j \in Items : ~IsRow(copy'[t][j])
    BY <1>7 DEF New, NoCopies, IsRow
<1>14. \A j \in Items : jobs[j] # "none" => jobs'[j] # "none"
    BY <1>4, <1>8
<1>15. \A j \in InTheMaking(t) : jobs'[j] # "none"
    BY <1>4, <1>8
<1> QED BY <1>5, <1>7, <1>8, <1>9, <1>10, <1>11, <1>12, <1>13, <1>14, <1>15, SameLineage, OtherTableStep

LEMMA JobVectorKeeps == ASSUME MemInv, NEW t \in Threads, JobVector(t) PROVE MemInv'
<1>1. MemTypeOK /\ CopiesFit(t) /\ TasksFit(t) /\ NoCopies \in [Items -> Row \cup {NoRow}]
      /\ doing[t] \in Doings /\ hits \in [Items -> Nat] /\ todo[t] \in SUBSET Items
      /\ rows \in [Items -> Row \cup {NoRow}]
    BY Facts
<1>2. at[t] = "job" /\ copy[t] = NoCopies /\ InTheMaking(t) = {} /\ todo[t] # {}
    BY <1>1 DEF JobVector, CopiesFit, Bare, InTheMaking
<1>3. \A i \in todo[t] : i \in Items /\ IsRow(rows[i]) /\ rows[i] \in Row /\ Kept(i, rows[i])
    BY <1>1, <1>2 DEF TasksFit, MemInv, IsRow
<1>4. UNCHANGED <<rows, rollups, links, epoch, hits, cut>> /\ begun' \in 0 .. Begun
      /\ doing' = [doing EXCEPT ![t] = doing[t]]
    BY <1>1, Copies DEF JobVector, historyVars
<1>5. ASSUME NEW i \in todo[t], vectors' = vectors \cup {i},
             Hold(t, i, [rows[i] EXCEPT !.ref = TRUE]), Go(t, "jobSave", todo[t]), UNCHANGED jobs
      PROVE  MemInv'
  <2>1. i \in Items /\ IsRow(rows[i]) /\ rows[i] \in Row /\ Kept(i, rows[i])
    BY <1>3
  <2>2. PICK r \in Row : r = [rows[i] EXCEPT !.ref = TRUE] /\ r.kind = rows[i].kind
                         /\ r.count = rows[i].count /\ r.ref /\ Sound(r)
    BY <2>1, Referred DEF Kept
  <2> DEFINE held == [NoCopies EXCEPT ![i] = r]
  <2>3. copy' = [copy EXCEPT ![t] = held]
    BY <1>1, <1>2, <1>5, <2>2, Shapes DEF Hold
  <2>4. held \in [Items -> Row \cup {NoRow}] /\ held[i] = r /\ IsRow(r)
        /\ \A j \in Items \ {i} : held[j] = NoRow /\ ~IsRow(held[j])
    BY <1>1, <2>1, <2>2, RowIsRow DEF NoCopies, IsRow
  <2> HIDE DEF held
  <2>5. StepOf(t) /\ at'[t] = "jobSave" /\ todo'[t] = todo[t] /\ copy'[t] = held
        /\ doing'[t] = doing[t]
    BY <1>1, <1>2, <1>4, <1>5, <2>3, <2>4, Shapes DEF Go, StepOf, Steps
  <2>6. vectors' \subseteq Items /\ vectors \subseteq vectors' /\ i \in vectors'
        /\ jobs' \in [Items -> {"none", "pending", "failed", "stale", "indexed"}]
    BY <1>1, <1>5, <2>1 DEF MemTypeOK
  <2>7. JobsFit'
    BY <1>4, <1>5, <2>6 DEF MemInv, JobsFit
  <2>8. CopiesFit(t)'
    <3>1. \A j \in Items : Kept(j, copy[t][j])'
      BY <1>4, <2>1, <2>2, <2>4, <2>5, <2>6 DEF Kept
    <3> QED BY <1>4, <2>2, <2>4, <2>5, <3>1 DEF CopiesFit, Bare, OneOf, Holding, Rolling
  <2>9. TasksFit(t)'
    BY <1>3, <1>4, <2>5 DEF TasksFit, Single, Rolling
  <2>10. New(t)' = {}
    BY <2>5 DEF New
  <2>11. \A j \in Items : IsRow(copy'[t][j]) => IsRow(rows[j])
    BY <2>1, <2>4, <2>5
  <2>12. \A j \in Items : jobs[j] # "none" => jobs'[j] # "none"
    BY <1>5
  <2> QED BY <1>2, <1>4, <2>5, <2>6, <2>7, <2>8, <2>9, <2>10, <2>11, <2>12, SameLineage, OtherTableStep
<1>6. ASSUME NEW i \in todo[t], jobs' = [jobs EXCEPT ![i] = "failed"], Loop(t, "job", i),
             UNCHANGED <<vectors, copy>>
      PROVE  MemInv'
  <2>1. i \in Items /\ IsRow(rows[i])
    BY <1>3
  <2>2. PICK where \in {"idle", "job"}, rest \in SUBSET todo[t] :
          /\ at' = [at EXCEPT ![t] = where] /\ todo' = [todo EXCEPT ![t] = rest]
          /\ rest = {} <=> where = "idle"
    BY <1>6 DEF Loop, Go
  <2>3. StepOf(t) /\ at'[t] = where /\ todo'[t] = rest /\ copy'[t] = NoCopies
        /\ doing'[t] = doing[t]
    BY <1>1, <1>2, <1>4, <1>6, <2>2, Shapes DEF StepOf, Steps
  <2>4. jobs' \in [Items -> {"none", "pending", "failed", "stale", "indexed"}]
        /\ jobs'[i] = "failed" /\ \A j \in Items \ {i} : jobs'[j] = jobs[j]
    BY <1>1, <1>6, <2>1 DEF MemTypeOK
  <2>5. vectors' \subseteq Items /\ vectors \subseteq vectors'
    BY <1>1, <1>6 DEF MemTypeOK
  <2>6. JobsFit'
    BY <1>4, <1>6, <2>1, <2>4 DEF MemInv, JobsFit
  <2>7. CopiesFit(t)'
    BY <2>3, EmptyFit DEF OneOf, Holding, Rolling
  <2>8. TasksFit(t)'
    BY <1>3, <1>4, <2>3 DEF TasksFit, Single, Rolling
  <2>9. New(t)' = {} /\ \A j \in Items : ~IsRow(copy'[t][j])
    BY <2>3 DEF New, NoCopies, IsRow
  <2>10. \A j \in Items : jobs[j] # "none" => jobs'[j] # "none"
    BY <2>4
  <2> QED BY <1>2, <1>4, <2>3, <2>4, <2>5, <2>6, <2>7, <2>8, <2>9, <2>10, SameLineage, OtherTableStep
<1> QED BY <1>5, <1>6 DEF JobVector

LEMMA JobRecordKeeps == ASSUME MemInv, NEW t \in Threads, JobRecord(t) PROVE MemInv'
<1>1. MemTypeOK /\ CopiesFit(t) /\ TasksFit(t) /\ copy[t] \in [Items -> Row \cup {NoRow}]
      /\ doing[t] \in Doings /\ todo[t] \in SUBSET Items
      /\ NoCopies \in [Items -> Row \cup {NoRow}]
    BY Facts
<1>2. at[t] = "jobRecord" /\ at[t] \in OneOf /\ InTheMaking(t) = {}
    BY DEF JobRecord, OneOf, InTheMaking
<1>3. PICK i \in todo[t] : IsRow(copy[t][i]) /\ jobs' = [jobs EXCEPT ![i] = "indexed"]
                           /\ Hold(t, i, NoRow) /\ Loop(t, "job", i)
    BY DEF JobRecord
<1>4. /\ i \in Items /\ IsRow(rows[i]) /\ Kept(i, copy[t][i])
      /\ \A j \in Items \ {i} : copy[t][j] = NoRow
    BY <1>2, <1>3, OnlyOne
<1>5. i \in vectors
    BY <1>1, <1>2, <1>3, <1>4 DEF CopiesFit, Kept
<1>6. copy' = [copy EXCEPT ![t] = NoCopies]
  <2>1. [copy[t] EXCEPT ![i] = NoRow] = NoCopies
    BY <1>1, <1>4 DEF NoCopies
  <2> QED BY <1>1, <1>3, <2>1, Shapes DEF Hold
<1>7. UNCHANGED <<rows, vectors, rollups, links, epoch, hits, cut>> /\ begun' \in 0 .. Begun
      /\ doing' = [doing EXCEPT ![t] = doing[t]]
    BY <1>1, Copies DEF JobRecord, historyVars
<1>8. PICK where \in {"idle", "job"}, rest \in SUBSET todo[t] :
          /\ at' = [at EXCEPT ![t] = where] /\ todo' = [todo EXCEPT ![t] = rest]
          /\ rest = {} <=> where = "idle"
    BY <1>3 DEF Loop, Go
<1>9. StepOf(t) /\ at'[t] = where /\ todo'[t] = rest /\ copy'[t] = NoCopies
      /\ doing'[t] = doing[t]
    BY <1>1, <1>6, <1>7, <1>8, Shapes DEF StepOf, Steps
<1>10. jobs' \in [Items -> {"none", "pending", "failed", "stale", "indexed"}]
       /\ jobs'[i] = "indexed" /\ \A j \in Items \ {i} : jobs'[j] = jobs[j]
    BY <1>1, <1>3, <1>4 DEF MemTypeOK
<1>11. vectors' \subseteq Items
    BY <1>1, <1>7 DEF MemTypeOK
<1>12. JobsFit'
    BY <1>4, <1>5, <1>7, <1>10 DEF MemInv, JobsFit
<1>13. CopiesFit(t)'
    BY <1>9, EmptyFit DEF OneOf, Holding, Rolling
<1>14. TasksFit(t)'
    BY <1>1, <1>2, <1>7, <1>9 DEF TasksFit, Single, Rolling
<1>15. New(t)' = {} /\ \A j \in Items : ~IsRow(copy'[t][j])
    BY <1>9 DEF New, NoCopies, IsRow
<1>16. \A j \in Items : jobs[j] # "none" => jobs'[j] # "none"
    BY <1>10
<1> QED BY <1>2, <1>7, <1>9, <1>10, <1>11, <1>12, <1>13, <1>14, <1>15, <1>16, SameLineage, OtherTableStep

LEMMA LinkKeeps == ASSUME MemInv, NEW t \in Threads, Link(t) PROVE MemInv'
<1>1. MemTypeOK /\ CopiesFit(t) /\ TasksFit(t) /\ copy[t] \in [Items -> Row \cup {NoRow}]
      /\ todo[t] \in SUBSET Items
    BY Facts
<1>2. at[t] = "link" /\ copy[t] = NoCopies /\ InTheMaking(t) = {}
    BY <1>1 DEF Link, CopiesFit, Bare, InTheMaking
<1>3. PICK older \in todo[t], newer \in Items :
        newer # older /\ IsRow(rows[newer]) /\ links' = links \cup {<<"supersedes", newer, older>>}
    BY DEF Link
<1>4. older \in Items /\ IsRow(rows[older])
    BY <1>1, <1>2 DEF TasksFit
<1>5. UNCHANGED <<rows, jobs, vectors, rollups, epoch, hits, cut>> /\ begun' \in 0 .. Begun
      /\ copy' = [copy EXCEPT ![t] = copy[t]]
    BY <1>1, Copies DEF Link, historyVars
<1>6. at' = [at EXCEPT ![t] = "idle"] /\ todo' = [todo EXCEPT ![t] = {}]
      /\ doing' = [doing EXCEPT ![t] = "none"]
    BY DEF Link, Go, Does
<1>7. StepOf(t) /\ at'[t] = "idle" /\ todo'[t] = {} /\ copy'[t] = NoCopies
    BY <1>1, <1>2, <1>5, <1>6, Shapes DEF StepOf, Steps, Doings
<1>8. vectors' \subseteq Items
      /\ jobs' \in [Items -> {"none", "pending", "failed", "stale", "indexed"}]
    BY <1>1, <1>5 DEF MemTypeOK
<1>9. JobsFit'
    BY <1>5 DEF MemInv, JobsFit
<1>10. LineageTyped'
    BY <1>3, <1>4, <1>5 DEF MemInv, LineageTyped
<1>11. LineageIsSound'
  <2>1. LineageIsSound
    BY DEF MemInv
  <2> QED BY <1>3, <1>4, <1>5, <2>1 DEF LineageIsSound
<1>12. CopiesFit(t)'
    BY <1>7, EmptyFit DEF OneOf, Holding, Rolling
<1>13. TasksFit(t)'
    BY <1>7 DEF TasksFit, Single, Rolling
<1>14. New(t)' = {} /\ \A j \in Items : ~IsRow(copy'[t][j])
    BY <1>7 DEF New, NoCopies, IsRow
<1> QED BY <1>2, <1>5, <1>7, <1>8, <1>9, <1>10, <1>11, <1>12, <1>13, <1>14, OtherTableStep

LEMMA RollupRecordKeeps == ASSUME MemInv, RollupRecord PROVE MemInv'
<1> Worker \in Threads
    BY DEF Threads
<1>1. MemTypeOK /\ CopiesFit(Worker) /\ TasksFit(Worker) /\ copy[Worker] \in [Items -> Row \cup {NoRow}]
      /\ doing[Worker] \in Doings
    BY Facts
<1>2. at[Worker] = "rollupRecord" /\ InTheMaking(Worker) = {}
    BY DEF RollupRecord, InTheMaking
<1>3. PICK i \in Items : todo[Worker] = {i}
    BY <1>1, <1>2 DEF TasksFit, Single, Rolling
<1>4. PICK held \in SUBSET Items : held = HeldBy(Worker) /\ held = HeldInputs
    BY DEF HeldBy, HeldInputs
<1>5. IsRow(rows[i]) /\ i \notin held
    BY <1>1, <1>2, <1>3, <1>4 DEF TasksFit, HeldBy
<1>6. rollups' = rollups \cup {<<i, held>>}
    BY <1>3, <1>4 DEF RollupRecord
<1>7. UNCHANGED <<rows, jobs, vectors, links, epoch, hits, cut>> /\ begun' \in 0 .. Begun
      /\ copy' = [copy EXCEPT ![Worker] = copy[Worker]]
      /\ doing' = [doing EXCEPT ![Worker] = doing[Worker]]
    BY <1>1, Copies DEF RollupRecord, historyVars
<1>8. StepOf(Worker) /\ at'[Worker] = "rollupLinks" /\ todo'[Worker] = {i}
      /\ copy'[Worker] = copy[Worker] /\ doing'[Worker] = doing[Worker]
    BY <1>1, <1>3, <1>7, Shapes DEF Go, StepOf, Steps, RollupRecord
<1>9. vectors' \subseteq Items
      /\ jobs' \in [Items -> {"none", "pending", "failed", "stale", "indexed"}]
    BY <1>1, <1>7 DEF MemTypeOK
<1>10. JobsFit'
    BY <1>7 DEF MemInv, JobsFit
<1>11. LineageTyped'
    BY <1>6, <1>7 DEF MemInv, LineageTyped
<1>12. LineageIsSound'
  <2>1. LineageIsSound
    BY DEF MemInv
  <2> QED BY <1>5, <1>6, <1>7, <2>1 DEF LineageIsSound
<1>13. CopiesFit(Worker)'
  <2>1. \A j \in Items : Kept(j, copy[Worker][j])'
    BY <1>1, <1>7, <1>8 DEF CopiesFit, Kept
  <2> QED BY <1>1, <1>2, <1>3, <1>7, <1>8, <2>1 DEF CopiesFit, Bare, OneOf, Holding, Rolling
<1>14. TasksFit(Worker)'
  <2>1. HeldBy(Worker)' = held
    BY <1>3, <1>4, <1>8 DEF HeldBy
  <2>2. \A j \in held : IsRow(rows'[j])
    BY <1>1, <1>2, <1>4, <1>7 DEF TasksFit, Rolling
  <2>3. <<i, held>> \in rollups'
    BY <1>6
  <2> QED BY <1>5, <1>7, <1>8, <2>1, <2>2, <2>3 DEF TasksFit, Single, Rolling
<1>15. New(Worker)' = {}
    BY <1>8 DEF New
<1>16. \A j \in Items : IsRow(copy'[Worker][j]) => IsRow(copy[Worker][j])
    BY <1>8
<1> QED BY <1>2, <1>6, <1>7, <1>8, <1>9, <1>10, <1>11, <1>12, <1>13, <1>14, <1>15, <1>16, OtherTableStep

LEMMA RollupLinksKeeps == ASSUME MemInv, RollupLinks PROVE MemInv'
<1> Worker \in Threads
    BY DEF Threads
<1>1. MemTypeOK /\ CopiesFit(Worker) /\ TasksFit(Worker) /\ NoCopies \in [Items -> Row \cup {NoRow}]
      /\ doing[Worker] \in Doings
    BY Facts
<1>2. at[Worker] = "rollupLinks" /\ InTheMaking(Worker) = {}
    BY DEF RollupLinks, InTheMaking
<1>3. PICK i \in Items : todo[Worker] = {i}
    BY <1>1, <1>2 DEF TasksFit, Single, Rolling
<1>4. PICK held \in SUBSET Items : held = HeldBy(Worker) /\ held = HeldInputs
    BY DEF HeldBy, HeldInputs
<1>5. /\ IsRow(rows[i]) /\ i \notin held /\ <<i, held>> \in rollups
      /\ \A j \in held : IsRow(rows[j])
    BY <1>1, <1>2, <1>3, <1>4 DEF TasksFit, HeldBy, Rolling
<1>6. PICK made \in SUBSET held : links' = links \cup {<<"refines", i, j>> : j \in made}
    BY <1>3, <1>4 DEF RollupLinks
<1>7. UNCHANGED <<rows, jobs, vectors, rollups, epoch, hits, cut>> /\ begun' \in 0 .. Begun
      /\ copy' = [copy EXCEPT ![Worker] = NoCopies]
      /\ doing' = [doing EXCEPT ![Worker] = doing[Worker]]
    BY <1>1, Copies DEF RollupLinks, historyVars
<1>8. StepOf(Worker) /\ at'[Worker] = "sweepRead" /\ todo'[Worker] = {} /\ copy'[Worker] = NoCopies
      /\ doing'[Worker] = doing[Worker]
    BY <1>1, <1>7, Shapes DEF Go, StepOf, Steps, RollupLinks
<1>9. vectors' \subseteq Items
      /\ jobs' \in [Items -> {"none", "pending", "failed", "stale", "indexed"}]
    BY <1>1, <1>7 DEF MemTypeOK
<1>10. JobsFit'
    BY <1>7 DEF MemInv, JobsFit
<1>11. \A l \in links' : l \in links \/ \E j \in made : l = <<"refines", i, j>>
    BY <1>6
<1>12. LineageTyped'
  <2>1. LineageTyped
    BY DEF MemInv
  <2> QED BY <1>7, <1>11, <2>1 DEF LineageTyped
<1>13. LineageIsSound'
  <2>1. LineageIsSound
    BY DEF MemInv
  <2>2. \A l \in links' : l[2] # l[3] /\ IsRow(rows[l[2]]) /\ IsRow(rows[l[3]])
    BY <1>5, <1>11, <2>1 DEF LineageIsSound
  <2>3. ASSUME NEW l \in links', l[1] = "refines"
        PROVE  \E c \in rollups : c[1] = l[2] /\ l[3] \in c[2]
    <3>1. CASE l \in links
      BY <2>1, <2>3, <3>1 DEF LineageIsSound
    <3>2. CASE \E j \in made : l = <<"refines", i, j>>
      <4>1. PICK j \in made : l = <<"refines", i, j>>
        BY <3>2
      <4>2. l[2] = i /\ l[3] \in held
        BY <4>1
      <4> QED BY <1>5, <4>2
    <3> QED BY <1>11, <3>1, <3>2
  <2> QED BY <1>7, <2>1, <2>2, <2>3 DEF LineageIsSound
<1>14. CopiesFit(Worker)'
    BY <1>8, EmptyFit DEF OneOf, Holding, Rolling
<1>15. TasksFit(Worker)'
    BY <1>8 DEF TasksFit, Single, Rolling
<1>16. New(Worker)' = {} /\ \A j \in Items : ~IsRow(copy'[Worker][j])
    BY <1>8 DEF New, NoCopies, IsRow
<1> QED BY <1>2, <1>7, <1>8, <1>9, <1>10, <1>12, <1>13, <1>14, <1>15, <1>16, OtherTableStep

LEMMA AgeKeeps == ASSUME MemInv, Age PROVE MemInv'
<1>1. UNCHANGED <<tableVars, threadVars, begun, historyVars>> /\ epoch' \in 0 .. Epochs
    BY MemoryAssumption DEF Age, MemInv, MemTypeOK
<1>2. MemTypeOK' /\ hits' \in [Items -> Nat]
    BY <1>1 DEF MemInv, MemTypeOK, tableVars, threadVars, historyVars
<1>3. \A i \in Items : Kept(i, rows[i])'
    BY <1>1 DEF MemInv, Kept, tableVars, historyVars
<1>4. \A t \in Threads : CopiesFit(t)'
    BY <1>1 DEF MemInv, CopiesFit, Kept, tableVars, threadVars, historyVars
<1>5. \A t \in Threads : TasksFit(t)'
    BY <1>1 DEF MemInv, TasksFit, HeldBy, tableVars, threadVars, historyVars
<1>6. NewIsOwn' /\ JobsFit' /\ JobKnown' /\ LineageTyped' /\ LineageIsSound'
    BY <1>1 DEF MemInv, NewIsOwn, New, JobsFit, JobKnown, InTheMaking, LineageTyped, LineageIsSound,
                tableVars, threadVars, historyVars
<1> QED BY <1>2, <1>3, <1>4, <1>5, <1>6 DEF MemInv

\* What a restart takes from a thread; what it took from a maker is known.
LEMMA RestartKeeps == ASSUME MemInv, MemRestart PROVE MemInv'
<1>1. /\ MemTypeOK /\ hits \in [Items -> Nat]
      /\ UNCHANGED <<rows, jobs, vectors, rollups, links, begun, epoch, hits>>
      /\ at' = [t \in Threads |-> "idle"] /\ todo' = [t \in Threads |-> {}]
      /\ copy' = [t \in Threads |-> NoCopies] /\ doing' = [t \in Threads |-> "none"]
      /\ cut' = cut \cup UNION {InTheMaking(t) : t \in Threads}
    BY DEF MemRestart, MemInv, tableVars
<1>2. NoCopies \in [Items -> Row \cup {NoRow}] /\ \A i \in Items : ~IsRow(NoCopies[i])
    BY DEF NoCopies, IsRow
<1>3. MemTypeOK'
  <2>1. cut' \subseteq Items
    BY <1>1 DEF MemTypeOK, InTheMaking
  <2> QED BY <1>1, <1>2, <2>1 DEF MemTypeOK, Steps, Doings
<1>4. \A i \in Items : Kept(i, rows[i])'
    BY <1>1 DEF MemInv, Kept
<1>5. \A t \in Threads : CopiesFit(t)'
    BY <1>1, EmptyFit DEF OneOf, Holding, Rolling
<1>6. \A t \in Threads : TasksFit(t)'
    BY <1>1 DEF TasksFit, Single, Rolling
<1>7. NewIsOwn' /\ JobsFit'
    BY <1>1 DEF MemInv, NewIsOwn, New, JobsFit
<1>8. JobKnown'
  <2>1. JobKnown
    BY DEF MemInv
  <2> QED BY <1>1, <2>1 DEF JobKnown
<1>9. LineageTyped' /\ LineageIsSound'
    BY <1>1 DEF MemInv, LineageTyped, LineageIsSound
<1> QED BY <1>1, <1>3, <1>4, <1>5, <1>6, <1>7, <1>8, <1>9 DEF MemInv

LEMMA MemInductive == MemInv /\ [MemNext]_memVars => MemInv'
<1> SUFFICES ASSUME MemInv, [MemNext]_memVars PROVE MemInv'
    OBVIOUS
<1>1. CASE UNCHANGED memVars
    BY <1>1 DEF memVars, tableVars, threadVars, historyVars, MemInv, MemTypeOK, CopiesFit, TasksFit, Kept,
                HeldBy, NewIsOwn, New, JobsFit, JobKnown, InTheMaking, LineageTyped, LineageIsSound
<1>2. ASSUME NEW t \in Writers, WriterStep(t) PROVE MemInv'
  <2>1. t \in Threads
    BY DEF Threads
  <2> QED BY <1>2, <2>1, BeginCreateKeeps, InsertKeeps, VectorKeeps, SaveRefKeeps, RecordKeeps,
             BeginOutcomeKeeps, HitKeeps, RereadKeeps, EvaluateKeeps, BeginEditKeeps, WriteKeeps,
             LinkKeeps, BeginIndexingKeeps, JobVectorKeeps, JobSaveKeeps, JobRecordKeeps DEF WriterStep
<1>3. CASE Round
    BY <1>3, BeginRoundKeeps, RollupKeeps, RollupRecordKeeps, RollupLinksKeeps, SweepReadKeeps,
       SweepKeeps, DecayReadKeeps, DecayRowKeeps DEF Round
<1> QED BY <1>1, <1>2, <1>3, AgeKeeps, RestartKeeps DEF MemNext

LEMMA MemInvAlways == MemSpec => []MemInv
BY MemStarts, MemInductive, PTL DEF MemSpec

\* However the threads' reads and whole-row writes fall, through failures and
\* restarts, every row carries counters that were counted together and a tier
\* that they have earned, and no lineage points to a row that was not written
\* (repository.update, reinforce_memory_item, consolidate_episodic_memories).
THEOREM RowsAreEarnedHolds == MemSpec => []RowsAreEarned
<1>1. MemInv => RowsAreEarned
  <2> SUFFICES ASSUME MemInv PROVE RowsAreEarned
      OBVIOUS
  <2>1. MemTypeOK /\ LineageIsSound
    BY DEF MemInv
  <2>2. CountsAddUp /\ TierEarned
    BY DEF MemInv, Kept, Sound, CountsAddUp, TierEarned
  <2> QED BY <2>1, <2>2 DEF RowsAreEarned
<1> QED BY <1>1, MemInvAlways, PTL

\* What the vector engine lacks is found again by the index worker, whichever
\* of the vector, the row's reference and the job were written before a failure
\* or a restart (index_memory_item, process_index_jobs).
THEOREM IndexIsRepairableHolds == MemSpec => []IndexIsRepairable
<1>1. MemInv => IndexIsRepairable
  <2> SUFFICES ASSUME MemInv PROVE IndexIsRepairable
      OBVIOUS
  <2>1. MissingIsFound
    BY DEF MemInv, MissingIsFound, Kept, JobsFit
  <2>2. JobKnown
    BY DEF MemInv
  <2> QED BY <2>1, <2>2 DEF IndexIsRepairable
<1> QED BY <1>1, MemInvAlways, PTL

-------------------------------------------------------------------------------
(***************************************************************************)
(* LearningLoop                                                            *)
(***************************************************************************)
\* What a run of the learner has done before the statement it is at.
PastOutcome == {"lessons", "decay"}

\* The target of the feedback under way is an outcome on record, and its reward
\* has moved once the row of the feedback is the next to write.
TargetOnRecord ==
    learner # Free =>
        /\ learner.at \in {"apply", "record"} => learner.target \in Outcomes
        /\ learner.at = "record" => outcomes[learner.target] = "fed"

\* Past its outcome a run is a turn's own, and the outcome is on record.
TurnOnRecord ==
    learner # Free /\ learner.at \in PastOutcome =>
        ~learner.replay /\ learner.turn \in Outcomes

\* A decay has selected lessons that are on record and not archived.
DecayOfLearned ==
    learner # Free /\ learner.at = "decay" =>
        \A l \in learner.todo : lesson[l] # Unlearned /\ lesson[l].at = "learned"

\* LearningAgrees is not inductive by itself: the two halves of the feedback and
\* the two of the outcome are tied together by what the learner has done.
LearningInv ==
    /\ LearningAgrees
    /\ TargetOnRecord
    /\ TurnOnRecord
    /\ DecayOfLearned

LEMMA LearningStarts == LearnInit => LearningInv
<1> SUFFICES ASSUME LearnInit PROVE LearningInv
    OBVIOUS
<1> USE LearningAssumption DEF LearnInit, Free, Unlearned, Outcomes
<1>1. LearnTypeOK
    BY DEF LearnTypeOK, Heard
<1>2. FeedbackIsFelt
    BY DEF FeedbackIsFelt
<1>3. SeasonedStaysVisible /\ CountedIsRecorded
    BY DEF SeasonedStaysVisible, CountedIsRecorded
<1>4. TargetOnRecord /\ TurnOnRecord /\ DecayOfLearned
    BY DEF TargetOnRecord, TurnOnRecord, DecayOfLearned
<1> QED BY <1>1, <1>2, <1>3, <1>4 DEF LearningInv, LearningAgrees

\* What a learner that is at a statement looks like.
LEMMA BusyLearner ==
    ASSUME LearnTypeOK, learner # Free
    PROVE  /\ learner \in [at: {"detect", "apply", "record", "save", "lessons", "decay"},
                           turn: Heard, replay: BOOLEAN, target: Heard \cup {0},
                           todo: SUBSET Lessons]
           /\ learner.at # "free"
BY DEF LearnTypeOK

\* A learner that is at a statement is not free.
LEMMA AtIsBusy == learner.at # "free" => learner # Free
BY DEF Free

\* The lessons that a user has on record.
LessonRows ==
    [at: {"learned", "archived"}, conf: 0 .. Ceiling, reinf: 1 .. Seasoned,
     hidden: BOOLEAN, stale: BOOLEAN, expired: BOOLEAN]

Visible(m) == m \in LessonRows /\ (m.reinf = Seasoned => ~m.hidden)

\* A lesson on record is a row, and in sight once it is seasoned.
LEMMA LessonIsRow ==
    ASSUME LearnTypeOK, SeasonedStaysVisible, NEW l \in Lessons, lesson[l] # Unlearned
    PROVE  Visible(lesson[l])
BY DEF LearnTypeOK, SeasonedStaysVisible, Visible, LessonRows

\* A row is not the mark of a lesson that was never learned.
LEMMA RowIsLearned == ASSUME NEW m \in LessonRows PROVE m # Unlearned
BY DEF LessonRows, Unlearned

\* Reinforcement keeps a lesson's row, and leaves it in sight (upsert_lesson).
LEMMA UpsertKeeps ==
    ASSUME LearnTypeOK, SeasonedStaysVisible, NEW l \in Lessons
    PROVE  Visible(Upserted(l))
<1> USE LearningAssumption DEF Visible, LessonRows, Seasoned
<1>1. CASE lesson[l] = Unlearned
  <2>1. Ceiling - 1 \in 0 .. Ceiling /\ 1 \in 1 .. 3
    OBVIOUS
  <2> QED BY <1>1, <2>1 DEF Upserted
<1>2. CASE lesson[l] # Unlearned /\ lesson[l].at = "archived"
    BY <1>2, LessonIsRow DEF Upserted
<1>3. CASE lesson[l] # Unlearned /\ lesson[l].at # "archived"
  <2>1. PICK m \in LessonRows : m = lesson[l]
    BY <1>3, LessonIsRow
  <2>2. (IF m.conf < Ceiling THEN m.conf + 1 ELSE Ceiling) \in 0 .. Ceiling
    BY <2>1
  <2>3. (IF m.reinf < 3 THEN m.reinf + 1 ELSE 3) \in 1 .. 3
    BY <2>1
  <2>4. Visible(Reinforced(m))
    BY <2>1, <2>2, <2>3 DEF Reinforced
  <2> QED BY <1>3, <2>1, <2>4 DEF Upserted
<1> QED BY <1>1, <1>2, <1>3

\* Decay keeps a row too, and hides none that is seasoned (decay_lessons).
LEMMA DecayKeeps ==
    ASSUME NEW m \in LessonRows, Visible(m), NEW d \in Decayed(m)
    PROVE  Visible(d)
<1> USE LearningAssumption DEF Visible, LessonRows
<1>1. CASE m.expired
    BY <1>1 DEF Decayed
<1>2. CASE ~m.expired /\ m.stale
  <2>1. PICK c \in 0 .. (IF m.conf > 0 THEN m.conf - 1 ELSE 0) :
           d = [m EXCEPT !.conf = c, !.hidden = Faint(m, c), !.stale = FALSE]
    BY <1>2 DEF Decayed
  <2>2. c \in 0 .. Ceiling
    OBVIOUS
  <2>3. Faint(m, c) \in BOOLEAN /\ (Faint(m, c) => m.reinf # Seasoned)
    BY DEF Faint, Seasoned
  <2> HIDE DEF Visible
  <2>4. d \in LessonRows
    BY <2>1, <2>2, <2>3
  <2>5. d.reinf = m.reinf /\ d.hidden = Faint(m, c)
    BY <2>1
  <2> QED BY <2>3, <2>4, <2>5 DEF Visible
<1>3. CASE ~m.expired /\ ~m.stale
    BY <1>3 DEF Decayed
<1> QED BY <1>1, <1>2, <1>3
\* One lesson is written, with a row that is in sight when it is seasoned.
LEMMA LessonWritten ==
    ASSUME LearnTypeOK, SeasonedStaysVisible,
           NEW l \in Lessons, NEW m, Visible(m), lesson' = [lesson EXCEPT ![l] = m]
    PROVE  /\ lesson' \in [Lessons -> {Unlearned} \cup LessonRows]
           /\ SeasonedStaysVisible'
           /\ \A k \in Lessons \ {l} : lesson'[k] = lesson[k]
<1>1. lesson \in [Lessons -> {Unlearned} \cup LessonRows]
    BY DEF LearnTypeOK, LessonRows
<1>2. m # Unlearned
    BY RowIsLearned DEF Visible
<1>3. SeasonedStaysVisible'
    BY <1>1 DEF SeasonedStaysVisible, Visible
<1> QED BY <1>1, <1>2, <1>3 DEF Visible

\* The learner before its outcome is saved: what is on record stays as it is.
LEMMA UntilSaved ==
    ASSUME LearningInv,
           \/ \E t \in Heard : StartTurn(t) \/ StartReplay(t)
           \/ Detect
    PROVE  LearningInv'
<1> USE LearningAssumption DEF LearningInv, LearningAgrees
<1>1. CASE \E t \in Heard : StartTurn(t)
  <2>1. PICK t \in Heard : StartTurn(t)
    BY <1>1
  <2>2. LearnTypeOK'
    <3>1. PICK s \in {"nothing", "verdict"} : says' = [says EXCEPT ![t] = s]
      BY <2>1 DEF StartTurn
    <3>2. says' \in [Heard -> {"unsaid", "nothing", "verdict"}]
      BY <3>1 DEF LearnTypeOK
    <3>3. starts' \in [Heard -> 0 .. Starts]
      BY <2>1 DEF StartTurn, LearnTypeOK
    <3> QED BY <2>1, <3>2, <3>3 DEF StartTurn, LearnTypeOK, Learning
  <2>3. FeedbackIsFelt' /\ CountedIsRecorded' /\ SeasonedStaysVisible'
    BY <2>1 DEF StartTurn, FeedbackIsFelt, CountedIsRecorded, SeasonedStaysVisible, Outcomes
  <2> QED BY <2>1, <2>2, <2>3
          DEF StartTurn, Learning, TargetOnRecord, TurnOnRecord, DecayOfLearned, PastOutcome
<1>2. CASE \E t \in Heard : StartReplay(t)
  <2>1. PICK t \in Heard : StartReplay(t)
    BY <1>2
  <2>2. LearnTypeOK'
    BY <2>1 DEF StartReplay, LearnTypeOK, Learning
  <2>3. FeedbackIsFelt' /\ CountedIsRecorded' /\ SeasonedStaysVisible'
    BY <2>1 DEF StartReplay, FeedbackIsFelt, CountedIsRecorded, SeasonedStaysVisible, Outcomes
  <2> QED BY <2>1, <2>2, <2>3
          DEF StartReplay, Learning, TargetOnRecord, TurnOnRecord, DecayOfLearned, PastOutcome
<1>3. CASE Detect
  <2>1. learner # Free
    BY <1>3, AtIsBusy DEF Detect
  <2>2. CASE says[learner.turn] = "nothing" \/ Candidates = {}
    <3>1. learner' = [learner EXCEPT !.at = "save"]
      BY <1>3, <2>2 DEF Detect, LearnAt
    <3>2. LearnTypeOK'
      BY <1>3, <2>1, <3>1, BusyLearner DEF Detect, LearnTypeOK
    <3>3. learner'.at = "save"
      BY <2>1, <3>1, BusyLearner
    <3>4. FeedbackIsFelt' /\ CountedIsRecorded' /\ SeasonedStaysVisible'
      BY <1>3, <3>3 DEF Detect, FeedbackIsFelt, CountedIsRecorded, SeasonedStaysVisible, Outcomes
    <3> QED BY <3>2, <3>3, <3>4
            DEF TargetOnRecord, TurnOnRecord, DecayOfLearned, PastOutcome
  <2>3. CASE ~(says[learner.turn] = "nothing" \/ Candidates = {})
    <3>1. PICK t \in Candidates : learner' = [learner EXCEPT !.at = "apply", !.target = t]
      BY <1>3, <2>3 DEF Detect
    <3>2. t \in Outcomes /\ t \in Heard
      BY DEF Candidates, Outcomes
    <3>3. LearnTypeOK'
      BY <1>3, <2>1, <3>1, <3>2, BusyLearner DEF Detect, LearnTypeOK
    <3>4. learner'.at = "apply" /\ learner'.target = t
      BY <2>1, <3>1, BusyLearner
    <3>5. FeedbackIsFelt' /\ CountedIsRecorded' /\ SeasonedStaysVisible'
      BY <1>3, <3>4 DEF Detect, FeedbackIsFelt, CountedIsRecorded, SeasonedStaysVisible, Outcomes
    <3>6. TargetOnRecord'
      BY <1>3, <3>2, <3>4 DEF Detect, TargetOnRecord, Outcomes
    <3> QED BY <3>3, <3>4, <3>5, <3>6
            DEF TurnOnRecord, DecayOfLearned, PastOutcome
  <2> QED BY <2>2, <2>3
<1> QED BY <1>1, <1>2, <1>3

\* The feedback: its target's reward moves, and the row follows.
LEMMA FeedbackGiven ==
    ASSUME LearningInv, ApplyFeedback \/ RecordFeedback \/ LearningEnds
    PROVE  LearningInv'
<1> USE LearningAssumption DEF LearningInv, LearningAgrees
<1>1. CASE ApplyFeedback
  <2>1. learner # Free /\ learner.target \in Heard /\ learner.target \in Outcomes
    BY <1>1, AtIsBusy DEF ApplyFeedback, TargetOnRecord, Outcomes
  <2>2. /\ outcomes' = [outcomes EXCEPT ![learner.target] = "fed"]
        /\ learner' = [learner EXCEPT !.at = "record"]
    BY <1>1 DEF ApplyFeedback, Fed, LearnAt
  <2>3. learner'.at = "record" /\ learner'.target = learner.target
    BY <2>1, <2>2, BusyLearner
  <2>4. LearnTypeOK'
    BY <1>1, <2>1, <2>2, BusyLearner DEF ApplyFeedback, LearnTypeOK
  <2>5. Outcomes' = Outcomes
    BY <2>1, <2>2 DEF Outcomes, LearnTypeOK
  <2>6. FeedbackIsFelt'
    BY <1>1, <2>1, <2>2, <2>3, <2>5, AtIsBusy
       DEF ApplyFeedback, FeedbackIsFelt, LearnTypeOK, Outcomes, Free
  <2>7. CountedIsRecorded' /\ SeasonedStaysVisible'
    BY <1>1, <2>5 DEF ApplyFeedback, CountedIsRecorded, SeasonedStaysVisible
  <2>8. TargetOnRecord'
    BY <2>1, <2>2, <2>3, <2>5 DEF TargetOnRecord, LearnTypeOK
  <2> QED BY <2>3, <2>4, <2>6, <2>7, <2>8 DEF TurnOnRecord, DecayOfLearned, PastOutcome
<1>2. CASE RecordFeedback
  <2>1. learner # Free /\ learner.target \in Outcomes /\ outcomes[learner.target] = "fed"
    BY <1>2, AtIsBusy DEF RecordFeedback, TargetOnRecord
  <2>2. learner' = [learner EXCEPT !.at = "save"] /\ learner'.at = "save"
    BY <1>2, <2>1, BusyLearner DEF RecordFeedback, LearnAt
  <2>3. LearnTypeOK'
    BY <1>2, <2>1, <2>2, BusyLearner DEF RecordFeedback, LearnTypeOK, Outcomes
  <2>4. FeedbackIsFelt' /\ CountedIsRecorded' /\ SeasonedStaysVisible'
    BY <1>2, <2>1 DEF RecordFeedback, FeedbackIsFelt, CountedIsRecorded,
                      SeasonedStaysVisible, Outcomes
  <2> QED BY <2>2, <2>3, <2>4 DEF TargetOnRecord, TurnOnRecord, DecayOfLearned, PastOutcome
<1>3. CASE LearningEnds
  <2>1. learner # Free /\ learner' = Free
    BY <1>3 DEF LearningEnds
  <2>2. {t \in {learner.target} : learner.at = "record"} \subseteq Heard
    BY <2>1 DEF TargetOnRecord, Outcomes
  <2>3. LearnTypeOK'
    BY <1>3, <2>1, <2>2 DEF LearningEnds, LearnTypeOK
  <2>4. FeedbackIsFelt' /\ CountedIsRecorded' /\ SeasonedStaysVisible'
    BY <1>3, <2>1 DEF LearningEnds, FeedbackIsFelt, CountedIsRecorded,
                      SeasonedStaysVisible, Outcomes
  <2> QED BY <2>1, <2>3, <2>4 DEF TargetOnRecord, TurnOnRecord, DecayOfLearned
<1> QED BY <1>1, <1>2, <1>3

\* The outcome of the turn, and what follows from it.
LEMMA OutcomeSaved ==
    ASSUME LearningInv, SaveOutcome \/ StartDecay \/ CountTurn
    PROVE  LearningInv'
<1> USE LearningAssumption DEF LearningInv, LearningAgrees
<1>1. CASE SaveOutcome /\ learner.replay
  <2>1. learner' = Free /\ UNCHANGED <<outcomes, rewritten, orphaned>>
    BY <1>1 DEF SaveOutcome
  <2>2. FeedbackIsFelt' /\ CountedIsRecorded' /\ SeasonedStaysVisible'
    BY <1>1, <2>1 DEF SaveOutcome, FeedbackIsFelt, CountedIsRecorded,
                      SeasonedStaysVisible, Outcomes
  <2> QED BY <1>1, <2>1, <2>2
          DEF SaveOutcome, LearnTypeOK, TargetOnRecord, TurnOnRecord, DecayOfLearned
<1>2. CASE SaveOutcome /\ ~learner.replay
  <2>1. learner # Free
    BY <1>2, AtIsBusy DEF SaveOutcome
  <2>2. learner.turn \in Heard /\ learner.replay = FALSE
    BY <1>2, <2>1, BusyLearner
  <2>3. /\ outcomes' = [outcomes EXCEPT ![learner.turn] = "saved"]
        /\ rewritten' = rewritten \cup (Outcomes \cap {learner.turn})
    BY <1>2 DEF SaveOutcome
  <2>4. PICK ls \in SUBSET Lessons :
          learner' = [learner EXCEPT !.at = "lessons", !.todo = ls]
    BY <1>2 DEF SaveOutcome
  <2>5. learner'.at = "lessons" /\ learner'.turn = learner.turn /\ learner'.replay = FALSE
    BY <2>1, <2>2, <2>4, BusyLearner
  <2>6. LearnTypeOK'
    BY <1>2, <2>1, <2>2, <2>3, <2>4, BusyLearner DEF SaveOutcome, LearnTypeOK, Outcomes
  <2>7. Outcomes' = Outcomes \cup {learner.turn}
    BY <2>2, <2>3 DEF Outcomes, LearnTypeOK
  <2>8. FeedbackIsFelt'
    <3>1. ASSUME NEW t \in feedback PROVE outcomes'[t] = "fed" \/ t \in rewritten'
      BY <2>2, <2>3 DEF FeedbackIsFelt, LearnTypeOK, Outcomes
    <3>2. ASSUME NEW t \in Outcomes', outcomes'[t] = "fed"
          PROVE  t \in feedback \/ t \in orphaned
      <4>1. t # learner.turn /\ t \in Outcomes /\ outcomes[t] = "fed"
        BY <2>2, <2>3, <2>7, <3>2 DEF LearnTypeOK
      <4> QED BY <1>2, <4>1 DEF FeedbackIsFelt, SaveOutcome
    <3> QED BY <1>2, <3>1, <3>2 DEF SaveOutcome, FeedbackIsFelt
  <2>9. CountedIsRecorded' /\ SeasonedStaysVisible'
    BY <1>2, <2>7 DEF SaveOutcome, CountedIsRecorded, SeasonedStaysVisible
  <2>10. TurnOnRecord'
    BY <2>5, <2>7 DEF TurnOnRecord
  <2> QED BY <2>5, <2>6, <2>8, <2>9, <2>10 DEF TargetOnRecord, DecayOfLearned
<1>3. CASE StartDecay
  <2>1. learner # Free
    BY <1>3, AtIsBusy DEF StartDecay
  <2>2. learner' = [learner EXCEPT !.at = "decay", !.todo = Decaying]
    BY <1>3 DEF StartDecay
  <2>3. /\ learner'.at = "decay" /\ learner'.todo = Decaying
        /\ learner'.turn = learner.turn /\ learner'.replay = learner.replay
    BY <2>1, <2>2, BusyLearner
  <2>4. LearnTypeOK'
    BY <1>3, <2>1, <2>2, BusyLearner DEF StartDecay, LearnTypeOK, Decaying
  <2>5. FeedbackIsFelt' /\ CountedIsRecorded' /\ SeasonedStaysVisible'
    BY <1>3, <2>3 DEF StartDecay, FeedbackIsFelt, CountedIsRecorded, SeasonedStaysVisible, Outcomes
  <2>6. TurnOnRecord'
    BY <1>3, <2>1, <2>3 DEF StartDecay, TurnOnRecord, PastOutcome, Outcomes
  <2>7. DecayOfLearned'
    BY <1>3, <2>3 DEF StartDecay, DecayOfLearned, Decaying
  <2> QED BY <2>3, <2>4, <2>5, <2>6, <2>7 DEF TargetOnRecord
<1>4. CASE CountTurn
  <2>1. learner # Free /\ learner' = Free
    BY <1>4, AtIsBusy DEF CountTurn
  <2>2. learner.turn \in Outcomes
    BY <1>4, <2>1 DEF CountTurn, TurnOnRecord, PastOutcome
  <2>3. FeedbackIsFelt' /\ CountedIsRecorded' /\ SeasonedStaysVisible'
    BY <1>4, <2>1, <2>2 DEF CountTurn, FeedbackIsFelt, CountedIsRecorded,
                            SeasonedStaysVisible, Outcomes
  <2> QED BY <1>4, <2>1, <2>2, <2>3
          DEF CountTurn, LearnTypeOK, TargetOnRecord, TurnOnRecord, DecayOfLearned, Outcomes
<1> QED BY <1>1, <1>2, <1>3, <1>4

\* A lesson is reinforced, decays or grows old.
LEMMA LessonChanges ==
    ASSUME LearningInv, NEW l \in Lessons,
           UpsertLesson(l) \/ DecayLesson(l) \/ GrowOld(l)
    PROVE  LearningInv'
<1> USE LearningAssumption DEF LearningInv, LearningAgrees
<1>1. UNCHANGED <<says, outcomes, feedback, sampled, starts, rewritten, orphaned>>
    BY DEF UpsertLesson, DecayLesson, GrowOld
<1>2. \/ learner = Free /\ learner' = learner
      \/ /\ learner # Free /\ learner.at \in PastOutcome
         /\ learner' = [learner EXCEPT !.todo = @ \ {l}]
    BY AtIsBusy DEF UpsertLesson, DecayLesson, GrowOld, PastOutcome
<1>3. PICK m : Visible(m) /\ lesson' = [lesson EXCEPT ![l] = m]
  <2>1. CASE UpsertLesson(l)
      BY <2>1, UpsertKeeps DEF UpsertLesson
  <2>2. CASE DecayLesson(l)
    <3>1. lesson[l] # Unlearned
      BY <2>2, AtIsBusy DEF DecayLesson, DecayOfLearned
    <3>2. Visible(lesson[l])
      BY <3>1, LessonIsRow
    <3>3. PICK d \in Decayed(lesson[l]) : lesson' = [lesson EXCEPT ![l] = d]
      BY <2>2 DEF DecayLesson
    <3>4. Visible(d)
      BY <3>2, <3>3, DecayKeeps DEF Visible
    <3> QED BY <3>3, <3>4
  <2>3. CASE GrowOld(l)
    <3>1. Visible(lesson[l])
      BY <2>3, LessonIsRow DEF GrowOld
    <3>2. PICK r \in LessonRows : r = lesson[l] /\ Visible(r)
      BY <3>1 DEF Visible
    <3>3. lesson \in [Lessons -> {Unlearned} \cup LessonRows]
      BY DEF LearnTypeOK, LessonRows
    <3>4. \/ lesson' = [lesson EXCEPT ![l] = [r EXCEPT !.stale = TRUE]]
          \/ lesson' = [lesson EXCEPT ![l] = [r EXCEPT !.stale = TRUE, !.expired = TRUE]]
      BY <2>3, <3>2, <3>3 DEF GrowOld
    <3>5. /\ Visible([r EXCEPT !.stale = TRUE])
          /\ Visible([r EXCEPT !.stale = TRUE, !.expired = TRUE])
      BY <3>2 DEF Visible, LessonRows
    <3> QED BY <3>4, <3>5
  <2> QED BY <2>1, <2>2, <2>3
<1>4. /\ lesson' \in [Lessons -> {Unlearned} \cup LessonRows]
      /\ SeasonedStaysVisible'
      /\ \A k \in Lessons \ {l} : lesson'[k] = lesson[k]
    BY <1>3, LessonWritten
<1>5. Outcomes' = Outcomes
    BY <1>1 DEF Outcomes
<1>6. CASE learner = Free /\ learner' = learner
  <2>1. LearnTypeOK'
    BY <1>1, <1>4, <1>6 DEF LearnTypeOK, LessonRows
  <2>2. DecayOfLearned'
    BY <1>6 DEF DecayOfLearned
  <2> QED BY <1>1, <1>4, <1>5, <1>6, <2>1, <2>2
          DEF FeedbackIsFelt, CountedIsRecorded, TargetOnRecord, TurnOnRecord
<1>7. CASE /\ learner # Free /\ learner.at \in PastOutcome
           /\ learner' = [learner EXCEPT !.todo = @ \ {l}]
  <2>1. /\ learner'.at = learner.at /\ learner'.turn = learner.turn
        /\ learner'.replay = learner.replay /\ learner'.target = learner.target
        /\ learner'.todo = learner.todo \ {l}
    BY <1>7, BusyLearner
  <2>2. LearnTypeOK'
    BY <1>1, <1>4, <1>7, BusyLearner DEF LearnTypeOK, LessonRows
  <2>3. DecayOfLearned'
    BY <1>4, <1>7, <2>1, BusyLearner DEF DecayOfLearned
  <2>4. FeedbackIsFelt' /\ CountedIsRecorded'
    BY <1>1, <1>5, <1>7, <2>1 DEF FeedbackIsFelt, CountedIsRecorded, PastOutcome
  <2>5. TargetOnRecord' /\ TurnOnRecord'
    BY <1>1, <1>5, <1>7, <2>1 DEF TargetOnRecord, TurnOnRecord, PastOutcome
  <2> QED BY <1>4, <2>2, <2>3, <2>4, <2>5
<1> QED BY <1>2, <1>6, <1>7

LEMMA LearningInductive == LearningInv /\ [LearnNext]_learnVars => LearningInv'
<1> SUFFICES ASSUME LearningInv, [LearnNext]_learnVars PROVE LearningInv'
    OBVIOUS
<1>1. CASE \E t \in Heard : StartTurn(t) \/ StartReplay(t)
    BY <1>1, UntilSaved
<1>2. CASE Detect
    BY <1>2, UntilSaved
<1>3. CASE ApplyFeedback \/ RecordFeedback \/ LearningEnds
    BY <1>3, FeedbackGiven
<1>4. CASE SaveOutcome \/ StartDecay \/ CountTurn
    BY <1>4, OutcomeSaved
<1>5. CASE \E l \in Lessons : UpsertLesson(l) \/ DecayLesson(l) \/ GrowOld(l)
    BY <1>5, LessonChanges
<1>6. CASE UNCHANGED learnVars
    BY <1>6 DEF learnVars, LearningInv, LearningAgrees, LearnTypeOK, FeedbackIsFelt,
                CountedIsRecorded, SeasonedStaysVisible, TargetOnRecord, TurnOnRecord,
                DecayOfLearned, Outcomes
<1> QED BY <1>1, <1>2, <1>3, <1>4, <1>5, <1>6 DEF LearnNext

\* What the learner reports of itself follows from what is on record, whatever
\* breaks off and is run again (process_turn_learning, apply_delayed_feedback).
THEOREM LearningAgreesHolds == LearnSpec => []LearningAgrees
<1>1. LearningInv => LearningAgrees
    BY DEF LearningInv
<1> QED BY <1>1, LearningStarts, LearningInductive, PTL DEF LearnSpec

\* A step of the learner leaves what is archived as it is: reinforcement is
\* refused, and decay has selected none of it (upsert_lesson, decay_lessons).
LEMMA ArchivedUntouched ==
    ASSUME LearningInv, [LearnNext]_learnVars,
           NEW l \in Lessons, lesson[l] # Unlearned, lesson[l].at = "archived"
    PROVE  lesson'[l] = lesson[l]
<1>1. lesson \in [Lessons -> {Unlearned} \cup LessonRows]
    BY DEF LearningInv, LearningAgrees, LearnTypeOK, LessonRows
<1>2. ASSUME NEW k \in Lessons, UpsertLesson(k) PROVE lesson'[l] = lesson[l]
    BY <1>1, <1>2 DEF UpsertLesson, Upserted
<1>3. ASSUME NEW k \in Lessons, DecayLesson(k) PROVE lesson'[l] = lesson[l]
  <2>1. k # l
    BY <1>3, AtIsBusy DEF DecayLesson, LearningInv, DecayOfLearned
  <2> QED BY <1>1, <1>3, <2>1 DEF DecayLesson
<1>4. ASSUME NEW k \in Lessons, GrowOld(k) PROVE lesson'[l] = lesson[l]
  <2>1. k # l
    BY <1>4 DEF GrowOld
  <2> QED BY <1>1, <1>4, <2>1 DEF GrowOld
<1>5. CASE UNCHANGED lesson
    BY <1>5
<1> QED
  <2>1. CASE \E k \in Lessons : UpsertLesson(k) \/ DecayLesson(k) \/ GrowOld(k)
    BY <1>2, <1>3, <1>4, <2>1
  <2>2. CASE UNCHANGED learnVars
    BY <1>5, <2>2 DEF learnVars
  <2>3. CASE \E t \in Heard : StartTurn(t) \/ StartReplay(t)
    BY <1>5, <2>3 DEF StartTurn, StartReplay
  <2>4. CASE \/ Detect \/ ApplyFeedback \/ RecordFeedback \/ SaveOutcome
             \/ StartDecay \/ CountTurn \/ LearningEnds
    BY <1>5, <2>4 DEF Detect, ApplyFeedback, RecordFeedback, SaveOutcome, StartDecay,
                      CountTurn, LearningEnds
  <2> QED BY <2>1, <2>2, <2>3, <2>4 DEF LearnNext

\* What its content hash stands for cannot be learned again (upsert_lesson).
THEOREM ArchivedForGoodHolds == LearnSpec => ArchivedForGood
<1>1. LearningInv /\ [LearnNext]_learnVars =>
        [\A l \in Lessons :
            lesson[l] # Unlearned /\ lesson[l].at = "archived" =>
                lesson'[l].at = "archived" /\ lesson'[l].conf = lesson[l].conf]_learnVars
    BY ArchivedUntouched
<1> QED BY <1>1, LearningStarts, LearningInductive, PTL DEF LearnSpec, ArchivedForGood

---------------------------------------------------------------------------
\* Whatever runs late, a mark that a user or a cycle has set is final: an
\* archived session, a closed goal, an archived lesson (set_archived,
\* _ALLOWED_TRANSITIONS, upsert_lesson).
THEOREM MarksStayHolds ==
    OneThread => (TranscriptSpec /\ GoalsSpec /\ LearnSpec => MarksStay)
BY ArchiveIsKeptHolds, ClosedStaysClosedHolds, ArchivedForGoodHolds DEF MarksStay
===============================================================================
