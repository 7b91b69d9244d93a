----------------------------- MODULE ChatClient -----------------------------
(***************************************************************************)
(* The chat of one browser tab: ChatShell.tsx over the store of            *)
(* cockpit-store.ts, the singleton of chat-session-runtime.ts and the      *)
(* history of use-session-history-from-server.ts.                          *)
(*                                                                         *)
(* Everything runs on the event loop of the tab.  A step is one task of    *)
(* it: a click, an event of a stream, an animation frame, an answer.  The  *)
(* callbacks of a turn that a click has aborted are microtasks: they run   *)
(* before any other task (Quiet).                                          *)
(*                                                                         *)
(* A turn stands for its question; a message is known by its turn and by   *)
(* whether it is the tab's own bubble or a row of the server.  Its text is *)
(* the list of the deltas in it, 0 for the whole text sent at once.        *)
(***************************************************************************)
EXTENDS Naturals, Sequences, SequencesExt, FiniteSetsExt

CONSTANTS
    Chats,          \* sessions, the first one being s_initial
    Initial,        \* INITIAL_SESSION_ID
    NoChat,         \* null
    SendBound,      \* bound on the number of turns sent
    DeltaBound,     \* bound on the deltas of all turns
    LoadBound,      \* bound on the histories under way at once
    GenBound        \* bound on the generation

ASSUME ChatsAssumption == Initial \in Chats /\ NoChat \notin Chats
ASSUME ClientBounds == {SendBound, DeltaBound, LoadBound, GenBound} \subseteq Nat

Sends == 1 .. SendBound
Loads == 1 .. LoadBound

VARIABLES
    known,      \* the sessions of the store
    used,       \* the ids that were given out
    shown,      \* activeSessionId of the store
    msgs,       \* the messages of each session
    failed,     \* lastFailedUserMessage of each session, 0 for none
    gen,        \* generation of the runtime
    runs,       \* activeSessionId of the runtime
    ctl,        \* the turn whose controller each session has, 0 for none
    buffer,     \* the deltas of each turn that wait for a frame
    bubble,     \* streamingAssistantIdRef, 0 for null
    inflight,   \* inflightSessionId
    turn,       \* each turn: its session, generation, connection and deltas
    stored,     \* the turns of each session that the server has stored
    load        \* the histories under way

storeVars == <<known, used, shown, msgs, failed>>
runtimeVars == <<gen, runs, ctl, buffer>>
shellVars == <<bubble, inflight>>
clientVars == <<storeVars, runtimeVars, shellVars, turn, stored, load>>

Message(t, role, local, text, streaming) ==
    [of |-> t, role |-> role, local |-> local, text |-> text,
     streaming |-> streaming, error |-> FALSE]

Question(t) == Message(t, "user", TRUE, <<>>, FALSE)
Bubble(t) == Message(t, "assistant", TRUE, <<>>, TRUE)
ErrorOf(t) == [Message(t, "error", TRUE, <<>>, FALSE) EXCEPT !.error = TRUE]

IsBubble(m, t) == m.local /\ m.role = "assistant" /\ m.of = t

Unsent == [chat |-> NoChat, gen |-> 0, net |-> "unsent", sent |-> 0, kept |-> FALSE]
NoLoad == [chat |-> NoChat, gen |-> 0, at |-> "none", entry |-> FALSE, rows |-> <<>>]

---------------------------------------------------------------------------
\* patchMessage: the message with this id, if there, stops streaming, shows an
\* error, or has its text replaced.
Stopped(ms, t) ==
    [i \in DOMAIN ms |-> IF IsBubble(ms[i], t) THEN [ms[i] EXCEPT !.streaming = FALSE] ELSE ms[i]]
Errored(ms, t) ==
    [i \in DOMAIN ms |-> IF IsBubble(ms[i], t) THEN [ms[i] EXCEPT !.error = TRUE] ELSE ms[i]]
Rewritten(ms, t) ==
    [i \in DOMAIN ms |-> IF IsBubble(ms[i], t) THEN [ms[i] EXCEPT !.text = <<0>>] ELSE ms[i]]

Streaming(c) == \E i \in DOMAIN msgs[c] : msgs[c][i].streaming

\* isCurrent of the runtime.
Current(t) == gen = turn[t].gen /\ runs = turn[t].chat /\ ctl[turn[t].chat] # 0

\* The mutation that useMutation shows is the last one.
Pending == \E t \in Sends :
    turn[t].net \notin {"unsent", "settled"} /\ \A u \in Sends : u > t => turn[u].net = "unsent"

\* The composer is disabled.
Loading(c) == Streaming(c) \/ (Pending /\ inflight = c)

\* No aborted turn has callbacks to run.
Quiet == \A t \in Sends : turn[t].net # "aborted"

\* flushDeltaBufferNow: what each bubble has got.
Flushed(ms) ==
    [c \in Chats |-> [i \in DOMAIN ms[c] |->
        IF ms[c][i].local /\ ms[c][i].role = "assistant"
            THEN [ms[c][i] EXCEPT !.text = @ \o buffer[ms[c][i].of]]
            ELSE ms[c][i]]]
NoBuffer == [t \in Sends |-> <<>>]

\* The controllers of these sessions abort.
Aborted(cs) ==
    [t \in Sends |-> IF \E c \in cs : ctl[c] = t
                         THEN [turn[t] EXCEPT !.net = "aborted"] ELSE turn[t]]

---------------------------------------------------------------------------
\* The first page: the sessions that the browser has kept, without messages.
ClientInit ==
    /\ known \in {k \in SUBSET Chats : Initial \in k} /\ used = known /\ shown = Initial
    /\ msgs = [c \in Chats |-> <<>>]
    /\ failed = [c \in Chats |-> 0]
    /\ gen = 0 /\ runs = NoChat
    /\ ctl = [c \in Chats |-> 0]
    /\ buffer = NoBuffer
    /\ bubble = 0 /\ inflight = NoChat
    /\ turn = [t \in Sends |-> Unsent]
    /\ stored = [c \in Chats |-> <<>>]
    /\ load = [l \in Loads |-> NoLoad]

\* beginTurn and what the mutation does before its first await.
Begin(t, c, ms) ==
    /\ gen < GenBound
    /\ turn[t].net = "unsent" /\ \A u \in Sends : u < t => turn[u].net # "unsent"
    /\ gen' = gen + 1
    /\ runs' = c
    /\ ctl' = [ctl EXCEPT ![c] = t]
    /\ turn' = [Aborted({c}) EXCEPT ![t] =
                   [chat |-> c, gen |-> gen + 1, net |-> "open", sent |-> 0, kept |-> FALSE]]
    /\ buffer' = [u \in Sends |-> IF turn[u].chat = c THEN <<>> ELSE buffer[u]]
    /\ msgs' = [msgs EXCEPT ![c] = Append(ms, Bubble(t))]
    /\ bubble' = t
    /\ inflight' = c
    /\ UNCHANGED <<known, used, shown, failed, stored, load>>

\* handleSend: the composer takes no message while it is disabled.
Send ==
    /\ Quiet /\ ~Loading(shown)
    /\ \E t \in Sends : Begin(t, shown, Append(msgs[shown], Question(t)))

\* handleRetry, also from the button of an older error: nothing disables it.
Retry ==
    /\ Quiet /\ failed[shown] # 0
    /\ \E t \in Sends :
          Begin(t, shown, IF msgs[shown] = <<>> THEN <<>> ELSE Front(msgs[shown]))

\* The deltas that came so far.
Deltas == MapThenSumSet(LAMBDA t : turn[t].sent, Sends)

\* A variant of Delta that does not look whether the turn is current.
DeltaAnyway(t) ==
    /\ Quiet /\ turn[t].net = "open" /\ Deltas < DeltaBound
    /\ turn' = [turn EXCEPT ![t].sent = @ + 1]
    /\ buffer' = [buffer EXCEPT ![t] = Append(@, turn[t].sent + 1)]
    /\ UNCHANGED <<storeVars, gen, runs, ctl, shellVars, stored, load>>

\* onDelta and queueDelta.
Delta(t) ==
    /\ Quiet /\ turn[t].net = "open" /\ Deltas < DeltaBound
    /\ turn' = [turn EXCEPT ![t].sent = @ + 1]
    /\ buffer' = IF Current(t) THEN [buffer EXCEPT ![t] = Append(@, turn[t].sent + 1)]
                               ELSE buffer
    /\ UNCHANGED <<storeVars, gen, runs, ctl, shellVars, stored, load>>

\* The animation frame of scheduleFlush.
Frame ==
    /\ Quiet /\ buffer # NoBuffer
    /\ msgs' = Flushed(msgs)
    /\ buffer' = NoBuffer
    /\ UNCHANGED <<known, used, shown, failed, gen, runs, ctl,
                   shellVars, turn, stored, load>>

\* onReplace: the store is patched at once, whatever waits for a frame.
Replace(t) ==
    /\ Quiet /\ turn[t].net = "open"
    /\ turn' = [turn EXCEPT ![t].net = "replaced"]
    /\ msgs' = IF Current(t)
                   THEN [msgs EXCEPT ![turn[t].chat] = Rewritten(@, t)]
                   ELSE msgs
    /\ UNCHANGED <<known, used, shown, failed, runtimeVars,
                   shellVars, stored, load>>

\* External: the server stores the turn, with or without somebody listening.
Store(t) ==
    /\ Quiet /\ turn[t].net # "unsent" /\ ~turn[t].kept
    /\ turn' = [turn EXCEPT ![t].kept = TRUE]
    /\ stored' = [stored EXCEPT ![turn[t].chat] = Append(@, t)]
    /\ UNCHANGED <<storeVars, runtimeVars, shellVars, load>>

\* A history is asked for.
Asking(l, c, entry, g) ==
    [load EXCEPT ![l] = [chat |-> c, gen |-> g, at |-> "asked", entry |-> entry, rows |-> <<>>]]

\* onDone: the bubble is finished and the history asked for once more.
Done(t) ==
    /\ Quiet /\ turn[t].net \in {"open", "replaced"} /\ turn[t].kept
    /\ turn' = [turn EXCEPT ![t].net = "done"]
    /\ \/ /\ Current(t)
          /\ msgs' = [msgs EXCEPT ![turn[t].chat] = Stopped(@, t)]
          /\ \E l \in Loads :
                /\ load[l] = NoLoad
                /\ load' = Asking(l, turn[t].chat, FALSE, turn[t].gen)
       \/ ~Current(t) /\ UNCHANGED <<msgs, load>>
    /\ UNCHANGED <<known, used, shown, failed, runtimeVars,
                   shellVars, stored>>

\* No turn or switch came after this turn.
Latest(t) == gen = turn[t].gen

\* The messages and the reference to the bubble after the finally clause.
Ended(t) == IF Latest(t) THEN Flushed(msgs) ELSE msgs
Left(t) == IF Latest(t) THEN 0 ELSE bubble

\* The finally clause: endTurn, and onSettled.
Finally(t) ==
    /\ turn' = [turn EXCEPT ![t].net = "settled"]
    /\ inflight' = NoChat
    /\ ctl' = IF Latest(t) THEN [ctl EXCEPT ![turn[t].chat] = 0] ELSE ctl
    /\ buffer' = IF Latest(t) THEN NoBuffer ELSE buffer
    /\ UNCHANGED <<known, used, shown, gen, runs, stored, load>>

\* The stream ends, after "done" or (a cancelled turn) without it: onSuccess.
Close(t) ==
    /\ Quiet /\ turn[t].net \in {"open", "replaced", "done"}
    /\ Finally(t)
    /\ msgs' = Ended(t)
    /\ bubble' = Left(t)
    /\ failed' = [failed EXCEPT ![turn[t].chat] = 0]

\* The request or the stream fails: onError, which looks for the bubble in the
\* reference that the finally clause has just reset.
Fail(t) ==
    /\ Quiet /\ turn[t].net \in {"open", "replaced", "done"}
    /\ Finally(t)
    /\ msgs' = [Ended(t) EXCEPT ![turn[t].chat] =
                   IF turn[t].chat \notin known THEN @
                   ELSE IF Left(t) = 0 THEN Append(@, ErrorOf(t))
                   ELSE Errored(Stopped(@, Left(t)), Left(t))]
    /\ bubble' = 0
    /\ failed' = [failed EXCEPT ![turn[t].chat] = IF turn[t].chat \in known THEN t ELSE @]

\* The AbortError of an aborted turn: finalizeStreamingBubble.
Settle(t) ==
    /\ turn[t].net = "aborted"
    /\ Finally(t)
    /\ msgs' = [Ended(t) EXCEPT ![turn[t].chat] = Stopped(@, Left(t))]
    /\ bubble' = 0
    /\ UNCHANGED failed

---------------------------------------------------------------------------
\* handleStop: abortSession and finalizeStreamingBubble.
Stop ==
    /\ Quiet /\ Streaming(shown)
    /\ turn' = Aborted({shown})
    /\ ctl' = [ctl EXCEPT ![shown] = 0]
    /\ buffer' = [u \in Sends |-> IF turn[u].chat = shown THEN <<>> ELSE buffer[u]]
    /\ msgs' = [msgs EXCEPT ![shown] = Stopped(@, bubble)]
    /\ bubble' = 0
    /\ UNCHANGED <<known, used, shown, failed, gen, runs, inflight, stored, load>>

\* abortAll of the runtime.
AbortAll ==
    /\ gen < GenBound
    /\ turn' = Aborted(Chats)
    /\ ctl' = [c \in Chats |-> 0]
    /\ buffer' = NoBuffer
    /\ gen' = gen + 1
    /\ runs' = NoChat

\* clearAllStreamingFlags
AllStill(ms) ==
    [c \in Chats |-> [i \in DOMAIN ms[c] |-> [ms[c][i] EXCEPT !.streaming = FALSE]]]

\* The effect of useSessionHistoryFromServer: the load of the session that was
\* shown is cancelled, and one of the session shown now begins.
Enter(c, g, current) ==
    /\ shown' = c
    /\ IF c = shown
       THEN load' = current
       ELSE \E l \in Loads :
               /\ current[l] = NoLoad \/ current[l].entry
               /\ load' = [k \in Loads |->
                     IF k = l THEN [chat |-> c, gen |-> g, at |-> "asked",
                                    entry |-> TRUE, rows |-> <<>>]
                     ELSE IF current[k].entry THEN NoLoad ELSE current[k]]

\* createSession throws these away, if they have no title and no history is
\* under way for them or has failed.
Blank == {c \in known \ {shown, Initial} : msgs[c] = <<>>}

\* handleNewChat and createSession.
NewChat ==
    /\ Quiet
    /\ AbortAll
    /\ \E c \in Chats \ used :
          /\ used' = used \cup {c}
          /\ \E gone \in SUBSET Blank : known' = (known \ gone) \cup {c}
          /\ Enter(c, gen + 1, load)
    /\ msgs' = AllStill(msgs)
    /\ bubble' = 0 /\ inflight' = NoChat
    /\ UNCHANGED <<failed, stored>>

\* handleSelectSession
Select ==
    /\ Quiet
    /\ AbortAll
    /\ \E c \in known \ {shown} : Enter(c, gen + 1, load)
    /\ msgs' = AllStill(msgs)
    /\ bubble' = 0 /\ inflight' = NoChat
    /\ UNCHANGED <<known, used, failed, stored>>

\* Back and forward (useChatUrlSync): another session is shown, and nothing is
\* aborted.
GoBack ==
    /\ Quiet
    /\ \E c \in known \ {shown} : Enter(c, gen, load)
    /\ UNCHANGED <<known, used, msgs, failed, runtimeVars, shellVars, turn, stored>>

\* persistDelete of the sidebar and deleteSession of the store.  Nothing waits for
\* the server, whose call may fail.
Delete ==
    /\ Quiet
    /\ \E c \in known :
          /\ IF c = shown THEN AbortAll
                          ELSE UNCHANGED <<turn, ctl, buffer, gen, runs>>
          /\ known' = IF known = {c} THEN {Initial} ELSE known \ {c}
          /\ \E next \in known' :
                /\ c # shown => next = shown
                /\ Enter(next, gen', load)
          /\ msgs' = [msgs EXCEPT ![c] = <<>>]
          /\ failed' = [failed EXCEPT ![c] = 0]
          /\ stored' \in {stored, [stored EXCEPT ![c] = <<>>]}
    /\ UNCHANGED <<used, shellVars>>

\* The page is loaded again: the persisted sessions have no messages.
Reload ==
    /\ Quiet
    /\ \E t \in Sends : turn[t].net \notin {"unsent", "settled"}
    /\ msgs' = [c \in Chats |-> <<>>]
    /\ gen' = 0 /\ runs' = NoChat
    /\ ctl' = [c \in Chats |-> 0]
    /\ buffer' = NoBuffer
    /\ bubble' = 0 /\ inflight' = NoChat
    /\ turn' = [t \in Sends |-> IF turn[t].net = "unsent" THEN turn[t]
                                ELSE [turn[t] EXCEPT !.net = "settled", !.gen = 0]]
    /\ load' = [l \in Loads |-> IF l = 1 THEN [chat |-> shown, gen |-> 0, at |-> "asked",
                                               entry |-> TRUE, rows |-> <<>>]
                                ELSE NoLoad]
    /\ UNCHANGED <<known, used, shown, failed, stored>>

---------------------------------------------------------------------------
\* External: the server reads its transcript.
ReadLoad(l) ==
    /\ Quiet /\ load[l].at = "asked"
    /\ load' = [load EXCEPT ![l].at = "read", ![l].rows = stored[load[l].chat]]
    /\ UNCHANGED <<storeVars, runtimeVars, shellVars, turn, stored>>

\* A variant of CanApply that asks whose turn the composer waits for.
CanApplyIdle(c) == inflight # c

\* canApplyServerHistory: its branch for newer turns tests the same again.
CanApply(c) == ~Streaming(c) /\ ctl[c] = 0

\* The rows of these turns, as replaceSessionMessagesFromServer makes them: a
\* question and an answer of each.
RowsOf(ts) ==
    [i \in 1 .. 2 * Len(ts) |->
        IF i % 2 = 1 THEN Message(ts[(i + 1) \div 2], "user", FALSE, <<>>, FALSE)
                     ELSE Message(ts[(i + 1) \div 2], "assistant", FALSE, <<0>>, FALSE)]

\* The answer, which may have to be dropped.
ApplyLoad(l) ==
    /\ Quiet /\ load[l].at = "read"
    /\ LET c == load[l].chat IN
          \/ /\ CanApply(c) /\ c \in known
             /\ msgs' = [msgs EXCEPT ![c] = RowsOf(load[l].rows)]
          \/ /\ ~(CanApply(c) /\ c \in known)
             /\ UNCHANGED msgs
    /\ load' = [load EXCEPT ![l] = NoLoad]
    /\ UNCHANGED <<known, used, shown, failed, runtimeVars, shellVars, turn, stored>>

\* The call fails: the messages stay.
FailLoad(l) ==
    /\ Quiet /\ load[l].at # "none"
    /\ load' = [load EXCEPT ![l] = NoLoad]
    /\ UNCHANGED <<known, used, shown, msgs, failed, runtimeVars, shellVars, turn, stored>>

ClientNext ==
    \/ Send \/ Retry \/ Frame
    \/ \E t \in Sends : Delta(t) \/ Replace(t) \/ Store(t) \/ Done(t)
                        \/ Close(t) \/ Fail(t) \/ Settle(t)
    \/ Stop \/ NewChat \/ Select \/ GoBack \/ Delete \/ Reload
    \/ \E l \in Loads : ReadLoad(l) \/ ApplyLoad(l) \/ FailLoad(l)

ClientSpec == ClientInit /\ [][ClientNext]_clientVars

---------------------------------------------------------------------------
ClientTypeOK ==
    /\ known \subseteq used /\ used \subseteq Chats /\ shown \in known
    /\ \A c \in Chats : \A i \in DOMAIN msgs[c] :
          /\ msgs[c][i].of \in Sends
          /\ msgs[c][i].role \in {"user", "assistant", "error"}
    /\ failed \in [Chats -> 0 .. SendBound] /\ ctl \in [Chats -> 0 .. SendBound]
    /\ gen \in Nat /\ runs \in Chats \cup {NoChat} /\ bubble \in 0 .. SendBound
    /\ \A t \in Sends : turn[t].net \in {"unsent", "open", "replaced", "done", "aborted", "settled"}

\* A bubble shows the deltas of its own turn, each once, in the order they came
\* and without a gap, through frames, aborts and switches between sessions; after
\* a replacement of the whole text nothing but the end of them can follow.
TextIsInOrder ==
    \A c \in Chats : \A i \in DOMAIN msgs[c] :
        msgs[c][i].role = "assistant" /\ msgs[c][i].local =>
            LET x == msgs[c][i].text IN
            /\ turn[msgs[c][i].of].chat = c
            /\ \A k \in DOMAIN x : x[k] <= turn[msgs[c][i].of].sent
            /\ \A k \in 2 .. Len(x) : x[k - 1] # 0 => x[k] = x[k - 1] + 1
            /\ x # <<>> => x[1] \in {0, 1}

\* The bubble of the turn that the tab is listening to stays where it is, whatever
\* histories arrive and whichever turns are tried again: what is still to come of
\* its text has a place to go.
LiveBubbleStays ==
    \A t \in Sends :
        turn[t].net \in {"open", "replaced"} /\ Current(t) /\ turn[t].chat \in known =>
            \E i \in DOMAIN msgs[turn[t].chat] : IsBubble(msgs[turn[t].chat][i], t)

\* The tab shows what it was sent, in order, and keeps the place for the rest.
TabIsInOrder == ClientTypeOK /\ TextIsInOrder /\ LiveBubbleStays

\* The text of a turn's bubble, if it is there.
TextOf(t) == UNION {{m.text : m \in {n \in ToSet(msgs[c]) : IsBubble(n, t)}} : c \in Chats}

\* What the tab has of a turn, in its bubble or waiting for a frame.
Heard(t) == ToSet(buffer[t]) \cup UNION {ToSet(x) : x \in TextOf(t)}

\* "stale SSE callbacks no-op": once the tab listens to another turn, or to none,
\* it takes nothing of the turn any more (chat-session-runtime.ts).
StaleIsSilentStep ==
    \A t \in Sends :
        turn[t].net # "unsent" /\ ~Current(t) => Heard(t)' \subseteq Heard(t)
TabIsSilent == [][StaleIsSilentStep]_clientVars

\* After a turn that failed the composer can be used again: "retry" is enabled
\* (e2e/user.spec.ts, test D).
RetryIsOffered ==
    \A c \in Chats :
        failed[c] # 0 /\ (\A t \in Sends : turn[t].chat = c => turn[t].net \in {"unsent", "settled"})
            => ~Loading(c)

\* "Newer turn started after this load began - do not clobber": a history does
\* not take away the messages of a turn that began after it was asked for.
NewerTurnKeptStep ==
    \A t \in Sends, l \in Loads :
        load[l].at = "read" /\ load'[l] = NoLoad /\ load[l].chat = turn[t].chat
            /\ turn[t].gen > load[l].gen /\ TextOf(t) # {} /\ msgs'[turn[t].chat] # msgs[turn[t].chat]
            => \E i \in DOMAIN msgs'[turn[t].chat] : msgs'[turn[t].chat][i].of = t
NewerTurnKept == [][NewerTurnKeptStep]_clientVars
=============================================================================
