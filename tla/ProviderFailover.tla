-------------------------- MODULE ProviderFailover --------------------------
(***************************************************************************)
(* The model calls of one chat turn and the text they stream:              *)
(* ProviderExecutionService (aihub/turn/provider_service.py), the policy   *)
(* of aihub/llm/failover_policy.py, DeepInfraProvider.generate, which      *)
(* every registered provider is an instance of, ChatStreamSession, the     *)
(* end of _sse_chat_turn and what cockpit makes of its events.             *)
(*                                                                         *)
(* A call tries the providers in their order.  Three loops are nested: the *)
(* retries inside generate, the retry of the service on one provider, and  *)
(* the failover.  An attempt streams its deltas to the client as they      *)
(* come, and nothing takes them back when it fails half-way: the text the  *)
(* client shows is put right at the end of the turn, if it must be.        *)
(***************************************************************************)
EXTENDS Naturals, Sequences, FiniteSets

CONSTANTS
    Configured,     \* the names of the primary and of the reserves, in order
    InnerRetries,   \* LLM_PROVIDER_INTERNAL_RETRIES
    Words,          \* what a delta may carry
    Pieces,         \* bound on the deltas of an answer
    Calls,          \* bound on the model calls of the turn
    MaxQueue        \* maxsize of the stream's queue

ASSUME ProviderAssumption ==
    /\ Configured \in Seq(STRING) /\ Configured # <<>>
    /\ InnerRetries \in Nat /\ Pieces \in Nat /\ Calls \in Nat
    /\ MaxQueue \in Nat \ {0}
    /\ Words \subseteq STRING

Slots == DOMAIN Configured

(***************************************************************************)
(* The kinds of error: 401 402 403 and a missing key, 429, 409 and 425,    *)
(* 408 and 5xx, a transport error of httpx, any other exception inside a   *)
(* request, no content, another 4xx, no JSON, the timeout of the service,  *)
(* an exception outside the request.                                       *)
(***************************************************************************)
Kinds == {"auth", "rate", "conflict", "server", "transport", "wrapped",
          "empty", "bad", "malformed", "timeout", "bug"}

\* ProviderError.retryable: generate asks again by itself.
Retryable(kind) == kind \in {"rate", "conflict", "server", "transport"}

\* is_failover_eligible
Eligible(kind) == kind \notin {"bad", "bug"}

\* max_retries_before_failover
AllowedRetries(kind) ==
    IF kind \in {"rate", "server", "transport", "wrapped", "timeout"} THEN 1 ELSE 0

VARIABLES
    call,       \* how many model calls the turn has begun
    pc,         \* where the turn is
    slot,       \* the provider being tried, by its place in Configured
    retry,      \* retry_idx of the service
    inner,      \* the attempt of generate
    stream,     \* the request is streamed
    tools,      \* the call offers tools
    partial,    \* what this attempt has streamed so far
    requests,   \* history: the requests sent to each slot in this call
    error,      \* the exception that ended the attempt
    answers,    \* the texts of the calls that succeeded
    lost,       \* history: a delta was counted and never sent
    accum,      \* text_accum of the session
    deltas,     \* the deltas not yet delivered
    shown,      \* the text the client shows
    response    \* response_text, once the turn has ended

callVars == <<slot, retry, inner, stream, tools, partial, requests, error>>
textVars == <<lost, accum, deltas, shown>>
providerVars == <<call, pc, callVars, answers, textVars, response>>

NoError == "none"
Own == <<"own">>        \* a text that the pipeline writes itself

\* _providers_to_try: the places after i whose name does not come earlier.
Untried(i) ==
    {j \in Slots : j > i /\ \A k \in 1 .. j - 1 : Configured[k] # Configured[j]}

Least(S) == CHOOSE j \in S : \A k \in S : j <= k

---------------------------------------------------------------------------
ProviderInit ==
    /\ call = 0 /\ pc = "turn"
    /\ slot = 1 /\ retry = 0 /\ inner = 1
    /\ stream = FALSE /\ tools = FALSE /\ partial = <<>>
    /\ requests = [i \in Slots |-> 0] /\ error = NoError
    /\ answers = {} /\ lost = FALSE /\ accum = <<>> /\ deltas = <<>> /\ shown = <<>>
    /\ response = <<>>

\* A request goes out to the provider in slot i.
Sends(i) == requests' = [requests EXCEPT ![i] = @ + 1]

\* An attempt of the service: wait_for(generate(req)).
Attempt ==
    /\ inner' = 1
    /\ Sends(slot)
    /\ partial' = <<>>
    /\ stream' = ~tools
    /\ error' = NoError
    /\ pc' = "request"

\* execute: only a call without tools is streamed.
BeginCall ==
    /\ pc = "turn" /\ call < Calls
    /\ call' = call + 1
    /\ retry' = 0
    /\ slot' = 1 /\ inner' = 1 /\ partial' = <<>> /\ pc' = "request"
    /\ requests' = [i \in Slots |-> IF i = 1 THEN 1 ELSE 0]
    /\ error' = NoError
    /\ tools' \in BOOLEAN
    /\ stream' = ~tools'
    /\ UNCHANGED <<answers, textVars, response>>

\* A delta is added to text_accum before it waits for room in the queue.
Delta ==
    /\ pc = "request" /\ stream /\ Len(partial) < Pieces
    /\ \E w \in Words :
          /\ partial' = Append(partial, w)
          /\ accum' = Append(accum, w)
          /\ IF Len(deltas) < MaxQueue
             THEN deltas' = Append(deltas, w) /\ UNCHANGED pc
             ELSE pc' = "put" /\ UNCHANGED deltas
    /\ UNCHANGED <<call, slot, retry, inner, stream, tools, requests, error,
                   answers, lost, shown, response>>

DeltaLate ==
    /\ pc = "put" /\ Len(deltas) < MaxQueue
    /\ deltas' = Append(deltas, partial[Len(partial)])
    /\ pc' = "request"
    /\ UNCHANGED <<call, callVars, answers, lost, accum, shown, response>>

\* _ToolCallsInStreamError: the same attempt goes on without the stream.
Unstream ==
    /\ pc = "request" /\ stream
    /\ stream' = FALSE
    /\ partial' = <<>>
    /\ Sends(slot)
    /\ UNCHANGED <<call, pc, slot, retry, inner, tools, error, answers,
                   textVars, response>>

\* The answer: what was streamed, or the content of one JSON response, which
\* may be empty beside its tool calls.
Texts == IF stream THEN {partial} \ {<<>>}
         ELSE UNION {[1 .. n -> Words] : n \in 0 .. Pieces}

Succeed ==
    /\ pc = "request"
    /\ \E text \in Texts : answers' = answers \cup {text}
    /\ pc' = "turn"
    /\ UNCHANGED <<call, callVars, textVars, response>>

\* What the service does with an exception of generate.
Fails(kind) ==
    /\ error' = kind
    /\ lost' = (lost \/ pc = "put")
    /\ UNCHANGED <<call, inner, tools, partial, requests, answers, accum, deltas,
                   shown, response>>
    /\ \/ /\ retry < AllowedRetries(kind)
          /\ retry' = retry + 1
          /\ pc' = "sleep"
          /\ UNCHANGED <<slot, stream>>
       \/ /\ retry >= AllowedRetries(kind)
          /\ Eligible(kind) /\ Untried(slot) # {}
          /\ slot' = Least(Untried(slot))
          /\ retry' = 0
          /\ pc' = "next"
          /\ UNCHANGED stream
       \/ /\ retry >= AllowedRetries(kind)
          /\ ~Eligible(kind) \/ Untried(slot) = {}
          /\ pc' = "failed"
          /\ UNCHANGED <<slot, retry, stream>>

\* The errors that fit what the attempt has done: a status comes before the
\* first delta, and a stream skips the lines that are no JSON.
CanRaise(kind) ==
    /\ kind # "timeout"
    /\ stream => kind # "malformed"
    /\ stream /\ partial # <<>> => kind \in {"transport", "wrapped"}

\* generate catches what it may retry and waits.
Backoff ==
    /\ pc = "request" /\ inner <= InnerRetries
    /\ \E kind \in Kinds : CanRaise(kind) /\ Retryable(kind)
    /\ pc' = "backoff"
    /\ UNCHANGED <<call, callVars, answers, textVars, response>>

\* The next attempt of generate: what made it give up the stream stays.
AskAgain ==
    /\ pc = "backoff"
    /\ inner' = inner + 1
    /\ partial' = <<>>
    /\ Sends(slot)
    /\ pc' = "request"
    /\ UNCHANGED <<call, slot, retry, stream, tools, error, answers, textVars,
                   response>>

Raise ==
    /\ pc = "request"
    /\ \E kind \in Kinds :
          /\ CanRaise(kind)
          /\ Retryable(kind) => inner > InnerRetries
          /\ Fails(kind)

\* A variant of TimesOut that waits for the client.
TimesOutBetweenDeltas ==
    /\ pc \in {"request", "backoff"}
    /\ Fails("timeout")

\* wait_for gives up wherever generate is suspended, in a put too.
TimesOut ==
    /\ pc \in {"request", "put", "backoff"}
    /\ Fails("timeout")

\* The delay before the retry on the same provider: the request is streamed
\* again if the call may be.
Retry ==
    /\ pc = "sleep"
    /\ Attempt
    /\ UNCHANGED <<call, slot, retry, tools, answers, textVars, response>>

\* The next provider of execute.
Failover ==
    /\ pc = "next"
    /\ Attempt
    /\ UNCHANGED <<call, slot, retry, tools, answers, textVars, response>>

\* The typed error is raised; the turn goes on with what it has.
GiveUp ==
    /\ pc = "failed"
    /\ pc' = "turn"
    /\ UNCHANGED <<call, callVars, answers, textVars, response>>

---------------------------------------------------------------------------
\* The turn ends with one of the texts it was given or with one of its own.
EndTurn ==
    /\ pc = "turn" /\ call > 0
    /\ response' \in answers \cup {Own}
    /\ pc' = "drain"
    /\ UNCHANGED <<call, callVars, answers, textVars>>

Deliver ==
    /\ deltas # <<>>
    /\ shown' = Append(shown, Head(deltas))
    /\ deltas' = Tail(deltas)
    /\ UNCHANGED <<call, pc, callVars, answers, lost, accum, response>>

\* A variant of Settle that takes what was streamed for the answer.
SettleStreamed ==
    /\ pc = "drain" /\ deltas = <<>>
    /\ shown' = IF accum = <<>> THEN response ELSE shown
    /\ pc' = "done"
    /\ UNCHANGED <<call, callVars, answers, lost, accum, deltas, response>>

\* The end of _sse_chat_turn: chunks if no provider streamed, replace if the
\* text differs from what was streamed.
Settle ==
    /\ pc = "drain" /\ deltas = <<>>
    /\ shown' = IF accum = <<>> \/ response # accum THEN response ELSE shown
    /\ pc' = "done"
    /\ UNCHANGED <<call, callVars, answers, lost, accum, deltas, response>>

Ended == pc = "done" /\ UNCHANGED providerVars

CallStep ==
    \/ Delta \/ DeltaLate \/ Unstream \/ Succeed \/ Backoff \/ AskAgain
    \/ Raise \/ TimesOut \/ Retry \/ Failover \/ GiveUp

ProviderNext ==
    \/ BeginCall \/ CallStep \/ EndTurn \/ Deliver \/ Settle \/ Ended

ProviderSpec == ProviderInit /\ [][ProviderNext]_providerVars

(***************************************************************************)
(* The event loop runs what is ready, and every attempt has its timeout.   *)
(* Nothing is assumed of the client: it may never take a delta.            *)
(***************************************************************************)
ProviderFairSpec == ProviderSpec /\ WF_providerVars(CallStep) /\ WF_providerVars(TimesOut)

---------------------------------------------------------------------------
ProviderTypeOK ==
    /\ call \in 0 .. Calls
    /\ pc \in {"turn", "request", "put", "backoff", "sleep", "next", "failed",
               "drain", "done"}
    /\ slot \in Slots
    /\ retry \in 0 .. 1 /\ inner \in 1 .. InnerRetries + 1
    /\ stream \in BOOLEAN /\ tools \in BOOLEAN
    /\ partial \in Seq(Words) /\ Len(partial) <= Pieces
    /\ requests \in [Slots -> Nat]
    /\ error \in Kinds \cup {NoError}
    /\ answers \subseteq Seq(Words)
    /\ lost \in BOOLEAN /\ accum \in Seq(Words)
    /\ deltas \in Seq(Words) /\ Len(deltas) <= MaxQueue
    /\ shown \in Seq(Words \cup {"own"})
    /\ response \in Seq(Words \cup {"own"})

\* When the stream says done, the client shows the text of the turn and
\* nothing else, whatever attempts streamed into it before: half an answer of
\* a provider that broke off, the same answer twice, a draft that a revision
\* replaced.  (A delta that a timeout catches while it waits for room is in
\* text_accum though it was never sent; a text equal to text_accum is then not
\* sent again.)
ShownIsFinal == pc = "done" /\ ~lost => shown = response

\* A call that fails has tried every provider there is, or met an error that
\* no reserve may see; and no provider, by name, has been tried under two
\* places of the configuration.
FailureIsEarned ==
    /\ pc = "failed" =>
          \/ ~Eligible(error)
          \/ \A i \in Slots : \E j \in 1 .. i :
                Configured[j] = Configured[i] /\ requests[j] > 0
    /\ \A i, j \in Slots :
          Configured[i] = Configured[j] /\ requests[i] > 0 /\ requests[j] > 0
             => i = j

\* The three nested loops stay within their product: two attempts of the
\* service at each provider, each of 1 + InnerRetries requests and one more
\* for an answer that turned out, in the middle of the stream, to be a tool
\* call.
RequestsBounded == \A i \in Slots : requests[i] <= 2 * (InnerRetries + 2)

\* Retries and failover are as good as their word: a success is shown as it
\* is, a failure is the last resort, and neither takes more requests than it
\* may (ProviderExecutionService.execute).
CallIsHonest == ProviderTypeOK /\ ShownIsFinal /\ FailureIsEarned /\ RequestsBounded

\* Every call comes to an end, though the client takes nothing and a delta
\* waits for room: the timeout of the attempt reaches it there.
CallsEnd == pc = "request" ~> pc = "turn"

=============================================================================
