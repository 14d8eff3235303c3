---------------------------- MODULE AgentSession ----------------------------
(***************************************************************************)
(* AgentSession (packages/coding-agent, core/agent-session.ts) over an     *)
(* Agent and the log of its session: prompts with their preflight, retries *)
(* with a pause, automatic and manual compaction, deferred bash results,   *)
(* the mirror of the queues and next-turn messages.                        *)
(*                                                                         *)
(* A prompt() call is at "hook" (before_agent_start), "run" (it awaits the *)
(* agent), "retry" (the pause), "cancelled" (a pause that was aborted),    *)
(* "compact" (a summary is made) or "compacted" (session_compact           *)
(* listeners).  The run of the agent is reduced to the points where it     *)
(* sends messages and polls; AgentLoop has the rest.                       *)
(*                                                                         *)
(* A message that ends is handled by the agent and by the session in one   *)
(* step: the message_end handlers of extensions are not between them.      *)
(***************************************************************************)
EXTENDS Integers, Sequences, FiniteSetsExt, Functions

CONSTANTS
    Prompters,          \* callers of prompt()
    MaxRetries,         \* settings.retry.maxRetries
    MaxEvents,          \* bound: calls of clients and replies
    MaxPrompts, MaxQueued, MaxBash, MaxCompactions,
    MaxAborts,          \* bound: calls of abort() or clearQueue()
    Text(_)             \* the text of the user message with this id, 0 when it
                        \* is empty (images only)

ASSUME SessionAssumption ==
    {MaxRetries, MaxEvents, MaxPrompts, MaxQueued, MaxBash, MaxCompactions, MaxAborts}
        \subseteq Nat

VARIABLES
    \* Agent
    activeRun,          \* "none", "live" or "aborted"
    at,                 \* the await the run is at
    hands,              \* messages the loop will emit next
    pollDue,            \* steering is polled before the next request
    messages,           \* the transcript
    steeringQueue, followUpQueue,
    staleContext,       \* the transcript was replaced and the loop has the old one
    \* AgentSession
    connected,          \* subscribed to the agent
    session,            \* entries of the session file
    lastAssistantMessage,
    retryAttempt,
    retryOwner,         \* the pause that abortRetry() ends
    overflowRecoveryAttempted,
    pendingBashMessages, pendingNextTurnMessages,
    steeringMessages, followUpMessages,
    midRunReload,       \* _pendingMidRunContextReload
    prompts,            \* the prompt() calls
    manual,             \* the compact() call
    \* history
    events, made,       \* time, and how often each client call was made
    sent,               \* messages handed over and neither cleared nor refused
    missed,             \* a message ended while the session was disconnected
    overlapped,         \* an operation began in the preflight, the pause or the
                        \* compaction of another
    recoveries,         \* overflows retried without a reply or a message between
    refused             \* a continue() of the session was refused

agentVars == <<activeRun, at, hands, pollDue, steeringQueue, followUpQueue>>
queueVars == <<steeringMessages, followUpMessages>>
retryVars == <<retryAttempt, retryOwner, overflowRecoveryAttempted>>
bashVars == <<pendingBashMessages>>
countVars == <<events, made>>
historyVars == <<sent, missed, overlapped, recoveries, refused>>
vars == <<agentVars, messages, staleContext, connected, session, lastAssistantMessage,
          retryVars, bashVars, pendingNextTurnMessages, queueVars, midRunReload,
          prompts, manual, countVars, historyVars>>

-----------------------------------------------------------------------------
\* Messages, and the context a session has

\* A reply is "silent" when it stops normally beyond the context window.
Replies == {"text", "calls", "error", "overflow", "silent", "aborted"}
Errors == {"error", "overflow"}
Overflows == {"overflow", "silent"}
Kinds == Replies \union {"user", "custom", "result", "bash", "summary"}

\* A value of Text: no two texts are equal.
OwnText(id) == id

Message(kind) == [kind |-> kind, id |-> events + 1]
MessageType == [kind : Kinds, id : Nat]
NoMessage == [kind |-> "none", id |-> 0]

Compaction(keep) == [kind |-> "compaction", id |-> events, keep |-> keep]
EntryType == MessageType \union
             [kind : {"compaction"}, id : Nat, keep : Nat \ {0}]

Ids(s) == [i \in DOMAIN s |-> s[i].id]
AllIds(s) == {s[i].id : i \in DOMAIN s}

\* The elements of s whose index is kept, in their order.
Selected(s, kept) ==
    LET selected[n \in 0..Len(s)] ==
            IF n = 0 THEN <<>>
            ELSE selected[n - 1] \o (IF n \in kept THEN <<s[n]>> ELSE <<>>)
    IN selected[Len(s)]

IndicesOf(s, kinds) == {i \in DOMAIN s : s[i].kind \in kinds}
Holds(s, kinds) == IndicesOf(s, kinds) # {}
OfKind(s, kinds) == Selected(s, IndicesOf(s, kinds))
LastKind(s) == IF s = <<>> THEN "none" ELSE s[Len(s)].kind
Front(s) == SubSeq(s, 1, Len(s) - 1)
FirstOf(q) == IF q = <<>> THEN <<>> ELSE <<Head(q)>>
RestOf(q) == IF q = <<>> THEN <<>> ELSE Tail(q)

Compactions(s) == IndicesOf(s, {"compaction"})
LatestCompaction(s) == Max(Compactions(s))

\* buildSessionContext of a session without branches.
Context(s) ==
    IF Compactions(s) = {} THEN s
    ELSE LET after[c \in Compactions(s)] ==
                 <<[kind |-> "summary", id |-> s[c].id]>>
                 \o OfKind(SubSeq(s, s[c].keep, c - 1), Kinds) \o SubSeq(s, c + 1, Len(s))
         IN after[LatestCompaction(s)]

\* Where prepareCompaction may cut: never at a tool result, and not before the
\* first entry the latest compaction kept.
CutPoints(s) ==
    {i \in DOMAIN s :
        /\ s[i].kind \notin {"result", "compaction"}
        /\ Compactions(s) # {} => i >= s[LatestCompaction(s)].keep}

\* The cuts tried, 0 when there is nothing to compact.  Bound: of the cuts the
\* settings may lead to, the one that keeps most and the one that keeps least.
Cuts ==
    IF session = <<>> \/ LastKind(session) = "compaction" \/ CutPoints(session) = {} THEN {0}
    ELSE {Min(CutPoints(session)), Max(CutPoints(session))}

-----------------------------------------------------------------------------

Idle == [at |-> "idle", pre |-> "no", hands |-> <<>>, retry |-> FALSE, keep |-> 0,
         message |-> NoMessage, last |-> NoMessage]
NotCompacting == [at |-> "idle", midRun |-> FALSE, awaited |-> FALSE, keep |-> 0]

Calls == {"prompt", "queue", "bash", "compact", "abort"}
Limit == [c \in Calls |-> CASE c = "prompt" -> MaxPrompts
                            [] c = "queue" -> MaxQueued
                            [] c = "bash" -> MaxBash
                            [] c = "compact" -> MaxCompactions
                            [] c = "abort" -> MaxAborts]

\* A call of a client, within the bounds.
ClientCall(c) ==
    /\ events < MaxEvents
    /\ made[c] < Limit[c]
    /\ events' = events + 1
    /\ made' = [made EXCEPT ![c] = @ + 1]

Init ==
    /\ activeRun = "none" /\ at = "off"
    /\ hands = <<>> /\ pollDue = FALSE
    /\ messages = <<>> /\ session = <<>>
    /\ steeringQueue = <<>> /\ followUpQueue = <<>>
    /\ staleContext = FALSE
    /\ connected = TRUE
    /\ lastAssistantMessage = NoMessage
    /\ retryAttempt = 0
    /\ retryOwner = {}
    /\ overflowRecoveryAttempted = FALSE
    /\ pendingBashMessages = <<>>
    /\ pendingNextTurnMessages = <<>>
    /\ steeringMessages = <<>> /\ followUpMessages = <<>>
    /\ midRunReload = FALSE
    /\ prompts = [p \in Prompters |-> Idle]
    /\ manual = NotCompacting
    /\ events = 0
    /\ made = [c \in Calls |-> 0]
    /\ sent = {}
    /\ missed = FALSE /\ overlapped = FALSE /\ refused = FALSE
    /\ recoveries = 0

-----------------------------------------------------------------------------
\* The steps of a prompt() call, as parts of the actions below

\* _flushPendingBashMessages: to the transcript and to the session.
FlushBash(transcript) ==
    /\ messages' = transcript \o pendingBashMessages
    /\ session' = session \o pendingBashMessages
    /\ pendingBashMessages' = <<>>

\* Mutant of TakeMessages: the next-turn messages are not cleared.
TakeMessagesCopied(p) ==
    /\ prompts' = [prompts EXCEPT ![p] =
           [Idle EXCEPT !.at = "hook",
                        !.hands = <<prompts[p].message>> \o pendingNextTurnMessages]]
    /\ UNCHANGED pendingNextTurnMessages

\* The user message is made, the next-turn messages are taken with it, and
\* before_agent_start is awaited.
TakeMessages(p) ==
    /\ prompts' = [prompts EXCEPT ![p] =
           [Idle EXCEPT !.at = "hook",
                        !.hands = <<prompts[p].message>> \o pendingNextTurnMessages]]
    /\ pendingNextTurnMessages' = <<>>

\* The loop over the agent is over: prompt() returns, or goes on to its message
\* when it was the one of the preflight.
Return(p, transcript) ==
    /\ IF prompts[p].pre = "check"
       THEN messages' = transcript /\ UNCHANGED <<session, pendingBashMessages>>
       ELSE FlushBash(transcript)
    /\ IF prompts[p].pre = "no"
       THEN prompts' = [prompts EXCEPT ![p] = Idle] /\ UNCHANGED pendingNextTurnMessages
       ELSE TakeMessages(p)

\* prompt() rejects.
Reject(p, transcript) ==
    /\ FlushBash(transcript)
    /\ prompts' = [prompts EXCEPT ![p] = Idle]
    /\ sent' = sent \ (AllIds(prompts[p].hands) \union {prompts[p].message.id})
    /\ UNCHANGED pendingNextTurnMessages

\* runWithLifecycle
StartRun(p, first, poll) ==
    /\ activeRun' = "live"
    /\ at' = "inject"
    /\ hands' = first
    /\ pollDue' = poll
    /\ staleContext' = FALSE
    /\ prompts' = [prompts EXCEPT ![p] =
           [Idle EXCEPT !.at = "run", !.message = prompts[p].message,
                        !.pre = IF prompts[p].pre = "check" THEN "loop" ELSE prompts[p].pre]]

\* agent.continue(), after the session decided to.
Continue(p, transcript) ==
    IF \/ activeRun # "none" \/ transcript = <<>>
       \/ LastKind(transcript) \in Replies /\ steeringQueue \o followUpQueue = <<>>
    THEN /\ Reject(p, transcript)
         /\ refused' = TRUE
         /\ UNCHANGED <<agentVars, staleContext, recoveries>>
    ELSE /\ messages' = transcript
         /\ recoveries' = recoveries + (IF prompts[p].retry THEN 1 ELSE 0)
         /\ UNCHANGED <<session, pendingBashMessages, pendingNextTurnMessages, sent, refused>>
         /\ IF LastKind(transcript) \notin Replies
            THEN /\ StartRun(p, <<>>, TRUE)
                 /\ UNCHANGED <<steeringQueue, followUpQueue>>
            ELSE IF steeringQueue # <<>>
            THEN /\ StartRun(p, FirstOf(steeringQueue), FALSE)
                 /\ steeringQueue' = RestOf(steeringQueue)
                 /\ UNCHANGED followUpQueue
            ELSE /\ StartRun(p, FirstOf(followUpQueue), TRUE)
                 /\ followUpQueue' = RestOf(followUpQueue)
                 /\ UNCHANGED steeringQueue

\* A reply is older than the latest compaction.
Outdated(m) == \E i \in Compactions(session) : m.id <= session[i].id

WithoutLastReply ==
    IF LastKind(messages) \in Replies THEN Front(messages) ELSE messages

\* _runAutoCompaction up to the summary; 0 when there is nothing to compact.
StartSummary(p, retry) ==
    \E keep \in Cuts :
        prompts' = [prompts EXCEPT ![p].at = "compact", ![p].retry = retry, ![p].keep = keep,
                                   ![p].last = NoMessage]

\* _checkCompaction: whether the context is beyond the threshold depends on the
\* usage the provider reports.
CheckCompaction(p, m, skipAborted) ==
    LET skipped == (skipAborted /\ m.kind = "aborted") \/ Outdated(m)
        overflow == m.kind \in Overflows
    IN \/ /\ skipped \/ ~overflow \/ overflowRecoveryAttempted
          /\ Return(p, messages)
          /\ UNCHANGED overflowRecoveryAttempted
       \/ /\ ~skipped /\ overflow /\ ~overflowRecoveryAttempted
          /\ overflowRecoveryAttempted' = TRUE
          /\ messages' = WithoutLastReply
          /\ StartSummary(p, TRUE)
          /\ UNCHANGED <<session, pendingBashMessages, pendingNextTurnMessages>>
       \/ /\ ~skipped /\ ~overflow
          /\ StartSummary(p, FALSE)
          /\ UNCHANGED <<messages, session, pendingBashMessages, pendingNextTurnMessages,
                         overflowRecoveryAttempted>>

Retryable(m) == m.kind = "error" /\ retryAttempt < MaxRetries

\* _handlePostAgentRun
AfterRun(p) ==
    LET m == lastAssistantMessage
    IN /\ lastAssistantMessage' = NoMessage
       /\ \/ /\ m = NoMessage
             /\ Return(p, messages)
             /\ UNCHANGED retryVars
          \/ /\ Retryable(m)
             /\ retryAttempt' = retryAttempt + 1
             /\ messages' = WithoutLastReply
             /\ retryOwner' = {p}
             /\ prompts' = [prompts EXCEPT ![p].at = "retry", ![p].last = m]
             /\ UNCHANGED <<session, pendingBashMessages, pendingNextTurnMessages,
                            overflowRecoveryAttempted>>
          \/ /\ m # NoMessage /\ ~Retryable(m)
             /\ retryAttempt' = IF m.kind \in Errors THEN 0 ELSE retryAttempt
             /\ CheckCompaction(p, m, TRUE)
             /\ UNCHANGED retryOwner

-----------------------------------------------------------------------------
\* prompt()

\* An operation is under way that a call would overlap.
UnderWay == manual.at # "idle" \/ \E p \in Prompters : prompts[p].at \notin {"idle", "run"}

\* prompt() while the agent does not stream, up to its first await.
Prompt(p) ==
    LET shown == messages \o pendingBashMessages
    IN /\ prompts[p].at = "idle"
       /\ activeRun = "none"
       /\ ClientCall("prompt")
       /\ overlapped' = (overlapped \/ UnderWay)
       /\ sent' = sent \union {events + 1}
       /\ FlushBash(messages)
       /\ prompts' = [prompts EXCEPT ![p] =
              [Idle EXCEPT !.at = "checks", !.pre = "check", !.message = Message("user"),
                           !.last = IF Holds(shown, Replies) THEN shown[Max(IndicesOf(shown, Replies))]
                                    ELSE NoMessage]]
       /\ UNCHANGED <<agentVars, staleContext, connected, lastAssistantMessage, retryVars,
                      pendingNextTurnMessages, queueVars, midRunReload, manual, missed, recoveries,
                      refused>>

\* The check for a compaction before the message is sent.
Preflight(p) ==
    LET last == prompts[p].last
    IN /\ prompts[p].at = "checks"
       /\ \/ /\ last = NoMessage
             /\ Return(p, messages)
             /\ UNCHANGED overflowRecoveryAttempted
          \/ /\ last # NoMessage
             /\ CheckCompaction(p, last, FALSE)
       /\ UNCHANGED <<agentVars, staleContext, connected, lastAssistantMessage, retryAttempt,
                      retryOwner, queueVars, midRunReload, manual, countVars, historyVars>>

\* before_agent_start has returned: the agent takes the messages, or refuses
\* them because another prompt was faster.
Submit(p) ==
    /\ prompts[p].at = "hook"
    /\ IF activeRun = "none"
       THEN /\ StartRun(p, prompts[p].hands, TRUE)
            /\ UNCHANGED <<messages, session, pendingBashMessages, pendingNextTurnMessages, sent>>
       ELSE /\ Reject(p, messages)
            /\ UNCHANGED <<activeRun, at, hands, pollDue, staleContext>>
    /\ UNCHANGED <<steeringQueue, followUpQueue, connected, lastAssistantMessage, retryVars,
                   queueVars, midRunReload, manual, countVars, missed, overlapped, recoveries,
                   refused>>

-----------------------------------------------------------------------------
\* The run of the agent

Texts(mirror) == {Text(mirror[i]) : i \in DOMAIN mirror}

\* Mutant of Without: the head is removed, not the text that started.
WithoutHead(s, texts) == IF texts = {} THEN s ELSE RestOf(s)

\* indexOf and splice: the first of these texts is removed, whosever it is.
Without(s, texts) ==
    Selected(s, {i \in DOMAIN s : \/ Text(s[i]) \notin texts
                                  \/ \E j \in 1..(i - 1) : Text(s[j]) \in texts})

\* Messages start and end: the agent adds them to the transcript and, while it
\* listens, the session drops the text of a user message from one of its mirrors
\* (there is one user message at most) and saves all.
Emit(ms) ==
    LET started == {Text(ms[i].id) : i \in IndicesOf(ms, {"user"})} \ {0}
    IN /\ messages' = messages \o ms
       /\ session' = IF connected THEN session \o ms ELSE session
       /\ missed' = (missed \/ (~connected /\ ms # <<>>))
       /\ steeringMessages' = IF connected THEN Without(steeringMessages, started)
                                           ELSE steeringMessages
       /\ followUpMessages' =
              IF connected THEN Without(followUpMessages, started \ Texts(steeringMessages))
              ELSE followUpMessages

\* The prompts or the polled messages are emitted, then steering is polled
\* unless that was done.
Inject ==
    LET polled == IF pollDue THEN FirstOf(steeringQueue) ELSE <<>>
    IN /\ at = "inject"
       /\ Emit(hands)
       /\ hands' = polled
       /\ steeringQueue' = IF pollDue THEN RestOf(steeringQueue) ELSE steeringQueue
       /\ pollDue' = FALSE
       /\ at' = IF polled # <<>> THEN "inject" ELSE "reply"
       /\ overflowRecoveryAttempted' =
              (overflowRecoveryAttempted /\ ~(connected /\ Holds(hands, {"user"})))
       /\ recoveries' = IF Holds(hands, {"user"}) THEN 0 ELSE recoveries
       /\ UNCHANGED <<activeRun, followUpQueue, staleContext, connected,
                      lastAssistantMessage, retryAttempt, retryOwner, pendingBashMessages,
                      pendingNextTurnMessages, midRunReload, prompts, manual, countVars, sent,
                      overlapped, refused>>

\* The end of a turn: the context is reloaded when compact() asked for it, and
\* steering is polled, and the follow-ups too when the turn had no calls.
TurnOver(hadCalls) ==
    LET more == IF steeringQueue # <<>> \/ hadCalls THEN FirstOf(steeringQueue)
                ELSE FirstOf(followUpQueue)
    IN /\ staleContext' = (staleContext /\ ~midRunReload)
       /\ midRunReload' = FALSE
       /\ hands' = more
       /\ steeringQueue' = RestOf(steeringQueue)
       /\ followUpQueue' = IF steeringQueue # <<>> \/ hadCalls THEN followUpQueue
                           ELSE RestOf(followUpQueue)
       /\ at' = IF more # <<>> THEN "inject" ELSE IF hadCalls THEN "reply" ELSE "end"

\* Mutant of EndsRecovery: any reply does.
EndsRecoveryAlways(kind) == TRUE

\* A reply that ends the recovery from an overflow.
EndsRecovery(kind) == kind \notin Errors

\* The provider replies; a reply that failed or was aborted ends the run.
Reply(kind) ==
    /\ at = "reply"
    /\ (kind = "aborted") <=> (activeRun = "aborted")
    /\ events < MaxEvents \/ kind \in {"text", "aborted"}
    /\ events' = events + 1
    /\ Emit(<<Message(kind)>>)
    /\ lastAssistantMessage' = IF connected THEN Message(kind) ELSE lastAssistantMessage
    /\ overflowRecoveryAttempted' =
           (overflowRecoveryAttempted /\ ~(connected /\ EndsRecovery(kind)))
    /\ retryAttempt' = IF connected /\ kind \notin Errors THEN 0 ELSE retryAttempt
    /\ recoveries' = IF kind \in Errors THEN recoveries ELSE 0
    /\ CASE kind = "calls" -> /\ at' = "tools"
                              /\ hands' = <<Message("result")>>
                              /\ UNCHANGED <<steeringQueue, followUpQueue, staleContext,
                                             midRunReload>>
         [] kind \in {"text", "silent"} -> TurnOver(FALSE)
         [] OTHER -> /\ at' = "end"
                     /\ UNCHANGED <<hands, steeringQueue, followUpQueue, staleContext,
                                    midRunReload>>
    /\ UNCHANGED <<activeRun, pollDue, connected, retryOwner, pendingBashMessages,
                   pendingNextTurnMessages, prompts, manual, made, sent, overlapped, refused>>

\* The tools end, unless one of them called compact() and waits for it.
ToolsEnd ==
    /\ at = "tools"
    /\ ~manual.awaited
    /\ Emit(hands)
    /\ TurnOver(TRUE)
    /\ UNCHANGED <<activeRun, pollDue, connected, lastAssistantMessage, retryVars,
                   pendingBashMessages, pendingNextTurnMessages, prompts, manual, countVars, sent,
                   overlapped, recoveries, refused>>

\* The listeners of agent_end have returned: the agent is idle, and the
\* prompt() that waits goes on at once.
FinishRun ==
    /\ at = "end"
    /\ activeRun' = "none"
    /\ at' = "off"
    /\ manual' = IF manual.at = "waiting" THEN [manual EXCEPT !.at = "ready"] ELSE manual
    /\ \E p \in Prompters :
           /\ prompts[p].at = "run"
           /\ AfterRun(p)
           /\ overlapped' = (overlapped \/ (manual.at # "idle" /\ prompts'[p].at # "idle"))
    /\ UNCHANGED <<hands, pollDue, steeringQueue, followUpQueue, staleContext, connected,
                   queueVars, midRunReload, countVars, sent, missed, recoveries, refused>>

-----------------------------------------------------------------------------
\* The pause before a retry, and automatic compaction

\* _prepareRetry resolves; the finally block forgets the pause, whose ever it is.
PauseEnds(p) ==
    /\ prompts[p].at = "retry"
    /\ retryOwner' = {}
    /\ Continue(p, messages)
    /\ UNCHANGED <<connected, lastAssistantMessage, retryAttempt, overflowRecoveryAttempted,
                   queueVars, midRunReload, manual, countVars, missed, overlapped>>

\* The pause was aborted: no retry, but the context is still looked at.
PauseAborted(p) ==
    /\ prompts[p].at = "cancelled"
    /\ retryAttempt' = 0
    /\ retryOwner' = {}
    /\ CheckCompaction(p, prompts[p].last, TRUE)
    /\ UNCHANGED <<agentVars, staleContext, connected, lastAssistantMessage, queueVars,
                   midRunReload, manual, countVars, historyVars>>

\* appendCompaction, and the transcript becomes the context of the session.
Compacted(keep) ==
    /\ session' = Append(session, Compaction(keep))
    /\ messages' = Context(session')
    /\ missed' = FALSE
    /\ staleContext' = (activeRun # "none")

Summarized(p) ==
    /\ prompts[p].at = "compact"
    /\ prompts[p].keep # 0
    /\ Compacted(prompts[p].keep)
    /\ prompts' = [prompts EXCEPT ![p].at = "compacted", ![p].keep = 0]
    /\ UNCHANGED <<agentVars, connected, lastAssistantMessage, retryVars, pendingBashMessages,
                   pendingNextTurnMessages, queueVars, midRunReload, manual, countVars, sent,
                   overlapped, recoveries, refused>>

\* The summary fails, is cancelled, or there is nothing to compact.
SummaryFails(p) ==
    /\ prompts[p].at = "compact"
    /\ Return(p, messages)
    /\ UNCHANGED <<agentVars, staleContext, connected, lastAssistantMessage, retryVars,
                   queueVars, midRunReload, manual, countVars, historyVars>>

WithoutLastError == IF LastKind(messages) \in Errors THEN Front(messages) ELSE messages

\* The listeners of session_compact have returned: the overflow is retried, or
\* queued messages are delivered.
Resume(p) ==
    /\ prompts[p].at = "compacted"
    /\ IF prompts[p].retry THEN Continue(p, WithoutLastError)
       ELSE IF steeringQueue \o followUpQueue # <<>> THEN Continue(p, messages)
       ELSE /\ Return(p, messages)
            /\ UNCHANGED <<agentVars, staleContext, recoveries, refused, sent>>
    /\ UNCHANGED <<connected, lastAssistantMessage, retryVars, queueVars, midRunReload, manual,
                   countVars, missed, overlapped>>

-----------------------------------------------------------------------------
\* compact()

\* abortRetry() ends the pause that was begun last.
AbortRetry ==
    prompts' = [p \in Prompters |->
        IF p \in retryOwner /\ prompts[p].at = "retry"
        THEN [prompts[p] EXCEPT !.at = "cancelled"] ELSE prompts[p]]

AbortRun ==
    /\ AbortRetry
    /\ activeRun' = IF activeRun = "live" THEN "aborted" ELSE activeRun

\* Mutant of MidRun: a call made by a tool aborts the run and waits for it.
MidRunNever == FALSE

MidRun == at = "tools"

\* The session stops listening to the agent.  While tools run, the call is taken
\* for one of a tool, which it need not be; else the run is aborted and waited for.
Compact ==
    /\ manual.at = "idle"
    /\ ClientCall("compact")
    /\ connected' = FALSE
    /\ \E byTool \in {FALSE, at = "tools"} :
           /\ overlapped' = (overlapped \/ UnderWay \/ (MidRun /\ ~byTool))
           /\ manual' = [NotCompacting EXCEPT
                  !.at = IF MidRun \/ activeRun = "none" THEN "ready" ELSE "waiting",
                  !.midRun = MidRun, !.awaited = byTool]
    /\ IF MidRun THEN AbortRetry /\ UNCHANGED activeRun ELSE AbortRun
    /\ UNCHANGED <<at, hands, pollDue, steeringQueue, followUpQueue, messages,
                   staleContext, session, lastAssistantMessage, retryVars, pendingBashMessages,
                   pendingNextTurnMessages, queueVars, midRunReload, sent, missed, recoveries,
                   refused>>

\* The branch is read, and a summary requested.
CompactReads ==
    /\ manual.at = "ready"
    /\ \E keep \in Cuts :
           manual' = [manual EXCEPT !.at = "summary", !.keep = keep]
    /\ UNCHANGED <<agentVars, messages, staleContext, connected, session, lastAssistantMessage,
                   retryVars, pendingBashMessages, pendingNextTurnMessages, queueVars,
                   midRunReload, prompts, countVars, historyVars>>

\* Mutant of CompactSaves: the loop is not told to reload its context.
CompactSavesUntold ==
    /\ manual.at = "summary"
    /\ manual.keep # 0
    /\ Compacted(manual.keep)
    /\ UNCHANGED midRunReload
    /\ manual' = [manual EXCEPT !.at = "saved"]
    /\ UNCHANGED <<agentVars, connected, lastAssistantMessage, retryVars, pendingBashMessages,
                   pendingNextTurnMessages, queueVars, prompts, countVars, sent, overlapped,
                   recoveries, refused>>

CompactSaves ==
    /\ manual.at = "summary"
    /\ manual.keep # 0
    /\ Compacted(manual.keep)
    /\ midRunReload' = (midRunReload \/ manual.midRun)
    /\ manual' = [manual EXCEPT !.at = "saved"]
    /\ UNCHANGED <<agentVars, connected, lastAssistantMessage, retryVars, pendingBashMessages,
                   pendingNextTurnMessages, queueVars, prompts, countVars, sent, overlapped,
                   recoveries, refused>>

\* compact() resolves or rejects; the session listens again.
CompactEnds ==
    /\ manual.at \in {"summary", "saved"}
    /\ connected' = TRUE
    /\ manual' = NotCompacting
    /\ UNCHANGED <<agentVars, messages, staleContext, session, lastAssistantMessage, retryVars,
                   pendingBashMessages, pendingNextTurnMessages, queueVars, midRunReload,
                   prompts, countVars, historyVars>>

-----------------------------------------------------------------------------
\* Other calls of clients

Abort ==
    /\ activeRun = "live" \/ retryOwner # {}
    /\ ClientCall("abort")
    /\ AbortRun
    /\ UNCHANGED <<at, hands, pollDue, steeringQueue, followUpQueue, messages,
                   staleContext, connected, session, lastAssistantMessage, retryVars,
                   pendingBashMessages, pendingNextTurnMessages, queueVars, midRunReload,
                   manual, historyVars>>

\* steer(), or prompt() while the agent streams.
Steer ==
    /\ ClientCall("queue")
    /\ sent' = sent \union {events + 1}
    /\ steeringQueue' = Append(steeringQueue, Message("user"))
    /\ steeringMessages' = Append(steeringMessages, events + 1)
    /\ UNCHANGED <<activeRun, at, hands, pollDue, followUpQueue, followUpMessages,
                   messages, staleContext, connected, session, lastAssistantMessage, retryVars,
                   pendingBashMessages, pendingNextTurnMessages, midRunReload, prompts, manual,
                   missed, overlapped, recoveries, refused>>

FollowUp ==
    /\ ClientCall("queue")
    /\ sent' = sent \union {events + 1}
    /\ followUpQueue' = Append(followUpQueue, Message("user"))
    /\ followUpMessages' = Append(followUpMessages, events + 1)
    /\ UNCHANGED <<activeRun, at, hands, pollDue, steeringQueue, steeringMessages,
                   messages, staleContext, connected, session, lastAssistantMessage, retryVars,
                   pendingBashMessages, pendingNextTurnMessages, midRunReload, prompts, manual,
                   missed, overlapped, recoveries, refused>>

\* sendCustomMessage() with deliverAs "nextTurn".
NextTurn ==
    /\ ClientCall("queue")
    /\ sent' = sent \union {events + 1}
    /\ pendingNextTurnMessages' = Append(pendingNextTurnMessages, Message("custom"))
    /\ UNCHANGED <<agentVars, messages, staleContext, connected, session, lastAssistantMessage,
                   retryVars, pendingBashMessages, queueVars, midRunReload, prompts, manual,
                   missed, overlapped, recoveries, refused>>

\* sendCustomMessage() while the agent streams: into a queue of the agent, but
\* not into its mirror.
QueueCustom ==
    /\ activeRun # "none"
    /\ ClientCall("queue")
    /\ sent' = sent \union {events + 1}
    /\ \/ /\ steeringQueue' = Append(steeringQueue, Message("custom"))
          /\ UNCHANGED followUpQueue
       \/ /\ followUpQueue' = Append(followUpQueue, Message("custom"))
          /\ UNCHANGED steeringQueue
    /\ UNCHANGED <<activeRun, at, hands, pollDue, queueVars, messages, staleContext,
                   connected, session, lastAssistantMessage, retryVars, pendingBashMessages,
                   pendingNextTurnMessages, midRunReload, prompts, manual, missed,
                   overlapped, recoveries, refused>>

\* Bound: when there is something to clear.
ClearQueue ==
    /\ ~(steeringQueue \o followUpQueue = <<>> /\ queueVars = <<<<>>, <<>>>>)
    /\ ClientCall("abort")
    /\ sent' = sent \ AllIds(steeringQueue \o followUpQueue)
    /\ steeringQueue' = <<>> /\ followUpQueue' = <<>>
    /\ steeringMessages' = <<>> /\ followUpMessages' = <<>>
    /\ UNCHANGED <<activeRun, at, hands, pollDue, messages, staleContext, connected,
                   session, lastAssistantMessage, retryVars, pendingBashMessages,
                   pendingNextTurnMessages, midRunReload, prompts, manual, missed,
                   overlapped, recoveries, refused>>

\* Mutant of Deferred: only while a reply is streamed.
DeferredWhileReplying == at = "reply"

Deferred == activeRun # "none"

\* recordBashResult: deferred while the agent streams.
RecordBash ==
    /\ ClientCall("bash")
    /\ IF Deferred
       THEN /\ pendingBashMessages' = Append(pendingBashMessages, Message("bash"))
            /\ UNCHANGED <<messages, session>>
       ELSE /\ messages' = Append(messages, Message("bash"))
            /\ session' = Append(session, Message("bash"))
            /\ UNCHANGED pendingBashMessages
    /\ UNCHANGED <<agentVars, staleContext, connected, lastAssistantMessage, retryVars,
                   pendingNextTurnMessages, queueVars, midRunReload, prompts, manual,
                   historyVars>>

-----------------------------------------------------------------------------

\* prompt() goes from the flush of bash results to the check for a compaction
\* without an await: nothing else runs meanwhile.
Checking == \E p \in Prompters : prompts[p].at = "checks"

RunStep == ~Checking /\ (Inject \/ ToolsEnd \/ FinishRun \/ \E kind \in Replies : Reply(kind))
PromptStep(p) ==
    \/ Preflight(p)
    \/ /\ ~Checking
       /\ \/ Submit(p) \/ PauseEnds(p) \/ PauseAborted(p)
          \/ Summarized(p) \/ SummaryFails(p) \/ Resume(p)
CompactStep == ~Checking /\ (CompactReads \/ CompactSaves \/ CompactEnds)
ClientStep ==
    /\ ~Checking
    /\ \/ Compact \/ Abort \/ Steer \/ FollowUp \/ QueueCustom \/ NextTurn \/ ClearQueue
       \/ RecordBash \/ \E p \in Prompters : Prompt(p)

InternalStep == RunStep \/ CompactStep \/ \E p \in Prompters : PromptStep(p)
Next == InternalStep \/ ClientStep

Spec == Init /\ [][Next]_vars

\* Providers, tools, hooks and summaries answer, and timers end.
FairSpec == Spec /\ WF_vars(InternalStep)

-----------------------------------------------------------------------------

\* Every variable has its type, and retries stay within the setting.
TypeOK ==
    /\ activeRun \in {"none", "live", "aborted"}
    /\ at \in {"off", "inject", "reply", "tools", "end"}
    /\ at = "off" <=> activeRun = "none"
    /\ {hands, messages, steeringQueue, followUpQueue, pendingBashMessages,
        pendingNextTurnMessages} \subseteq Seq(MessageType)
    /\ {pollDue, staleContext, connected, overflowRecoveryAttempted, midRunReload, missed,
        overlapped, refused} \subseteq BOOLEAN
    /\ session \in Seq(EntryType)
    /\ lastAssistantMessage \in MessageType \union {NoMessage}
    /\ retryAttempt \in 0..MaxRetries
    /\ retryOwner \subseteq Prompters
    /\ {steeringMessages, followUpMessages} \subseteq Seq(Nat)
    /\ prompts \in [Prompters ->
           [at : {"idle", "checks", "hook", "run", "retry", "cancelled", "compact", "compacted"},
            pre : {"no", "check", "loop"}, hands : Seq(MessageType), retry : BOOLEAN,
            keep : Nat, message : MessageType \union {NoMessage},
            last : MessageType \union {NoMessage}]]
    /\ manual \in [at : {"idle", "waiting", "ready", "summary", "saved"},
                   midRun : BOOLEAN, awaited : BOOLEAN, keep : Nat]
    /\ events \in Nat
    /\ made \in [Calls -> Nat]
    /\ sent \subseteq Nat
    /\ recoveries \in Nat

\* What stays in the transcript: all but replies that failed.
Lasting == Kinds \ (Errors \union Overflows)

\* The transcript is the context a reopened session would have, but for the
\* replies that failed, which retries and overflows take out of it
\* (agent-session.ts:2236, 2380, 2544, 3119).  Excepted are messages that ended
\* while compact() had the session disconnected (:2145), and a compact() that
\* overlapped another operation.
TranscriptIsSession ==
    ~missed /\ (made["compact"] = 0 \/ ~overlapped)
        => OfKind(messages, Lasting) = OfKind(Context(session), Lasting)

\* A bash result is kept once, deferred or saved, whatever it arrived in: a run,
\* a pause, a compaction (:3228, :3261).
BashKeptOnce ==
    LET kept == OfKind(session, {"bash"}) \o pendingBashMessages
    IN Len(kept) = made["bash"] /\ IsInjective(Ids(kept))

\* "defer adding to avoid breaking tool_use/tool_result ordering" (:3227): no
\* bash result is between a reply and the results of its calls.
BashBetweenTurns ==
    ~overlapped =>
        \A i, j, k \in DOMAIN session :
            ~ /\ i < j /\ j < k
              /\ session[i].kind = "calls" /\ session[j].kind = "bash"
              /\ session[k].kind = "result" /\ session[k].id = session[i].id

Users(s) == OfKind(s, {"user"})

\* What the client is shown as pending is what the queues of the agent hold, in
\* their order, up to what the loop is about to emit (:740, :1625), as long as no
\* two texts are equal and none is empty.  Custom messages are not shown, and
\* compact(), which disconnects the session, is excepted.
MirrorShowsQueue ==
    LET mirrored(mirror, queue) ==
            Selected(mirror, {i \in DOMAIN mirror : mirror[i] \in AllIds(queue)})
        shown == {steeringMessages[i] : i \in DOMAIN steeringMessages}
                 \union {followUpMessages[i] : i \in DOMAIN followUpMessages}
    IN made["compact"] = 0 =>
           /\ mirrored(steeringMessages, steeringQueue) = Ids(Users(steeringQueue))
           /\ mirrored(followUpMessages, followUpQueue) = Ids(Users(followUpQueue))
           /\ shown \subseteq AllIds(steeringQueue \o followUpQueue \o hands)

\* "Context overflow recovery failed after one compact-and-retry attempt" (:2374):
\* an overflow is not retried again before a message or a good reply, whatever
\* retries and compactions come between.  Two prompts that overlap may each have
\* an overflow to recover from.
RecoveredOnce == ~overlapped => recoveries <= 1

\* "Current retry attempt (0 if not retrying)" (:1052), once no prompt is under
\* way, however its retries ended.
AttemptIsReset ==
    /\ made["compact"] = 0 /\ ~overlapped
    /\ \A p \in Prompters : prompts[p].at = "idle"
    => retryAttempt = 0

\* A request is made with the transcript of the time, also when a tool of the
\* run has compacted it (:2245).
RequestSeesTranscript == at = "reply" /\ ~overlapped => ~staleContext

\* What a prompt() call has taken and not yet given to the agent.
HeldBy(p) ==
    IF prompts[p].at = "hook" THEN AllIds(prompts[p].hands)
    ELSE IF prompts[p].pre = "no" THEN {} ELSE {prompts[p].message.id}

FromClients(s) == IndicesOf(s, {"user", "custom"})

\* A message a client handed over and did not take back is in exactly one place:
\* a prompt under way, a queue, the loop's hands, or the session.
MessagesAccountedFor ==
    LET placed == session \o hands \o steeringQueue \o followUpQueue
                  \o pendingNextTurnMessages
        ids == {placed[i].id : i \in FromClients(placed)}
    IN made["compact"] = 0 =>
           /\ sent = ids \union UNION {HeldBy(p) : p \in Prompters}
           /\ \A i, j \in FromClients(placed) : placed[i].id = placed[j].id => i = j
           /\ \A p \in Prompters :
                  /\ HeldBy(p) \intersect ids = {}
                  /\ \A q \in Prompters \ {p} : HeldBy(p) \intersect HeldBy(q) = {}
                  /\ IsInjective(Ids(prompts[p].hands))

\* What the file, the transcript and the running loop hold agrees (:2236, :2245).
ContextsAgree == TranscriptIsSession /\ RequestSeesTranscript

\* Nothing a client handed over is lost or doubled (:1436, :3261).
MessagesKept == MessagesAccountedFor /\ BashKeptOnce

\* Retries and overflow recoveries stay within their limits and are forgotten
\* when they are over (:1309, :2362).
RecoveryIsBounded == TypeOK /\ RecoveredOnce /\ AttemptIsReset

\* A continue() that the session decides on finds something to continue from.
ContinueAccepted == ~overlapped => ~refused

\* Every prompt() settles.
PromptsSettle == []<>(\A p \in Prompters : prompts[p].at = "idle")
=============================================================================
