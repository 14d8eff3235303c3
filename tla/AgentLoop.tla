----------------------------- MODULE AgentLoop -----------------------------
(***************************************************************************)
(* The turn loop of packages/agent/src/agent-loop.ts run by the Agent of   *)
(* agent.ts.  One action per await point: an action ends where the code    *)
(* awaits a listener, the provider, a tool or a hook, and that is where    *)
(* the client calls of Agent.tla and the other tools of a batch interleave.*)
(* message_start and message_end of a message the loop already holds (a    *)
(* prompt, an injected message, a tool result) are one action, and the     *)
(* turn_start and agent_start events, which change no state, belong to the *)
(* action that follows them; a listener that throws on one of these events *)
(* is ListenerThrows before or after that action.                          *)
(*                                                                         *)
(* The provider, the tools, the hooks and the listeners are outside the    *)
(* loop: they answer with any outcome the loop distinguishes.              *)
(***************************************************************************)
EXTENDS Agent, SequencesExt

CONSTANTS
    ParallelTools,      \* toolExecution is "parallel" (else "sequential")
    TurnLimit,          \* maxTurns; 0 when it is undefined
    MaxPrompts,         \* bound: messages of one prompt() call
    MaxBatch,           \* bound: tool calls of one reply
    MaxCalls,           \* bound: tool calls ever made
    MaxThrows           \* bound: listeners, hooks or providers that throw

ASSUME LoopAssumption ==
    /\ ParallelTools \in BOOLEAN
    /\ TurnLimit \in Nat
    /\ MaxPrompts \in Nat
    /\ MaxBatch \in Nat
    /\ MaxCalls \in Nat
    /\ MaxThrows \in Nat

VARIABLES
    pc,                         \* the await point the run is at
    \* locals of runAgentLoop and runLoop
    context,                    \* currentContext.messages
    newMessages,
    prompts,                    \* prompts not yet emitted
    pendingMessages,
    completedTurns,
    hasMoreToolCalls,
    skipInitialSteeringPoll,
    \* locals of executeToolCalls
    batch,
    toolResults,                \* results emitted, not yet in the context
    \* tools
    stale,                      \* calls still executing for a run that failed
    nextCall,                   \* identity of the next tool call
    \* history
    throws,                     \* ListenerThrows steps so far
    lost,                       \* messages drained from a queue, never emitted
    startsAfterAbort            \* tool calls started in an aborted run

turnVars == <<context, newMessages, prompts, pendingMessages, completedTurns,
              hasMoreToolCalls, skipInitialSteeringPoll>>
batchVars == <<batch, toolResults>>
toolVars == <<stale, nextCall>>
historyVars == <<throws, lost, startsAfterAbort>>
loopVars == <<pc, turnVars, batchVars, toolVars, historyVars>>
vars == <<agentVars, loopVars>>

-----------------------------------------------------------------------------
\* A batch of tool calls: `next` is the call being prepared, status and
\* terminate are what is known of each call.

CallStatus == {"waiting", "refused", "prepared", "running", "done"}

Batch == [calls : Seq(Nat), sequential : BOOLEAN, next : Nat,
          status : Seq(CallStatus), terminate : Seq(BOOLEAN)]

NoBatch == [calls |-> <<>>, sequential |-> FALSE, next |-> 0,
            status |-> <<>>, terminate |-> <<>>]

NewBatch(calls, sequential) ==
    [calls |-> calls, sequential |-> sequential, next |-> 1,
     status |-> [i \in 1..Len(calls) |-> "waiting"],
     terminate |-> [i \in 1..Len(calls) |-> FALSE]]

Result(c) == [role |-> "toolResult", call |-> c]

Aborted == activeRun = "aborted"

Running == {i \in DOMAIN batch.status : batch.status[i] = "running"}

\* Mutant of LastCall: the loop does not break on an abort.
LastCallOnly == batch.next = Len(batch.calls)

\* The for loop over the tool calls ends: its last call, or the break.
LastCall == Aborted \/ batch.next = Len(batch.calls)

\* shouldTerminateToolBatch over the calls that were finalized.
BatchTerminates == \A i \in 1..batch.next : batch.terminate[i]

-----------------------------------------------------------------------------
\* Starting a run.

\* runPromptMessages: the loop works on a copy of the transcript.
RunPromptMessages(ps, skip) ==
    /\ BeginRun
    /\ pc' = "prompts"
    /\ context' = messages \o ps
    /\ newMessages' = ps
    /\ prompts' = ps
    /\ skipInitialSteeringPoll' = skip
    /\ startsAfterAbort' = 0
    /\ UNCHANGED <<pendingMessages, completedTurns, hasMoreToolCalls, batchVars,
                   toolVars, throws, lost>>

Prompt ==
    \E n \in 1..MaxPrompts :
        /\ nextId + n <= MaxUserMessages + 1
        /\ RunPromptMessages([i \in 1..n |-> [role |-> "user", via |-> "prompt",
                                              id |-> nextId + i - 1]], FALSE)
        /\ nextId' = nextId + n
        /\ UNCHANGED queueVars

EndsWithReply == messages # <<>> /\ Last(messages).role = "assistant"

ContinueWithSteering ==
    /\ EndsWithReply
    /\ steeringQueue # <<>>
    /\ RunPromptMessages(Drained(SteeringMode, steeringQueue), TRUE)
    /\ steeringQueue' = AfterDrain(SteeringMode, steeringQueue)
    /\ UNCHANGED <<followUpQueue, nextId>>

ContinueWithFollowUps ==
    /\ EndsWithReply
    /\ steeringQueue = <<>>
    /\ followUpQueue # <<>>
    /\ RunPromptMessages(Drained(FollowUpMode, followUpQueue), FALSE)
    /\ followUpQueue' = AfterDrain(FollowUpMode, followUpQueue)
    /\ UNCHANGED <<steeringQueue, nextId>>

\* Mutant of ContinueTranscript: the transcript is prompted again.
ContinueTranscriptResent ==
    /\ messages # <<>>
    /\ ~EndsWithReply
    /\ RunPromptMessages(messages, FALSE)
    /\ UNCHANGED <<queueVars, nextId>>

\* runContinuation: the transcript ends with a user message or a tool result.
ContinueTranscript ==
    /\ messages # <<>>
    /\ ~EndsWithReply
    /\ RunPromptMessages(<<>>, FALSE)
    /\ UNCHANGED <<queueVars, nextId>>

-----------------------------------------------------------------------------
\* The end of a run: its locals go out of scope.

DropLocals ==
    /\ context' = <<>>
    /\ newMessages' = <<>>
    /\ prompts' = <<>>
    /\ pendingMessages' = <<>>
    /\ completedTurns' = 0
    /\ hasMoreToolCalls' = FALSE
    /\ skipInitialSteeringPoll' = FALSE
    /\ batch' = NoBatch
    /\ toolResults' = <<>>

\* The executor rejects and runWithLifecycle catches: messages that were
\* drained but not emitted are dropped with the locals.
RunFails(unsent) ==
    /\ pc' = "failed"
    /\ DropLocals
    /\ lost' = lost \union Ids(unsent)

FinishRun ==
    /\ pc \in {"finish", "finishFailed"}
    /\ EndRun
    /\ pc' = "idle"
    /\ DropLocals
    /\ UNCHANGED <<toolVars, historyVars>>

-----------------------------------------------------------------------------
\* runAgentLoop before the loop, and the injection of pending messages.

EmitPrompt ==
    /\ pc = "prompts"
    /\ prompts # <<>>
    /\ MessageEnd(Head(prompts))
    /\ prompts' = Tail(prompts)
    /\ UNCHANGED <<pc, context, newMessages, pendingMessages, completedTurns,
                   hasMoreToolCalls, skipInitialSteeringPoll, batchVars, toolVars,
                   historyVars, pendingToolCalls, isStreaming, errorMessage,
                   queueVars, activeRun, clientVars>>

\* Mutant of PollInitialSteering: skipInitialSteeringPoll is ignored.
PollInitialSteeringAlways ==
    /\ pc = "prompts"
    /\ prompts = <<>>
    /\ pc' = "turn"
    /\ pendingMessages' = Drained(SteeringMode, steeringQueue)
    /\ steeringQueue' = AfterDrain(SteeringMode, steeringQueue)
    /\ skipInitialSteeringPoll' = FALSE
    /\ UNCHANGED <<context, newMessages, prompts, completedTurns,
                   hasMoreToolCalls, batchVars, toolVars, historyVars, stateVars,
                   followUpQueue, activeRun, clientVars, eventVars>>

\* The first getSteeringMessages call of runLoop.
PollInitialSteering ==
    /\ pc = "prompts"
    /\ prompts = <<>>
    /\ pc' = "turn"
    /\ IF skipInitialSteeringPoll
       THEN UNCHANGED <<steeringQueue, pendingMessages>>
       ELSE /\ pendingMessages' = Drained(SteeringMode, steeringQueue)
            /\ steeringQueue' = AfterDrain(SteeringMode, steeringQueue)
    /\ skipInitialSteeringPoll' = FALSE
    /\ UNCHANGED <<context, newMessages, prompts, completedTurns,
                   hasMoreToolCalls, batchVars, toolVars, historyVars, stateVars,
                   followUpQueue, activeRun, clientVars, eventVars>>

\* Mutant of InjectPending: the message is not added to newMessages.
InjectPendingUnreported ==
    /\ pc = "turn"
    /\ pendingMessages # <<>>
    /\ MessageEnd(Head(pendingMessages))
    /\ context' = Append(context, Head(pendingMessages))
    /\ pendingMessages' = Tail(pendingMessages)
    /\ UNCHANGED <<pc, newMessages, prompts, completedTurns, hasMoreToolCalls,
                   skipInitialSteeringPoll, batchVars, toolVars, historyVars,
                   pendingToolCalls, isStreaming, errorMessage, queueVars,
                   activeRun, clientVars>>

\* Mutant of InjectPending: pendingMessages is not reset.
InjectPendingAgain ==
    /\ pc = "turn"
    /\ pendingMessages # <<>>
    /\ MessageEnd(Head(pendingMessages))
    /\ context' = Append(context, Head(pendingMessages))
    /\ newMessages' = Append(newMessages, Head(pendingMessages))
    /\ UNCHANGED <<pc, prompts, pendingMessages, completedTurns,
                   hasMoreToolCalls, skipInitialSteeringPoll, batchVars, toolVars,
                   historyVars, pendingToolCalls, isStreaming, errorMessage,
                   queueVars, activeRun, clientVars>>

InjectPending ==
    /\ pc = "turn"
    /\ pendingMessages # <<>>
    /\ MessageEnd(Head(pendingMessages))
    /\ context' = Append(context, Head(pendingMessages))
    /\ newMessages' = Append(newMessages, Head(pendingMessages))
    /\ pendingMessages' = Tail(pendingMessages)
    /\ UNCHANGED <<pc, prompts, completedTurns, hasMoreToolCalls,
                   skipInitialSteeringPoll, batchVars, toolVars, historyVars,
                   pendingToolCalls, isStreaming, errorMessage, queueVars,
                   activeRun, clientVars>>

-----------------------------------------------------------------------------
\* streamAssistantResponse.

RequestReply ==
    /\ pc = "turn"
    /\ pendingMessages = <<>>
    /\ ~Aborted
    /\ pc' = "request"
    /\ UNCHANGED <<agentVars, turnVars, batchVars, toolVars, historyVars>>

\* The provider's start event: the partial reply joins the context.
StreamStart ==
    /\ pc = "request"
    /\ pc' = "partial"
    /\ MessageStart
    /\ context' = Append(context, Reply("partial", <<>>))
    /\ UNCHANGED <<messages, pendingToolCalls, isStreaming, errorMessage,
                   queueVars, activeRun, clientVars, newMessages, prompts,
                   pendingMessages, completedTurns, hasMoreToolCalls,
                   skipInitialSteeringPoll, batchVars, toolVars, historyVars>>

\* Mutant of ContextWithReply: the partial reply is not replaced.
ContextKeepsPartial(m) == Append(context, m)

\* The final reply replaces the partial one, or is pushed without one.
ContextWithReply(m) ==
    IF pc = "partial" THEN Append(Front(context), m) ELSE Append(context, m)

ReplyArrives(m) ==
    /\ MessageEnd(m)
    /\ context' = ContextWithReply(m)
    /\ newMessages' = Append(newMessages, m)
    /\ nextCall' = nextCall + Len(m.calls)
    /\ UNCHANGED <<pendingToolCalls, isStreaming, errorMessage, queueVars,
                   activeRun, clientVars, prompts, pendingMessages,
                   completedTurns, skipInitialSteeringPoll, toolResults, stale,
                   historyVars>>

\* The calls of the next reply; an interrupted reply may carry some too.
FreshCalls(n) == [i \in 1..n |-> nextCall + i - 1]

BatchSizes == {n \in 0..MaxBatch : nextCall + n <= MaxCalls + 1}

ReplyWithoutCalls ==
    /\ pc \in {"request", "partial"}
    /\ ReplyArrives(Reply("done", <<>>))
    /\ hasMoreToolCalls' = FALSE
    /\ pc' = "turnEnd"
    /\ UNCHANGED batch

\* executeToolCalls: one tool that must run alone makes the batch sequential.
ReplyWithCalls ==
    /\ pc \in {"request", "partial"}
    /\ \E n \in BatchSizes \ {0} : \E sequential \in BOOLEAN :
        /\ ParallelTools \/ sequential
        /\ ReplyArrives(Reply("done", FreshCalls(n)))
        /\ batch' = NewBatch(FreshCalls(n), sequential)
    /\ hasMoreToolCalls' = FALSE
    /\ pc' = "toolStart"

ReplyFails ==
    /\ pc \in {"request", "partial"}
    /\ \E n \in BatchSizes : \E stop \in {"error"} \union
                                         (IF Aborted THEN {"aborted"} ELSE {}) :
            ReplyArrives(Reply(stop, FreshCalls(n)))
    /\ pc' = "lastTurnEnd"
    /\ UNCHANGED <<hasMoreToolCalls, batch>>

\* A provider called with an aborted signal answers with an aborted reply.
RequestAborted ==
    /\ pc = "turn"
    /\ pendingMessages = <<>>
    /\ Aborted
    /\ ReplyArrives(Reply("aborted", <<>>))
    /\ pc' = "lastTurnEnd"
    /\ UNCHANGED <<hasMoreToolCalls, batch>>

-----------------------------------------------------------------------------
\* executeToolCallsSequential and executeToolCallsParallel.

unchangedByTools == <<context, newMessages, prompts, pendingMessages,
                      completedTurns, skipInitialSteeringPoll, isStreaming,
                      errorMessage, queueVars, activeRun, clientVars, stale,
                      nextCall, throws, lost>>

ToolStart ==
    /\ pc = "toolStart"
    /\ ToolExecutionStart(batch.calls[batch.next])
    /\ startsAfterAbort' = startsAfterAbort + (IF Aborted THEN 1 ELSE 0)
    /\ pc' = "prepare"
    /\ UNCHANGED <<unchangedByTools, messages, streamingMessage,
                   hasMoreToolCalls, batchVars>>

\* prepareToolCall answers at once: no such tool, invalid arguments, a hook
\* that blocks or throws, or an aborted signal.
RefuseCall ==
    /\ pc = "prepare"
    /\ batch' = [batch EXCEPT !.status[batch.next] = "refused"]
    /\ pc' = "refused"
    /\ UNCHANGED <<unchangedByTools, eventVars, stateVars, hasMoreToolCalls,
                   toolResults, startsAfterAbort>>

\* A call that passes preflight runs at once, or with the rest of the batch.
PrepareCall ==
    /\ pc = "prepare"
    /\ ~Aborted
    /\ batch' = [batch EXCEPT !.status[batch.next] =
                    IF batch.sequential THEN "running" ELSE "prepared"]
    /\ pc' = IF batch.sequential THEN "exec" ELSE "check"
    /\ UNCHANGED <<unchangedByTools, eventVars, stateVars, hasMoreToolCalls,
                   toolResults, startsAfterAbort>>

RefusedCallEnd ==
    /\ pc = "refused"
    /\ ToolExecutionEnd(batch.calls[batch.next])
    /\ pc' = IF batch.sequential THEN "result" ELSE "check"
    /\ UNCHANGED <<unchangedByTools, messages, streamingMessage,
                   hasMoreToolCalls, batchVars, startsAfterAbort>>

NextToolCall ==
    /\ pc = "check"
    /\ ~LastCall
    /\ batch' = [batch EXCEPT !.next = @ + 1]
    /\ pc' = "toolStart"
    /\ UNCHANGED <<unchangedByTools, eventVars, stateVars, hasMoreToolCalls,
                   toolResults, startsAfterAbort>>

\* Promise.all over the prepared calls: all of them start executing, also
\* those prepared before the abort that ended the loop.
LaunchPrepared ==
    /\ pc = "check"
    /\ LastCall
    /\ ~batch.sequential
    /\ batch' = [batch EXCEPT !.status =
                    [i \in DOMAIN batch.status |->
                        IF batch.status[i] = "prepared" THEN "running"
                                                        ELSE batch.status[i]]]
    /\ pc' = "exec"
    /\ UNCHANGED <<unchangedByTools, eventVars, stateVars, hasMoreToolCalls,
                   toolResults, startsAfterAbort>>

\* A tool finishes (its own error is a result like another), afterToolCall
\* may replace the result, and the end event is emitted.
ToolEnd(i) ==
    /\ pc = "exec"
    /\ i \in Running
    /\ ToolExecutionEnd(batch.calls[i])
    /\ \E terminate \in BOOLEAN :
            batch' = [batch EXCEPT !.status[i] = "done",
                                   !.terminate[i] = terminate]
    /\ pc' = IF batch.sequential THEN "result" ELSE "exec"
    /\ UNCHANGED <<unchangedByTools, messages, streamingMessage,
                   hasMoreToolCalls, toolResults, startsAfterAbort>>

\* Mutant of JoinTools: waits for every call of the reply to be done.
JoinToolsAll ==
    /\ pc = "exec"
    /\ ~batch.sequential
    /\ \A i \in DOMAIN batch.status : batch.status[i] = "done"
    /\ pc' = "result"
    /\ UNCHANGED <<unchangedByTools, eventVars, stateVars, hasMoreToolCalls,
                   batchVars, startsAfterAbort>>


JoinTools ==
    /\ pc = "exec"
    /\ ~batch.sequential
    /\ Running = {}
    /\ pc' = "result"
    /\ UNCHANGED <<unchangedByTools, eventVars, stateVars, hasMoreToolCalls,
                   batchVars, startsAfterAbort>>

\* The call whose result message is emitted next: source order.
NextResult == Len(toolResults) + 1

\* Mutant of EmitResult: results are emitted in any order.
EmitResultUnordered ==
    /\ pc = "result"
    /\ NextResult <= batch.next
    /\ \E i \in 1..batch.next :
        /\ Result(batch.calls[i]) \notin ToSet(toolResults)
        /\ MessageEnd(Result(batch.calls[i]))
        /\ toolResults' = Append(toolResults, Result(batch.calls[i]))
    /\ pc' = IF batch.sequential THEN "check" ELSE "result"
    /\ UNCHANGED <<unchangedByTools, pendingToolCalls, hasMoreToolCalls, batch,
                   startsAfterAbort>>


EmitResult ==
    /\ pc = "result"
    /\ NextResult <= batch.next
    /\ MessageEnd(Result(batch.calls[NextResult]))
    /\ toolResults' = Append(toolResults, Result(batch.calls[NextResult]))
    /\ pc' = IF batch.sequential THEN "check" ELSE "result"
    /\ UNCHANGED <<unchangedByTools, pendingToolCalls, hasMoreToolCalls, batch,
                   startsAfterAbort>>

\* Back in runLoop: the results join the context.
FinishBatch ==
    /\ \/ pc = "check" /\ batch.sequential /\ LastCall
       \/ pc = "result" /\ ~batch.sequential /\ NextResult > batch.next
    /\ context' = context \o toolResults
    /\ newMessages' = newMessages \o toolResults
    /\ hasMoreToolCalls' = ~BatchTerminates
    /\ batch' = NoBatch
    /\ toolResults' = <<>>
    /\ pc' = "turnEnd"
    /\ UNCHANGED <<agentVars, prompts, pendingMessages, completedTurns,
                   skipInitialSteeringPoll, toolVars, historyVars>>

-----------------------------------------------------------------------------
\* The end of a turn.

TurnEnd ==
    /\ pc = "turnEnd"
    /\ TurnEndEvent(FALSE)
    /\ completedTurns' = completedTurns + 1
    /\ pc' = "prepareNextTurn"
    /\ UNCHANGED <<messages, streamingMessage, pendingToolCalls, isStreaming,
                   queueVars, activeRun, clientVars, context, newMessages,
                   prompts, pendingMessages, hasMoreToolCalls,
                   skipInitialSteeringPoll, batchVars, toolVars, historyVars>>

\* The hook of the coding agent either keeps the context or, after a
\* compaction, replaces it with the current transcript.
PrepareNextTurn ==
    /\ pc = "prepareNextTurn"
    /\ context' \in {context, messages}
    /\ pc' = "pollSteering"
    /\ UNCHANGED <<agentVars, newMessages, prompts, pendingMessages,
                   completedTurns, hasMoreToolCalls, skipInitialSteeringPoll,
                   batchVars, toolVars, historyVars>>

\* Mutant of LimitReached: one turn too many.
LimitExceeded == TurnLimit > 0 /\ completedTurns > TurnLimit


LimitReached == TurnLimit > 0 /\ completedTurns >= TurnLimit

\* The queue is drained before the limit is looked at.
PollSteering ==
    LET drained == Drained(SteeringMode, steeringQueue) IN
    /\ pc = "pollSteering"
    /\ steeringQueue' = AfterDrain(SteeringMode, steeringQueue)
    /\ \/ /\ ~hasMoreToolCalls
          /\ drained = <<>>
          /\ pc' = "pollFollowUps"
          /\ UNCHANGED <<turnVars, batchVars, lost>>
       \/ /\ hasMoreToolCalls \/ drained # <<>>
          /\ ~LimitReached
          /\ pc' = "turn"
          /\ pendingMessages' = drained
          /\ UNCHANGED <<context, newMessages, prompts, completedTurns,
                         hasMoreToolCalls, skipInitialSteeringPoll, batchVars,
                         lost>>
       \/ /\ hasMoreToolCalls \/ drained # <<>>
          /\ LimitReached
          /\ RunFails(drained)
    /\ UNCHANGED <<stateVars, followUpQueue, activeRun, clientVars, eventVars,
                   toolVars, throws, startsAfterAbort>>

PollFollowUps ==
    LET drained == Drained(FollowUpMode, followUpQueue) IN
    /\ pc = "pollFollowUps"
    /\ followUpQueue' = AfterDrain(FollowUpMode, followUpQueue)
    /\ \/ /\ drained = <<>>
          /\ pc' = "agentEnd"
          /\ UNCHANGED <<turnVars, batchVars, lost>>
       \/ /\ drained # <<>>
          /\ ~LimitReached
          /\ pc' = "turn"
          /\ pendingMessages' = drained
          /\ UNCHANGED <<context, newMessages, prompts, completedTurns,
                         hasMoreToolCalls, skipInitialSteeringPoll, batchVars,
                         lost>>
       \/ /\ drained # <<>>
          /\ LimitReached
          /\ RunFails(drained)
    /\ UNCHANGED <<stateVars, steeringQueue, activeRun, clientVars, eventVars,
                   toolVars, throws, startsAfterAbort>>

\* A reply that failed or was aborted ends the run without polling.
LastTurnEnd ==
    /\ pc = "lastTurnEnd"
    /\ TurnEndEvent(TRUE)
    /\ pc' = "agentEnd"
    /\ UNCHANGED <<messages, streamingMessage, pendingToolCalls, isStreaming,
                   queueVars, activeRun, clientVars, turnVars, batchVars,
                   toolVars, historyVars>>

AgentEnd ==
    /\ pc = "agentEnd"
    /\ EmitAgentEnd
    /\ pc' = "finish"
    /\ UNCHANGED <<messages, pendingToolCalls, isStreaming, errorMessage,
                   queueVars, activeRun, clientVars, turnVars, batchVars,
                   toolVars, historyVars>>

-----------------------------------------------------------------------------
\* Something the loop awaits rejects: a listener, the provider call, a hook.

LoopPoints == {"prompts", "turn", "request", "partial", "toolStart", "prepare",
               "check", "exec", "result", "turnEnd", "prepareNextTurn",
               "lastTurnEnd", "agentEnd", "finish"}

FailurePoints == {"failed", "failedTurnEnd", "failedAgentEnd", "finishFailed"}

\* Promise.all rejects with the first end event that throws: the other tools
\* of the batch go on without the run.
Orphaned ==
    IF pc # "exec" \/ batch.sequential THEN {{}}
    ELSE {Running \ {i} : i \in Running} \union
         (IF \E i \in DOMAIN batch.status : batch.status[i] = "done"
          THEN {Running} ELSE {})

ListenerThrows ==
    /\ pc \in LoopPoints
    /\ throws < MaxThrows
    /\ throws' = throws + 1
    /\ \E orphans \in Orphaned :
            stale' = stale \union {batch.calls[i] : i \in orphans}
    /\ RunFails(prompts \o pendingMessages)
    /\ UNCHANGED <<agentVars, nextCall, startsAfterAbort>>

\* The tool answers when its run is over: the event is reduced, and reaches
\* the listeners of whatever run is active.
StaleToolEnd(c) ==
    /\ c \in stale
    /\ stale' = stale \ {c}
    /\ pendingToolCalls' = pendingToolCalls \ {c}
    /\ IF activeRun = "none" THEN UNCHANGED eventVars ELSE Emit
    /\ UNCHANGED <<messages, streamingMessage, isStreaming, errorMessage,
                   queueVars, activeRun, clientVars, pc, turnVars, batchVars,
                   nextCall, historyVars>>

-----------------------------------------------------------------------------
\* handleRunFailure.

FailureMessage ==
    /\ pc = "failed"
    /\ MessageEnd(Reply(IF Aborted THEN "aborted" ELSE "error", <<>>))
    /\ pc' = "failedTurnEnd"
    /\ UNCHANGED <<pendingToolCalls, isStreaming, errorMessage, queueVars,
                   activeRun, clientVars, turnVars, batchVars, toolVars,
                   historyVars>>


FailureTurnEnd ==
    /\ pc = "failedTurnEnd"
    /\ TurnEndEvent(TRUE)
    /\ pc' = "failedAgentEnd"
    /\ UNCHANGED <<messages, streamingMessage, pendingToolCalls, isStreaming,
                   queueVars, activeRun, clientVars, turnVars, batchVars,
                   toolVars, historyVars>>

FailureAgentEnd ==
    /\ pc = "failedAgentEnd"
    /\ EmitAgentEnd
    /\ pc' = "finishFailed"
    /\ UNCHANGED <<messages, pendingToolCalls, isStreaming, errorMessage,
                   queueVars, activeRun, clientVars, turnVars, batchVars,
                   toolVars, historyVars>>

\* A listener throws on one of the failure events: the rest are not emitted.
FailureThrows ==
    /\ pc \in FailurePoints \ {"finishFailed"}
    /\ throws < MaxThrows
    /\ throws' = throws + 1
    /\ pc' = "finishFailed"
    /\ UNCHANGED <<agentVars, turnVars, batchVars, toolVars, lost,
                   startsAfterAbort>>

-----------------------------------------------------------------------------
Init ==
    /\ AgentInit
    /\ pc = "idle"
    /\ context = <<>>
    /\ newMessages = <<>>
    /\ prompts = <<>>
    /\ pendingMessages = <<>>
    /\ completedTurns = 0
    /\ hasMoreToolCalls = FALSE
    /\ skipInitialSteeringPoll = FALSE
    /\ batch = NoBatch
    /\ toolResults = <<>>
    /\ stale = {}
    /\ nextCall = 1
    /\ throws = 0
    /\ lost = {}
    /\ startsAfterAbort = 0

StartRun ==
    \/ Prompt
    \/ ContinueWithSteering
    \/ ContinueWithFollowUps
    \/ ContinueTranscript

\* The steps the event loop takes for the active run.
LoopStep ==
    \/ EmitPrompt
    \/ PollInitialSteering
    \/ InjectPending
    \/ RequestReply
    \/ RequestAborted
    \/ ToolStart
    \/ RefuseCall
    \/ PrepareCall
    \/ RefusedCallEnd
    \/ NextToolCall
    \/ LaunchPrepared
    \/ JoinTools
    \/ EmitResult
    \/ FinishBatch
    \/ TurnEnd
    \/ PrepareNextTurn
    \/ PollSteering
    \/ PollFollowUps
    \/ LastTurnEnd
    \/ AgentEnd
    \/ FailureMessage
    \/ FailureTurnEnd
    \/ FailureAgentEnd
    \/ FinishRun

\* The answers of the provider.
ProviderStep ==
    \/ StreamStart
    \/ ReplyWithoutCalls
    \/ ReplyWithCalls
    \/ ReplyFails

ToolStep ==
    \/ \E i \in Running : ToolEnd(i)
    \/ \E c \in stale : StaleToolEnd(c)

Throw == ListenerThrows \/ FailureThrows

ClientStep == ClientCall /\ UNCHANGED loopVars

Next ==
    \/ StartRun
    \/ LoopStep
    \/ ProviderStep
    \/ ToolStep
    \/ Throw
    \/ ClientStep

Spec == Init /\ [][Next]_vars

\* The event loop runs every continuation that is ready; the provider answers
\* every request and every tool call returns.
FairSpec == Spec /\ WF_vars(LoopStep) /\ WF_vars(ProviderStep)
                 /\ WF_vars(ToolStep)

-----------------------------------------------------------------------------
\* Properties.

TurnPoints == {"turn", "request", "partial"}
ToolPoints == {"toolStart", "prepare", "refused", "check", "exec", "result"}
EndPoints == {"turnEnd", "prepareNextTurn", "pollSteering", "pollFollowUps",
              "lastTurnEnd", "agentEnd", "finish"}
RunPoints == {"prompts"} \union TurnPoints \union ToolPoints \union EndPoints
                         \union FailurePoints

\* Every variable of the Agent and of the loop has its type.
TypeOK ==
    /\ AgentTypeOK
    /\ pc \in {"idle"} \union RunPoints
    /\ context \in Seq(Message)
    /\ newMessages \in Seq(Message)
    /\ prompts \in Seq(UserMessage)
    /\ pendingMessages \in Seq(UserMessage)
    /\ completedTurns \in Nat
    /\ hasMoreToolCalls \in BOOLEAN
    /\ skipInitialSteeringPoll \in BOOLEAN
    /\ batch \in Batch
    /\ toolResults \in Seq(ToolResult)
    /\ stale \subseteq Nat
    /\ nextCall \in Nat
    /\ throws \in Nat
    /\ lost \subseteq Nat
    /\ startsAfterAbort \in Nat

\* When no run is active the runtime state shows nothing of the last one:
\* whatever threw, was aborted or was reset, no message is streaming, no tool
\* call is pending and the agent is not streaming (finishRun).
IdleIsClean ==
    activeRun = "none" =>
        /\ pc = "idle"
        /\ ~isStreaming
        /\ ~streamingMessage
        /\ pendingToolCalls = {}
        /\ prompts = <<>> /\ pendingMessages = <<>>

\* What the next provider request sees and what the client sees agree: the
\* transcript, extended by what the loop still has to emit, is a suffix of the
\* loop's private context extended by the results not yet pushed to it.  It is
\* a proper suffix only when reset() was called during the run.
TranscriptFollowsContext ==
    /\ pc = "prompts" => IsSuffix(messages \o prompts, context)
    /\ pc \in {"turn", "request"} \union ToolPoints \union EndPoints =>
            IsSuffix(messages, context \o toolResults)
    /\ pc = "partial" => IsSuffix(messages, Front(context))

\* In what is sent to the provider every tool result answers a call of the
\* closest reply before it, in the order the reply made the calls, with
\* nothing but results in between; no call is answered twice.  (A reset during
\* a batch followed by a hook that reloads the transcript breaks it.)
ResultsAnswerCalls ==
    resets = 0 =>
        \A i \in DOMAIN context :
            context[i].role = "toolResult" =>
                \E r \in 1..(i - 1) :
                    /\ context[r].role = "assistant"
                    /\ i - r <= Len(context[r].calls)
                    /\ \A j \in (r + 1)..i :
                            context[j] = Result(context[r].calls[j - r])

\* The positions at which a sequence holds a user message of one origin.
Of(via, s) == {i \in DOMAIN s : IsUser(s[i]) /\ s[i].via = via}

Sorted(via, s) == \A i, j \in Of(via, s) : i < j => s[i].id < s[j].id

\* The user messages in the order they are or will be seen: emitted, held by
\* the loop, queued.
Journey(queue) == messages \o prompts \o pendingMessages \o queue

\* Steering messages reach the transcript once each, in the order they were
\* queued, and so do follow-up messages, across runs, aborts and failures.
QueuedInOrder ==
    /\ Sorted("steer", Journey(steeringQueue))
    /\ Sorted("followUp", Journey(followUpQueue))

\* In one-at-a-time mode the model answers every queued message before it
\* sees the next one of the same queue, in the loop and through continue().
OneAtATime ==
    throws = 0 =>
        \A i, j \in DOMAIN messages :
            /\ i < j
            /\ IsUser(messages[i]) /\ IsUser(messages[j])
            /\ messages[i].via = messages[j].via
            /\ \/ messages[i].via = "steer" /\ SteeringMode = "one-at-a-time"
               \/ messages[i].via = "followUp" /\ FollowUpMode = "one-at-a-time"
            => \E k \in (i + 1)..(j - 1) : messages[k].role = "assistant"

\* Both queues are drained as the client set them up (agent.ts:132, :443).
QueueDiscipline == QueuedInOrder /\ OneAtATime

\* Every user message is in exactly one place: the transcript, a queue, the
\* loop's hands, or dropped by a clear, a reset or a failed run.
EveryMessageAccountedFor ==
    LET inLoop == Ids(prompts) \union Ids(pendingMessages)
        queued == Ids(steeringQueue) \union Ids(followUpQueue)
        seen == Ids(messages)
    IN /\ seen \union queued \union inLoop \union discarded \union lost
            = 1..(nextId - 1)
       /\ seen \intersect (queued \union inLoop \union discarded \union lost) = {}
       /\ queued \intersect (inLoop \union discarded \union lost) = {}
       /\ inLoop \intersect (discarded \union lost) = {}
       /\ discarded \intersect lost = {}

\* Unless a listener throws, agent_end is emitted once per run and nothing
\* after it, whichever of its ends the run takes.
AgentEndOnce ==
    throws = 0 => /\ ~afterEnd
                  /\ pc \in {"finish", "finishFailed"} => ended

\* The messages agent_end reports are those the run added to the transcript,
\* in their order (what is left of them after a reset).
AgentEndReportsRun ==
    pc \in {"agentEnd", "finish"} => \/ IsSuffix(newMessages, messages)
                                     \/ IsSuffix(messages, newMessages)

\* No request is sent to the provider once the turn limit is reached, by tool
\* calls, steering or follow-ups.
LimitStopsRequests ==
    TurnLimit > 0 /\ pc \in TurnPoints => completedTurns < TurnLimit

\* After an abort at most one more tool call of the run is started, and that
\* call is refused.
AbortStopsTools == startsAfterAbort <= 1

\* A failed or aborted reply is the last turn of its run: its error shows in
\* the state once the agent is idle.
FailureIsVisible ==
    /\ activeRun = "none"
    /\ throws = 0
    /\ messages # <<>>
    /\ IsFailure(Last(messages))
    => errorMessage

\* What a run tells its listeners: one agent_end with its messages, and the
\* error of the reply it ended with (agent-loop.ts:197, :280).
RunIsReported == AgentEndOnce /\ AgentEndReportsRun /\ FailureIsVisible

\* Every run comes to an end, aborted or not, whatever its tools do and
\* whatever throws: the agent is idle again and again (agent.ts:476).
RunSettles == []<>(activeRun = "none")
=============================================================================
