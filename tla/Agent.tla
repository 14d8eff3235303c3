------------------------------- MODULE Agent -------------------------------
(***************************************************************************)
(* The stateful Agent of packages/agent/src/agent.ts: the transcript and   *)
(* runtime state it exposes, its two pending-message queues, the active    *)
(* run, the event reducer processEvents and the calls a client may make at *)
(* any moment (steer, followUp, clear, abort, reset).  AgentLoop.tla puts  *)
(* the turn loop of agent-loop.ts on top of it and closes the system.      *)
(*                                                                         *)
(* A message is a record that keeps what the properties tell apart: the    *)
(* role, the identity of a user message and the call that queued it, the   *)
(* tool calls and stop reason of a reply, the call a result answers.       *)
(***************************************************************************)
EXTENDS Naturals, Sequences

CONSTANTS
    SteeringMode,       \* PendingMessageQueue.mode of the steering queue
    FollowUpMode,       \* PendingMessageQueue.mode of the follow-up queue
    MaxUserMessages,    \* bound: user messages ever submitted
    MaxResets           \* bound: clear and reset calls

QueueModes == {"all", "one-at-a-time"}

ASSUME AgentAssumption ==
    /\ SteeringMode \in QueueModes
    /\ FollowUpMode \in QueueModes
    /\ MaxUserMessages \in Nat
    /\ MaxResets \in Nat

VARIABLES
    \* _state of the Agent
    messages,           \* transcript
    streamingMessage,   \* whether a message is between message_start and _end
    pendingToolCalls,   \* calls between tool_execution_start and _end
    isStreaming,
    errorMessage,       \* whether the last turn ended with an error message
    \* private fields
    steeringQueue,
    followUpQueue,
    activeRun,          \* "none", "live", or "aborted": the controller fired
    \* history
    nextId,             \* identity of the next user message
    discarded,          \* identities removed by a clear or reset call
    resets,             \* clear and reset calls so far
    ended,              \* agent_end was emitted in this run
    afterEnd            \* an event was emitted after agent_end in this run

stateVars == <<messages, streamingMessage, pendingToolCalls, isStreaming,
               errorMessage>>
queueVars == <<steeringQueue, followUpQueue>>
clientVars == <<nextId, discarded, resets>>
eventVars == <<ended, afterEnd>>
agentVars == <<stateVars, queueVars, activeRun, clientVars, eventVars>>

-----------------------------------------------------------------------------
\* Messages.

Origins == {"prompt", "steer", "followUp"}
StopReasons == {"done", "error", "aborted", "partial"}

UserMessage == [role : {"user"}, via : Origins, id : Nat]
AssistantMessage == [role : {"assistant"}, stop : StopReasons, calls : Seq(Nat)]
ToolResult == [role : {"toolResult"}, call : Nat]
Message == UserMessage \union AssistantMessage \union ToolResult

Reply(stop, calls) == [role |-> "assistant", stop |-> stop, calls |-> calls]

IsFailure(m) == m.role = "assistant" /\ m.stop \in {"error", "aborted"}

IsUser(m) == m.role = "user"

\* The identities of the user messages of a sequence.
Ids(s) == {s[i].id : i \in {j \in DOMAIN s : IsUser(s[j])}}

-----------------------------------------------------------------------------
\* PendingMessageQueue.drain: what it returns and what it leaves.

Drained(mode, q) ==
    IF mode = "all" \/ q = <<>> THEN q ELSE <<Head(q)>>

AfterDrain(mode, q) ==
    IF mode = "all" \/ q = <<>> THEN <<>> ELSE Tail(q)

-----------------------------------------------------------------------------
\* processEvents: the reducer of each event.  Every emission is recorded in
\* eventVars; the listeners it then awaits are the interleaving points of
\* AgentLoop.

Emit ==
    /\ afterEnd' = (afterEnd \/ ended)
    /\ UNCHANGED ended

EmitAgentEnd ==
    /\ afterEnd' = (afterEnd \/ ended)
    /\ ended' = TRUE
    /\ streamingMessage' = FALSE

MessageStart ==
    /\ streamingMessage' = TRUE
    /\ Emit

MessageEnd(m) ==
    /\ streamingMessage' = FALSE
    /\ messages' = Append(messages, m)
    /\ Emit

ToolExecutionStart(c) ==
    /\ pendingToolCalls' = pendingToolCalls \union {c}
    /\ Emit

ToolExecutionEnd(c) ==
    /\ pendingToolCalls' = pendingToolCalls \ {c}
    /\ Emit

TurnEndEvent(failed) ==
    /\ errorMessage' = (errorMessage \/ failed)
    /\ Emit

-----------------------------------------------------------------------------
\* runWithLifecycle and finishRun.

BeginRun ==
    /\ activeRun = "none"
    /\ activeRun' = "live"
    /\ isStreaming' = TRUE
    /\ streamingMessage' = FALSE
    /\ errorMessage' = FALSE
    /\ ended' = FALSE
    /\ afterEnd' = FALSE
    /\ UNCHANGED <<messages, pendingToolCalls, discarded, resets>>

\* Mutant of EndRun: the pending tool calls of the run survive it.
EndRunKeepsCalls ==
    /\ isStreaming' = FALSE
    /\ streamingMessage' = FALSE
    /\ activeRun' = "none"
    /\ UNCHANGED <<messages, errorMessage, pendingToolCalls, queueVars,
                   clientVars, eventVars>>


EndRun ==
    /\ isStreaming' = FALSE
    /\ streamingMessage' = FALSE
    /\ pendingToolCalls' = {}
    /\ activeRun' = "none"
    /\ UNCHANGED <<messages, errorMessage, queueVars, clientVars, eventVars>>

-----------------------------------------------------------------------------
\* Calls a client makes at any await point of the loop, or while it is idle.

Steer ==
    /\ nextId <= MaxUserMessages
    /\ steeringQueue' =
         Append(steeringQueue, [role |-> "user", via |-> "steer", id |-> nextId])
    /\ nextId' = nextId + 1
    /\ UNCHANGED <<stateVars, followUpQueue, activeRun, discarded, resets,
                   eventVars>>

FollowUp ==
    /\ nextId <= MaxUserMessages
    /\ followUpQueue' =
         Append(followUpQueue, [role |-> "user", via |-> "followUp", id |-> nextId])
    /\ nextId' = nextId + 1
    /\ UNCHANGED <<stateVars, steeringQueue, activeRun, discarded, resets,
                   eventVars>>

\* clearSteeringQueue and clearFollowUpQueue; clearAllQueues is one of each.
ClearSteeringQueue ==
    /\ resets < MaxResets
    /\ resets' = resets + 1
    /\ steeringQueue' = <<>>
    /\ discarded' = discarded \union Ids(steeringQueue)
    /\ UNCHANGED <<stateVars, followUpQueue, activeRun, nextId, eventVars>>

ClearFollowUpQueue ==
    /\ resets < MaxResets
    /\ resets' = resets + 1
    /\ followUpQueue' = <<>>
    /\ discarded' = discarded \union Ids(followUpQueue)
    /\ UNCHANGED <<stateVars, steeringQueue, activeRun, nextId, eventVars>>

Abort ==
    /\ activeRun = "live"
    /\ activeRun' = "aborted"
    /\ UNCHANGED <<stateVars, queueVars, clientVars, eventVars>>

\* reset() does not look at activeRun: it may be called during a run.
Reset ==
    /\ resets < MaxResets
    /\ resets' = resets + 1
    /\ messages' = <<>>
    /\ isStreaming' = FALSE
    /\ streamingMessage' = FALSE
    /\ pendingToolCalls' = {}
    /\ errorMessage' = FALSE
    /\ steeringQueue' = <<>>
    /\ followUpQueue' = <<>>
    /\ discarded' = discarded \union Ids(messages) \union Ids(steeringQueue)
                              \union Ids(followUpQueue)
    /\ UNCHANGED <<activeRun, nextId, eventVars>>

ClientCall ==
    \/ Steer
    \/ FollowUp
    \/ ClearSteeringQueue
    \/ ClearFollowUpQueue
    \/ Abort
    \/ Reset

AgentInit ==
    /\ messages = <<>>
    /\ streamingMessage = FALSE
    /\ pendingToolCalls = {}
    /\ isStreaming = FALSE
    /\ errorMessage = FALSE
    /\ steeringQueue = <<>>
    /\ followUpQueue = <<>>
    /\ activeRun = "none"
    /\ nextId = 1
    /\ discarded = {}
    /\ resets = 0
    /\ ended = FALSE
    /\ afterEnd = FALSE

AgentTypeOK ==
    /\ messages \in Seq(Message)
    /\ streamingMessage \in BOOLEAN
    /\ pendingToolCalls \subseteq Nat
    /\ isStreaming \in BOOLEAN
    /\ errorMessage \in BOOLEAN
    /\ steeringQueue \in Seq(UserMessage)
    /\ followUpQueue \in Seq(UserMessage)
    /\ activeRun \in {"none", "live", "aborted"}
    /\ nextId \in Nat
    /\ discarded \subseteq Nat
    /\ resets \in Nat
    /\ ended \in BOOLEAN
    /\ afterEnd \in BOOLEAN
=============================================================================
