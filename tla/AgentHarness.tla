---------------------------- MODULE AgentHarness ----------------------------
(***************************************************************************)
(* packages/agent/src/harness/agent-harness.ts: the harness that runs the  *)
(* agent loop over a persisted session.  It guards its operations with a   *)
(* phase, queues steering, follow-up and next-turn messages, defers the    *)
(* session writes requested while it is busy and flushes them at save      *)
(* points.                                                                 *)
(*                                                                         *)
(* A run is one call of prompt(), skill() or promptFromTemplate().  The    *)
(* phase goes back to "idle" before the listeners of agent_end are called, *)
(* so a run may still have steps to take when the next one starts: every   *)
(* run has its own program counter.  The loop of agent-loop.ts is reduced  *)
(* to its events: AgentLoop.tla has the detail.  The session is the list   *)
(* of entries on the active branch: SessionTree.tla has the tree.          *)
(***************************************************************************)
EXTENDS Naturals, Sequences

CONSTANTS
    OneAtATime,         \* the queue mode of both queues (else "all")
    EarlyPrompts,       \* clients call prompt() from agent_end listeners too
    MaxRuns,            \* bound: runs
    MaxReplies,         \* bound: replies of one run that call tools
    MaxQueued,          \* bound: steer, followUp and nextTurn calls
    MaxWrites,          \* bound: session writes requested by clients
    MaxStructural,      \* bound: compact and navigateTree calls
    MaxFailures,        \* bound: hooks, listeners or appends that fail
    MaxEvents           \* bound: these calls and failures together

ASSUME HarnessAssumption ==
    /\ OneAtATime \in BOOLEAN
    /\ EarlyPrompts \in BOOLEAN
    /\ MaxRuns \in Nat
    /\ MaxReplies \in Nat
    /\ MaxQueued \in Nat
    /\ MaxWrites \in Nat
    /\ MaxStructural \in Nat
    /\ MaxFailures \in Nat
    /\ MaxEvents \in Nat

Runs == 1..MaxRuns
NoRun == 0

VARIABLES
    \* fields of the harness
    phase,
    runAbortController,     \* the run whose controller the field holds
    runPromise,             \* the run whose promise the field holds
    pendingSessionWrites,
    steerQueue,
    followUpQueue,
    nextTurnQueue,
    \* the persisted session
    session,
    \* each run: await point, messages still to emit, loop context, the write
    \* its flush has in flight, replies that called tools, whether its
    \* controller has fired
    pc,
    unsent,
    context,
    more,                   \* hasMoreToolCalls
    writing,
    replies,
    aborted,
    structural,             \* a compact or navigateTree call is under way
    \* history
    nextId,                 \* identity of the next queued message
    nextWrite,              \* identity of the next client write
    dropped,                \* messages cleared by abort or lost by a hook
    structurals,
    failures

fields == <<phase, runAbortController, runPromise, pendingSessionWrites,
            steerQueue, followUpQueue, nextTurnQueue>>
queues == <<steerQueue, followUpQueue, nextTurnQueue>>
runVars == <<pc, unsent, context, more, writing, replies, aborted>>
history == <<nextId, nextWrite, dropped, structurals, failures>>
vars == <<fields, session, runVars, structural, history>>

WithinEvents ==
    (nextId - 1) + (nextWrite - 1) + structurals + failures < MaxEvents

-----------------------------------------------------------------------------
\* Entries of the session.  The user message of a prompt carries its run.

PromptEntry(r) == [kind |-> "prompt", id |-> r]
ReplyEntry(r) == [kind |-> "reply", id |-> r]
ResultEntry(r) == [kind |-> "result", id |-> r]
QueuedEntry(n) == [kind |-> "queued", id |-> n]
WriteEntry(w) == [kind |-> "write", id |-> w]
StructureEntry == [kind |-> "structure", id |-> 0]

Entry == [kind : {"prompt", "reply", "result", "queued", "write", "structure"},
          id : Nat]
NoWrite == [kind |-> "none", id |-> 0]

\* The entries of one kind in a list, by their identities.
Ids(s, kind) == {s[i].id : i \in {j \in DOMAIN s : s[j].kind = kind}}
QueuedIds(s) == Ids(s, "queued")

-----------------------------------------------------------------------------
\* Await points of a run.

StartPoints == {"snapshot", "announce", "hook"}
LoopPoints == {"prompts", "turn", "request", "results", "turnEnd", "turnFlush",
               "turnRethrow", "refresh", "poll", "lastTurnEnd", "lastFlush",
               "endFlush"}
FailurePoints == {"failed", "failFlush", "failEndFlush"}
TailPoints == {"settling", "settlingFailed", "tail", "tailReject"}
Points == {"unused", "done"} \union StartPoints \union LoopPoints
                             \union FailurePoints \union TailPoints

\* Mutant of FlushPoints: the finally block waits for a flush nobody runs.
FlushPointsNoTail == {"turnFlush", "turnRethrow", "refresh", "lastFlush",
                      "endFlush", "failFlush", "failEndFlush"}

\* flushPendingSessionWrites is awaited here.
FlushPoints == {"turnFlush", "turnRethrow", "refresh", "lastFlush", "endFlush",
                "failFlush", "failEndFlush", "tail", "tailReject"}

Over(r) == pc[r] \in {"unused", "done"}

Go(r, point) == pc' = [pc EXCEPT ![r] = point]

Appended(r, e) == [context EXCEPT ![r] = Append(@, e)]

-----------------------------------------------------------------------------
\* prompt, skill, promptFromTemplate up to the loop.

Prompt(r) ==
    /\ phase = "idle"
    /\ pc[r] = "unused"
    /\ \A q \in 1..(r - 1) : pc[q] # "unused" /\ (EarlyPrompts \/ Over(q))
    /\ phase' = "turn"
    /\ runPromise' = r
    /\ Go(r, "snapshot")
    /\ UNCHANGED <<runAbortController, pendingSessionWrites, queues, session,
                   unsent, context, more, writing, replies, aborted, structural, history>>

\* createTurnState, then executeTurn takes the whole next-turn queue.
TakeSnapshot(r) ==
    /\ pc[r] = "snapshot"
    /\ context' = [context EXCEPT ![r] = session]
    /\ unsent' = [unsent EXCEPT ![r] = nextTurnQueue]
    /\ nextTurnQueue' = <<>>
    /\ Go(r, IF nextTurnQueue = <<>> THEN "hook" ELSE "announce")
    /\ UNCHANGED <<phase, runAbortController, runPromise, pendingSessionWrites,
                   steerQueue, followUpQueue, session, more, writing, replies,
                   aborted, structural, history>>

\* emitQueueUpdate
AnnounceNextTurn(r) ==
    /\ pc[r] = "announce"
    /\ Go(r, "hook")
    /\ UNCHANGED <<fields, session, unsent, context, more, writing, replies, aborted,
                   structural, history>>

\* before_agent_start returned; only now can the run be aborted.
StartLoop(r) ==
    /\ pc[r] = "hook"
    /\ unsent' = [unsent EXCEPT ![r] = Append(@, PromptEntry(r))]
    /\ runAbortController' = r
    /\ Go(r, "prompts")
    /\ UNCHANGED <<phase, runPromise, pendingSessionWrites, queues, session,
                   context, more, writing, replies, aborted, structural, history>>

-----------------------------------------------------------------------------
\* The loop.  message_end appends to the session before the listeners run.

EmitMessage(r) ==
    /\ pc[r] \in {"prompts", "turn"}
    /\ unsent[r] # <<>>
    /\ session' = Append(session, Head(unsent[r]))
    /\ context' = Appended(r, Head(unsent[r]))
    /\ unsent' = [unsent EXCEPT ![r] = Tail(@)]
    /\ UNCHANGED <<fields, pc, more, writing, replies, aborted, structural, history>>

Drained(q) == IF OneAtATime /\ q # <<>> THEN <<Head(q)>> ELSE q
AfterDrain(q) == IF OneAtATime /\ q # <<>> THEN Tail(q) ELSE <<>>


\* The poll before the first turn and the one after a turn.
PollSteering(r) ==
    /\ \/ pc[r] = "prompts" /\ unsent[r] = <<>>
       \/ pc[r] = "poll" /\ (more[r] \/ steerQueue # <<>>)
    /\ unsent' = [unsent EXCEPT ![r] = Drained(steerQueue)]
    /\ steerQueue' = AfterDrain(steerQueue)
    /\ Go(r, "turn")
    /\ UNCHANGED <<phase, runAbortController, runPromise, pendingSessionWrites,
                   followUpQueue, nextTurnQueue, session, context, more, writing,
                   replies, aborted, structural, history>>

\* No tool result to send, no steering message: follow-ups, or the end.
PollFollowUps(r) ==
    /\ pc[r] = "poll"
    /\ ~more[r]
    /\ steerQueue = <<>>
    /\ unsent' = [unsent EXCEPT ![r] = Drained(followUpQueue)]
    /\ followUpQueue' = AfterDrain(followUpQueue)
    /\ Go(r, IF followUpQueue = <<>> THEN "endFlush" ELSE "turn")
    /\ UNCHANGED <<phase, runAbortController, runPromise, pendingSessionWrites,
                   steerQueue, nextTurnQueue, session, context, more, writing,
                   replies, aborted, structural, history>>

RequestReply(r) ==
    /\ pc[r] = "turn"
    /\ unsent[r] = <<>>
    /\ Go(r, "request")
    /\ UNCHANGED <<fields, session, unsent, context, more, writing, replies,
                   aborted, structural, history>>

\* The reply: it calls tools, it does not, or it failed or was aborted.
ReplyArrives(r) ==
    /\ pc[r] = "request"
    /\ session' = Append(session, ReplyEntry(r))
    /\ context' = Appended(r, ReplyEntry(r))
    /\ more' = [more EXCEPT ![r] = FALSE]
    /\ \/ /\ replies[r] < MaxReplies
          /\ replies' = [replies EXCEPT ![r] = @ + 1]
          /\ Go(r, "results")
       \/ /\ \E point \in {"turnEnd", "lastTurnEnd"} : Go(r, point)
          /\ UNCHANGED replies
    /\ UNCHANGED <<fields, unsent, writing, aborted, structural, history>>

ResultsArrive(r) ==
    /\ pc[r] = "results"
    /\ session' = Append(session, ResultEntry(r))
    /\ context' = Appended(r, ResultEntry(r))
    /\ \E hasMoreToolCalls \in BOOLEAN :
            more' = [more EXCEPT ![r] = hasMoreToolCalls]
    /\ Go(r, "turnEnd")
    /\ UNCHANGED <<fields, unsent, writing, replies, aborted, structural,
                   history>>

\* handleAgentEvent("turn_end"): the listeners, whose error is kept until the
\* pending writes are flushed (Fail below goes to turnRethrow).
TurnEnd(r) ==
    /\ pc[r] \in {"turnEnd", "lastTurnEnd"}
    /\ Go(r, IF pc[r] = "turnEnd" THEN "turnFlush" ELSE "lastFlush")
    /\ UNCHANGED <<fields, session, unsent, context, more, writing, replies,
                   aborted, structural, history>>

-----------------------------------------------------------------------------
\* flushPendingSessionWrites: the head is read, appended, and only removed
\* when the append has returned.

FlushStart(r) ==
    /\ pc[r] \in FlushPoints
    /\ writing[r] = NoWrite
    /\ pendingSessionWrites # <<>>
    /\ writing' = [writing EXCEPT ![r] = Head(pendingSessionWrites)]
    /\ UNCHANGED <<fields, session, pc, unsent, context, more, replies, aborted,
                   structural, history>>

AfterShift(q) == IF q = <<>> THEN <<>> ELSE Tail(q)

FlushDone(r) ==
    /\ writing[r] # NoWrite
    /\ session' = Append(session, writing[r])
    /\ pendingSessionWrites' = AfterShift(pendingSessionWrites)
    /\ writing' = [writing EXCEPT ![r] = NoWrite]
    /\ UNCHANGED <<phase, runAbortController, runPromise, queues, pc, unsent,
                   context, more, replies, aborted, structural, history>>

Flushed(r) == writing[r] = NoWrite /\ pendingSessionWrites = <<>>

\* After the flush of a turn_end: save_point and on, or the kept error.
LeaveTurnFlush(r) ==
    /\ Flushed(r)
    /\ \/ pc[r] = "turnFlush" /\ Go(r, "refresh")
       \/ pc[r] = "turnRethrow" /\ Go(r, "failed")
       \/ pc[r] = "lastFlush" /\ Go(r, "endFlush")
       \/ pc[r] = "failFlush" /\ Go(r, "failEndFlush")
    /\ UNCHANGED <<fields, session, unsent, context, more, writing, replies,
                   aborted, structural, history>>

\* Mutant of RefreshContext: the loop keeps its own context.
RefreshContextNot(r) ==
    /\ pc[r] = "refresh"
    /\ Flushed(r)
    /\ Go(r, "poll")
    /\ UNCHANGED <<fields, session, unsent, context, more, writing, replies,
                   aborted, structural, history>>

\* prepareNextTurn: the next turn works on what the session holds now.
RefreshContext(r) ==
    /\ pc[r] = "refresh"
    /\ Flushed(r)
    /\ context' = [context EXCEPT ![r] = session]
    /\ Go(r, "poll")
    /\ UNCHANGED <<fields, session, unsent, more, writing, replies, aborted,
                   structural, history>>

\* handleAgentEvent("agent_end"): idle before agent_end and settled are
\* emitted.
AgentEnd(r) ==
    /\ pc[r] \in {"endFlush", "failEndFlush"}
    /\ Flushed(r)
    /\ phase' = "idle"
    /\ Go(r, IF pc[r] = "endFlush" THEN "settling" ELSE "settlingFailed")
    /\ UNCHANGED <<runAbortController, runPromise, pendingSessionWrites, queues,
                   session, unsent, context, more, writing, replies, aborted,
                   structural, history>>

Settle(r) ==
    /\ pc[r] \in {"settling", "settlingFailed"}
    /\ Go(r, "tail")
    /\ UNCHANGED <<fields, session, unsent, context, more, writing, replies,
                   aborted, structural, history>>

\* The finally blocks of executeTurn and prompt.  The fields are cleared
\* whichever run they belong to by now.
Finish(r) ==
    /\ pc[r] \in {"tail", "tailReject"}
    /\ Flushed(r)
    /\ runAbortController' = NoRun
    /\ runPromise' = NoRun
    /\ phase' = IF pc[r] = "tailReject" THEN "idle" ELSE phase
    /\ Go(r, "done")
    /\ aborted' = aborted \ {r}        \* its signal is not read any more
    /\ UNCHANGED <<pendingSessionWrites, queues, session, unsent, context, more,
                   writing, replies, structural, history>>

-----------------------------------------------------------------------------
\* A hook, a listener or an append fails.

CountFailure ==
    /\ WithinEvents
    /\ failures < MaxFailures
    /\ failures' = failures + 1

\* Mutant of Reject: the phase is left as it was.
RejectStuck(r) ==
    /\ UNCHANGED phase
    /\ runPromise' = NoRun
    /\ Go(r, "done")
    /\ unsent' = [unsent EXCEPT ![r] = <<>>]

\* The catch of prompt: idle again.
Reject(r) ==
    /\ phase' = "idle"
    /\ runPromise' = NoRun
    /\ Go(r, "done")
    /\ unsent' = [unsent EXCEPT ![r] = <<>>]

\* Mutant of StartFails: the next-turn messages are not put back.
StartFailsDropping(r) ==
    /\ CountFailure
    /\ pc[r] \in StartPoints
    /\ Reject(r)
    /\ dropped' = IF pc[r] = "hook" THEN dropped \union QueuedIds(unsent[r])
                                    ELSE dropped
    /\ UNCHANGED <<runAbortController, pendingSessionWrites, queues, session,
                   context, more, writing, replies, aborted, structural, nextId,
                   nextWrite, structurals>>

\* Before the loop: a queue update that fails puts the next-turn messages
\* back, a before_agent_start hook that fails does not.
StartFails(r) ==
    /\ CountFailure
    /\ pc[r] \in StartPoints
    /\ Reject(r)
    /\ nextTurnQueue' = IF pc[r] = "announce" THEN unsent[r] \o nextTurnQueue
                                              ELSE nextTurnQueue
    /\ dropped' = IF pc[r] = "hook" THEN dropped \union QueuedIds(unsent[r])
                                    ELSE dropped
    /\ UNCHANGED <<runAbortController, pendingSessionWrites, steerQueue,
                   followUpQueue, session, context, more, writing, replies,
                   aborted, structural, nextId, nextWrite, structurals>>

\* Mutant of LoopFails: the failure discards the pending writes.
LoopFailsDiscarding(r) ==
    /\ CountFailure
    /\ pc[r] \in LoopPoints \union {"settling"}
    /\ Go(r, IF pc[r] \in {"turnEnd", "lastTurnEnd"} THEN "turnRethrow"
                                                     ELSE "failed")
    /\ dropped' = dropped \union QueuedIds(unsent[r])
    /\ unsent' = [unsent EXCEPT ![r] = <<>>]
    /\ writing' = [writing EXCEPT ![r] = NoWrite]
    /\ pendingSessionWrites' = <<>>
    /\ UNCHANGED <<phase, runAbortController, runPromise, queues, session,
                   context, more, replies, aborted, structural, nextId,
                   nextWrite, structurals>>


LoopFails(r) ==
    /\ CountFailure
    /\ pc[r] \in LoopPoints \union {"settling"}
    /\ Go(r, IF pc[r] \in {"turnEnd", "lastTurnEnd"} THEN "turnRethrow"
                                                     ELSE "failed")
    /\ dropped' = dropped \union QueuedIds(unsent[r])
    /\ unsent' = [unsent EXCEPT ![r] = <<>>]
    /\ writing' = [writing EXCEPT ![r] = NoWrite]
    /\ UNCHANGED <<fields, session, context, more, replies, aborted, structural,
                   nextId, nextWrite, structurals>>

\* emitRunFailure
FailureMessage(r) ==
    /\ pc[r] = "failed"
    /\ session' = Append(session, ReplyEntry(r))
    /\ Go(r, "failFlush")
    /\ UNCHANGED <<fields, unsent, context, more, writing, replies, aborted,
                   structural, history>>

FailureFails(r) ==
    /\ CountFailure
    /\ pc[r] \in FailurePoints \union {"settlingFailed"}
    /\ Go(r, "tailReject")
    /\ writing' = [writing EXCEPT ![r] = NoWrite]
    /\ UNCHANGED <<fields, session, unsent, context, more, replies, aborted,
                   structural, nextId, nextWrite, dropped,
                   structurals>>

\* The last flush fails: the run is rejected, and the write stays pending.
\* This ends the run, so it needs no bound.
TailFails(r) ==
    /\ pc[r] \in {"tail", "tailReject"}
    /\ writing[r] # NoWrite
    /\ writing' = [writing EXCEPT ![r] = NoWrite]
    /\ runAbortController' = NoRun
    /\ Reject(r)
    /\ aborted' = aborted \ {r}
    /\ UNCHANGED <<pendingSessionWrites, queues, session, context, more, replies,
                   structural, history>>

-----------------------------------------------------------------------------
\* Calls of clients, listeners and hooks.

Queued == WithinEvents /\ nextId <= MaxQueued /\ nextId' = nextId + 1

Steer ==
    /\ phase # "idle"
    /\ Queued
    /\ steerQueue' = Append(steerQueue, QueuedEntry(nextId))
    /\ UNCHANGED <<followUpQueue, nextTurnQueue>>

FollowUp ==
    /\ phase # "idle"
    /\ Queued
    /\ followUpQueue' = Append(followUpQueue, QueuedEntry(nextId))
    /\ UNCHANGED <<steerQueue, nextTurnQueue>>

NextTurn ==
    /\ Queued
    /\ nextTurnQueue' = Append(nextTurnQueue, QueuedEntry(nextId))
    /\ UNCHANGED <<steerQueue, followUpQueue>>

Enqueue ==
    /\ Steer \/ FollowUp \/ NextTurn
    /\ UNCHANGED <<phase, runAbortController, runPromise, pendingSessionWrites,
                   session, runVars, structural, nextWrite, dropped, structurals, failures>>

\* Mutant of RequestWrite: the write is not deferred.
RequestWriteAtOnce ==
    /\ WithinEvents
    /\ nextWrite <= MaxWrites
    /\ nextWrite' = nextWrite + 1
    /\ session' = Append(session, WriteEntry(nextWrite))
    /\ UNCHANGED <<fields, runVars, structural, nextId, dropped, structurals,
                   failures>>

\* appendMessage, setModel, setThinkingLevel.
RequestWrite ==
    /\ WithinEvents
    /\ nextWrite <= MaxWrites
    /\ nextWrite' = nextWrite + 1
    /\ IF phase = "idle"
       THEN /\ session' = Append(session, WriteEntry(nextWrite))
            /\ UNCHANGED pendingSessionWrites
       ELSE /\ pendingSessionWrites' =
                    Append(pendingSessionWrites, WriteEntry(nextWrite))
            /\ UNCHANGED session
    /\ UNCHANGED <<phase, runAbortController, runPromise, queues, runVars,
                   structural, nextId, dropped, structurals,
                   failures>>

Abort ==
    /\ steerQueue' = <<>>
    /\ followUpQueue' = <<>>
    /\ dropped' = dropped \union QueuedIds(steerQueue \o followUpQueue)
    /\ aborted' = aborted \union ({runAbortController} \ {NoRun})
    /\ UNCHANGED <<phase, runAbortController, runPromise, pendingSessionWrites,
                   nextTurnQueue, session, pc, unsent, context, more, writing,
                   replies, structural, nextId, nextWrite, structurals,
                   failures>>

\* compact and navigateTree: nothing is flushed at their end.
StartStructural ==
    /\ phase = "idle"
    /\ WithinEvents
    /\ structurals < MaxStructural
    /\ EarlyPrompts \/ \A r \in Runs : Over(r)
    /\ structurals' = structurals + 1
    /\ structural' = TRUE
    /\ phase' \in {"compaction", "branch_summary"}
    /\ UNCHANGED <<runAbortController, runPromise, pendingSessionWrites, queues,
                   session, runVars, nextId, nextWrite, dropped,
                   failures>>

EndStructural ==
    /\ structural
    /\ structural' = FALSE
    /\ session' \in {session, Append(session, StructureEntry)}
    /\ phase' = "idle"
    /\ UNCHANGED <<runAbortController, runPromise, pendingSessionWrites, queues,
                   runVars, history>>

-----------------------------------------------------------------------------
Init ==
    /\ phase = "idle"
    /\ runAbortController = NoRun
    /\ runPromise = NoRun
    /\ pendingSessionWrites = <<>>
    /\ steerQueue = <<>>
    /\ followUpQueue = <<>>
    /\ nextTurnQueue = <<>>
    /\ session = <<>>
    /\ pc = [r \in Runs |-> "unused"]
    /\ unsent = [r \in Runs |-> <<>>]
    /\ context = [r \in Runs |-> <<>>]
    /\ more = [r \in Runs |-> FALSE]
    /\ writing = [r \in Runs |-> NoWrite]
    /\ replies = [r \in Runs |-> 0]
    /\ aborted = {}
    /\ structural = FALSE
    /\ nextId = 1
    /\ nextWrite = 1
    /\ dropped = {}
    /\ structurals = 0
    /\ failures = 0

RunStep(r) ==
    \/ TakeSnapshot(r)
    \/ AnnounceNextTurn(r)
    \/ StartLoop(r)
    \/ EmitMessage(r)
    \/ PollSteering(r)
    \/ PollFollowUps(r)
    \/ RequestReply(r)
    \/ ReplyArrives(r)
    \/ ResultsArrive(r)
    \/ TurnEnd(r)
    \/ FlushStart(r)
    \/ FlushDone(r)
    \/ LeaveTurnFlush(r)
    \/ RefreshContext(r)
    \/ AgentEnd(r)
    \/ Settle(r)
    \/ Finish(r)
    \/ FailureMessage(r)

RunFails(r) ==
    \/ StartFails(r)
    \/ LoopFails(r)
    \/ FailureFails(r)
    \/ TailFails(r)

ClientCall ==
    \/ Enqueue
    \/ RequestWrite
    \/ Abort
    \/ StartStructural

Next ==
    \/ \E r \in Runs : Prompt(r) \/ RunStep(r) \/ RunFails(r)
    \/ ClientCall
    \/ EndStructural

Spec == Init /\ [][Next]_vars

\* A started run goes on: its awaits are answered by the event loop, the
\* storage, the provider and the tools.
FairSpec == Spec /\ \A r \in Runs : WF_vars(RunStep(r))

-----------------------------------------------------------------------------
\* Properties.

\* Every variable has its type.
TypeOK ==
    /\ phase \in {"idle", "turn", "compaction", "branch_summary"}
    /\ runAbortController \in Runs \union {NoRun}
    /\ runPromise \in Runs \union {NoRun}
    /\ pendingSessionWrites \in Seq(Entry)
    /\ steerQueue \in Seq(Entry)
    /\ followUpQueue \in Seq(Entry)
    /\ nextTurnQueue \in Seq(Entry)
    /\ session \in Seq(Entry)
    /\ pc \in [Runs -> Points]
    /\ unsent \in [Runs -> Seq(Entry)]
    /\ context \in [Runs -> Seq(Entry)]
    /\ more \in [Runs -> BOOLEAN]
    /\ writing \in [Runs -> Entry \union {NoWrite}]
    /\ replies \in [Runs -> Nat]
    /\ aborted \subseteq Runs
    /\ structural \in BOOLEAN
    /\ nextId \in Nat
    /\ nextWrite \in Nat
    /\ dropped \subseteq Nat
    /\ structurals \in Nat
    /\ failures \in Nat

AllOver == ~structural /\ \A r \in Runs : Over(r)

\* What a request sends to the provider is what the session holds at that
\* moment: steering, deferred writes and next-turn messages reach both alike.
ContextIsSession == \A r \in Runs : pc[r] = "request" => context[r] = session

\* The entries of the session, and the writes that are still to come.
Log == session \o pendingSessionWrites

\* The writes of clients, persisted and then pending, are in the order they
\* were requested, as long as no write was left pending for a later run (see
\* SettledIsFlushed): a write of the idle harness overtakes it.
WritesInOrder ==
    failures = 0 /\ structurals = 0 =>
        \A i, j \in DOMAIN Log :
            i < j /\ Log[i].kind = "write" /\ Log[j].kind = "write"
                => Log[i].id < Log[j].id

\* A deferred write never separates a reply from the results of its tools.
WritesAtSavePoints ==
    \A i \in 2..Len(session) :
        session[i].kind = "result" => session[i - 1].kind = "reply"

\* No write is pending when no operation is active (it would wait for a next
\* prompt that may never come). A write requested during compact() or
\* navigateTree() is the exception, neither of them flushes; so is one of a
\* run that was rejected before its loop or by a failed append.
SettledIsFlushed ==
    AllOver /\ structurals = 0 /\ failures = 0 => pendingSessionWrites = <<>>

\* Deferred writes are persisted in order, at save points, and before the
\* harness is idle (agent-harness.ts:459, :489).
DeferredWrites == WritesInOrder /\ WritesAtSavePoints /\ SettledIsFlushed

\* No client write is lost or persisted twice, whatever fails.
NoWriteLost ==
    /\ Ids(Log, "write") = 1..(nextWrite - 1)
    /\ \A i, j \in DOMAIN Log : Log[i].kind = "write" /\ Log[i] = Log[j] => i = j

\* The phase keeps every other operation out until the loop of a run is over.
PhaseGuardsLoop ==
    \A r \in Runs : pc[r] \in (StartPoints \union LoopPoints) => phase = "turn"

\* When no operation is active the harness accepts the next one, however the
\* last one failed, and holds nothing of it.
ReleasedWhenOver ==
    AllOver => phase = "idle" /\ runAbortController = NoRun /\ runPromise = NoRun

\* The phase follows the runs: taken while one is under way, given back after
\* every way it ends (agent-harness.ts:610).
PhaseFollowsRuns == TypeOK /\ PhaseGuardsLoop /\ ReleasedWhenOver

\* A queued message is in its queue, in the hands of one run, in the session,
\* or was cleared by abort or dropped with a failed run; in one place only.
QueuedAccountedFor ==
    LET held == UNION {QueuedIds(unsent[r]) : r \in Runs}
        queued == QueuedIds(steerQueue \o followUpQueue \o nextTurnQueue)
        seen == QueuedIds(session)
    IN /\ held \union queued \union seen \union dropped = 1..(nextId - 1)
       /\ seen \intersect (held \union queued \union dropped) = {}
       /\ queued \intersect (held \union dropped) = {}
       /\ held \intersect dropped = {}

\* Every run that starts is over some time, also when its hooks, its appends
\* or the report of its failure fail (agent-harness.ts:610).
RunsSettle == []<>(\A r \in Runs : Over(r))
=============================================================================
