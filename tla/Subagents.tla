----------------------------- MODULE Subagents ------------------------------
(***************************************************************************)
(* SubagentManager (packages/coding-agent/src/core/subagent/manager.ts):   *)
(* tasks that wait for a slot, run a session of their own, and end with a  *)
(* result, a partial result or an error.  Each task is one call of run();  *)
(* pc names the await it is at:                                            *)
(*                                                                         *)
(*   "waiting"    for a slot: the next poll, or the abort of its signal    *)
(*   "factory"    for the session factory                                  *)
(*   "prompting"  for the session's prompt, or the abort of its signal     *)
(*   "settling"   after an abort: for the prompt, or for 100 ms            *)
(*   "over"       run() has resolved or rejected                           *)
(*                                                                         *)
(* The session itself is outside this file (bundled-extensions/            *)
(* subagents.ts makes an AgentSession): it produces text or tool output    *)
(* some time, and its prompt ends some time or never.                      *)
(***************************************************************************)
EXTENDS Integers, FiniteSets

CONSTANTS
    Tasks,
    InitialLimit,       \* MAX_CONCURRENT_TASKS
    MinLimit,           \* MIN_CONCURRENCY_LIMIT
    MaxLimit,           \* MAX_CONCURRENCY_LIMIT
    RequestedLimits,    \* what clients pass to setConcurrencyLimit
    MaxLimitChanges     \* bound: calls of setConcurrencyLimit

ASSUME SubagentsAssumption ==
    /\ MinLimit \in Nat \ {0}
    /\ MaxLimit \in Nat
    /\ InitialLimit \in MinLimit..MaxLimit
    /\ RequestedLimits \subseteq Int
    /\ MaxLimitChanges \in Nat

VARIABLES
    pc,                 \* of run(), for each task
    status,             \* SubagentTask.status
    signal,             \* "live", or why the task's controller aborted
    controllers,        \* _abortControllers
    timers,             \* tasks whose timeout is armed
    runningCount,       \* _runningCount
    limit,              \* _concurrencyLimit
    session,            \* the prompt of each task's session
    produced,           \* tasks whose session has text or tool output
    reply,              \* how that prompt ended
    result,             \* the flags of a task's result
    limitChanges

taskVars == <<pc, status, signal, result>>
slotVars == <<controllers, timers, runningCount>>
limitVars == <<limit, limitChanges>>
sessionVars == <<session, produced, reply>>
vars == <<taskVars, slotVars, limitVars, sessionVars>>

-----------------------------------------------------------------------------

Points == {"none", "waiting", "factory", "prompting", "settling", "over"}
Statuses == {"none", "queued", "running", "background", "done", "error"}
Signals == {"live", "cancelled", "timedOut"}
Replies == {"none", "text", "empty", "error", "aborted"}
NoResult == [interrupted |-> FALSE, timedOut |-> FALSE]

\* The tasks between the increment and the decrement of _runningCount.
Holders == {t \in Tasks : pc[t] \in {"factory", "prompting", "settling"}}

FreeSlot == runningCount < limit

\* setConcurrencyLimit's clamp.
Clamped(n) == IF n < MinLimit THEN MinLimit ELSE IF n > MaxLimit THEN MaxLimit ELSE n

Init ==
    /\ pc = [t \in Tasks |-> "none"]
    /\ status = [t \in Tasks |-> "none"]
    /\ signal = [t \in Tasks |-> "live"]
    /\ result = [t \in Tasks |-> NoResult]
    /\ controllers = {}
    /\ timers = {}
    /\ runningCount = 0
    /\ limit = InitialLimit
    /\ limitChanges = 0
    /\ session = [t \in Tasks |-> "none"]
    /\ produced = {}
    /\ reply = [t \in Tasks |-> "none"]

-----------------------------------------------------------------------------
\* run(), up to _execute

\* failQueuedCancellation: no slot was taken, so none is given back.
FailQueued(t) ==
    /\ pc' = [pc EXCEPT ![t] = "over"]
    /\ status' = [status EXCEPT ![t] = "error"]
    /\ controllers' = controllers \ {t}
    /\ UNCHANGED <<timers, runningCount>>

\* After the loop: the slot, the timer, and _execute up to the factory.
Admit(t) ==
    /\ pc' = [pc EXCEPT ![t] = "factory"]
    /\ status' = [status EXCEPT ![t] = "running"]
    /\ runningCount' = runningCount + 1
    /\ timers' = timers \union {t}

\* run() when nothing makes it wait; `aborted` says that options.signal is.
RunAtOnce(t, aborted) ==
    /\ pc[t] = "none"
    /\ signal' = [signal EXCEPT ![t] = IF aborted THEN "cancelled" ELSE "live"]
    /\ IF aborted
       THEN FailQueued(t)
       ELSE FreeSlot /\ Admit(t) /\ controllers' = controllers \union {t}
    /\ UNCHANGED <<result, limitVars, sessionVars>>

\* run() when every slot is taken.
RunQueued(t) ==
    /\ pc[t] = "none"
    /\ ~FreeSlot
    /\ pc' = [pc EXCEPT ![t] = "waiting"]
    /\ status' = [status EXCEPT ![t] = "queued"]
    /\ controllers' = controllers \union {t}
    /\ UNCHANGED <<signal, result, timers, runningCount, limitVars, sessionVars>>

\* Mutant of Poll: the signal is not looked at again after the loop.
PollUnaborted(t) ==
    /\ pc[t] = "waiting"
    /\ \/ signal[t] # "live" /\ ~FreeSlot /\ FailQueued(t)
       \/ FreeSlot /\ Admit(t) /\ UNCHANGED controllers
    /\ UNCHANGED <<signal, result, limitVars, sessionVars>>

\* The poll of a queued task, or its abort: both look at the limit again,
\* and an aborted task fails whether there is a slot or not.
Poll(t) ==
    /\ pc[t] = "waiting"
    /\ \/ signal[t] # "live" /\ FailQueued(t)
       \/ signal[t] = "live" /\ FreeSlot /\ Admit(t) /\ UNCHANGED controllers
    /\ UNCHANGED <<signal, result, limitVars, sessionVars>>

-----------------------------------------------------------------------------
\* The end of run(): its catch and finally blocks.

Settle(t, outcome) ==
    /\ pc' = [pc EXCEPT ![t] = "over"]
    /\ status' = [status EXCEPT ![t] = outcome]
    /\ controllers' = controllers \ {t}
    /\ timers' = timers \ {t}
    /\ runningCount' = runningCount - 1

\* buildResultFromMessages; without text or tool output there is none.
Result(t, interrupted) ==
    [interrupted |-> interrupted, timedOut |-> interrupted /\ signal[t] = "timedOut"]

SettleWith(t, interrupted) ==
    /\ Settle(t, "done")
    /\ result' = [result EXCEPT ![t] = Result(t, interrupted)]

SettleError(t) ==
    /\ Settle(t, "error")
    /\ UNCHANGED result

\* Mutant of SettleAborted: a partial result is not marked.
SettleAbortedUnmarked(t) ==
    IF t \in produced THEN SettleWith(t, FALSE) ELSE SettleError(t)

\* What run() does once it stops waiting for an aborted prompt.
SettleAborted(t) ==
    IF t \in produced THEN SettleWith(t, TRUE) ELSE SettleError(t)

-----------------------------------------------------------------------------
\* _execute

\* Mutant of FactoryReturns: the prompt starts without a look at the signal;
\* the listener of an abort that has fired already is never called.
FactoryReturnsUnchecked(t) ==
    /\ pc[t] = "factory"
    /\ pc' = [pc EXCEPT ![t] = "prompting"]
    /\ session' = [session EXCEPT ![t] = "busy"]
    /\ UNCHANGED <<status, signal, result, slotVars, limitVars, produced, reply>>

\* The signal is looked at only when the factory has returned.
FactoryReturns(t) ==
    /\ pc[t] = "factory"
    /\ IF signal[t] # "live"
       THEN SettleError(t) /\ UNCHANGED session
       ELSE /\ pc' = [pc EXCEPT ![t] = "prompting"]
            /\ session' = [session EXCEPT ![t] = "busy"]
            /\ UNCHANGED <<status, result, slotVars>>
    /\ UNCHANGED <<signal, limitVars, produced, reply>>

\* Mutant of FactoryFails: a factory that throws is outside the try block.
FactoryFailsOutside(t) ==
    /\ pc[t] = "factory"
    /\ pc' = [pc EXCEPT ![t] = "over"]
    /\ status' = [status EXCEPT ![t] = "error"]
    /\ UNCHANGED <<signal, result, slotVars, limitVars, sessionVars>>

FactoryFails(t) ==
    /\ pc[t] = "factory"
    /\ SettleError(t)
    /\ UNCHANGED <<signal, limitVars, sessionVars>>

\* Text, or the result of a tool.
SessionProduces(t) ==
    /\ session[t] \in {"busy", "stopping"}
    /\ produced' = produced \union {t}
    /\ UNCHANGED <<taskVars, slotVars, limitVars, session, reply>>

\* The ways a prompt ends: a last reply with or without text, stopped by an
\* error or aborted, or a rejection ("error" as well).
Endings(t) ==
    {r \in Replies \ {"none"} : (r = "text" => t \in produced)
                             /\ (r = "empty" => t \notin produced)}

PromptEnds(t, r) ==
    /\ session[t] \in {"busy", "stopping"}
    /\ session' = [session EXCEPT ![t] = "idle"]
    /\ reply' = [reply EXCEPT ![t] = r]
    /\ \/ pc[t] = "prompting" /\ CASE r = "text" -> SettleWith(t, FALSE)
                                   [] r = "aborted" -> SettleAborted(t)
                                   [] OTHER -> SettleError(t)
       \/ pc[t] = "settling" /\ SettleAborted(t)
       \/ pc[t] = "over" /\ UNCHANGED <<pc, status, result, slotVars>>
    /\ UNCHANGED <<signal, limitVars, produced>>

\* waitForPromptSettle gives up after 100 ms.
SettleTimeout(t) ==
    /\ pc[t] = "settling"
    /\ SettleAborted(t)
    /\ UNCHANGED <<signal, limitVars, sessionVars>>

-----------------------------------------------------------------------------
\* Aborts, and the other calls of clients.

\* abortController.abort(reason): the first reason stays.  The listener of a
\* prompt under way stops the session and rejects the race run() waits for.
AbortTask(t, reason) ==
    /\ signal' = [signal EXCEPT ![t] = IF signal[t] = "live" THEN reason ELSE signal[t]]
    /\ IF pc[t] = "prompting"
       THEN /\ pc' = [pc EXCEPT ![t] = "settling"]
            /\ session' = [session EXCEPT ![t] = "stopping"]
       ELSE UNCHANGED <<pc, session>>
    /\ UNCHANGED <<status, result, runningCount, controllers, limitVars, produced, reply>>

CancelTask(t) ==
    /\ t \in controllers
    /\ AbortTask(t, "cancelled")
    /\ UNCHANGED timers

\* options.signal.  Its listener outlives the task, without effect then.
ParentAborts(t) ==
    /\ pc[t] \notin {"none", "over"}
    /\ AbortTask(t, "cancelled")
    /\ UNCHANGED timers

TaskTimeout(t) ==
    /\ t \in timers
    /\ AbortTask(t, "timedOut")
    /\ timers' = timers \ {t}

BackgroundTask(t) ==
    /\ status[t] = "running"
    /\ status' = [status EXCEPT ![t] = "background"]
    /\ UNCHANGED <<pc, signal, result, slotVars, limitVars, sessionVars>>

SetConcurrencyLimit(n) ==
    /\ limitChanges < MaxLimitChanges
    /\ limit' = Clamped(n)
    /\ limitChanges' = limitChanges + 1
    /\ UNCHANGED <<taskVars, slotVars, sessionVars>>

-----------------------------------------------------------------------------

Run(t) == RunQueued(t) \/ \E aborted \in BOOLEAN : RunAtOnce(t, aborted)

Factory(t) == FactoryReturns(t) \/ FactoryFails(t)

Session(t) == SessionProduces(t) \/ \E r \in Endings(t) : PromptEnds(t, r)

Client(t) == Run(t) \/ CancelTask(t) \/ ParentAborts(t) \/ BackgroundTask(t)

Next ==
    \/ \E t \in Tasks : \/ Client(t) \/ Poll(t) \/ Factory(t) \/ Session(t)
                        \/ TaskTimeout(t) \/ SettleTimeout(t)
    \/ \E n \in RequestedLimits : SetConcurrencyLimit(n)

Spec == Init /\ [][Next]_vars

\* Timers fire and a factory returns or throws.  Nothing is assumed of the
\* sessions: a prompt may hang for ever.
FairSpec ==
    /\ Spec
    /\ \A t \in Tasks : /\ WF_vars(Poll(t))
                        /\ WF_vars(Factory(t))
                        /\ WF_vars(TaskTimeout(t))
                        /\ WF_vars(SettleTimeout(t))

-----------------------------------------------------------------------------

\* Every variable has its type; the running count is never negative
\* (manager.ts:127).
TypeOK ==
    /\ pc \in [Tasks -> Points]
    /\ status \in [Tasks -> Statuses]
    /\ signal \in [Tasks -> Signals]
    /\ result \in [Tasks -> [interrupted : BOOLEAN, timedOut : BOOLEAN]]
    /\ controllers \subseteq Tasks
    /\ timers \subseteq Tasks
    /\ runningCount \in Nat
    /\ limit \in MinLimit..MaxLimit
    /\ limitChanges \in 0..MaxLimitChanges
    /\ session \in [Tasks -> {"none", "busy", "stopping", "idle"}]
    /\ produced \subseteq Tasks
    /\ reply \in [Tasks -> Replies]

\* Whatever way a task ended (cancelled in the queue, factory failed, prompt
\* failed, timed out, abandoned), its slot, its controller and its timer are
\* given back once: the count equals the tasks that hold a slot, and only
\* tasks under way can be cancelled (manager.ts:277).
SlotsAccountedFor ==
    /\ runningCount = Cardinality(Holders)
    /\ controllers = {t \in Tasks : pc[t] \notin {"none", "over"}}
    /\ timers \subseteq Holders

\* run() does not return over a session that was left to run: when a task is
\* over, its session was never prompted, has ended, or was told to stop
\* (manager.ts:538).
NoSessionLeftRunning ==
    \A t \in Tasks : pc[t] = "over" => session[t] # "busy"

\* A result that is not marked as interrupted is the last text of a prompt
\* that ended by itself; one marked as timed out belongs to a task whose
\* timer fired first (manager.ts:511).
ResultIsHonest ==
    \A t \in Tasks : status[t] = "done" =>
        /\ ~result[t].interrupted => reply[t] = "text"
        /\ result[t].timedOut => result[t].interrupted /\ signal[t] = "timedOut"

\* The status clients list tasks by (getActiveTasks, manager.ts:302) says
\* "queued" while a task waits, "running" or "background" while it holds a
\* slot and "done" or "error" once it is over, also after backgroundTask().
StatusTellsPhase ==
    \A t \in Tasks :
        /\ status[t] = "queued" <=> pc[t] = "waiting"
        /\ status[t] \in {"running", "background"} <=> t \in Holders
        /\ status[t] \in {"done", "error"} <=> pc[t] = "over"

\* A task and its result tell what became of its session (manager.ts:483).
TaskOutcomes == TypeOK /\ NoSessionLeftRunning /\ ResultIsHonest /\ StatusTellsPhase

Slots == INSTANCE SlotPool WITH
    holders <- Holders,
    withdrawn <- {t \in Tasks : pc[t] = "waiting" /\ signal[t] # "live"},
    limit <- limit,
    Limits <- MinLimit..MaxLimit

\* The manager implements a pool of slots: the poll and the increment are one
\* step, so no task is admitted beyond the limit of that moment, and a task
\* aborted while it waited never starts, though the poll finds a free slot
\* (manager.ts:233, :243).
ImplementsSlots == Slots!Spec

\* Every task that was started is settled, also when its session hangs: a
\* queued task gets a slot or is cancelled, and the timer and the 100 ms
\* bound the rest (manager.ts:251).
TasksSettle == \A t \in Tasks : pc[t] # "none" ~> pc[t] = "over"
=============================================================================
