-------------------------- MODULE SubagentsProofs --------------------------
(***************************************************************************)
(* Theorems about Subagents for any set of tasks and any limits: slots are *)
(* accounted for, tasks tell what became of their session, and the manager *)
(* implements the pool of slots of SlotPool.                               *)
(***************************************************************************)
EXTENDS Subagents, FiniteSetTheorems, TLAPS

\* The abbreviations for tuples of variables are expanded everywhere below.
USE DEF taskVars, slotVars, limitVars, sessionVars

-----------------------------------------------------------------------------
\* Slots.  The holders are finitely many, whatever the set of tasks is, since
\* a step adds at most one: without that a cardinality says nothing.

SlotInv == IsFiniteSet(Holders) /\ SlotsAccountedFor

\* The count is a number of holders, and at least one when somebody holds.
LEMMA CountPositive ==
    ASSUME SlotInv, NEW t \in Holders
    PROVE  runningCount \in Nat /\ runningCount > 0
  <1>1. Cardinality(Holders) \in Nat
    BY FS_CardinalityType DEF SlotInv
  <1>2. Cardinality(Holders) # 0
    BY FS_EmptySet DEF SlotInv
  <1> QED
    BY <1>1, <1>2 DEF SlotInv, SlotsAccountedFor

\* A task that takes a slot.
LEMMA SlotTaken ==
    ASSUME TypeOK, SlotInv, NEW t \in Tasks, t \notin Holders,
           Holders' = Holders \union {t}, runningCount' = runningCount + 1
    PROVE  IsFiniteSet(Holders') /\ runningCount' = Cardinality(Holders')
  <1>1. Cardinality(Holders \union {t}) = Cardinality(Holders) + 1
    BY FS_AddElement DEF SlotInv
  <1> QED
    BY <1>1, FS_AddElement DEF SlotInv, SlotsAccountedFor

\* A task that gives its slot back.
LEMMA SlotGiven ==
    ASSUME TypeOK, SlotInv, NEW t \in Holders,
           Holders' = Holders \ {t}, runningCount' = runningCount - 1
    PROVE  IsFiniteSet(Holders') /\ runningCount' = Cardinality(Holders')
  <1>1. Cardinality(Holders \ {t}) = Cardinality(Holders) - 1
    BY FS_RemoveElement DEF SlotInv
  <1> QED
    BY <1>1, FS_RemoveElement DEF SlotInv, SlotsAccountedFor

\* Admit moves one task to the factory.
LEMMA AdmitHolders ==
    ASSUME TypeOK, NEW t \in Tasks, Admit(t)
    PROVE  Holders' = Holders \union {t}
  BY DEF TypeOK, Admit, Holders

\* Settle moves one task out of the holders.
LEMMA SettleHolders ==
    ASSUME TypeOK, NEW t \in Tasks, pc' = [pc EXCEPT ![t] = "over"]
    PROVE  Holders' = Holders \ {t}
  BY DEF TypeOK, Holders

-----------------------------------------------------------------------------
\* The invariant.  A session is busy exactly while run() waits for its prompt;
\* one that waits to settle was told to stop; a prompt has an answer only once
\* it has ended; a task that was never started was not aborted.

SessionInv ==
    \A t \in Tasks :
        /\ session[t] = "busy" <=> pc[t] = "prompting"
        /\ pc[t] = "settling" => session[t] = "stopping"
        /\ pc[t] \in {"none", "waiting", "factory"} => session[t] = "none"
        /\ reply[t] # "none" => session[t] = "idle"
        /\ pc[t] = "none" => signal[t] = "live"

TaskInv == /\ TypeOK
           /\ SlotInv
           /\ SessionInv
           /\ ResultIsHonest
           /\ StatusTellsPhase

\* Nothing runs at first.
LEMMA InitTask == Init => TaskInv
  <1> SUFFICES ASSUME Init
               PROVE  TaskInv
    OBVIOUS
  <1>1. TypeOK
    BY SubagentsAssumption DEF Init, TypeOK, NoResult, Points, Statuses, Signals,
                               Replies
  <1>2. Holders = {}
    BY DEF Init, Holders
  <1>3. SlotInv
    BY <1>2, FS_EmptySet DEF Init, SlotInv, SlotsAccountedFor
  <1> QED
    BY <1>1, <1>3 DEF Init, TaskInv, SessionInv, ResultIsHonest,
                      StatusTellsPhase, Holders

\* What the invariant says of one task is not disturbed by a step of another.
Tells(t) ==
    /\ session[t] = "busy" <=> pc[t] = "prompting"
    /\ pc[t] = "settling" => session[t] = "stopping"
    /\ pc[t] \in {"none", "waiting", "factory"} => session[t] = "none"
    /\ reply[t] # "none" => session[t] = "idle"
    /\ pc[t] = "none" => signal[t] = "live"
    /\ status[t] = "done" =>
        /\ ~result[t].interrupted => reply[t] = "text"
        /\ result[t].timedOut => result[t].interrupted /\ signal[t] = "timedOut"
    /\ status[t] = "queued" <=> pc[t] = "waiting"
    /\ status[t] \in {"running", "background"}
            <=> pc[t] \in {"factory", "prompting", "settling"}
    /\ status[t] \in {"done", "error"} <=> pc[t] = "over"

LEMMA TaskByTask ==
    TaskInv <=> TypeOK /\ SlotInv /\ \A t \in Tasks : Tells(t)
  BY DEF TaskInv, SessionInv, ResultIsHonest, StatusTellsPhase, Tells, Holders

\* The variables of the other tasks.
OthersUnchanged(t) ==
    \A u \in Tasks \ {t} :
        /\ pc'[u] = pc[u] /\ status'[u] = status[u] /\ signal'[u] = signal[u]
        /\ result'[u] = result[u] /\ session'[u] = session[u] /\ reply'[u] = reply[u]

LEMMA OneTask ==
    ASSUME TaskInv, NEW t \in Tasks, OthersUnchanged(t), TypeOK', SlotInv', Tells(t)'
    PROVE  TaskInv'
  <1>1. ASSUME NEW u \in Tasks
        PROVE  Tells(u)'
    <2>1. CASE u = t
      BY <2>1
    <2>2. CASE u # t
      BY <2>2, TaskByTask DEF OthersUnchanged, Tells
    <2> QED
      BY <2>1, <2>2
  <1> QED
    BY <1>1 DEF TaskInv, SessionInv, ResultIsHonest, StatusTellsPhase, Tells, Holders

-----------------------------------------------------------------------------
\* The start of a task.

LEMMA StartsAtOnce ==
    ASSUME TaskInv, NEW t \in Tasks, NEW aborted \in BOOLEAN, RunAtOnce(t, aborted)
    PROVE  TaskInv'
  <1>1. CASE aborted
    <2>1. TypeOK' /\ OthersUnchanged(t)
      BY <1>1 DEF TaskInv, TypeOK, RunAtOnce, FailQueued, OthersUnchanged, Points, Statuses,
                  Signals
    <2>2. Holders' = Holders
      BY <1>1 DEF TaskInv, TypeOK, RunAtOnce, FailQueued, Holders
    <2>3. SlotInv'
      BY <1>1, <2>2 DEF TaskInv, TypeOK, RunAtOnce, FailQueued, SlotInv, SlotsAccountedFor
    <2>5. Tells(t)'
      BY <1>1, TaskByTask DEF TypeOK, RunAtOnce, FailQueued, Tells
    <2> QED
      BY <2>1, <2>3, <2>5, OneTask
  <1>2. CASE ~aborted
    <2>1. TypeOK' /\ OthersUnchanged(t)
      BY <1>2 DEF TaskInv, TypeOK, RunAtOnce, Admit, OthersUnchanged, Points, Statuses,
                  Signals
    <2>2. Holders' = Holders \union {t} /\ t \notin Holders
      BY <1>2, AdmitHolders DEF TaskInv, RunAtOnce, Holders
    <2>3. IsFiniteSet(Holders') /\ runningCount' = Cardinality(Holders')
      BY <1>2, <2>2, SlotTaken DEF TaskInv, RunAtOnce, Admit
    <2>4. SlotInv'
      BY <1>2, <2>2, <2>3 DEF TaskInv, TypeOK, RunAtOnce, Admit, SlotInv, SlotsAccountedFor
    <2>5. Tells(t)'
      BY <1>2, TaskByTask DEF TypeOK, RunAtOnce, Admit, Tells
    <2> QED
      BY <2>1, <2>4, <2>5, OneTask
  <1> QED
    BY <1>1, <1>2

LEMMA StartsQueued ==
    ASSUME TaskInv, NEW t \in Tasks, RunQueued(t)
    PROVE  TaskInv'
  <1>1. TypeOK' /\ OthersUnchanged(t) /\ Tells(t)'
    BY DEF TaskInv, SessionInv, TypeOK, RunQueued, OthersUnchanged, Tells,
           ResultIsHonest, StatusTellsPhase, Points, Statuses, Signals
  <1>2. Holders' = Holders
    BY DEF TaskInv, TypeOK, RunQueued, Holders
  <1>3. SlotInv'
    BY <1>2 DEF TaskInv, TypeOK, RunQueued, SlotInv, SlotsAccountedFor
  <1> QED
    BY <1>1, <1>3, OneTask

LEMMA PollsSlot ==
    ASSUME TaskInv, NEW t \in Tasks, Poll(t)
    PROVE  TaskInv'
  <1>1. CASE FailQueued(t)
    <2>1. TypeOK' /\ OthersUnchanged(t) /\ Tells(t)'
      BY <1>1 DEF TaskInv, SessionInv, TypeOK, Poll, FailQueued, OthersUnchanged,
                  Tells, ResultIsHonest, StatusTellsPhase, Points, Statuses, Signals
    <2>2. Holders' = Holders
      BY <1>1 DEF TaskInv, TypeOK, Poll, FailQueued, Holders
    <2>3. SlotInv'
      BY <1>1, <2>2 DEF TaskInv, TypeOK, Poll, FailQueued, SlotInv, SlotsAccountedFor
    <2> QED
      BY <2>1, <2>3, OneTask
  <1>2. CASE Admit(t) /\ UNCHANGED controllers
    <2>1. TypeOK' /\ OthersUnchanged(t) /\ Tells(t)'
      BY <1>2 DEF TaskInv, SessionInv, TypeOK, Poll, Admit, OthersUnchanged,
                  Tells, ResultIsHonest, StatusTellsPhase, Points, Statuses, Signals
    <2>2. Holders' = Holders \union {t} /\ t \notin Holders
      BY <1>2, AdmitHolders DEF TaskInv, Poll, Holders
    <2>3. IsFiniteSet(Holders') /\ runningCount' = Cardinality(Holders')
      BY <1>2, <2>2, SlotTaken DEF TaskInv, Admit
    <2>4. SlotInv'
      BY <1>2, <2>2, <2>3 DEF TaskInv, TypeOK, Poll, Admit, SlotInv, SlotsAccountedFor
    <2> QED
      BY <2>1, <2>4, OneTask
  <1> QED
    BY <1>1, <1>2 DEF Poll

-----------------------------------------------------------------------------
\* The end of a task: the finally block gives back exactly what the task had.

LEMMA SettleSlots ==
    ASSUME TaskInv, NEW t \in Holders, NEW outcome \in {"done", "error"},
           Settle(t, outcome)
    PROVE  /\ SlotInv'
           /\ pc' \in [Tasks -> Points]
           /\ status' \in [Tasks -> Statuses]
           /\ controllers' \subseteq Tasks /\ timers' \subseteq Tasks
           /\ runningCount' \in Nat
  <1>0. t \in Tasks
    BY DEF Holders
  <1>1. Holders' = Holders \ {t}
    BY <1>0, SettleHolders DEF TaskInv, Settle
  <1>2. IsFiniteSet(Holders') /\ runningCount' = Cardinality(Holders')
    BY <1>1, SlotGiven DEF TaskInv, Settle
  <1>3. SlotInv'
    BY <1>0, <1>1, <1>2 DEF TaskInv, TypeOK, Settle, SlotInv, SlotsAccountedFor
  <1>4. runningCount' \in Nat
    BY <1>2, FS_CardinalityType
  <1> QED
    BY <1>0, <1>3, <1>4 DEF TaskInv, TypeOK, Settle, Points, Statuses

\* A result is a record of two flags.
LEMMA ResultType ==
    ASSUME NEW t \in Tasks, NEW interrupted \in BOOLEAN
    PROVE  /\ Result(t, interrupted) \in [interrupted : BOOLEAN, timedOut : BOOLEAN]
           /\ Result(t, interrupted).interrupted = interrupted
           /\ Result(t, interrupted).timedOut = (interrupted /\ signal[t] = "timedOut")
  BY DEF Result

\* What the ways to settle have in common.  The reply may be set by the step.
Settles(t) ==
    \/ SettleError(t)
    \/ SettleWith(t, TRUE)
    \/ SettleWith(t, FALSE) /\ reply'[t] = "text"

LEMMA SettlesTask ==
    ASSUME TaskInv, NEW t \in Holders, Settles(t), UNCHANGED <<signal, limitVars, produced>>,
           session' \in [Tasks -> {"none", "busy", "stopping", "idle"}],
           reply' \in [Tasks -> Replies],
           \A u \in Tasks \ {t} : session'[u] = session[u] /\ reply'[u] = reply[u],
           session'[t] # "busy", reply'[t] # "none" => session'[t] = "idle"
    PROVE  TaskInv'
  <1>0. t \in Tasks
    BY DEF Holders
  <1>1. PICK outcome \in {"done", "error"} : Settle(t, outcome)
    BY DEF Settles, SettleError, SettleWith
  <1>2. result' \in [Tasks -> [interrupted : BOOLEAN, timedOut : BOOLEAN]]
    BY <1>0, ResultType DEF TaskInv, TypeOK, Settles, SettleError, SettleWith
  <1>3. SlotInv' /\ TypeOK'
    BY <1>1, <1>2, SettleSlots DEF TaskInv, TypeOK
  <1>4. OthersUnchanged(t)
    <2>1. \A u \in Tasks \ {t} : pc'[u] = pc[u] /\ status'[u] = status[u]
      BY <1>0, <1>1 DEF TaskInv, TypeOK, Settle
    <2>2. \A u \in Tasks \ {t} : result'[u] = result[u]
      BY <1>0 DEF TaskInv, TypeOK, Settles, SettleError, SettleWith
    <2> QED
      BY <2>1, <2>2 DEF OthersUnchanged
  <1>5. pc'[t] = "over"
    BY <1>0, <1>1 DEF TaskInv, TypeOK, Settle
  <1>6. CASE SettleError(t)
    <2>1. status'[t] = "error"
      BY <1>0, <1>6 DEF TaskInv, TypeOK, SettleError, Settle
    <2>2. Tells(t)'
      BY <1>5, <2>1 DEF Tells
    <2> QED
      BY <1>0, <1>3, <1>4, <2>2, OneTask
  <1>7. ASSUME NEW i \in BOOLEAN, SettleWith(t, i), i = FALSE => reply'[t] = "text"
        PROVE  TaskInv'
    <2>1. status'[t] = "done"
      BY <1>0, <1>7 DEF TaskInv, TypeOK, SettleWith, Settle
    <2>2. /\ result'[t].interrupted = i
          /\ result'[t].timedOut = (i /\ signal[t] = "timedOut")
      BY <1>0, <1>7, ResultType DEF TaskInv, TypeOK, SettleWith
    <2>3. Tells(t)'
      BY <1>5, <1>7, <2>1, <2>2 DEF Tells
    <2> QED
      BY <1>0, <1>3, <1>4, <2>3, OneTask
  <1> QED
    BY <1>6, <1>7 DEF Settles

-----------------------------------------------------------------------------
\* The factory, the session and its prompt.

LEMMA FactoryStep ==
    ASSUME TaskInv, NEW t \in Tasks, Factory(t)
    PROVE  TaskInv'
  <1>1. t \in Holders
    BY DEF Factory, FactoryReturns, FactoryFails, Holders
  <1>2. CASE SettleError(t)
    <2>1. session[t] = "none" /\ reply[t] = "none"
      BY DEF Factory, FactoryReturns, FactoryFails, TaskInv, SessionInv
    <2>2. UNCHANGED <<signal, limitVars, produced, session, reply>>
      BY <1>2 DEF Factory, FactoryReturns, FactoryFails, TaskInv, TypeOK,
                  SettleError, Settle, Points
    <2> QED
      BY <1>1, <1>2, <2>1, <2>2, SettlesTask DEF Settles, TaskInv, TypeOK
  <1>3. CASE ~SettleError(t)
    <2>1. /\ pc[t] = "factory"
          /\ pc' = [pc EXCEPT ![t] = "prompting"]
          /\ session' = [session EXCEPT ![t] = "busy"]
          /\ UNCHANGED <<status, signal, result, slotVars, limitVars, produced, reply>>
      BY <1>3 DEF Factory, FactoryReturns, FactoryFails
    <2>2. TypeOK' /\ OthersUnchanged(t) /\ Tells(t)'
      BY <2>1, TaskByTask DEF TypeOK, OthersUnchanged, Tells, Points
    <2>3. Holders' = Holders
      BY <2>1 DEF TaskInv, TypeOK, Holders
    <2>4. SlotInv'
      BY <2>1, <2>3 DEF TaskInv, TypeOK, SlotInv, SlotsAccountedFor
    <2> QED
      BY <2>2, <2>4, OneTask
  <1> QED
    BY <1>2, <1>3

LEMMA SessionStep ==
    ASSUME TaskInv, NEW t \in Tasks, Session(t)
    PROVE  TaskInv'
  <1>1. CASE SessionProduces(t)
    BY <1>1 DEF TaskInv, TypeOK, SlotInv, SlotsAccountedFor, SessionInv, Holders,
                ResultIsHonest, StatusTellsPhase, SessionProduces
  <1>2. ASSUME NEW r \in Endings(t), PromptEnds(t, r)
        PROVE  TaskInv'
    <2>0. r \in Replies \ {"none"}
      BY DEF Endings
    <2>1. /\ session' \in [Tasks -> {"none", "busy", "stopping", "idle"}]
          /\ reply' \in [Tasks -> Replies]
          /\ \A u \in Tasks \ {t} : session'[u] = session[u] /\ reply'[u] = reply[u]
          /\ session'[t] = "idle" /\ reply'[t] = r
          /\ UNCHANGED <<signal, limitVars, produced>>
      BY <1>2, <2>0 DEF TaskInv, TypeOK, PromptEnds
    <2>2. CASE pc[t] = "prompting" \/ pc[t] = "settling"
      <3>1. t \in Holders
        BY <2>2 DEF Holders
      <3>2. Settles(t)
        BY <1>2, <2>0, <2>1, <2>2 DEF PromptEnds, SettleAborted, Settles, Replies
      <3> QED
        BY <2>1, <3>1, <3>2, SettlesTask
    <2>3. CASE pc[t] = "over" /\ UNCHANGED <<pc, status, result, slotVars>>
      <3>1. TypeOK' /\ OthersUnchanged(t)
        BY <2>1, <2>3 DEF TaskInv, TypeOK, OthersUnchanged
      <3>2. session[t] # "idle"
        BY <1>2 DEF PromptEnds
      <3>3. reply[t] = "none"
        BY <3>2 DEF TaskInv, SessionInv
      <3>4. Tells(t)'
        BY <2>1, <2>3, <3>3, TaskByTask DEF Tells
      <3>5. SlotInv'
        BY <2>3 DEF TaskInv, SlotInv, SlotsAccountedFor, Holders
      <3> QED
        BY <3>1, <3>4, <3>5, OneTask
    <2> QED
      BY <1>2, <2>2, <2>3 DEF PromptEnds
  <1> QED
    BY <1>1, <1>2 DEF Session

LEMMA SettleTimesOut ==
    ASSUME TaskInv, NEW t \in Tasks, SettleTimeout(t)
    PROVE  TaskInv'
  <1>1. t \in Holders
    BY DEF SettleTimeout, Holders
  <1>2. Settles(t)
    BY DEF SettleTimeout, SettleAborted, Settles
  <1>3. session[t] = "stopping" /\ reply[t] = "none"
    BY DEF SettleTimeout, TaskInv, SessionInv
  <1> QED
    BY <1>1, <1>2, <1>3, SettlesTask DEF SettleTimeout, TaskInv, TypeOK

-----------------------------------------------------------------------------
\* Aborts and the other calls of clients.

LEMMA AbortKeeps ==
    ASSUME TaskInv, NEW t \in Tasks, pc[t] \notin {"none", "over"},
           NEW reason \in {"cancelled", "timedOut"}, AbortTask(t, reason),
           timers' \subseteq timers
    PROVE  TaskInv'
  <1>1. TypeOK'
    BY DEF TaskInv, TypeOK, AbortTask, Points, Signals
  <1>2. OthersUnchanged(t)
    BY DEF TaskInv, TypeOK, AbortTask, OthersUnchanged
  <1>3. Holders' = Holders
    BY DEF TaskInv, TypeOK, AbortTask, Holders
  <1>4. controllers' = {u \in Tasks : pc'[u] \notin {"none", "over"}}
    BY DEF TaskInv, TypeOK, AbortTask, SlotInv, SlotsAccountedFor
  <1>5. SlotInv'
    BY <1>3, <1>4 DEF TaskInv, AbortTask, SlotInv, SlotsAccountedFor
  <1>6. Tells(t)'
    BY TaskByTask DEF TypeOK, AbortTask, Tells
  <1> QED
    BY <1>1, <1>2, <1>5, <1>6, OneTask

LEMMA AbortSteps ==
    ASSUME TaskInv, NEW t \in Tasks,
           CancelTask(t) \/ ParentAborts(t) \/ TaskTimeout(t)
    PROVE  TaskInv'
  <1>1. pc[t] \notin {"none", "over"}
    BY DEF CancelTask, ParentAborts, TaskTimeout, TaskInv, SlotInv, SlotsAccountedFor,
           Holders
  <1> QED
    BY <1>1, AbortKeeps DEF CancelTask, ParentAborts, TaskTimeout

LEMMA Backgrounded ==
    ASSUME TaskInv, NEW t \in Tasks, BackgroundTask(t)
    PROVE  TaskInv'
  <1>1. TypeOK' /\ OthersUnchanged(t) /\ Tells(t)'
    BY TaskByTask DEF TypeOK, BackgroundTask, OthersUnchanged, Tells, Statuses
  <1>2. SlotInv'
    BY DEF TaskInv, BackgroundTask, SlotInv, SlotsAccountedFor, Holders
  <1> QED
    BY <1>1, <1>2, OneTask

LEMMA LimitSet ==
    ASSUME TaskInv, NEW n \in RequestedLimits, SetConcurrencyLimit(n)
    PROVE  TaskInv'
  <1>1. Clamped(n) \in MinLimit..MaxLimit
    BY SubagentsAssumption DEF Clamped
  <1>2. TypeOK'
    BY <1>1, SubagentsAssumption DEF TaskInv, TypeOK, SetConcurrencyLimit
  <1> QED
    BY <1>2 DEF TaskInv, SlotInv, SlotsAccountedFor, SessionInv, Holders,
                ResultIsHonest, StatusTellsPhase, SetConcurrencyLimit

\* Every step keeps the invariant.
LEMMA TaskNext == TaskInv /\ [Next]_vars => TaskInv'
  <1> SUFFICES ASSUME TaskInv, [Next]_vars
               PROVE  TaskInv'
    OBVIOUS
  <1>1. ASSUME NEW t \in Tasks, Run(t)
        PROVE  TaskInv'
    BY <1>1, StartsAtOnce, StartsQueued DEF Run
  <1>2. ASSUME NEW t \in Tasks, CancelTask(t) \/ ParentAborts(t) \/ BackgroundTask(t)
        PROVE  TaskInv'
    BY <1>2, AbortSteps, Backgrounded
  <1>3. ASSUME NEW t \in Tasks, Poll(t) \/ Factory(t) \/ Session(t)
        PROVE  TaskInv'
    BY <1>3, PollsSlot, FactoryStep, SessionStep
  <1>4. ASSUME NEW t \in Tasks, TaskTimeout(t) \/ SettleTimeout(t)
        PROVE  TaskInv'
    BY <1>4, AbortSteps, SettleTimesOut
  <1>5. ASSUME NEW n \in RequestedLimits, SetConcurrencyLimit(n)
        PROVE  TaskInv'
    BY <1>5, LimitSet
  <1>6. CASE UNCHANGED vars
    BY <1>6 DEF vars, TaskInv, TypeOK, SlotInv, SlotsAccountedFor, SessionInv, Holders,
                ResultIsHonest, StatusTellsPhase
  <1> QED
    BY <1>1, <1>2, <1>3, <1>4, <1>5, <1>6 DEF Next, Client

\* The types, the slots, the sessions and the statuses, always.
THEOREM TaskInvariant == Spec => []TaskInv
  BY InitTask, TaskNext, PTL DEF Spec

\* However its tasks end, in whatever order, the manager gives back every slot,
\* timer and controller once (manager.ts:277).
THEOREM SlotsGivenBack == Spec => []SlotsAccountedFor
  <1>1. TaskInv => SlotsAccountedFor
    BY DEF TaskInv, SlotInv
  <1> QED
    BY <1>1, TaskInvariant, PTL

\* Status and result of a task tell what became of its session, and no session
\* is left to run by itself (manager.ts:483).
THEOREM OutcomesHonest == Spec => []TaskOutcomes
  <1>1. TaskInv => TaskOutcomes
    BY DEF TaskInv, TaskOutcomes, SessionInv, NoSessionLeftRunning
  <1> QED
    BY <1>1, TaskInvariant, PTL

-----------------------------------------------------------------------------
\* The simulation.  Under the mapping a queued task whose signal has fired has
\* withdrawn, whether its poll has looked at the signal or not.

Withdrawn == {t \in Tasks : pc[t] = "waiting" /\ signal[t] # "live"}

\* A step that changes neither holders, nor the withdrawn, nor the limit.
PoolUnchanged == UNCHANGED <<Holders, Withdrawn, limit>>

\* The steps of the pool, in terms of the tasks.
PoolStep ==
    \/ \E t \in Tasks :
        \/ /\ t \notin Holders \union Withdrawn
           /\ Cardinality(Holders) < limit
           /\ Holders' = Holders \union {t}
           /\ UNCHANGED <<Withdrawn, limit>>
        \/ /\ t \in Holders
           /\ Holders' = Holders \ {t}
           /\ UNCHANGED <<Withdrawn, limit>>
        \/ /\ t \notin Holders
           /\ Withdrawn' = Withdrawn \union {t}
           /\ UNCHANGED <<Holders, limit>>
        \/ /\ t \in Withdrawn
           /\ Withdrawn' = Withdrawn \ {t}
           /\ UNCHANGED <<Holders, limit>>
    \/ /\ limit' \in MinLimit..MaxLimit
       /\ UNCHANGED <<Holders, Withdrawn>>

\* An admission takes a slot below the limit of that moment.
LEMMA AdmitAcquires ==
    ASSUME TaskInv, NEW t \in Tasks, pc[t] \in {"none", "waiting"},
           signal[t] = "live", FreeSlot, Admit(t), UNCHANGED <<signal, limit>>
    PROVE  PoolStep
  <1>1. Holders' = Holders \union {t} /\ t \notin Holders \union Withdrawn
    BY AdmitHolders DEF TaskInv, Holders, Withdrawn
  <1>2. Withdrawn' = Withdrawn
    BY DEF TaskInv, TypeOK, Admit, Withdrawn
  <1>3. Cardinality(Holders) < limit
    BY DEF FreeSlot, TaskInv, SlotInv, SlotsAccountedFor
  <1> QED
    BY <1>1, <1>2, <1>3 DEF PoolStep

\* The end of a task releases its slot.
LEMMA SettleReleases ==
    ASSUME TaskInv, NEW t \in Holders, pc' = [pc EXCEPT ![t] = "over"],
           UNCHANGED <<signal, limit>>
    PROVE  PoolStep
  <1>0. t \in Tasks
    BY DEF Holders
  <1>1. Holders' = Holders \ {t}
    BY <1>0, SettleHolders DEF TaskInv
  <1>2. Withdrawn' = Withdrawn
    BY <1>0 DEF TaskInv, TypeOK, Withdrawn, Holders
  <1> QED
    BY <1>0, <1>1, <1>2 DEF PoolStep

\* A queued task that fails leaves the pool.
LEMMA FailLeaves ==
    ASSUME TaskInv, NEW t \in Tasks, pc[t] = "waiting", signal[t] # "live",
           FailQueued(t), UNCHANGED <<signal, limit>>
    PROVE  PoolStep
  <1>1. Holders' = Holders
    BY DEF TaskInv, TypeOK, FailQueued, Holders
  <1>2. t \in Withdrawn /\ Withdrawn' = Withdrawn \ {t}
    BY DEF TaskInv, TypeOK, FailQueued, Withdrawn
  <1> QED
    BY <1>1, <1>2 DEF PoolStep

\* An abort withdraws a queued task, and changes nothing of the pool otherwise.
LEMMA AbortWithdraws ==
    ASSUME TaskInv, NEW t \in Tasks, NEW reason \in {"cancelled", "timedOut"},
           AbortTask(t, reason)
    PROVE  PoolStep \/ PoolUnchanged
  <1>1. Holders' = Holders /\ UNCHANGED limit
    BY DEF TaskInv, TypeOK, AbortTask, Holders
  <1>2. CASE pc[t] = "waiting"
    <2>1. t \notin Holders /\ Withdrawn' = Withdrawn \union {t}
      BY <1>2 DEF TaskInv, TypeOK, AbortTask, Withdrawn, Holders
    <2> QED
      BY <1>1, <2>1 DEF PoolStep
  <1>3. CASE pc[t] # "waiting"
    <2>1. Withdrawn' = Withdrawn
      BY <1>3 DEF TaskInv, TypeOK, AbortTask, Withdrawn
    <2> QED
      BY <1>1, <2>1 DEF PoolUnchanged
  <1> QED
    BY <1>2, <1>3

\* The start of a task takes a slot or changes nothing of the pool.
LEMMA RunSimulates ==
    ASSUME TaskInv, NEW t \in Tasks, Run(t)
    PROVE  PoolStep \/ PoolUnchanged
  <1>1. pc[t] = "none" /\ signal[t] = "live" /\ signal \in [Tasks -> Signals]
    BY DEF Run, RunQueued, RunAtOnce, TaskInv, SessionInv, TypeOK
  <1>2. CASE RunQueued(t)
    BY <1>1, <1>2 DEF RunQueued, TaskInv, TypeOK, PoolUnchanged, Holders, Withdrawn
  <1>3. CASE RunAtOnce(t, TRUE)
    BY <1>1, <1>3 DEF RunAtOnce, FailQueued, TaskInv, TypeOK, PoolUnchanged, Holders,
                      Withdrawn
  <1>4. CASE RunAtOnce(t, FALSE)
    <2>1. signal' = signal /\ UNCHANGED limit /\ FreeSlot /\ Admit(t)
      BY <1>1, <1>4 DEF RunAtOnce
    <2> QED
      BY <1>1, <2>1, AdmitAcquires
  <1> QED
    BY <1>2, <1>3, <1>4 DEF Run

\* A poll takes a slot, or leaves when the task was aborted.
LEMMA PollSimulates ==
    ASSUME TaskInv, NEW t \in Tasks, Poll(t)
    PROVE  PoolStep
  BY AdmitAcquires, FailLeaves DEF Poll

\* The steps of a task that has a slot keep it or release it.
LEMMA HolderSimulates ==
    ASSUME TaskInv, NEW t \in Tasks,
           Factory(t) \/ Session(t) \/ SettleTimeout(t)
    PROVE  PoolStep \/ PoolUnchanged
  <1>1. UNCHANGED <<signal, limit>>
    BY DEF Factory, FactoryReturns, FactoryFails, Session, SessionProduces, PromptEnds,
           SettleTimeout
  <1>2. \/ t \in Holders /\ pc' = [pc EXCEPT ![t] = "over"]
        \/ pc' = pc
        \/ pc[t] = "factory" /\ pc' = [pc EXCEPT ![t] = "prompting"]
    BY DEF Factory, FactoryReturns, FactoryFails, Session, SessionProduces, PromptEnds,
           SettleTimeout, SettleAborted, SettleWith, SettleError, Settle, Holders
  <1>3. CASE pc' = pc
    BY <1>1, <1>3 DEF PoolUnchanged, Holders, Withdrawn
  <1>4. CASE pc[t] = "factory" /\ pc' = [pc EXCEPT ![t] = "prompting"]
    BY <1>1, <1>4 DEF TaskInv, TypeOK, PoolUnchanged, Holders, Withdrawn
  <1> QED
    BY <1>1, <1>2, <1>3, <1>4, SettleReleases

\* Every step of the manager is a step of the pool, or changes nothing of it.
LEMMA StepSimulates ==
    ASSUME TaskInv, [Next]_vars
    PROVE  PoolStep \/ PoolUnchanged
  <1>1. ASSUME NEW t \in Tasks, CancelTask(t) \/ ParentAborts(t) \/ TaskTimeout(t)
        PROVE  PoolStep \/ PoolUnchanged
    BY <1>1, AbortWithdraws DEF CancelTask, ParentAborts, TaskTimeout
  <1>2. ASSUME NEW t \in Tasks, BackgroundTask(t)
        PROVE  PoolUnchanged
    BY <1>2 DEF BackgroundTask, PoolUnchanged, Holders, Withdrawn
  <1>3. ASSUME NEW n \in RequestedLimits, SetConcurrencyLimit(n)
        PROVE  PoolStep
    <2>1. limit' \in MinLimit..MaxLimit
      BY <1>3, SubagentsAssumption DEF SetConcurrencyLimit, Clamped
    <2> QED
      BY <1>3, <2>1 DEF SetConcurrencyLimit, PoolStep, Holders, Withdrawn
  <1>4. CASE UNCHANGED vars
    BY <1>4 DEF vars, PoolUnchanged, Holders, Withdrawn
  <1> QED
    BY <1>1, <1>2, <1>3, <1>4, RunSimulates, PollSimulates, HolderSimulates
       DEF Next, Client

\* The manager implements the pool of slots, for any tasks and limits: no task
\* is admitted beyond the limit of that moment, and none that was aborted while
\* it waited (manager.ts:233).
THEOREM PoolImplemented == Spec => ImplementsSlots
  <1>1. Init => Slots!Init
    BY SubagentsAssumption DEF Init, Slots!Init, Holders
  <1>2. ASSUME PoolStep
        PROVE  Slots!Next
    <2>1. ASSUME NEW t \in Tasks,
                 t \notin Holders \union Withdrawn, Cardinality(Holders) < limit,
                 Holders' = Holders \union {t}, UNCHANGED <<Withdrawn, limit>>
          PROVE  Slots!Acquire(t)
      <3>1. Slots!Cardinality(Holders) = Cardinality(Holders)
        BY DEF Cardinality, Slots!Cardinality
      <3> QED
        BY <2>1, <3>1 DEF Withdrawn, Slots!Acquire
    <2>2. ASSUME NEW t \in Tasks, t \in Holders, Holders' = Holders \ {t},
                 UNCHANGED <<Withdrawn, limit>>
          PROVE  Slots!Release(t)
      BY <2>2 DEF Withdrawn, Slots!Release
    <2>3. ASSUME NEW t \in Tasks, t \notin Holders, Withdrawn' = Withdrawn \union {t},
                 UNCHANGED <<Holders, limit>>
          PROVE  Slots!Withdraw(t)
      BY <2>3 DEF Withdrawn, Slots!Withdraw
    <2>4. ASSUME NEW t \in Tasks, t \in Withdrawn, Withdrawn' = Withdrawn \ {t},
                 UNCHANGED <<Holders, limit>>
          PROVE  Slots!Leave(t)
      BY <2>4 DEF Withdrawn, Slots!Leave
    <2>5. ASSUME limit' \in MinLimit..MaxLimit, UNCHANGED <<Holders, Withdrawn>>
          PROVE  Slots!SetLimit
      BY <2>5 DEF Withdrawn, Slots!SetLimit
    <2> QED
      BY <1>2, <2>1, <2>2, <2>3, <2>4, <2>5 DEF PoolStep, Slots!Next
  <1>3. TaskInv /\ [Next]_vars => [Slots!Next]_(Slots!vars)
    <2>1. PoolUnchanged => UNCHANGED Slots!vars
      BY DEF PoolUnchanged, Withdrawn, Slots!vars
    <2> QED
      BY <1>2, <2>1, StepSimulates
  <1> QED
    BY <1>1, <1>3, TaskInvariant, PTL DEF Spec, ImplementsSlots, Slots!Spec
=============================================================================
