------------------------------ MODULE RpcMode -------------------------------
(***************************************************************************)
(* A client of RPC mode (packages/coding-agent/src/modes/rpc/              *)
(* rpc-client.ts), the two pipes, and the process that serves it           *)
(* (rpc-mode.ts over agent-session-runtime.ts), which holds several        *)
(* sessions, one per tab.                                                  *)
(*                                                                         *)
(* The process reads a line at a time and does not wait for one command    *)
(* before it reads the next (handleInputLine is not awaited): a command    *)
(* runs to its first await, where `work` says what it waits for:           *)
(*                                                                         *)
(*   "creating"   create_session, "forking" fork and clone: a new session  *)
(*   "closing"    close_session: the session_shutdown handlers             *)
(*   "leaving"    new_session and switch_session: the handlers of the      *)
(*                session that is left, "replacing": the new runtime       *)
(*   "preflight"  prompt: everything before its run is accepted            *)
(*   "aborting"   abort: the end of the run                                *)
(*                                                                         *)
(* An accepted prompt is a run, and a preflight may have a run of its own  *)
(* (after a compaction).  AgentSession.tla has what happens inside a run.  *)
(* A run may ask the client for a permission, which its signal ends; the   *)
(* handlers of extensions, in runs and in commands, may open dialogs that  *)
(* only the client ends.  Dialogs with a timeout, or with the signal of    *)
(* the run, need no client: the first are part of an await, the second are *)
(* as permissions.  Sessions are numbered as they are made.  The commands  *)
(* that only read or set a value of their session (get_state, set_model,   *)
(* ...) are left out.                                                      *)
(***************************************************************************)
EXTENDS Naturals, Sequences, FiniteSets, SequencesExt

CONSTANTS
    MaxRequests,            \* bound: commands sent
    MaxEvents               \* bound: commands and dialogs together, a dialog per command

ASSUME RpcAssumption == MaxRequests \in Nat /\ MaxEvents \in Nat

Requests == 1..MaxRequests
None == 0
Tabs == 1..(MaxRequests + 1)        \* a command opens at most one
Objects == 1..(MaxRequests + 1)     \* AgentSessions

VARIABLES
    \* the client
    started,                \* `process` is set
    requestId,
    pendingRequests,
    promise,                \* what send() returned, for each request
    \* the pipes
    inbox,                  \* commands and dialog answers
    outbox,                 \* the responses; their order makes no difference
    \* the process
    up,
    tabs,                   \* the keys of `sessions`, in insertion order
    sessions,
    sessionSubscriptions,
    activeSessionId,
    sessionCounter,         \* tabs ever opened
    made,                   \* AgentSessions ever made
    hostSession,            \* runtimeHost.session
    disposed,
    work,                   \* the handler of each command
    runs,                   \* the run of each prompt
    dialogs,                \* the dialog of each command and its run, as the
                            \* client has it (bound: one)
    pendingExtensionRequests,   \* the same, as the process has it
    aborted,                \* runs whose signal has fired
    \* history
    answers,                \* responses written, for each request
    disturbed               \* see TabsAgree

clientVars == <<started, requestId, pendingRequests, promise>>
outside == <<clientVars, up>>
tabVars == <<tabs, sessions, sessionSubscriptions, activeSessionId>>
makeVars == <<sessionCounter, made>>
dialogVars == <<dialogs, pendingExtensionRequests>>
runVars == <<runs, dialogVars, aborted>>
vars == <<clientVars, inbox, outbox, up, tabVars, makeVars,
          hostSession, disposed, work, runVars, answers, disturbed>>

-----------------------------------------------------------------------------
\* Commands.  A command without a session id is for the active tab.

Structural == {"create_session", "close_session", "switch_active_session",
               "fork", "new_session"}
Kinds == Structural \union {"prompt", "abort"}

Command == [kind : Kinds, id : Requests, tab : Tabs \union {None}]
DialogAnswer(r) == [kind |-> "extension_ui_response", id |-> r, tab |-> None]

Awaits == {"none", "creating", "closing", "leaving", "replacing", "forking",
           "preflight", "aborting"}
NoWork == [at |-> "none", tab |-> None, object |-> None, wasActive |-> FALSE,
           run |-> None, stage |-> "none"]
NoRun == [at |-> "none", object |-> None]

\* A run is "early" within its preflight, "running" after it.
Stages == {"early", "running"}
Underway == {r \in Requests : runs[r].at \in Stages}
RunOf(o) == {r \in Underway : runs[r].object = o}
Waits(r) == pendingExtensionRequests[r] # "none"

InBound == requestId + Cardinality({r \in Requests : dialogs[r] # "none"}) < MaxEvents

-----------------------------------------------------------------------------
\* The client.

\* send: the timer of 30 s starts with the request.  A line for a process that
\* is gone is lost.
Send(kind, tab) ==
    /\ started
    /\ InBound /\ requestId < MaxRequests
    /\ requestId' = requestId + 1
    /\ pendingRequests' = pendingRequests \union {requestId'}
    /\ promise' = [promise EXCEPT ![requestId'] = "waiting"]
    /\ inbox' = IF up THEN Append(inbox, [kind |-> kind, id |-> requestId',
                                          tab |-> tab])
                      ELSE inbox
    /\ UNCHANGED <<started, outbox, up, tabVars, makeVars, hostSession,
                   disposed, work, runVars, answers, disturbed>>

\* A client that answers a dialog, perhaps one that is over.
AnswerDialog(r) ==
    /\ started /\ up
    /\ dialogs[r] = "shown"
    /\ dialogs' = [dialogs EXCEPT ![r] = "answered"]
    /\ inbox' = Append(inbox, DialogAnswer(r))
    /\ UNCHANGED <<clientVars, outbox, up, tabVars, makeVars,
                   hostSession, disposed, work, runs, pendingExtensionRequests,
                   aborted, answers, disturbed>>

\* handleLine: a response nobody waits for goes to the event listeners.
Receive ==
    /\ \E r \in outbox :
        /\ outbox' = outbox \ {r}
        /\ IF r \in pendingRequests
           THEN /\ pendingRequests' = pendingRequests \ {r}
                /\ promise' = [promise EXCEPT ![r] = "answered"]
           ELSE UNCHANGED <<pendingRequests, promise>>
    /\ UNCHANGED <<started, requestId, inbox, up, tabVars, makeVars,
                   hostSession, disposed, work, runVars, answers, disturbed>>

Timeout(r) ==
    /\ promise[r] = "waiting"
    /\ pendingRequests' = pendingRequests \ {r}
    /\ promise' = [promise EXCEPT ![r] = "timedOut"]
    /\ UNCHANGED <<started, requestId, inbox, outbox, up, tabVars,
                   makeVars, hostSession, disposed, work, runVars, answers,
                   disturbed>>

\* stop: nothing is read any more, the requests are forgotten, their timers are
\* not.  SIGTERM follows.
Stop ==
    /\ started
    /\ started' = FALSE
    /\ pendingRequests' = {}
    /\ outbox' = {}
    /\ UNCHANGED <<requestId, promise, inbox, up, tabVars,
                   makeVars, hostSession, disposed, work, runVars, answers,
                   disturbed>>

-----------------------------------------------------------------------------
\* Helpers of the process.

\* A response, with success or an error.
Answer(r) ==
    /\ outbox' = IF started THEN outbox \union {r} ELSE outbox
    /\ answers' = [answers EXCEPT ![r] = @ + 1]

Await(r, w) ==
    /\ work' = [work EXCEPT ![r] = w]
    /\ UNCHANGED <<outbox, answers>>

Done(r) ==
    /\ work' = [work EXCEPT ![r] = NoWork]
    /\ Answer(r)

\* The head of stdin, when it is a command of these kinds, is read.
Heads == IF inbox = <<>> THEN {} ELSE {Head(inbox)}

Read(c, kinds) ==
    /\ up
    /\ c.kind \in kinds
    /\ inbox' = Tail(inbox)

Target(c) == IF c.tab = None THEN activeSessionId ELSE c.tab
Found(c) == Target(c) # None /\ sessions[Target(c)] # None

\* Another command that changes tabs is under way.
Changing == \E r \in Requests :
    work[r].at \in {"creating", "closing", "leaving", "replacing", "forking"}

\* registerSession for a session that a tab shows from now on.
Show(tab, object) ==
    /\ tabs' = IF sessions[tab] = None THEN Append(tabs, tab) ELSE tabs
    /\ sessions' = [sessions EXCEPT ![tab] = object]
    /\ sessionSubscriptions' = [sessionSubscriptions EXCEPT ![tab] = object]
    /\ activeSessionId' = tab

\* sessions.delete: the other keys keep their order.
Without(keys, key) ==
    IF key \in Range(keys)
    THEN RemoveAt(keys, CHOOSE i \in DOMAIN keys : keys[i] = key) ELSE keys

Unsubscribe(tab) ==
    sessionSubscriptions' = [sessionSubscriptions EXCEPT ![tab] = None]

-----------------------------------------------------------------------------
\* handleCommand.

\* No active session, or no session with this id.
NotFound(c) ==
    /\ Read(c, Kinds \ {"create_session"})
    /\ ~Found(c)
    /\ Answer(c.id)
    /\ UNCHANGED <<outside, tabVars, makeVars, hostSession, disposed, work, runVars,
                   disturbed>>

CreateSession(c) ==
    /\ Read(c, {"create_session"})
    /\ sessionCounter' = sessionCounter + 1
    /\ Await(c.id, [NoWork EXCEPT !.at = "creating", !.tab = sessionCounter'])
    /\ disturbed' = (disturbed \/ Changing)
    /\ UNCHANGED <<outside, tabVars, made, hostSession, disposed, runVars>>

\* createAgentSession returned, or threw.
Created(r) ==
    /\ up /\ work[r].at = "creating"
    /\ \/ /\ made' = made + 1
          /\ Show(work[r].tab, made')
          /\ Done(r)
       \/ /\ Done(r)
          /\ UNCHANGED <<made, tabVars>>
    /\ UNCHANGED <<outside, inbox, sessionCounter, hostSession, disposed, runVars,
                   disturbed>>

CloseLast(c) ==
    /\ Read(c, {"close_session"}) /\ Found(c)
    /\ Len(tabs) <= 1
    /\ Answer(c.id)
    /\ UNCHANGED <<outside, tabVars, makeVars, hostSession, disposed, work, runVars,
                   disturbed>>

CloseSession(c) ==
    /\ Read(c, {"close_session"}) /\ Found(c)
    /\ Len(tabs) > 1
    /\ Unsubscribe(Target(c))
    /\ Await(c.id, [NoWork EXCEPT !.at = "closing", !.tab = Target(c),
                                  !.object = sessions[Target(c)],
                                  !.wasActive = (activeSessionId = Target(c))])
    /\ disturbed' = (disturbed \/ Changing)
    /\ UNCHANGED <<outside, tabs, sessions, activeSessionId, makeVars, hostSession,
                   disposed, runVars>>

\* Mutant of Closed: the active tab stays the one that was closed.
ClosedStillActive(r) ==
    LET w == work[r]
    IN /\ up /\ w.at = "closing" /\ ~Waits(r)
       /\ disposed' = disposed \union {w.object}
       /\ tabs' = Without(tabs, w.tab)
       /\ sessions' = [sessions EXCEPT ![w.tab] = None]
       /\ Done(r)
       /\ UNCHANGED <<outside, inbox, sessionSubscriptions, activeSessionId, makeVars,
                      hostSession, runVars, disturbed>>

\* The session_shutdown handlers are through.  The first tab left becomes the
\* active one if this one was active before the await.
Closed(r) ==
    LET w == work[r]
    IN /\ up /\ w.at = "closing" /\ ~Waits(r)
       /\ disposed' = disposed \union {w.object}
       /\ tabs' = Without(tabs, w.tab)
       /\ sessions' = [sessions EXCEPT ![w.tab] = None]
       /\ activeSessionId' = IF ~w.wasActive THEN activeSessionId
                             ELSE IF tabs' = <<>> THEN None ELSE Head(tabs')
       /\ Done(r)
       /\ UNCHANGED <<outside, inbox, sessionSubscriptions, makeVars, hostSession,
                      runVars, disturbed>>

SwitchActiveSession(c) ==
    /\ Read(c, {"switch_active_session"}) /\ Found(c)
    /\ activeSessionId' = Target(c)
    /\ Answer(c.id)
    /\ disturbed' = (disturbed \/ Changing)
    /\ UNCHANGED <<outside, tabs, sessions, sessionSubscriptions, makeVars,
                   hostSession, disposed, work, runVars>>

\* fork and clone: the session of the tab is disposed before its successor is
\* made.  Or there is no such entry, or no file.
Fork(c) ==
    /\ Read(c, {"fork"}) /\ Found(c)
    /\ \/ /\ Unsubscribe(Target(c))
          /\ disposed' = disposed \union {sessions[Target(c)]}
          /\ Await(c.id, [NoWork EXCEPT !.at = "forking", !.tab = Target(c)])
          /\ disturbed' = (disturbed \/ Changing)
       \/ /\ Answer(c.id)
          /\ UNCHANGED <<sessionSubscriptions, disposed, work, disturbed>>
    /\ UNCHANGED <<outside, tabs, sessions, activeSessionId, makeVars, hostSession,
                   runVars>>

Forked(r) ==
    /\ up /\ work[r].at = "forking"
    /\ made' = made + 1
    /\ Show(work[r].tab, made')
    /\ Done(r)
    /\ UNCHANGED <<outside, inbox, sessionCounter, hostSession, disposed, runVars,
                   disturbed>>

\* createAgentSession threw: the tab is left with the disposed session.
ForkFails(r) ==
    /\ up /\ work[r].at = "forking"
    /\ Done(r)
    /\ disturbed' = TRUE
    /\ UNCHANGED <<outside, inbox, tabVars, makeVars, hostSession, disposed,
                   runVars>>

-----------------------------------------------------------------------------
\* new_session and switch_session replace the session of the runtime, whatever
\* tab shows it and whatever tab the command was for.

NewSession(c) ==
    /\ Read(c, {"new_session"}) /\ Found(c)
    /\ Await(c.id, [NoWork EXCEPT !.at = "leaving"])
    /\ disturbed' = (disturbed \/ Changing)
    /\ UNCHANGED <<outside, tabVars, makeVars, hostSession, disposed, runVars>>

\* The handlers cancelled it, or the session file is not usable.
StaysInSession(r) ==
    /\ up /\ work[r].at = "leaving" /\ ~Waits(r)
    /\ Done(r)
    /\ UNCHANGED <<outside, inbox, tabVars, makeVars, hostSession, disposed, runVars,
                   disturbed>>

\* teardownCurrent
LeavesSession(r) ==
    /\ up /\ work[r].at = "leaving" /\ ~Waits(r)
    /\ disposed' = disposed \union {hostSession}
    /\ Await(r, [NoWork EXCEPT !.at = "replacing"])
    /\ UNCHANGED <<outside, inbox, tabVars, makeVars, hostSession, runVars,
                   disturbed>>

\* apply and rebindSession: the active tab shows the new session.
Replaced(r) ==
    LET tab == IF activeSessionId # None THEN activeSessionId ELSE sessionCounter'
    IN /\ up /\ work[r].at = "replacing"
       /\ made' = made + 1
       /\ hostSession' = made'
       /\ sessionCounter' = IF activeSessionId # None THEN sessionCounter
                                                     ELSE sessionCounter + 1
       /\ Show(tab, made')
       /\ Done(r)
       /\ disturbed' = (disturbed \/ sessions[tab] # hostSession)
       /\ UNCHANGED <<outside, inbox, disposed, runVars>>

ReplaceFails(r) ==
    /\ up /\ work[r].at = "replacing"
    /\ Done(r)
    /\ disturbed' = TRUE
    /\ UNCHANGED <<outside, inbox, tabVars, makeVars, hostSession, disposed,
                   runVars>>

-----------------------------------------------------------------------------
\* Prompts, their runs and their dialogs.

Prompt(c) ==
    /\ Read(c, {"prompt"}) /\ Found(c)
    /\ Await(c.id, [NoWork EXCEPT !.at = "preflight",
                                  !.object = sessions[Target(c)]])
    /\ UNCHANGED <<outside, tabVars, makeVars, hostSession, disposed, runVars,
                   disturbed>>

\* A preflight that compacted goes on with the context it found: a run before
\* the prompt is accepted.
PreflightRuns(r) ==
    /\ up /\ work[r].at = "preflight" /\ ~Waits(r)
    /\ runs[r].at = "none" /\ RunOf(work[r].object) = {}
    /\ runs' = [runs EXCEPT ![r] = [at |-> "early", object |-> work[r].object]]
    /\ UNCHANGED <<outside, inbox, outbox, tabVars, makeVars, hostSession, disposed,
                   work, dialogVars, aborted, answers, disturbed>>

\* preflightResult(true): a run starts, or the message was queued for the run
\* under way or handled without one.  Or prompt() threw before.  (When two
\* prompts start at once the second one fails after its answer, which nobody
\* hears of.)
PromptAnswered(r) ==
    /\ up /\ work[r].at = "preflight" /\ ~Waits(r)
    /\ runs[r].at # "early"
    /\ Done(r)
    /\ \/ /\ RunOf(work[r].object) = {}
          /\ runs' = [runs EXCEPT ![r] = [at |-> "running", object |-> work[r].object]]
       \/ UNCHANGED runs
    /\ UNCHANGED <<outside, inbox, tabVars, makeVars, hostSession, disposed, dialogVars,
                   aborted, disturbed>>

\* createDialogPromise: what asked waits for the client.
Opens(r, kind) ==
    /\ up /\ dialogs[r] = "none"
    /\ InBound
    /\ dialogs' = [dialogs EXCEPT ![r] = "shown"]
    /\ pendingExtensionRequests' = [pendingExtensionRequests EXCEPT ![r] = kind]
    /\ UNCHANGED <<outside, inbox, outbox, tabVars, makeVars, hostSession, disposed,
                   work, runs, aborted, answers, disturbed>>

\* permissionAsk, with the signal of the run.  A run that is aborted is refused
\* at once.
AskPermission(r) ==
    /\ r \in Underway \ aborted
    /\ Opens(r, "permission")

\* select, confirm, input, askUser or editor without options, by a handler of an
\* extension: of a tool call or an event of a run, aborted or not, of an input
\* or a command (preflight), before a session is left or as it shuts down.
AskUser(r) ==
    /\ r \in Underway \/ work[r].at \in {"preflight", "leaving", "closing"}
    /\ Opens(r, "dialog")

\* extension_ui_response: a dialog that is over has no entry any more.
DialogAnswered(c) ==
    /\ Read(c, {"extension_ui_response"})
    /\ pendingExtensionRequests' = [pendingExtensionRequests EXCEPT ![c.id] = "none"]
    /\ UNCHANGED <<outside, outbox, tabVars, makeVars, hostSession, disposed, dialogs,
                   work, runs, aborted, answers, disturbed>>

\* After the early run the preflight goes on.
Ended(r) == [NoRun EXCEPT !.at = IF runs[r].at = "early" THEN "resumed" ELSE "over"]

\* Mutant of RunEnds: a run that fails answers its prompt again.
RunEndsAnswered(r) ==
    /\ up /\ runs[r].at = "running" /\ ~Waits(r)
    /\ runs' = [runs EXCEPT ![r] = Ended(r)]
    /\ aborted' = aborted \ {r}
    /\ Answer(r)
    /\ UNCHANGED <<outside, inbox, tabVars, makeVars, hostSession, disposed, dialogVars,
                   work, disturbed>>

\* The prompt resolves or rejects: it was answered before.
RunEnds(r) ==
    /\ up /\ r \in Underway /\ ~Waits(r)
    /\ runs' = [runs EXCEPT ![r] = Ended(r)]
    /\ aborted' = aborted \ {r}
    /\ UNCHANGED <<outside, inbox, outbox, tabVars, makeVars, hostSession, disposed,
                   dialogVars, work, answers, disturbed>>

\* Mutant of Refused: the dialog does not hear of the abort.
RefusedLater(r) == pendingExtensionRequests

\* onAbort: the permission of a run that is aborted resolves with its default.
\* A dialog without a signal stays.
Refused(r) ==
    [pendingExtensionRequests EXCEPT ![r] = IF @ = "permission" THEN "none" ELSE @]

\* abort: the signal of the run fires, then its end is awaited.
Abort(c) ==
    /\ Read(c, {"abort"}) /\ Found(c)
    /\ \/ \E r \in RunOf(sessions[Target(c)]) :
            /\ aborted' = aborted \union {r}
            /\ pendingExtensionRequests' = Refused(r)
            /\ Await(c.id, [NoWork EXCEPT !.at = "aborting", !.run = r,
                                          !.stage = runs[r].at])
       \/ /\ RunOf(sessions[Target(c)]) = {}
          /\ Answer(c.id)
          /\ UNCHANGED <<aborted, pendingExtensionRequests, work>>
    /\ UNCHANGED <<outside, tabVars, makeVars, hostSession, disposed, runs, dialogs,
                   disturbed>>

Aborted(r) ==
    /\ up /\ work[r].at = "aborting"
    /\ runs[work[r].run].at # work[r].stage
    /\ Done(r)
    /\ UNCHANGED <<outside, inbox, tabVars, makeVars, hostSession, disposed, runVars,
                   disturbed>>

-----------------------------------------------------------------------------
\* The end of the process.

FirstTab(value) == [t \in Tabs |-> IF t = 1 THEN value ELSE None]

\* shutdown, for stdin that ended, a signal or an extension that asked for it,
\* and any crash: what was written and not yet flushed may be lost.  The memory
\* of the process is gone; nothing reads it any more, and it is set back here.
Exit ==
    /\ up
    /\ up' = FALSE
    /\ outbox' \in {outbox, {}}
    /\ inbox' = <<>>
    /\ tabs' = <<1>> /\ activeSessionId' = 1
    /\ sessions' = FirstTab(1) /\ sessionSubscriptions' = FirstTab(1)
    /\ sessionCounter' = 1 /\ made' = 1 /\ hostSession' = 1
    /\ disposed' = {} /\ aborted' = {} /\ disturbed' = FALSE
    /\ work' = [r \in Requests |-> NoWork]
    /\ runs' = [r \in Requests |-> NoRun]
    /\ dialogs' = [r \in Requests |-> "none"]
    /\ pendingExtensionRequests' = [r \in Requests |-> "none"]
    /\ UNCHANGED <<clientVars, answers>>

-----------------------------------------------------------------------------
Init ==
    /\ started = TRUE
    /\ requestId = 0
    /\ pendingRequests = {}
    /\ promise = [r \in Requests |-> "unsent"]
    /\ outbox = {}
    /\ up = TRUE
    /\ inbox = <<>>
    /\ tabs = <<1>>
    /\ sessions = FirstTab(1)
    /\ sessionSubscriptions = FirstTab(1)
    /\ activeSessionId = 1
    /\ sessionCounter = 1
    /\ made = 1
    /\ hostSession = 1
    /\ disposed = {}
    /\ work = [r \in Requests |-> NoWork]
    /\ runs = [r \in Requests |-> NoRun]
    /\ dialogs = [r \in Requests |-> "none"]
    /\ pendingExtensionRequests = [r \in Requests |-> "none"]
    /\ aborted = {}
    /\ answers = [r \in Requests |-> 0]
    /\ disturbed = FALSE

\* The commands that name their tab.  A prompt is for the active one, as from
\* RpcClient, and two are for no tab.
TabsFor(kind) ==
    IF kind \in {"close_session", "switch_active_session", "fork", "abort"}
    THEN 1..sessionCounter ELSE {None}

ClientStep ==
    \/ \E kind \in Kinds : \E tab \in TabsFor(kind) : Send(kind, tab)
    \/ \E r \in Requests : AnswerDialog(r) \/ Timeout(r)
    \/ Receive
    \/ Stop

ReadLine(c) ==
    \/ NotFound(c)
    \/ CreateSession(c)
    \/ CloseLast(c)
    \/ CloseSession(c)
    \/ SwitchActiveSession(c)
    \/ Fork(c)
    \/ NewSession(c)
    \/ Prompt(c)
    \/ DialogAnswered(c)
    \/ Abort(c)

\* An await of a command is over.
Resume(r) ==
    \/ Created(r)
    \/ Closed(r)
    \/ Forked(r)
    \/ ForkFails(r)
    \/ StaysInSession(r)
    \/ LeavesSession(r)
    \/ Replaced(r)
    \/ ReplaceFails(r)
    \/ PromptAnswered(r)
    \/ Aborted(r)

Next ==
    \/ ClientStep
    \/ \E c \in Heads : ReadLine(c)
    \/ \E r \in Requests : Resume(r) \/ PreflightRuns(r) \/ AskPermission(r) \/ AskUser(r)
                              \/ RunEnds(r)
    \/ Exit

Spec == Init /\ [][Next]_vars

\* Lines are read, what does not wait for the client ends, be it an await or a
\* run, and timers fire.  Nothing makes a client answer a dialog.
FairSpec ==
    /\ Spec
    /\ WF_vars(\E c \in Heads : ReadLine(c))
    /\ \A r \in Requests :
            WF_vars(Resume(r)) /\ WF_vars(RunEnds(r)) /\ WF_vars(Timeout(r))

-----------------------------------------------------------------------------
\* Properties.

Promises == {"unsent", "waiting", "answered", "timedOut"}
MaybeTab == Tabs \union {None}
MaybeObject == Objects \union {None}

\* Every variable has its type.
TypeOK ==
    /\ started \in BOOLEAN
    /\ requestId \in 0..MaxRequests
    /\ pendingRequests \subseteq Requests
    /\ promise \in [Requests -> Promises]
    /\ inbox \in Seq(Command \union {DialogAnswer(r) : r \in Requests})
    /\ outbox \subseteq Requests
    /\ up \in BOOLEAN
    /\ tabs \in Seq(Tabs)
    /\ sessions \in [Tabs -> MaybeObject]
    /\ sessionSubscriptions \in [Tabs -> MaybeObject]
    /\ activeSessionId \in MaybeTab
    /\ sessionCounter \in Tabs
    /\ made \in Objects
    /\ hostSession \in Objects
    /\ disposed \subseteq Objects
    /\ work \in [Requests -> [at : Awaits, tab : MaybeTab, object : MaybeObject,
                              wasActive : BOOLEAN, run : Requests \union {None},
                              stage : Stages \union {"none"}]]
    /\ runs \in [Requests -> [at : Stages \union {"none", "resumed", "over"},
                              object : MaybeObject]]
    /\ dialogs \in [Requests -> {"none", "shown", "answered"}]
    /\ pendingExtensionRequests \in [Requests -> {"none", "permission", "dialog"}]
    /\ aborted \subseteq Requests
    /\ answers \in [Requests -> Nat]
    /\ disturbed \in BOOLEAN

\* A command has one answer, also a prompt that is queued, handled without a
\* run, or fails after it was accepted (rpc-mode.ts:824); a promise resolves
\* with the answer of its own command, and never after it timed out.
AnsweredOnce ==
    /\ TypeOK
    /\ \A r \in Requests :
        /\ answers[r] <= 1
        /\ promise[r] = "answered" => answers[r] = 1
        /\ started => (r \in pendingRequests <=> promise[r] = "waiting")
    /\ up => \A r \in 1..requestId :
        LET unread == \E i \in DOMAIN inbox : inbox[i].id = r /\ inbox[i].kind \in Kinds
        IN answers[r] = IF unread \/ work[r].at # "none" THEN 0 ELSE 1

\* The tabs agree with the sessions between two commands that change them: the
\* active tab exists, every tab shows a session of its own that is alive and
\* whose events reach the client, and no live session is out of reach.  Not
\* when such commands overlapped (every one reads the map, awaits and writes
\* it), when a session could not be made after the old one was disposed, or
\* when the runtime replaced a session that the active tab did not show.
TabsAgree ==
    up /\ ~disturbed /\ ~Changing =>
        /\ activeSessionId \in Range(tabs)
        /\ \A t \in Tabs :
            /\ sessions[t] # None <=> t \in Range(tabs)
            /\ sessionSubscriptions[t] = sessions[t]
        /\ {sessions[t] : t \in Range(tabs)} = (1..made) \ disposed
        /\ Cardinality((1..made) \ disposed) = Len(tabs)

\* What only the client can end: a dialog of the command itself or of its early
\* run, and for an abort a dialog without a signal in the run it waits for.
HeldByClient(r) ==
    \/ work[r].at \notin {"none", "aborting"} /\ Waits(r)
    \/ work[r].at = "aborting" /\ pendingExtensionRequests[work[r].run] = "dialog"

\* Every request is settled some time, by an answer or by its timer, also when
\* the client was stopped or the process is gone; and a process that goes on
\* answers every command that no dialog of the client holds up, an abort also
\* when the run waits for a permission the client never gives.
RequestsSettle ==
    <>[](\A r \in 1..requestId : /\ promise[r] # "waiting"
                                 /\ up /\ ~HeldByClient(r) => answers[r] = 1)
=============================================================================
