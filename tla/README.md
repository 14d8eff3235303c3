# pi-mono: a verification project

This directory specifies the agent runtime of pi-mono and the core of its coding
agent in TLA+, model-checks them with TLC on small instances and proves their safety
properties, for instances of any size, with TLAPS. Paths
below are relative to `src/packages/` unless they start with `src/`.

- `PROJECT.json` lists the components, the runs, the theorems, the hazards of the
  code with the properties that cover them, and the source lines each definition
  stands for.
- `tlc -config AgentLoop_core.cfg AgentLoop.tla` runs one configuration. Every
  configuration is named after its module.
- `tlapm AgentLoopProofs.tla` checks the proofs of one module; the modules with proofs are
  `AgentLoopProofs`, `SubagentsProofs`, `AuthStorageProofs`, `SessionTreeProofs`, `RpcModeProofs`,
  `FileCheckpointProofs`, `AgentHarnessProofs` and `AgentSessionProofs`.

## 1. Inventory

pi-mono is a TypeScript monorepo: a library for model providers (`ai`), an agent
runtime (`agent`), a terminal agent built on it (`coding-agent`), a terminal user
interface library (`tui`) and web components (`web-ui`). Everything runs on one
JavaScript event loop: there are no data races, but every `await` is a point where
other callbacks run, and most of the hard behaviour of this code is there.

| Component | State | Operations | Modelled |
|---|---|---|---|
| Agent (`agent/src/agent.ts`) | transcript, streaming flags, executing tool calls, error, steering and follow-up queue, active run with its abort controller | prompt, continue, steer, followUp, clear, abort, reset, waitForIdle; reducer of events; failure path | `Agent`, `AgentLoop` |
| Agent loop (`agent/src/agent-loop.ts`) | locals of a run: context, new messages, pending messages, turn counter, batch of tool calls | two nested loops over turns and follow-ups, streaming, parallel and sequential tools, hooks, turn limit | `AgentLoop` |
| AgentHarness (`agent/src/harness/agent-harness.ts`) | phase, run promise, abort controller, pending session writes, three queues | prompt, steer, followUp, nextTurn, setters, appendMessage, compact, navigateTree, abort, waitForIdle | `AgentHarness` |
| Harness sessions (`agent/src/harness/session/`) | append-only tree of entries, current leaf, its JSONL file | append, move the leaf, path to the root, build a context, open, fork | `SessionTree` |
| AgentSession (`coding-agent/src/core/agent-session.ts`) | mirrored queues, retry counter, compaction flags, deferred bash results, next-turn messages | prompt, steer, followUp, retry, compact (automatic, by a client, by a tool), bash, abort | `AgentSession` |
| Subagent manager (`coding-agent/src/core/subagent/manager.ts`) | tasks, abort controllers, running count, limit | run, cancel, background, set the limit | `Subagents`, `SlotPool` |
| File mutation queue, write and edit (`coding-agent/src/core/tools/`) | a chain of promises per file, the files | queue, read, write, abort | `FileMutation` |
| File checkpoints (`coding-agent/src/core/file-checkpoint.ts`) | originals, copies of turn ends, lists of changes, in memory and on disk | snapshot before a write, capture at the end of a turn, restore, load | `FileCheckpoint` |
| Credentials (`coding-agent/src/core/auth-storage.ts`) | a file shared by programs, its lock, each program's copy | set, remove, reload, refresh of a token | `AuthStorage` |
| Event streams (`ai/src/utils/event-stream.ts`) | queue, waiting consumers, done, result | push, end, iterate, result | plan |
| RPC mode, client and session runtime (`coding-agent/src/modes/rpc/`, `core/agent-session-runtime.ts`) | requests under way, timers, tabs with their sessions and subscriptions, dialogs | send, receive, time out, stop; create, close, switch, fork and replace a session; prompt, abort, permission dialog, shutdown | `RpcMode` |
| SessionManager, settings, permissions | files, rules | see `PROJECT.json` | plan |
| Providers, other tools, user interfaces, packages, search, scripts | mostly input and output | | no |

How they interact:

```
 client --prompt/steer/abort--> Agent --runs--> agent loop --request--> provider
   ^                             |  ^              |  ^
   |                             |  +--- poll -----+  +-- replies
   +------- events (awaited) ----+<---- events ----+----> tools (parallel), hooks

 client --prompt/setters/abort--> AgentHarness --runs--> agent loop
                                     |   \--- deferred writes, save points
                                     +--> session (append-only tree) --> file
```

The loop awaits every listener of every event. A listener may throw, and it may
call the Agent back. The Agent and the AgentHarness are two alternative owners of
the loop: the coding agent is built on Agent, the harness on its own.

```
 user interface --prompt/steer/compact/bash--> AgentSession --> Agent --> agent loop
                                                |  |  |                      |
   session file <-- entries, compactions -------+  |  +-- snapshots       tools: write, edit
                                                   |          |              |  (one at a
   auth.json <-- locked refresh of tokens ---------+   file checkpoint     files  time each)
      ^
   other running programs           a tool --run--> subagent manager --> sessions of its own
```

Hard behaviours, and where they are:

- *Interleaving.* Client calls (steer, abort, reset, setters) at any await of a run;
  tools of a batch that end in any order; tools that still run after their run
  has failed (`agent-loop.ts:514`); a run of the harness that starts from a
  listener of the previous one's `agent_end` (`agent-harness.ts:504`).
- *Failure in the middle.* Listeners, hooks, the provider and the storage may throw
  anywhere; the failure path emits events that may throw too.
- *Ordering.* Results in the order of calls, queues in order through several drains,
  deferred writes never between a reply and its results.
- *Limits.* Turn limit, one message at a time, retries, concurrency of subagents.
- *Operations over operations.* A prompt during the pause of a retry or a compaction; a
  compaction called by a tool of the run whose context it replaces
  (`agent-session.ts:2146`); an abort while a file is written.
- *Commands over commands.* RPC mode does not wait for one command before it reads the next
  (`rpc-mode.ts:1650`): tabs are checked before an await and changed after it; answers race the
  timers of the client.
- *Several programs.* Two instances that refresh one token or change one file
  (`auth-storage.ts:397`); crashes with a lock held or a file half written.
- *Ending.* A run that waits for ever for a tool, a poll or a listener.

The properties that make each component correct:

- *Agent and loop*: an idle agent shows nothing of an old run; no queued message is
  lost, doubled or reordered; transcript and context agree; every result answers a
  call; one `agent_end` that reports the run; an abort starts no more tools; the
  turn limit is never passed; every run ends.
- *AgentHarness*: deferred writes are persisted once, in order, at save points; a
  request sees what the session holds; abort and waitForIdle find the run; the
  phase excludes other operations and is released; queued messages are kept.
- *Sessions*: an entry's parent exists; an acknowledged append is in the file; a reopen
  finds the entries and the leaf of the session; the tree only grows.
- *AgentSession*: file, transcript and loop agree; every message and bash result is in one
  place; results of tools follow their reply; retries and recoveries end.
- *Subagents*: never more running than the limit; a cancelled queued task never starts; every
  task is settled, gives back its slot and tells the truth about its session.
- *Files*: the tools of one file work one after the other and lose no edit; a restore
  brings back the code of its session point.
- *Credentials*: one refresh at a time; a saved change and a valid token stay in the file;
  no lock stays taken.
- *RPC*: one answer for each command, for the promise that waits for it or for nobody; every request is
  settled; the active tab exists, and tabs, subscriptions and live sessions agree.

## 2. The modules

### Agent.tla and AgentLoop.tla

`Agent` holds the fields of the class and one operator per case of
`processEvents`, plus the calls a client can make at any moment. `AgentLoop` extends
it with the locals of `runAgentLoop` and `runLoop` and closes the system.

- *Grain.* One action per await point. `pc` names the await the run is at; what the
  code does between two awaits is one action, so another callback can run
  exactly where the event loop would let it. `message_start` and `message_end` of a
  message that exists already are one action, with the events that change no state;
  a throw on one of them is `ListenerThrows` before or after it.
- *Data.* A message is a record of role, identity and origin (user), of stop reason
  and calls (reply), or of the call it answers (result). Content, usage and
  partial updates are left out.
- *State.* `messages`, `streamingMessage`, `pendingToolCalls`, `isStreaming` and
  `errorMessage` are `_state`; `streamingMessage` and `errorMessage` are Booleans.
  `activeRun` is `"none"`, `"live"` or `"aborted"`, the last when its controller has
  fired. `context`, `newMessages`, `prompts`, `pendingMessages`, `completedTurns`
  and `hasMoreToolCalls` are locals of the loop, `batch` and `toolResults` those of
  `executeToolCalls`. `stale` are calls that outlive a failed run. `discarded`,
  `lost`, `throws`, `ended`, `afterEnd` and `startsAfterAbort` are history.
- *Actions.* `Prompt` and the three `Continue...` start a run; `EmitPrompt`,
  `PollInitialSteering`, `InjectPending`, `RequestReply`, `StreamStart` and the
  `Reply...` actions are a turn; `ToolStart` to `FinishBatch` a batch, with
  `LaunchPrepared`, `ToolEnd` and `JoinTools` the parallel schedule; `TurnEnd` to
  `PollFollowUps` the end of a turn; `LastTurnEnd`, `AgentEnd` and `FinishRun` the
  end of a run; `ListenerThrows` and the `Failure...` actions the failure path.
- *Environment.* The provider replies with text, with any number of calls up to a
  bound, fails, or is aborted. A call is refused, runs, or ends with terminate.
  `PrepareNextTurn` may reload the context from the transcript, which is what the
  coding agent's hook does (`coding-agent/src/core/sdk.ts:418`).

### AgentHarness.tla

The harness over a log of entries. Each run has its own program counter because
two runs can overlap (see above). The loop is reduced to the events it sends
to `handleAgentEvent` and to the points where it polls and reloads; the detail of a
turn is in `AgentLoop`. A flush is two actions per write, `FlushStart` up to the
append and `FlushDone` after it, so writes can be requested and runs can start
in between. `Enqueue` covers steer, followUp and nextTurn, `RequestWrite` the five
setters and appends that defer (they differ only in the entry they write), and
`StartStructural`/`EndStructural` compact and navigateTree. `StartFails`,
`LoopFails`, `FailureFails` and `TailFails` are the four try blocks of a run.

`EarlyPrompts` says whether clients call `prompt()` while the listeners of
`agent_end` still run. The phase allows it. The run `AgentHarness` is for clients that
await each operation and sets it to FALSE; `AgentHarness_early_doc` sets it to TRUE.

### SessionTree.tla and SessionBranches.tla

`SessionTree` is a session over its JSONL file. Each caller has one operation under
way, at one of its await points: an append makes its id, awaits the leaf, awaits
`appendFile`, and only then changes memory. Landing in the file and handling the
promise are two actions, because two appends can be handled in another order
than they landed. `moveTo` is `MoveCall`, `SetLeaf` and, with a summary, a second
append. All append methods of `Session` are one action: they differ in the payload, which
is a number here. A file is a sequence of lines; a line is an entry or garbage, and
`cut` says that the last one has no end, so that it swallows what is appended
next; `torn` remembers that a failed append did this while the process went on. `overlaps`
counts the calls made while another one was under way. `Crash` forgets memory and may cut the line being written; `Open`
validates every line. An id is a window of 65 seconds or, when that is taken, a
whole uuid: the code keeps the first 8 digits of a uuidv7, which hold only time.

`SessionBranches` is what a session promises to one caller: a set of paths that only
grows and a leaf in it. `SessionTree` implements it under the mapping that gives
every line with an end its path (`Branches`), as long as no call overlapped another one and no line was
cut by a failed append (`Undisturbed`). The append takes effect when its line lands.

`AgentHarness` uses a session as a log: it appends one entry at a time to the active
branch, which is `AppendEntry` of `SessionBranches`.

### AgentSession.tla

The session of the coding agent over an `Agent`, reduced to what its operations tell
apart. A caller of `prompt()` has its own position (`prompts[p].at`): the preflight,
`before_agent_start`, the run, the pause of a retry, the summary, the listeners of
`session_compact`. `Return` and `Reject` are the two ways it leaves the loop over the
agent, with the flush of deferred bash results in the `finally` block.

- *State.* `messages` is the transcript, `session` the entries of the file on the current branch
  (`sessionManager`), `activeRun`, `at`, `hands` and the queues the agent. `manual` is a call
  of `compact()`. `sent`, `missed`, `overlapped`, `recoveries` and `refused` are history.
- *Actions.* `Prompt`, `Preflight` and `Submit` are `prompt()`; `Inject`, `Reply`, `ToolsEnd` and
  `FinishRun` the run and `_handleAgentEvent`; `FinishRun` goes on with `AfterRun`
  (`_handlePostAgentRun`) because the continuation runs at once. `PauseEnds`, `PauseAborted`,
  `Summarized`, `SummaryFails` and `Resume` are retry and automatic compaction; `Compact`
  to `CompactEnds` are `compact()`, by a client or by a tool.
- *Compaction.* `Context` is `buildSessionContext`: the summary, the entries from the first
  one kept, what came after. `CutPoints` are the entries a compaction may keep from; the
  runs try the first and the last of them. How many tokens a message has is left open:
  a reply may be normal, over the window silently, or an overflow error.
- A bash result recorded while the agent streams goes to `pendingBashMessages`.

### Subagents.tla and SlotPool.tla

Each task is one call of `run()`, at the wait for a slot, for the factory of its session,
for the prompt, or for the 100 ms after an abort. `Poll` is the loop that waits for
a slot: the check, the look at the signal and the increment are one step, as in the code. `AbortTask` is
`abortController.abort()`, by `cancelTask`, the caller's signal or the timer; its listener
exists only while the prompt is under way. `Settle` is the `finally` block. The session
is the environment: it produces output or not, ends with text, empty, with an error or aborted, or
hangs.

`SlotPool` is what callers rely on: a slot is taken only below the limit of that moment,
never by a waiter that has withdrawn, and given back by its holder. `Subagents`
implements it (`ImplementsSlots`).

### FileMutation.tla and FileCheckpoint.tla

`FileMutation` is the write and the edit tool with one action per file operation, under
`withFileMutationQueue`. `tail` is the map of chains, `after` the promise a call awaits,
`released` says that the next one may go; `ahead` is history: the calls for the file that joined
before and were not over. The content of a file is the set of calls
it shows, so a lost edit is a missing member. `Linked` are files reached through a link to their
directory: their key is the path as given until they exist, and the real path afterwards
(`file-mutation-queue.ts:8`). `writeFile` is two actions, because the file
is truncated before it is written. An abort rejects a call at once; a `writeFile` under
way goes on (`stray`).

`FileCheckpoint` adds the turns of a run, the copies of `snapshotBeforeWrite`, which are not
awaited and race the tool, `captureTurnEnd`, `restoreToTurn`, the tree action "Restore
code + navigate", crashes and the reload from disk. `codeAt` is history: the files
at each session point of the branch, which a restore is compared with.

### AuthStorage.tla

Several instances of the program over one file. A credential is a login and how often it was
refreshed; the provider accepts the latest refresh token only. `set()`, `remove()` and
`reload()` are one step each (the lock is taken synchronously); a refresh holds its lock over
the request: `Acquire`, `ProviderAnswers`, `SaveRefreshed`. Crashes leave the lock, and may leave
the file cut (`Torn`) or empty, which parses as no credentials. `lockSync` treats a
lock as stale after 10 seconds and a refresh touches its own every 15, so a live holder may
lose it (`takeovers`); it notices later (`NoticeCompromised`). `Writing` says in which states a crash may cut a
write: during the synchronous step of a `set()` that could parse the file and got the lock, free or left by a dead holder, or
when a refresh saves.

### RpcMode.tla

A client (`RpcClient`), the two pipes and the process that serves it. `pendingRequests` is the map
of the client and `promise` what `send()` returned; `inbox` is stdin, in order, and `outbox` the
responses, whose order nobody looks at. `tabs` are the keys of the map `sessions` in insertion order,
which decides what becomes active after a close; `disposed` are the sessions that were disposed.

- *Grain.* `handleInputLine` is not awaited, so a command runs to its first await and the next line
  is read. `work[r]` says what the handler of command `r` waits for and what it read before
  (`wasActive` of a close, the session of a prompt). `CreateSession`, `CloseSession`, `Fork`, `NewSession`, `Prompt` and
  `Abort` are the parts up to the await, `Created`, `Closed`, `Forked`, `Replaced`, `PromptAnswered` and `Aborted` those after it. `NewSession`
  stands for `switch_session` too, `Fork` for `clone`.
- *Runs.* `prompt` answers at the end of its preflight, not at the end of its run. A run may ask for a permission, and its
  dialog ends with the answer of the client or with the abort of the run.
- *Faults.* The timer of a request fires at any time, `Stop` ends the client, and `Exit` is the end of
  the process for any reason, with what was not flushed kept or lost.

## 3. The runs

All bounds are constants named `Max...` in the configurations.

| Run | Question | Bounds |
|---|---|---|
| `AgentLoop_core` | order of results, queue modes and order, what an abort stops | 3 user messages, 2 in one prompt, 3 calls in a batch |
| `AgentLoop_faults` | state after a failure, transcript against context, accounting of messages, turn limit, events, every run ends | 2 throws, 1 clear or reset, limit of 2 turns, 2 calls; fairness |
| `AgentHarness` | deferred writes, context equals session, abort and waitForIdle find the run, phase and messages after each failure, every run ends | 2 runs, 2 writes, 2 queued messages, 2 failures, 1 structural operation, at most 3 of these events; fairness |
| `AgentHarness_early_doc` | a listener's call must not "lose pending writes" (`agent/docs/agent-harness.md:9`) | violated |
| `SessionTree` | two callers: parents precede, the file is the session; without overlaps a reopen restores the leaf and the file implements the tree | 4 entries, 1 call that overlaps another, 2 windows, 1 failed append that may cut a line, 1 crash |
| `AgentSession` | file, transcript and loop agree; messages and bash results kept; order around tools; mirrors; retries; every prompt settles | 2 callers, 4 events, 2 prompts, 1 retry, 1 each of queued message, bash result, compaction, abort; fairness |
| `AgentSession_overflow_doc` | "the agent will automatically retry the prompt" (`coding-agent/docs/rpc.md:1368`) | violated |
| `Subagents` | slots, outcomes, the pool of slots, every task is settled | 3 tasks, limit 2, lowered once to 1; fairness |
| `FileCheckpoint` | the queue of a file, restores, every call ends | 1 file, 3 calls, 2 turns, 1 abort or crash, 1 navigation, at most 5 of these; fairness |
| `FileCheckpoint_branch_doc` | "restore tracked files to the code state for that selected session point" (`coding-agent/docs/file-checkpointing.md:39`) | violated |
| `AuthStorage` | exclusive refreshes, saved changes and tokens, unreadable files, every call ends | 2 programs, 2 refreshes, 2 providers, 2 logins, 2 expiries, 1 each of lost answer, crash and takeover; fairness |
| `RpcMode` | one answer for each command, tabs against live sessions, every request settles | 3 commands of any kind, one dialog for each run; fairness |

`TypeOK` of a module is checked on its own or as the first conjunct of another invariant
(`PhaseFollowsRuns`, `FileIsSession`, `AnsweredOnce`, and likewise elsewhere). An invariant that is a conjunction names its parts in the module: `DeferredWrites` of
`AgentHarness`, for example, is `WritesInOrder`, `WritesAtSavePoints` and `SettledIsFlushed`.

*Why the bounds are enough.* An order of two queued messages, a drain that leaves
one behind and one added behind it need three user messages. A batch of
three has a call before, at and after the one that is refused or aborted. One
throw reaches every await point, a second one the failure path of the first or the
next run. Two runs of the harness are enough for one to inherit or overwrite the fields of the
other; two writes show order; two failures cover each pair of a failure and a failure of
its report. `MaxEvents` bounds the sum of these, not each of them alone. A session needs a root, a branch
off it, a move and an append after it: four entries; two callers of which one call overlaps another
give every interleaving of two operations, and the undisturbed behaviours are those of one caller.
Three commands are one that opens a tab and two that
race over the tabs, or a prompt, its abort and any third one. Two callers of `prompt()` and four events put
any second operation into any await of the first, and leave one more for what
follows. Three tasks over two slots make one wait, and lowering the limit makes two. Three calls of one file give
a chain with a middle member; two turns give a point before, between and after them, and a
number that is used again. Files are independent in the queue, in a restore and in the
model, so one is enough. Two refreshes of two programs race; a login, its refresh and a second login give
three generations. The violated runs use the smallest instance that shows the disagreement.

*Deadlock.* The checks allow it (`CHECK_DEADLOCK FALSE`): an agent whose clients make
no more calls stops, and so do the bounds.

*Fairness.* The event loop runs each continuation that is ready, so the steps of the code
itself are weakly fair in every run with a liveness property. What is assumed of the
environment differs:

- `AgentLoop_faults`: a request is answered, at least with an error (`ProviderStep`), and a tool
  returns (`ToolStep`). A listener returns or throws. A tool that never returns does
  block the run in the code; it is excluded by that assumption.
- `AgentHarness`: the same, as steps of each run (`RunStep`).
- `AgentSession`: hooks, providers, tools and summaries answer, and timers fire
  (`InternalStep`). A tool that called `compact()` returns when that does.
- `Subagents`: timers fire and the session factory returns or throws. Nothing is assumed of sessions:
  they may hang.
- `FileCheckpoint`: operations of the file system end.
- `AuthStorage`: retries of a lock and requests to the provider end.
- `RpcMode`: lines are read, awaits return, runs that do not wait for the client end, and the timers of the client
  fire. Nothing makes a client answer a dialog or read a response.

Client calls, aborts, throws, crashes and the rest of the environment are not fair. Fairness
of a disjunction of steps is enough where an actor has one program counter.

*What the violated runs show.* Each quotes a sentence of the repository that the code
does not keep; `PROJECT.json` has the lines. The counterexamples:

1. `AgentHarness_early_doc`: a `prompt()` from a listener of `agent_end` lets two flushes run at
   once: a write is appended twice.
2. `AgentSession_overflow_doc`: after an overflow compaction the transcript is rebuilt from
   the session, in which replies that were taken out of the transcript remain. Only one last
   reply with an error is dropped; after a silent overflow, or an overflow that follows
   a retried error, a reply is last, `agent.continue()` throws and `prompt()` rejects.
3. `FileCheckpoint_branch_doc`: turns are numbered by the replies on the branch. After "Restore code
   + navigate" the next turns take the numbers of the abandoned ones, whose copies
   remain, and a later restore brings those back.

*What the passing properties except.* Some of them hold only under a condition that
the code does not promise, and say so in their antecedent or configuration:

- Agent loop. `AgentEndOnce`, `OneAtATime` and `FailureIsVisible` ask that nothing throws: the failure
  path emits four more events, a second `agent_end` among them
  (`agent/src/agent.ts:472`). `isStreaming` is left out of the properties of an active run:
  `reset()` clears it while the run goes on (`agent/src/agent.ts:317`). With a turn limit a
  queue is drained before the limit is looked at, and the drained message is lost
  with the run (`agent/src/agent-loop.ts:268`, against `agent/README.md:351`): it counts as `lost`.
- AgentHarness. `WritesInOrder` and `SettledIsFlushed` hold without failures and without `compact()` and
  `navigateTree()`: a write deferred during one of these, or left by a rejected run, is flushed
  by the next run only, and a direct write of the idle harness overtakes it
  (`agent-harness.ts:733`). `LoopIsAbortable` speaks of the loop: between `prompt()` and the
  start of the loop `abort()` finds no controller, and the run goes on unaborted
  (`agent-harness.ts:557`, against `agent/docs/agent-harness.md:200`).
- Sessions. `ReopenRestoresLeaf` and `ImplementsBranches` speak of behaviours without overlapping calls: two appends under way can land in
  the file in one order and be handled in the other, and then memory and
  file have different leaves (`jsonl-storage.ts:257`). Two callers may also choose the
  same id within 65 seconds, and then the later entry hides the earlier one
  (`jsonl-storage.ts:37`, `uuid.ts:31`). `AckedIsDurable` asks that no line was cut short by a failed append (`torn`).
- AgentSession. Messages that end while `compact()` has the session disconnected are never saved
  (`missed`, `agent-session.ts:2145`), and the mirrors of the queues are stale after it. Two prompts that overlap are
  excepted where they interfere (`overlapped`): the slower one is rejected, its `finally` block
  flushes bash results in the middle of the other run, and the next-turn messages it took are lost
  (`agent-session.ts:1298`, `:1454`). `compact()` called by a client while tools run is taken for a call by a
  tool. An abort or a compaction at `agent_end`, before the pause of a retry has begun,
  does not stop the retry. Texts of messages are distinct in the model. Two exceptions were found by
  the proofs; the run is too small to meet them. `RecoveredOnce` says nothing after an overlap: two
  prompts may each recover from an overflow, since the message of the second clears the flag of the first (5 events).
  `TranscriptIsSession` says nothing after an overlap and a `compact()`: the message of a prompt ends while the session is disconnected,
  so its failed reply is saved right after the good one before. The recovery of another prompt rebuilds the transcript
  and drops the failed reply, and the retry then takes the good one out of it (`:3118`; 8 events, 3 prompts, 1 retry).
- Subagents. A session may still run after its slot was given away: it was told to stop, nobody
  waits for longer than 100 ms (`manager.ts:527`). There is no order among tasks that wait.
- Files. `NoUpdateLost` excepts a file with a write that outlived its aborted call (`stray`), since the queue is
  released before it ends (`write.ts:243`, `edit.ts:358`). Both parts of `MutationsSerialized` except files
  behind a link (`Linked`): calls that joined before such a file existed and calls that joined
  afterwards do not wait for each other, which takes a call between the two, as of another tab of RPC mode over
  the one map of the process. `RestoreIsExact` excepts an original
  copied after a tool opened the file (`late`: the copy is not awaited, `agent-session.ts:943`), files of a
  turn cut short by a crash (`cut`) and numbers used twice (`reused`), and says nothing of a
  file a turn left missing, for which there is no copy (`NoTurnEnd`).
- Credentials. `RefreshIsExclusive`, `ChangesAreKept` and `UnreadableIsKept` except a lock that was taken from a live
  holder. `TokenUsable` excepts it when several providers refresh (`NonePutBack`): a holder that lost its lock writes the
  whole file it had read, with an old token of another provider in it. A crash that empties the file loses the credentials, which `ChangesAreKept` allows. A reload
  that finds the lock taken makes later changes of this program memory only
  (`auth-storage.ts:264`, `:270`). An answer that was lost, in a crash or because the lock was, costs the login
  (`answerLost`).
- RPC. `TabsAgree` says nothing after commands that change tabs overlapped: two `close_session` in one chunk both find
  two tabs and leave none (`rpc-mode.ts:790`). It says nothing after a session could not be made: its tab
  shows the disposed one (`rpc-mode.ts:1239`). And nothing after `new_session` while the active tab does not show the
  session of the runtime, as after a fork: the tab gets the new session, and the one it showed stays alive
  without a tab (`rpc-mode.ts:641`). `AnsweredOnce` does not say that a client hears of a run that fails after its prompt was accepted.

## 4. The proofs

A theorem holds for all values of the constants its module declares: any number of calls, runs,
tasks, programs, commands, files, throws and crashes, and any queue modes and limits. What the runs show on
the instances of section 3 is shown here without their bounds. Five theorems have a hypothesis,
`~EarlyPrompts`: clients of the harness wait for each operation. Without it each of the five is false:
TLC refutes it once the run `AgentHarness` sets `EarlyPrompts = TRUE` (finding 1 is one of these).

| Module | Theorem | Says |
|---|---|---|
| `AgentLoopProofs` | `TypeCorrect` | `[]TypeOK` |
| | `TypeInvariant` | `[]TypeInv`, the inductive form of it |
| | `ControlInvariant` | `[]ControlInv`, see below |
| | `IdleClean` | `[]IdleIsClean` |
| | `LimitRespected` | `[]LimitStopsRequests` |
| | `MessagesAccountedFor` | `[]EveryMessageAccountedFor` |
| | `AbortBounded` | `[]AbortStopsTools` |
| | `TranscriptFollows` | `[]TranscriptFollowsContext` |
| | `RunsReported` | `[]RunIsReported` |
| | `RequestsAnswered` | `[]ResultsAnswerCalls` |
| | `QueuesDisciplined` | `[]QueueDiscipline` |
| `SubagentsProofs` | `TaskInvariant` | `[]TaskInv`, see below |
| | `SlotsGivenBack` | `[]SlotsAccountedFor` |
| | `OutcomesHonest` | `[]TaskOutcomes` |
| | `PoolImplemented` | `ImplementsSlots`: `Subagents` implements `SlotPool` |
| `AuthStorageProofs` | `RefreshesExclude` | `[]LockDiscipline` |
| | `UnreadableUntouched` | `UnreadableIsKept`, an action property |
| | `CredentialsSurvive` | `[]CredentialsKept` |
| `SessionTreeProofs` | `ParentsKnown` | `[]ParentsPrecede` |
| | `FileHoldsSession` | `[]FileIsSession` |
| | `FileIsATree` | `ImplementsBranches`: without overlapping calls `SessionTree` implements `SessionBranches` |
| `RpcModeProofs` | `EachAnsweredOnce` | `[]AnsweredOnce` |
| | `TabsAgreeAlways` | `[]TabsAgree` |
| `FileCheckpointProofs` | `CallsSerialized` | `[]MutationsSerialized` |
| | `CheckpointsSuffice` | `[]CheckpointSuffices`: restores are exact, new files are listed |
| `AgentHarnessProofs` | `QueuedInOnePlace` | `[]QueuedAccountedFor`, whatever clients do |
| | `PhaseFollows` | `~EarlyPrompts => []PhaseFollowsRuns` |
| | `RunsReachable` | `~EarlyPrompts => []RunIsReachable` |
| | `RequestsSendSession` | `~EarlyPrompts => []ContextIsSession` |
| | `WritesSurvive` | `~EarlyPrompts => []NoWriteLost` |
| | `WritesDeferred` | `~EarlyPrompts => []DeferredWrites` |
| `AgentSessionProofs` | `ControlInvariant` | `[]Controlled`, see below |
| | `RecoveryBounded` | `[]RecoveryIsBounded`: types, recoveries from overflows, reset of the retry counter |
| | `BashStaysBetween` | `[]BashBetweenTurns` |
| | `AccountInvariant` | `[]AccountInv`, see below |
| | `MessagesKeptAlways` | `[]MessagesKept`: messages of clients and bash results |
| | `MirrorShowsQueueAlways` | `[]MirrorShowsQueue` |
| | `FollowInvariant` | `[]Follows`, see below |
| | `ContextsAgreeAlways` | `[]ContextsAgree`: transcript against session, requests against transcript |

Assumptions: only the named ones of the modules (`AgentAssumption`, `LoopAssumption`, `SessionAssumption`,
`SubagentsAssumption`, `AuthAssumption`, ...). They say that modes are modes, that bounds are natural numbers and
that the model values differ from what they stand beside. TLC evaluates them in every run.

The argument, module by module:

*Agent loop.*

- `TypeOK` is not inductive. A result is taken from `batch.status[i]` and
  `batch.calls[i]`, so the three sequences of a batch must have one length and
  `batch.next` must be in it at the points of a batch. `BatchShape` says that;
  `TypeInv` is the conjunction. There is one lemma per action; lemmas about the helpers
  (`DrainType`, `MessageEndType`, `NewBatchType`, ...) carry the work.
- `ControlInv` ties `pc` to the fields: the run is active exactly while `pc` is not
  `"idle"`, an idle agent streams nothing and has no executing call, `prompts` and
  `pendingMessages` are empty except at the points that inject them, and the
  turn counter is below the limit at the points of a turn. The initial poll, the
  polls after a turn and `FinishRun` each need another part of it.
- `PlacesInv` says that the transcript, the queues, what the loop holds, the discarded
  and the lost messages partition the identities handed out so far. A drain moves
  the head of a queue, and an injection the head of `pendingMessages`: for the
  parts to stay disjoint, no queue may hold an identity twice (`Distinct`), which is
  the strengthening the invariant needs. `ControlInv` is used where a drain assigns
  `pendingMessages` and where a failure drops it.
- `AbortInv` says that once a call was started in an aborted run, the run is still
  aborted and past the point where the next one could start.
- `CopiesInv` follows the three copies of what a run says, `messages`, `context` and `newMessages`. At
  the points between two steps of a turn one ends with the other, once the prompts still to be emitted are counted with the
  first and the results of a batch with the other two; while a reply streams, the context without its partial
  reply does. `SuffixIs` states `IsSuffix`, which the community module defines by reversal, by positions,
  which is what the provers can work with.
- `EndedInv` and `FailureInv`: without a throw, `agent_end` was emitted only at the end points of a run, and a
  failed reply at the end of the transcript is in the state, about to be (`lastTurnEnd`), or followed by a new prompt.
- `AnswerInv` holds of the transcript and of the context, since `PrepareNextTurn` may take either. During a batch the context ends
  with the reply of the batch, and the results emitted so far are those of its first calls (`BatchInv`): each next
  result extends an answered list (`AnsweredResult`).
- `LineInv` looks at one queue at a time. The messages of one origin are in order in the transcript,
  followed by the prompts, the pending messages and the queue; a concatenation is in order when its parts are and
  one comes before the next (`SortedConcat`), so moving a head or draining a queue (`MoveHead`, `DrainConcat`) changes
  nothing, and a new message is the last because `PlacesInv` bounds all identities. A queue must hold only its own messages,
  or a drain would disturb the order of the other origin.
- `SpacedInv` says in addition what the loop may hold in one-at-a-time mode: at most one message, taken when every earlier one of
  its queue was answered. A run that polls before its first request must start without a steering message among its prompts,
  which is what `skipInitialSteeringPoll` is for.

*Subagents.* The count is a cardinality, which says nothing of an infinite set, so `SlotInv` adds that the
holders are finitely many: they start as none and a step adds at most one. That `Settle` tells the truth needs to
know where the session is at each point of `run()` (`SessionInv`): busy exactly while the prompt is awaited, told to stop
while it waits to settle, idle once there is a reply. The refinement is a step simulation: each action is a
step of the pool under `holders <- Holders`, or leaves it unchanged.

*Credentials.* `LockInv` says what a refresh may rely on while it waits: unless a lock was taken over, it holds the lock and the
credentials it read are those of the file. A usable token needs every copy of every credential, in the file, in the memory of programs
and in the hands of refreshes: none is ahead of the provider, a login belongs to one provider, and an answer that is
not saved yet is the one copy that is ahead of the file (`TokenInv`). The proof attempt found two states the runs were too small for.
With a second crash, a file emptied by the first is written while a dead holder has the lock, and could be cut again, which `Writing` did not
allow. With two OAuth providers, a holder that lost its lock puts back an old token of the other one, which `TokenUsable` now excepts.

*Sessions.* A reopen reads nothing but the file, so the invariant says of the file what `ParentsPrecede` says of memory, as
long as it can be loaded (`FileInv`). An operation that waits remembers a leaf, which stays an entry since entries only grow (`OpOK`). Lines that
landed but are not handled are counted: the file is as long as the entries and these (`CountInv`); for calls that do not overlap
there is at most one, the last (`AloneInv`), which gives the leaf of a reopen.
The refinement gives each line its path, by a recursion from parent to parent. It has a solution, and a path has ids of the file only, because
parents precede (`PathsAt`, `PathType`); and a line that is appended changes no earlier path, because no id is in the file twice
(`PathsAppend`). `BranchInv` says that of the file, and of an operation that it has a new id (a whole uuid was made before, a short one is
looked up when no line waits to be handled) and lands on the leaf. Only `Land` is then a step of the tree. A crash that
cuts a line leaves the lines before it, and such a file is never opened again.

*RPC.* `AnswerInv` says where a command is: each identity that was sent is once in the pipe, in a handler that waits, or answered. `CountInv` bounds
the identities of sessions and tabs, which have a type only because each command makes one at most. `TabsAgree` says nothing while a
command changes tabs; `TabInv` has the tabs in the middle of each such command: which is not subscribed, which session is disposed and
still shown, which tab is to come. `WorkInv` is what remains of it when commands overlap.

*Files.* The map holds the last promise of a chain, and drops it while calls before it may still have been waited for. `ChainInv` says
what a promise stands for: the call that made it and all calls ahead of that one. So a call whose predecessor was released has
nobody unreleased ahead (`TurnHasCome`), and of two calls for a file one is ahead of the other (`OrderInv`): one at most works on the file
(`Exclusive`). `ContentInv` then follows the content through the steps of that one call: equal to what the calls before left until it opens the file, known
to it as `read` until it has written. `TurnInv`, that calls end within their turn, is what a restore needs, which writes files
without the queue.

*Checkpoints.* That a restore was exact says nothing of the next restore, to another point: `CopiesInv` says of every file a tool has opened
that what is kept of it for each point of the branch, the copy of the last turn that changed it or its original, is its code there (`Good`). `NowInv`
adds where the files themselves are: at the code of the point, between two turns. A turn breaks both for the files it
changes (`Working`), and its end mends them. For that, a turn must start without a copy of its own end, unless its number was used
before (`TurnEndInv`), and what is written after its end must be stray: a call that is not released belongs to the turn and its file to the
changes of the turn (`CallRecords`, with `TurnInv`). A copy of an original that comes too late is listed in `late`; one that comes in time has
what all points have, because no tool has opened the file (`UntouchedInv`). `SavedInv` has the part on disk: what a crash loses of the
changes are those of calls whose copy is under way, which are the files `cut` excepts.

*Harness.* `Types` refines `TypeOK`: pending writes hold writes and queues hold messages, which is why appending a
queued message never disturbs the writes and the other way round. `QueueInv` says that the queues, the hands of the runs, the
session and the dropped messages are disjoint and together hold every identity handed out; it needs that no list has an
identity twice, and that a run past its prompts hands out nothing (`ListInv`). It holds for overlapping runs too.
The rest is about one operation at a time. `OwnerInv` has the owner: at most one run is not over, its promise is the one
`waitForIdle` finds and, in the loop, its controller the one `abort` finds; a phase of `"turn"` has a run that will give it back,
which is what `ReleasedWhenOver` needs of a run that failed. `DataInv` follows the entries through the steps of that run: its context is the
session between two save points (`ContextInv`); a write in flight is still the head of the pending ones, so that
removing the head afterwards removes this one (`FlushInv`); persisted and pending writes are disjoint and complete (`LogInv`); a reply
is last in the session until its results arrive (`ResultInv`); and as long as nothing failed and no structural operation ran, an idle harness has
nothing pending and each persisted write is older than each pending one (`OrderInv`). With two runs at once
`FlushInv` is the part that breaks: both flushes read the same head.

*Coding agent session.* Two invariants come first. `Controlled` has where the calls are: the run has one owner, the shape of what
a call holds follows from the await it is at (`ShapeOf`), and as long as nothing overlapped one call is under way (`Alone`). `Kinded`
has what is where: the kinds of the messages in each place, and that all of them are of the past, so that a new one has a new identity.
Over these, one invariant for each concern:

- `RecoveryInv` and `AttemptInv`: a call that is to retry an overflow has set the flag and not counted the retry; a retry under way
  has an owner. That a run which resets nothing leaves no counter behind needs `Continuable`: what precedes a failed
  reply is something a request can follow, so the `continue()` of the retry is not refused.
- `Stale`: a transcript that was replaced under a run is reloaded before its next request, since the `compact()` that replaced it
  was called by a tool of that run.
- `BashInv` adds to `BashBetweenTurns` that no bash result follows the reply whose tools run. `KeptInv` counts the bash results
  saved and deferred; a step either leaves the session alone, flushes the deferred ones, or saves the messages of a run (`SessionStep`).
- `AccountInv` is a ledger: the five places hold each message of a client once, the calls hold what is in no place, and both together
  are what was sent and not taken back. Each step is one of a few movements between places (`Ledger`).
- `MirrorInv`: a mirror is the list of the identities of its queue, or, between the poll of a message and its `message_start`,
  has the polled one before them.
- `Follows` is about the transcript. `AgreeInv` says that the transcript and `Context(session)` are equal but for failed replies (`Agrees`).
  Messages that end extend both, since the context of a longer session is the context and what was added (`ContextGrows`); a compaction makes
  them equal. What is difficult are the two places where the code takes the last reply out of the transcript
  without looking whether it failed: before the pause of a retry and before the recovery from an overflow (`:3118`, `:2379`). `EndInv` and `ChecksInv` say that
  without an overlap the reply that was looked at is the last of the transcript. When prompts overlap that is not so, and the proof
  needs to know that the last reply of the transcript is a failed one all the same (`OpenInv`): a session is open when, failed replies apart,
  no reply is its last message. A request is made only while the session is open and its reply closes it, so a failed
  reply is saved after a message that is no reply (`BadAfterOpen`), and a compaction, which keeps from a message on (`WellKept`), shows a context
  that is open only if the session is. `compact()` breaks this, because it lets a run go on beside it; hence the second exception of section 3.

Both exceptions came out of these proofs: `RecoveryInv` and `AgreeInv` failed at steps of two overlapping calls, and TLC found
the behaviours once its bounds were raised. `MessagesAccountedFor` was a sum of lengths before, which a message lost and another doubled
would have satisfied; it now says where each message is.

A context selects from a session by a recursive function (`Selected`). What it returns can be proved after all: induction over
a set, derived from `WFMin` of the library, takes no operator as parameter (`NatSetInduction`, also used for the paths of a session).

Only model-checked: liveness (`RunSettles`, `RunsSettle`, `TasksSettle`, `CallsEnd`, `PromptsSettle`, `RequestsSettle`): out of the prover's reach.

Every other property that a passing run checks has a theorem.

## 5. Not modelled, and why

- *Of Agent and the loop.* `shouldStopAfterTurn` (Agent never passes it); the queue
  mode setters during a run; assignments to `state.messages` other than the reload
  of `prepareNextTurn` (those of AgentSession are in `AgentSession`);
  `message_update` and `tool_execution_update`, which change only the partial
  message; the content of messages.
- *Of AgentHarness.* Resources, tools and stream options (copied values); the text
  expansion of skills and templates; the split of a direct write of an idle setter
  into its append and its assignment (`agent-harness.ts:849`); listeners that await
  `waitForIdle()` (documented as the caller's mistake in
  `agent/docs/agent-harness.md:18`).
- *Of sessions.* The context built from a path of the harness, labels and names
  (looked up among entries, never part of the tree), listing, forking and deleting of
  files, two processes on one file.
- *Of AgentSession.* Models, tools, thinking levels and names (assigned values); commands
  and templates (text); navigation and forks of the session; handlers of `message_end`
  between the agent and the session; two branches of one session.
- *Of the subagent manager.* `setAgents`, the list of recent tasks and events (copied
  values); an `onStatusChange` that throws between the increment and the `try` block
  (`manager.ts:253`), which would leak a slot; the agent files.
- *Of files.* How an edit is matched (it matches or fails); the content under `turns/`, which
  nobody reads; a run after "Restore code only" with the code of another point; points of
  other branches in the tree.
- *Of credentials.* Keys of the environment and the command line, which are never
  written; the settings file, which has the same lock and is planned.
- *Of RPC.* Commands that read or set a value of a session, `steer` and `follow_up` (in `AgentSession`), searches and agent
  files; the framing of lines; the second between SIGTERM and the end of `stop()`, in which the client may still send; an
  error of the pipe to a process that has exited; starting a client again; extensions that replace or fork the session
  themselves; the await in `shutdown()`.
- *Of the repository.* Providers, the other tools, terminal and web interfaces, package and
  resource discovery, which are most of the source: input, output, parsing and layout, with no protocol of their
  own. The other components are in the plan.

## 6. Plan

Built so far, in this order: `Agent` and `AgentLoop` with their proofs, `AgentHarness`,
`SessionTree`, `Subagents` over `SlotPool`, `FileMutation` and `FileCheckpoint`, `AgentSession`,
`AuthStorage`, `RpcMode`; then the proofs of `Subagents`, `AuthStorage`, `SessionTree`, `RpcMode`,
`FileCheckpoint`, `AgentHarness` and `AgentSession`. Next, in order of the behaviour that matters most:

1. The settings file; `EventStream` with the abstract queue it implements.
2. The deferred first write of `SessionManager`; an abstract set of tabs for `RpcMode`.
3. Cut points of the harness compaction and truncation of output as operators checked against
   reference definitions over bounded inputs.
