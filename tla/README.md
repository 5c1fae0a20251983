# CodeSymphony: specifications and proofs

CodeSymphony is a local runtime (Node, Fastify, Prisma on SQLite) that runs coding agents (Claude,
Codex, Cursor, OpenCode) in chat threads of git worktrees, with a web client and a desktop shell. This
directory holds TLA+ modules of its concurrent core, their model-checking runs and machine-checked
proofs. Paths are relative to `src/`; `chatService.ts` is
`apps/runtime/src/services/chat/chatService.ts`, other services are in `apps/runtime/src/services`,
routes in `apps/runtime/src/routes`, and files of the web client in `apps/web/src`.

The runtime is one Node process. Code between two `await`s is atomic, and everything else interleaves:
API calls of several clients, the callbacks of agent runners, timers, child processes, sockets, and the
queues in front of the database. Nearly every hard behaviour of this code is a decision taken before an
`await` and acted on after it, so **one TLA+ action is the code from one await to the next**. In the web
client the same holds of event handlers, effects and the answers of requests.

## 1. Inventory

| component | state | operations | hard behaviour | what makes it correct |
|---|---|---|---|---|
| chat turns (`chat/chatService.ts`, `planExecution.ts`, `chatGateService.ts`, `chatPendingPlanState.ts`) | `threadRuns` (the run slot of a thread), pending permissions and questions, pending plan on the thread row and in the event log | send, stop, status polls with reconciliation, resolve, answer, approve / hand off / revise / dismiss a plan; `runAssistant` with its callbacks | checks and actions separated by awaits; aborted runs that wind down while the next begins; reconciliation from persisted events; failing writes | one live run per thread; every turn closed, once; the slot is freed and always stoppable; one settlement per plan; no orphan request |
| draft queue (`chatService.ts` 1021-1646, 3088-3162) | rows `queued / dispatch_requested / dispatching`, `canceledQueuedDispatchIds`, the dispatcher's promise | queue, request, cancel, delete, list; dispatcher; hand-off at tool boundaries | one dispatcher joined by many observers, edits racing with it, lost wake-ups, partial failure | sent once, oldest first, eventually, only when the thread is free |
| event hub and event stream (`events/eventHub.ts`, `chats.ts`, `threadStreamState.ts`, `useThreadEventStream.ts`) | per-thread queue, next index, subscribers; the client's cursor, buffer and collection | emit, list, subscribe, SSE replay and live; resynchronise, reconnect | order, unique numbers under retry and restart, no gap between history and live, lost connections | every client shows a prefix of the log, in order, and comes to show all of it |
| thread status (`chatThreadStatus.ts`, `worktreeThreadStatus.ts`) | derived data | walks over events in the runtime and in the client | many kinds of event, two implementations | both agree with a reading of the log |
| automations (`automationService.ts`) | definitions with next due time, runs, bindings to threads | claim due slots, run now, dispatch, follow a thread, recover | overlapping passes, crash recovery, unordered handlers; recurrence rules on clocks that change | a slot is recorded once, one scheduled run at a time, a prompt is sent once, runs end; slots are the times the rule asks for |
| worktrees (`worktreeService.ts`, `worktreeDeletionService.ts`) | row status creating / active / deleting / failed, directory | create, remove, delete in the background, recover | creation overlapping deletion, restarts | no usable worktree without a directory, none pending for good |
| live updates (`worktreeWatchService.ts`, `workspaceLiveUpdateService.ts`, `worktreeGitQueryCache.ts`, `workspaceLiveSocket.ts`, `workspaceLiveResource.ts`) | batches, caches, numbered channels with replay buffers, sockets | watch, refresh, invalidate, attach, resume, poll | coalescing, stale results, restarts of the numbers | no number skipped, the last change is seen |
| script streams (`scriptStreamService.ts`) | one entry per worktree, processes, emitters | start, stop, client leaves | replacement while the old process closes | every client is told of the end |
| agent pool (`cursor/sdk/agentPool.ts`, `runTurn.ts`) | pooled agents, busy flags, idle timers | acquire, announce, release, dispose, retry | second lease of one id, timer of a replaced agent | a leased agent is one turn's and is not disposed of; all are disposed of in the end |
| agent runners (`codex/`, `claude/`, `opencode/`, `cursor/`) | a child process, requests with time limits, callbacks | a turn | dying children, stops, silence, callbacks that outlast the turn | one result, nothing left behind |
| terminals (`terminalService.ts`, `headlessEmulator.ts`, `routes/terminal.ts`, `terminalRuntimeRegistry.ts`) | session, shell, restorable screen, viewers, sockets; the client's gate and buffer | spawn, run script, kill, connect, resize, restore | output during a restore, shells replaced and ended, reconnects | no output lost or hidden, remote viewers yield, the end is told |
| devices (`deviceService.ts`, `routes/devices.ts`, `useDevices.ts`) | sessions, bridge processes, the shared refresh, polling, listeners; the client's list | start, stop, watch video, refresh, subscribe | joined refreshes, dying bridges, devices that come and go, answers against snapshots | no process without a session nor session without its process, the list catches up |
| editor panes (`editorGroups.ts`, `editorColumns.ts`, `WorkspacePageContent.tsx`) | panes, focus, layout; tabs listed by hooks | open, select, close, drag, split, resize; effects | effects that run later than the handlers | each tab in one pane, once; the focus on a visible pane |
| files in the editor (`useWorkspaceFileEditor.ts`, `CodeEditorPanel.tsx`) | tabs, one a preview; per file saved and draft text, flags, errors | open, select, pin, close, type, save, retry, leave | answers after the user went on, failures | no text or tab lost, no spinner without a request |
| caches, run state machine, chat timeline, git and file access, reviews, settings, models, logs, desktop shell, simulator bridge program, shared types | lookups, derived or rendered data, operating-system state | I/O, rendering | outside this project | section 8 |

How they interact: the web client calls the API; the API changes rows and the run slot and emits events;
the event hub persists events one at a time per thread and hands them to streams, automations and the
reconciliation; runs end in a `finally` that frees the slot and wakes the draft dispatcher; automations
create threads and send their prompts as any client does; runners make the callbacks of `runAssistant`;
the file watcher, scripts, terminals and devices have channels of their own. PROJECT.json lists the
components with their status, and the hazards with their lines and the properties that cover them.

## 2. Modules

| module | what it is |
|---|---|
| `ThreadRun` | the run slot of a thread: every endpoint that reserves, schedules, stops, reconciles or settles, the assistant run and its callbacks, the event chain |
| `DraftQueue` | the draft queue, composed with ThreadRun: its actions are those of ThreadRun, three of which also wake the dispatcher, and its own |
| `EventStream` | event hub, SSE route, EventSource and the client's state of one thread |
| `EventLedger` | what the event stream promises: a ledger that grows at its end, and readers that are shown prefixes of it. `EventStream` implements it (`ImplementsLedger`) |
| `LiveStatus` | the git status of a worktree from the file watcher to the clients |
| `FileEditor` | the files a user edits |
| `Worktrees` | one worktree: row, directory, provisioning, removals, recovery |
| `AgentPool` | leases of Cursor agents |
| `Terminals` | one terminal session with its shells, screen, viewers and clients |
| `DeviceStreams` | devices, their sessions and bridges, and the clients that list them |
| `Automation` | the runs of one automation |
| `Recurrence` | the slots of a rule on the clocks of a time zone |
| `CodexTurn` | one turn of the Codex runner |
| `SetupStream` | streams of set-up scripts of one worktree |
| `EditorGroups` | the panes of the editor |
| `ThreadStatus` | the statuses derived from a thread's events, and the badge of a worktree |
| `ThreadRunProofs`, `DraftQueueProofs`, `EventStreamProofs`, `AgentPoolProofs` | inductive invariants and theorems of these modules |
| `StreamsProofs` | those of LiveStatus and FileEditor, and theorems of the instance `MCStreams` |
| `ServicesProofs` | those of Worktrees, DeviceStreams and Terminals, and theorems of the instance `MCServices` |
| `AutomationProofs`, `WorkspaceProofs` | those of Automation, and of EditorGroups and ThreadStatus; theorems of the instance `MCWorkspace` |
| `MCThreadRun`, `MCDraftQueue` | instances of the chat modules |
| `MCStreams` | EventStream, LiveStatus and FileEditor side by side |
| `MCServices` | Worktrees, AgentPool, Terminals and DeviceStreams side by side |
| `MCWorkspace`, with `MCAutomation` and `MCRecurrence` | Automation, Recurrence, CodexTurn, SetupStream, EditorGroups and ThreadStatus side by side |

The three modules that put components *side by side* hold components without shared state. There the
component that moves first is the only one to move: every other one must be in its initial state. So one
run goes through the states of each component on its own, not through their product, and a component's
properties are checked of all its behaviours. A component at rest has nothing enabled that fairness is
about. Where a component has many initial states, its MC module says which ones begin.

Conventions: a variable named in the tables below stands for the field of the code beside it; variables
marked *history* are read by properties only; every constant `Max...` is a bound; an operator called a
mutant is a plausible error in the code, used to show that a property can fail.

### ThreadRun

| variable | code |
|---|---|
| `run` | `threadRuns.get(threadId)`: status, timer, abort controller, `startedAtMs` (as the number of events stamped before it), tool ids, `queueHandoffPending` |
| `pc`, `held` | where each API call awaits and what it remembers: the thread row as loaded, the plan, the slot seen by the reconciliation |
| `job`, `aborted`, `did` | each assistant run's phase, whether its controller was aborted, the callbacks it has made |
| `gate` | `pendingPermissionsByThread`, `pendingQuestionsByThread` |
| `plan` | the pending plan of the thread row |
| `chain`, `log` | events emitted but not persisted; of the persisted ones the count, the last and the plan still open |
| `closings` | history: terminal events per turn |

An element of `Calls` names an API call and the run it schedules. `Op` says which endpoint it uses.
Refusals are actions too. Abstractions:

- permissions and questions are one kind of gate; `waiting_permission` and `waiting_question` are `waiting_gate`;
- each runner makes each kind of callback at most once, in any order, also after it was aborted;
- a handed-off plan runs on another thread, of which only the phase `elsewhere` is seen;
- persisting an event is one step; a database write and the emission that follows it are one step: the
  stored message, and the plan that approve, revise and dismiss take off the row (the window to what
  comes next stays, as the wait for the chain);
- post-completion metadata may follow any closed run;
- `SameMs` lets a start time and an event's time tie to the millisecond, the resolution of `Date.now()`;
- which writes fail is chosen by `Faults`.

### DraftQueue

`queue`, `st`, `asked` are the table (order of `seq`, status, order of `dispatchRequestedAt`), `canceled` is
`canceledQueuedDispatchIds`, `disp` the dispatcher in flight with the draft it holds, `hand` the
`maybeRequestQueuedHandoff` of each run, `sent` a history count of user messages per draft. The text of a
draft, its attachments and the editing of it are left out. A dispatcher's failure shows as one action
with the step at which it happens. A call that awaits a dispatcher returns when that is idle.
Equal timestamps of requests are not modelled: `asked` orders them.
`watch` is a client that reads the thread's status again and again: the web client does so whenever the
workspace stream tells it of the thread (`useWorkspaceSyncStream.ts`), and every such read wakes the
dispatcher.

### EventStream and EventLedger

| variable | code |
|---|---|
| `emitted`, `queue`, `hub`, `event`, `nextIdx` | calls of `emit`, the thread's dispatch queue, what its head does and with which number, `ThreadState.nextIdx`, which a restart loses |
| `db` | the `ChatEvent` rows, by number |
| `sub`, `wire` | the route's side of a connection (subscribed, reading the history, buffering, live), and what it has written |
| `source`, `tab` | the EventSource with its reconnection attempts; the client's cursor (`lastEventIdx`), its buffer of a frame and what it shows |
| `resync`, `timeline` | fetches of a whole snapshot, of which one is in flight at a time |

The abstract `ledger` is `db`, the abstract `view[r]` what `tab[r]` shows. Of an event only its number
counts. A unique-number conflict and the retry are one step; a failing write rejects its call.

### LiveStatus

`changes` counts the changes of the worktree, and a status is the number of the change it shows last.
`batch` is the watcher's pending flush, `cached`, `query`, `inFlight` the cache in front of `git status`,
`channel` the resource channel (its fetch, next number and replay buffer), `feed` and `socket` the runtime's
side of a subscription, `viewer` the client's. One resource of the socket stands for all: the others follow
the same route with other data. Changes the watcher ignores are not changes.

### FileEditor

`viewed` is the active file of the search parameters, `fileTabs` and `fileState` are the two maps of the
hook, `loads` and `saves` the requests in flight with what they read or write, `disk` the files. The
effects that follow a change of the active file are part of the action that changes it (`Turn`): React runs
them before the next event of the user. `newest`, `exposed` and `stranded` are history: the text the user
typed last, and the files for which a known deviation (section 7) has happened.

### Worktrees

`row` is the `Worktree` row (with its absence before creation and after removal), `disk` the directory,
`provision` the provisioning job, `removal` each remover (the background job and deletions of the
repository), `deleter` the requests, `recovery` the two recoveries at start-up; a restart stops everything
in progress wherever it is. `torn` is history.

### AgentPool

`pool` is `pooledCursorSdkAgentsByAgentId`, `agentId`, `busy`, `armed`, `disposed` the entries' fields,
`turn` the attempt of each turn. `leaked` is history: the agent of an attempt that failed between the
lease and the `try` that gives it back.

### Terminals

One session: `session`, `shell`, `started` (the map entry and the processes), `listeners`,
`exitListeners`, `viewers`, `sizedBy`; `line` and `pipe` are a socket's two halves, with the restoring
payload and the gate that holds output back while it is prepared; `client` is the registry's runtime of the
client, with what is on its screen. Output is a sequence of numbered chunks, a screen the set of the chunks
painted on it. `miscounted` is history.

### DeviceStreams

`sessions` is `streamSessions` (a session is named by the request that started it), `bridge` the simulator
bridge processes, `attached` the video clients, `refresh` is `refreshPromise` (what it has listed, and
whether one of its callers will emit the result), `remembered` the phones kept over a short absence, `polling`
the timer. `watcher`, `wire`, `due`, `answers`, `listed` are the event streams, what is on its way on them,
the answers of requests, and what each client shows; `strays` are streams whose client left before it was
listened to. Grace periods are choices; the client's fetch that precedes each stream is left out, as the
stream begins with a snapshot too. Bound: the clients in `Requesters` start and stop streams.

### Automation and Recurrence

In `Automation` time counts slots of the schedule; `schedule`, `runs`, `bindings` are the rows and
`threadBindingsByRunId`, `jobs` the calls in progress, `threads` the threads created for runs, `updates` the
handlers of thread events that have yet to write, `boot` the start-up. `OrderedWrites`, `LateThreads` and
`EarlyCalls` name how the environment behaves (section 5). In `Recurrence` time is real: instants, civil
times and offsets are integers in a unit that divides the hour and the offset. `rule`, `zone`, `next` are
the automation's fields, and a pass collects what is due as `collectDueOccurrences` does.

### CodexTurn, SetupStream

`CodexTurn`: `step` is where the runner awaits, `request` and `timer` its time limits, `agent` and `turn`
the child as it sees itself, `outcome` is `completed` and `completionError`, `calls` the callbacks, which are
not awaited. Lines that arrive together are handled before any promise continues. `SetupStream`: `entry` is
the map entry all streams of a worktree share (its process and its emitter can belong to different streams),
`script` and `audience` the process and the client of each stream.

### EditorGroups, ThreadStatus

`editor` is `EditorGroupsState`; `source`, `selection`, `explorer`, `closing` are what the page keeps beside
it, `changed` what the two effects have yet to react to. `ThreadStatus` has a log that grows in every way the
runtime may write it, and the walks of `chatThreadStatus.ts` and `worktreeThreadStatus.ts` as operators that
are compared with a reading of the log by quantifiers.

## 3. Runs

| run | instance | shows |
|---|---|---|
| `serial` | send, approve, revise, dismiss, hand off, snapshot, one after the other in every order; runs with plans, failing commits and revisions | runs do not overlap and no turn is dropped (`TurnsKeepApart`); a plan is settled once (`PlanSettledOnce`) |
| `closes` | send, stop, send, one after the other; text, tools, crashing runners, failing commits | every turn closes (`EveryTurnCloses`), the slot is freed (`SlotIsFreed`) |
| `stop` | send, stop, send, snapshot, two overlapping; gates, metadata, failing commits and rereads, ties | types (`TypeOK`); the slot has an owner that can be stopped (`SlotOwned`); `TurnClosedOnce`; a quiet thread is idle (`IdleWhenQuiet`) |
| `gate` | send, send, resolve, resolve, two overlapping; gates, plans, crashing runners, failing commits, ties | of two messages that overlap one is let in (`TurnsKeepApart`); no pending request without a run (`GateHasRun`) |
| `late_close` | send, stop, send, send | **violated**: a stopped run's late `chat.completed` frees the next run's slot |
| `drafts` | two drafts, request, cancel, two overlapping; failures at every step of a dispatch | no draft stays `dispatching` with nobody at work on it and the table is consistent (`DraftsAreHandled`), oldest first (`OldestFirst`) |
| `draft_now` | three drafts queued while runs are at work, a request, a watcher | every draft is sent (`EveryDraftSent`), also one whose wake-up is lost on a dispatcher about to return |
| `draft_stop` | send, draft, request, stop, delete; runs with tools that go on after an abort, failing dispatches | a draft becomes one message, and no step but those named disarms its run in silence (`DraftBecomesOneTurn`); a run yields only to a requested draft (`YieldsToRequestOnly`) |
| `streams` | one reader, three events, a lost connection, a restart, a snapshot; one viewer, two changes, a replay buffer of one, a failure, a restart; two files, two texts, four requests, one failing | types (`StreamsTypeOK`); what a client shows is a prefix of the log (`ImplementsLedger`), taken in order (`AcceptedInOrder`), without gaps behind it (`NothingIsSkipped`), and in the end all of it (`EveryEventArrives`); the status catches up (`StatusCatchesUp`); text, tabs and spinners of an editor (`FilesAreTended`) |
| `services` | two deletion requests, a deletion of the repository, a restart; three turns (one outside the pool), two agents, two ids; two clients (one remote), two shells; a simulator, a phone, two clients, two starts | types (`ServicesTypeOK`); `UsableHasDirectory`, `TransitionsSettle`; `LeasesAreSound`, `AgentsAreDisposed`; `NoOutputLost`, `RemoteYields`, `EndIsTold`; `DevicesAreSound`, `DevicesCatchUp` |
| `workspace` | two passes or one with a call by hand, two slots, an edit, a restart; all rules on five zones; a turn with three callbacks; three streams, two shells; two chats and a file in three columns; logs of four events, lists of three threads | `SlotsRecordedOnce`, `RunsAndThreadsAgree`, `EveryRunSettles`; `SlotsMatchRule`; `TurnCleansUp`; `EveryScriptStreamEnds`; `PanesAreSound`; `StatusesMatchLog` |
| `stuck_schedule` | the rules and zones of `workspace` | **violated**: an hourly rule where clocks are put forward runs into the limit of a pass (`NeverExceeds`) |

The two violated runs are findings, listed with the line they contradict.

## 4. Bounds

- *Chat.* Three to six calls, of which `MaxOpen` overlap, give two runs that overlap with a third and an
  observer, which every scenario found needs (the longest, `late_close`, needs four). In `gate` two messages meet in every
  order; a third call that reconciles (a status poll, a dismissal, a third message) breaks both of its properties
  (section 7), so their overlap is bounded to these two. A lost wake-up needs a run at work and two drafts behind
  it, hence three in `draft_now`, whose runs use no tools. More calls repeat these overlaps; for slot ownership, closings, idleness, serial use and the drafts the theorems remove the
  bound (`YieldsToRequestOnly` and liveness keep it).
- *EventStream.* Readers share only the hub, so one reader meets everything the route and the client do. Three
  events are one before, one during and one after the history is read; one drop and one restart suffice for a
  cursor from before, and with a snapshot for one that the stream did not set.
- *LiveStatus.* Two changes: one under way while the other is read. A buffer of one makes each resumption either
  current or too late. Two computations are the one in the cache's promise and one that was invalidated.
- *FileEditor.* A file in view and another; a request that is late and one that is newer, for each.
- *Worktrees.* Two requests for the one job they share, one removal without a mark, and one restart at every step.
- *AgentPool.* A lease, a second one of the same id, and one outside the pool, each with one retry; the theorems remove the
  bound for safety.
- *Terminals.* A behaviour has one client and two shells, or two clients at the second shell.
- *DeviceStreams.* Two starts that overlap; or one start, with a device that comes or goes or a connection that breaks.
  Two clients are the one that leaves and the one that stays.
- *Automation.* Overlapping passes, an edit and a restart; or a call by hand with a restart or a second slot. The
  theorems remove the bounds, and the order of the handlers' writes (`OrderedWrites`).
- *Recurrence.* A day of four hours and a week of two days keep every remainder and carry of the rules; the
  zones change forward and back, east and west, by one hour, one of them at midnight; creations are at every
  instant around the changes, passes a few slots or days apart.
- *CodexTurn, SetupStream, EditorGroups, ThreadStatus.* Three streams are a first, its successor and the one that
  meets the remains of both; three columns are needed for a middle one, a window of three in logs
  of four has something beyond it. The theorems remove the bounds of the panes, of the logs and of the window.

`CHECK_DEADLOCK FALSE` everywhere: when all calls have returned and all bounds are used up the system rests.

## 5. Fairness

Weak fairness only, of what Node and the operating system do by themselves: promises that are settled
resume, timers fire, queues drain, queries and commands with time limits end, frames on a connection that lasts
arrive. Nothing forces a user, a client, a shell or an agent to act. Assumed of the environment beyond that:

- a runner returns in the end unless it waits for the user (`End` of ThreadRun), and a turn of Codex that has
  given a sign of life ends; a silent one meets the limit of the first signal;
- a watching client keeps watching (`draft_now`);
- the turn of an automation's thread ends, and the handlers of its events write in the order of the events
  (`OrderedWrites`; other orders are known deviations);
- a script that was sent a signal ends.

Liveness has the form `[]<>`: again and again the state is as it should be. Exceptions are stated in the
property: an event stream that has given up reconnecting, a viewer that was told of an error or resumes with a
number from before a restart, an agent whose lease was lost when its announcement failed, an automation
after a restart or with metadata after the end of a turn.

## 6. Proofs

Every theorem below is checked by TLAPS for every value of the constants its hypotheses admit. The proofs
assume the constants' `ASSUME`s, which state types only; TLC evaluates them on the runs of their modules. Each
proof has an inductive invariant, which TLC checked on the instance of the run before it was proved, and one
preservation lemma per action or group of actions.

### Turns (`ThreadRunProofs`)

For every set of calls, every overlap and all fault sets:

- `TypeCorrect`: `TypeOK`;
- `SlotAlwaysOwned`: an armed timer is the slot's, a controller in the slot belongs to an unfinished run;
- `TurnsClosedOnce`: at most one terminal event per turn, exactly one for a run that is over;
- `QuietThreadIsIdle`: a thread without calls in flight and runs at work is idle, provided revisePlan's
  writes do not fail (`"revise" \notin Faults`): revisePlan does leave its reservation behind, so without
  the assumption the statement is false.

The inductive invariant `IInv` is type correctness together with
`SlotInv` (an idle slot is empty; a call's job is fresh until its turn starts; timers are owned;
a reserved slot has a call that will schedule or give it back) and
`ClosingInv` (the terminal event of a turn is in the chain at most once, only while its run is closing or
its stop is in flight, and never both in the chain and in the log). `SlotOwned` alone is not inductive: that
scheduling does not arm a second timer needs the freshness of jobs, and that the finally block does not clear
another run's timer needs that a controller and a timer exclude each other.

For a client that waits for each answer and stops nothing (`SerialUse`: `MaxOpen = 1`, no call is a stop,
`"reread" \notin Faults`), with every other endpoint, callback and fault:

- `TurnsStayApart`: `TurnsKeepApart`; `GatesHaveRuns`: `GateHasRun`;
- `PlansSettleOnce`: `PlanSettledOnce`, of runners that wait for the callbacks they have made
  (`PatientRunners`: `"crash" \notin Acts`).

Each hypothesis is what the code needs. Overlapping approvals, a stop (run `late_close`) and a failing re-read of a
message each break `TurnsKeepApart` (section 7); a runner that dies after `plan.created` is persisted can
write back a plan that the client has meanwhile recovered from the log and settled, which TLC shows. What carries
these proofs is that the reconciliation clears nobody else's run: `SerialInv` says that a run at work, one that is
closing and one that waits for the user each own the slot, and that while the slot's run is owed its terminal event the
log does not end with one (`NotClosedYet`); `PlanInv` says where an open plan is between the row, the log
and the calls that work on it. Of calls that overlap (run `gate`) both are checked only.

### Drafts (`DraftQueueProofs`)

The draft queue composed with `ThreadRun`, for every set of calls, overlaps, retries and failures unless said
otherwise:

- `DispatchingRowIsAtWork`: a row is `dispatching` only while the dispatcher is at work on it;
- `DraftsLeaveInOrder`: `OldestFirst`, of drafts nobody asked for;
- `MessagesAreScheduled`: a draft is stored as a message once, and then the dispatcher has it or a run has been scheduled
  for it (`MessageIsScheduled`), if no dispatch fails once the message is stored (`"draft_late" \notin Faults`): the
  `catch` at 1569 puts a draft back whose message exists. It says nothing of what becomes of the run;
- `DraftsBecomeOneTurn`: `DraftBecomesOneTurn`, the same and that no step disarms the run in silence but a
  reconciliation or a call of another turn (`TakesSlotAway`), if besides runners use no tools. Those steps do
  disarm it (section 7): the theorem says that nothing else does, neither the `finally` of an earlier run nor the
  dispatcher nor a hand-off;
- `QuietThreadHandsOver`: `DraftsAreHandled`, if runners use no tools and the writes of a revision do not fail.

The invariant has four parts. `DraftInv` is about the rows: types, the order of the queue (`RowsInv`, `OrderInv`) and where the
dispatcher stands with the draft it holds (`DispInv`). `SentInv` counts the messages of a draft: none before its dispatch stores
one, and its row does not outlive it. `OwnersInv` is what remains of the slot's ownership beside a dispatcher: `SlotOwned`
says that an armed timer *is* the slot's, which is false here, as a dispatch overwrites a slot that a message
has taken meanwhile (1527, 1549). What idleness needs is the other half: a reserved slot has a call or the
dispatcher to schedule it or give it back, a scheduled one a job, and a job that is fresh has not started (`SlotHasHolder`,
`SlotHasJob`, `FreshTurn`). `ArmedInv` is the last part: a slot
with a timer has no controller (`TimerWithoutRun`), so that a run that clears its own slot disarms nobody; a dispatcher
at work finds no draft armed in the slot (`OneArmedDraft`); and a draft's own call schedules nothing.

The hypothesis on tools is what the code needs: `maybeRequestQueuedHandoff` (1626-1645) keeps the entry it read
over an `await` and writes it back, also when the run has ended meanwhile and the next has begun (section 7).

### Event stream (`EventStreamProofs`)

For any readers, events, lost connections, restarts of the runtime and snapshots:

- `EventsAreAcceptedInOrder`: `AcceptedInOrder`; `CursorIsAlwaysShown`: no gap behind a client's cursor;
- `StreamImplementsLedger`: `ImplementsLedger`, the refinement of `EventLedger`, initial state and every step;
- `StreamTypesHold`: types.

`StreamInv` relates four things nobody holds together: the numbers of the hub (`HubInv`: they grow, also over a retry
and a restart), what a client shows (`TabInv`: the stored events up to its cursor), what a connection has buffered while
the history is read (`SetupInv`: history, buffer and the event being delivered hold all that is newer than where it
resumes) and what is on the wire (`LiveConnectionInv`: the same, of a live connection). The last part is
`AheadOfStream`: where the cursor is ahead of the stream a snapshot has brought the events, so that what the stream
repeats is known and is dropped. The refinement follows because a step of the client adds the next stored events
at the end of what is shown in order.

### Live status, files (`StreamsProofs`)

- `LiveStatusHolds`: types and `NoEventLost`, for any viewers, changes, queries and every size of the replay
  buffer. `LiveInv` adds that numbers in the replay buffer are consecutive and end with the channel's latest, so that a
  resumption either finds all it missed or takes a snapshot.
- `FilesHold`: `FilesAreTended`, for any files, texts and requests in flight. `FileInv` adds that a text in a load or save
  in flight is the last one typed unless the file is exposed (`EditInv`), and that the effect owns requests for
  the file in view only (`RequestInv`).
- `StreamsTypesHold`, `NothingIsEverSkipped`, `FilesAreAlwaysTended`: the same of the three components beside each other,
  as the run `streams` has them.

### Services (`AgentPoolProofs`, `ServicesProofs`)

- `PoolTypes`, `NoLeaseIsDisposed`, `LeasesStayExclusive`, `LeasesStaySound`: for every number of turns, attempts, agents
  and ids a leased agent is one turn's and is not disposed of. `PoolInv` adds that a leased agent is open and busy
  (`LeasedIsBusy`), that idle timers run for idle open agents only (`TimersAreIdle`), that what was disposed of had been
  opened, and that an agent outside the pool is nowhere in it (`EphemeralNotPooled`). Without the second the timer of an
  earlier lease could dispose of an agent that is leased again.
- `WorktreesHold`: `UsableHasDirectory`, for any requests, removals and restarts. `WorktreeInv` adds that a
  directory that is about to be used is kept or being removed (`DirectoryIsKept`), and that a removal sweeps the
  directory after the row is gone (`RowGoesFirst`).
- `DevicesHold`: `DevicesAreSound`, for any devices, clients, overlapping starts, joined refreshes and failures.
  `AloneIsFirst` is the part it needs most: those made before a request that found its device free have no session and
  will have none.
- `TerminalsHold`: `NoOutputLost`, for any clients, shells, output and lost connections. `NothingMissed` says of every chunk
  of the present shell where it is: shown, held back, in the pipe, or part of the screen that is yet to be sent;
  `Connected` that a screen is sent once per connection.
- `RemoteClientsYield`: the action property `RemoteYields`; `CountInv` says that the count of viewers is the cardinality of
  the set of those connected until a socket is counted twice (`miscounted`, section 7).
- `ServicesHold`, `RemoteClientsYieldThere`: all of this of the four services beside each other, as the run `services` has them.
  Hypothesis: `MaxShells # 0`, as that instance starts some behaviours with a first shell that has ended.

### Automations (`AutomationProofs`)

For any passes that overlap, calls by hand, edits, failures, threads and restarts:

- `SlotsAreRecordedOnce`: `SlotsRecordedOnce`. `SlotInv` is the argument: a claim is never about a slot behind the one its
  pass read nor, if the automation is still as the pass read it, ahead of the schedule; so the rows it adds fill the gap
  between the schedule and the moment of the pass, one each.
- `RunsKeepToThreads`: `RunsAndThreadsAgree`, in every order of the handlers' writes. The inductive invariant `AutoInv` adds
  that a run is dispatched by one call at a time and none of its threads has spoken before that call sends the prompt
  (`DispatchInv`); that an update which settles a run comes from a thread that is over, and a thread at work has an
  active run (`EventInv`); that at most one scheduled run is *engaged*, which is to have a thread at work or to
  be on the way to one (`OneEngaged`; a run which a restart cut off from its thread stays active but is not
  engaged, so that activity alone would not do); and that what the startup has yet to recover is active and
  nobody's (`StartupInv`).
- `SlotsAreRecordedOnceThere`, `RunsKeepToThreadsThere`: the same of the run `workspace`, with its initial states.

`RunsKeepToThreads` has two hypotheses, `~EarlyCalls` and `"stamp" \notin FailingSteps`: no call by hand comes before the
startup is over, and the write of `lastRunAt` after the prompt does not fail. TLC breaks the property without either
(section 7). The slots need neither.

### Panes and statuses (`WorkspaceProofs`)

For any tabs, any number of columns from two, any log that the runtime can write, any window of it and any list of
threads, with no other hypothesis:

- `PanesStaySound`: `PanesAreSound`, in every order of the user's handlers, the hooks and the effects;
- `StatusesStayTrue`: `StatusesMatchLog`, that each walk over the events arrives at what the log says, the client differs
  from the runtime on its window only in the cases that `ClientAgrees` names, and the badge is that of the most
  urgent thread;
- `PanesStaySoundThere`, `StatusesStayTrueThere`: the same of the run `workspace`.

`EditorInv` splits what is claimed in two. `Fit` is what each reducer leaves intact on its way: each tab in one pane, once, and
an active tab that is the pane's own. `Trim` is what `compactEditorColumns` restores in the end: columns with tabs first,
the focus on one that is shown, the layout that fits. So there is one lemma on compaction, one on each of the ways in which a pane
changes (a tab taken out, put in, new ones joined, others filtered), and one on the reconciliation: after it the panes
hold what the hooks list. The panes need not be packed for compaction, only for the reducers to find their column.

Of the statuses the inductive invariant is small: what is in the log are events, and of the threads of a list no two are
of the same time. The work is in the walks, which are folds. `FoldExists` shows, from a minimal counterexample, that
the function by which the community module defines a fold exists, and `FoldWalks` reads it off place by place:
what is after the first k events, and what the next one makes of it. `PendingWalk`, `RunningWalk`, `PlanWalk` and
`BadgeWalk` say so of each walk, and `Throughout` carries a fact about one place to the next. From that
`PendingMeans`, `RunningMeans`, `PlanMeans` and `BadgeMeans` say what a walk arrives at in terms of the log alone: a request
is pending that was asked and not answered after that, and so on. `ClientAgreesAlways` rests on `TurnInWindow`: a
turn that ended within the window is the same turn in the runtime and in the client.

### Only model-checked

- Liveness, which is out of the prover's reach with `ENABLED`.
- `GateHasRun` and `TurnsKeepApart` of overlapping calls; `YieldsToRequestOnly`, which depends on the calls: where a message
  or a snapshot meets the dispatch (983, 1527/1549) a run is cut short that nobody asked to yield.
- `SlotsMatchRule` of Recurrence, which compares a search through local dates, offsets and rules with a definition by
  quantifiers: it needs divisions and remainders by constants that are parameters, which the provers do not
  find, and a bound on how a zone may change that the code takes from `Intl`.

The library's induction theorems cannot be instantiated here. Where a fact needs induction (a finite set of numbers has
one ascending sequence, `EventStreamProofs` and `WorkspaceProofs`; a set of numbers with a bound has a greatest
one, `AutomationProofs`; the walks of `WorkspaceProofs`) it is proved from a minimal counterexample instead.

## 7. Known deviations

What the code does and the properties therefore leave out, beside the two findings. Each was met in a run or in
reading the code for the model.

Chat turns and drafts

- `planExecution.ts:35`: two overlapping approvals of one plan both execute it; `PlanSettledOnce` is checked of
  answers that follow each other.
- `chatService.ts:3691`: a failing read after scheduling clears a live run's slot; `TurnsKeepApart` is checked without it.
- 983-997: with two messages and a third call that reconciles, overlapping, TLC finds a reconciliation that saw the slot
  before its `await` clear the timer or the run that another message has put there meanwhile: a turn is dropped,
  or a request is left whose run has lost the slot.
- With drafts even a client that waits can lose a turn: a status read takes the terminal event of the ending run,
  the run's `finally` lets the dispatcher schedule the next one, and the reconciliation then clears that one's timer.
  The draft's message stays in the thread, its row gone, without a run. `DraftBecomesOneTurn` excepts these steps by
  name (`TakesSlotAway`).
- An aborted run whose slot was reconciled away can still open a request (`GateHasRun` is checked without stops);
  the hand-off's stale write-back (1640) can revive a finished run's entry until the next reconciliation
  (`SlotOwned` of the composed system is not checked with stops). With send, stop, send, a draft and a request for it, one
  after the other, TLC finds the entry revived after the second run has ended: the slot stays `scheduled` with neither
  a timer nor a controller, and the requested draft waits for a reconciliation.
- 1520: a wake-up that joins a dispatcher about to return is lost, and a draft stays until a client reads the
  thread, as TLC shows of `draft_now` without its watcher (compare `chatService.queue.test.ts:345`). 1527/1549: a message sent while a draft is dispatched has its
  slot overwritten. 1290/1299 against 1530/1537: a draft whose cancellation succeeded can still be sent
  (compare `chatService.queue.test.ts:955`).
- 3772: `recoverStuckThreads` runs after the server listens and may end a turn that has just begun.

Streams

- `eventHub.ts:218`: `list` answers with an empty history when the database reports an unknown error.
- `workspaceLiveSocket.ts:271`: an attach that fails cleans up by key, also the newer subscription of that key.
- `useChatSession.ts` restores a stale list of threads when an optimistic change fails (not modelled).

Automations

- `automationService.ts:1328`: a run that was bound to its thread before its prompt was sent stays active after a
  restart; later slots are missed for it ("another automation run was still active", line 92).
- 1317 with `index.ts:528`: the runtime listens before its recovery has read the active runs. A run asked for by hand
  in between is taken for one that a restart interrupted: it is dispatched a second time, beside the call that
  is dispatching it, or listened to after that call has failed.
- 826: a failing write of `lastRunAt` after the prompt was sent marks the run failed while its thread works, and the
  next slot is run beside it.
- 650: metadata after `chat.completed` can set a finished run back to running, if its write lands last.
- `Recurrence` reads the hours of `Intl.DateTimeFormat` as 0 to 23.

Worktrees, scripts, agents, terminals, devices

- `worktreeDeletionService.ts:146`: a deletion accepted while the creation works can leave a directory without a row.
- `scriptStreamService.ts:85`: a third stream can leave the second's script running, with nothing to stop it by.
- `codex/sessionRunner.ts`: `turn/completed` before the answer to `turn/start` is reported as a failure; a stop before
  the listener is set (1557) is lost.
- `routes/terminal.ts:303`: a socket that reports an error and closes is taken off the viewers twice, and a failed
  spawn never; `kill` forgets the other clients of a session, which then hear nothing.
- `deviceService.ts:1188`: two overlapping starts of a device make two sessions, for a simulator with two bridges;
  two overlapping first starts of phones may spawn two sidecars and keep the wrong one (953-1026, not modelled).
- `routes/devices.ts:465`: a client gone before its first snapshot leaves a listener, a keep-alive timer and the polling.

Web client

- `WorkspacePageContent.tsx:4641`: `handleCloseGroupTab` computes from the rendered panes and overwrites a change that is
  queued.
- `useWorkspaceFileEditor.ts`: text typed while a save or load of its file is in flight is replaced by the answer
  (987). A file that is left while it loads keeps its spinner (469). A failed save hides the editor behind an error
  whose retry marks the file unloaded without loading it (917), so that its changes are no longer noticed. An
  answer recreates the state of a closed tab. A save overwrites what an agent wrote to the file meanwhile.

## 8. Not modelled

- Claude, OpenCode and Cursor runners: they convert messages of their libraries; what they do to a thread is the
  callbacks of `ThreadRun`. `CodexTurn` is the one with a process and time limits of its own.
- `useChatSession.ts`, the composer, dialogs and pages of the web client: rendering and request wrappers around
  what `EventStream`, `DraftQueue` and `ThreadRun` model; their optimistic lists have no protocol.
- `IosSimulatorViewer.tsx`, the simulator bridge, controls and clipboards of devices: decoding and input events.
- Timeline assembly: a layout of events. The run state machine of `orchestrator-core`: a table nobody uses.
- Caches of the runtime other than that of `git status`; settings, models, logs, reviews, files and git commands:
  reads and writes of single rows or calls of other programs.
- Database migrations and readiness, which precede everything; the desktop shell, which starts the runtime.
- Thread creation, naming and deletion, attachments, paging of older events, automations on save.

## 9. Plan

1. Proofs: `SlotsMatchRule`, once the zones that the code relies on are stated as an assumption.
2. `SlotOwned` of the composed `DraftQueue` without stops and without drafts that race with messages.
3. Models: the optimistic thread list of `useChatSession.ts`; the terminal tabs of the page; the sidecar of the phones.
