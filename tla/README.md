# TLA+ models of sonderr

sonderr is a coding agent. A *session* holds a conversation; clients (a terminal UI, editor
extensions, an HTTP API) put prompts into it, a *runner* works them off by asking a language model
and executing the tools it calls, and everything that happens is a durable event in a SQLite
database. Two generations of this live side by side in the repository: `packages/core` (events,
inbox, coordinator, permissions: "V2") and `packages/cli` (the V1 loop with its run state).

The modules here are translated from that code. They concentrate on what is concurrent, durable or
both: who executes a session and when, what is written in which order, who is left waiting. Source
paths below are relative to `src/packages/`. `PROJECT.json` maps each definition to the lines it
stands for and lists the hazards in the code, each with the properties that would catch it or with the
reason why none does.

Contents: 1 the system; 2 modules and code; 3 what the runs show; 4 fairness; 5 what is proved;
6 findings and exempt races; 7 what is not modelled; 8 plan.

## 1. The system

| part | state | operations | with whom |
|---|---|---|---|
| run coordinator, `core/src/session/run-coordinator.ts` | a Map of one entry per active session (owner fiber, `done`, `pendingWake`, `stopping`) | `run`, `wake`, `interrupt`; `settle` in the owner's exit | wakes come from prompts, its `drain` is the runner loop |
| event log, `core/src/event.ts` | `EventTable`, `EventSequenceTable` (last sequence, owner), projections, wake-up pubsubs | `publish`, `replay`, `replayAll`, `claim`, `remove`, `durable` streams | every durable change of a session is one of its events; workspaces replay each other's |
| session inbox, `core/src/session/input.ts`, `revert.ts` | `SessionInputTable`, `SessionMessageTable`, the session's staged revert | `prompt`, `admit`, `promoteSteers`, `promoteNextQueued`; `stage`, `clear`, `commit` | projectors run in the event log's transaction; the runner promotes |
| runner loop, `core/src/session/runner/llm.ts` | its locals: promotion, cutoff, step | `run`: promote, ask, continue, until nothing is left | drains what the coordinator starts it for |
| background jobs, `core/src/background-job.ts` | a registry of generations, each with a scope, deferreds and a count of runs | `start`, `extend`, `promote`, `cancel`, `wait`, `waitForPromotion` | tools that outlive their turn |
| file lock, `core/src/util/flock.ts`, `effect-flock.ts` | a lock directory with heartbeat and `meta.json`, a breaker directory | acquire, release, stale detection and removal | processes of one host |
| CLI run state, `cli/src/session/run-state.ts`, `cli/src/effect/runner.ts` | a Map of one runner per session, each Idle, Running, Shell or ShellThenRun | `ensureRunning`, `startShell`, `cancel`, `assertNotBusy` | the V1 prompt loop, shells, reverts |
| permissions, `core/src/permission.ts`, `permission/saved.ts` | a Map of pending requests, saved approvals | `ask`, `assert`, `reply` | tools wait in it for the user |
| workspace sync, `cli/src/control-plane/workspace.ts` | one sync loop per remote workspace, the session's workspace, the owner of its log | connect, ask for history, replay it, follow live events; warp a session from one workspace to another | replays into the event log, claims it, sends it on |
| turn publisher, `core/src/session/runner/publish-llm-event.ts` and the turn in `llm.ts` | flags of a step and of its tool calls, the fibers of the tools | provider events and tool results to durable events; settling and ending a step; recovery of open calls | inside one step of the runner loop |
| instances, `cli/src/project/instance-store.ts`, `cli/src/effect/instance-state.ts` | a Map of one entry per directory, services' state per directory | load, reload, dispose, disposeDirectory, disposeAll | everything the CLI does in a directory |
| context epochs, compaction, move | the epoch of a context | what a request is built from | inside the runner loop |
| MCP, LSP, PTY, worktrees, snapshots, indexing, UI, gateways, providers | processes, caches, presentation | mostly I/O | see section 7 |

What is hard, by part, and what makes the part correct:

- **Coordinator.** `settle` runs in the exit of the very fiber it replaces, and callers join `done`
  or interrupt the fiber from outside. Correct: at most one execution of a session at a time; a
  wake is lost only to an explicit interrupt; a joiner's success covers the wakes before it; an
  interrupt returns only after cleanup; nobody waits on an entry no fiber will resolve.
- **Event log.** Replays bring duplicates, gaps, stale owners and die half way; subscribers are
  woken after the transaction, with coalescing. Correct: rows of an aggregate are exactly
  0..latest, projections ran once each and in that order, a claim fences every other replayer, a
  stream has no gap and no event stays behind.
- **Inbox and loop.** Clients retry ids, two clients race with one id, a revert may commit between
  the selection of an input and its promotion, wakes arrive between the loop's last reads and its
  end. Correct: the two tables agree, an accepted input is recorded as asked, inputs of one kind are
  promoted in the order of admission, none is left waiting by a drain that runs its course, and
  what was promoted is put to the model.
- **Background jobs.** Fibers of an ended generation outlive it and settle after the id was started
  again; cancel, failure and the last run race for the end. Correct: one end per generation, with
  the right output; only the current generation runs; all waiters return.
- **File lock.** Any number of contenders act on a verdict of staleness that may have become old,
  and any of them may crash in between. Correct: while a process holds the lock its directory is
  in place and its own; a crashed owner's lock is recovered.
- **Run state.** Calls interleave with the publication of a status while a lock is held, with
  interrupted callers and with runners that deregister themselves. Correct: one piece of work at a
  time, always one that `cancel` reaches; everybody who waits is answered.
- **Permissions.** Replies walk a live Map and suspend at every entry. Correct: nothing is granted
  that the rules deny, a reply settles everything it has to, whoever waits can be answered.
- **Workspace sync.** Live events are lost, overtaken or refused; history is asked for, answered and
  replayed at different moments; a warp claims, sends and steals a log that the workspace it leaves
  goes on writing. Correct: the logs of two workspaces are not mixed, a warp leaves nothing behind
  that had been received, an answer of history still fits when it is replayed, a followed session
  catches up.
- **Turn publisher.** The stream, several tool fibers, the end of the turn, an interrupt and the
  next run's recovery all settle calls; flags are set before events are stored. Correct: a recorded
  call is settled once, always before the next request; a step ends once.
- **Instances.** A reload replaces an entry at once and disposes of the old one later; a disposal
  knows an entry, its disposers only a directory. Correct: instances of a directory follow one
  another, a service's state goes with its instance and not before, everybody who waits returns.

## 2. Modules and code

Granularity: JavaScript runs one synchronous block at a time, so an action is what the code does
between two points where a fiber can suspend (an await, a deferred, a semaphore, another fiber).
Database transactions are immediate and synchronous: one action each. In `Flock`, whose actors are
processes, each file operation is an action.

**SerialExecution** (abstract). Per key a `phase` (idle, running, stopping) and whether work is
`owed`: what a coordinator promises, without entries, fibers or deferreds. `SessionDrain` uses it as
its execution; `RunCoordinator` is shown to implement it.

**RunCoordinator** models `run-coordinator.ts`. `active` is the Map, `owner`, `pendingWake`,
`stopping` are the fields of entries, `fiber` the owner fibers with the arguments of the `start` that
forked them, `call` what a caller is suspended on. `RunJoin` (await `done`, and remember whether
the entry was stopping) and `RunStart` are `run`, `WakeActive` and `WakeIdle` are `wake`, then
`Interrupt`; `Abandon` is a caller that stops waiting; `BeginDrain` is the owner after its `ready`/`yieldNow`;
`Exit` is the drain's end with all of `settle`, whose three outcomes are `Continue`, `Succeed` and
`Release`; `Resumed` is what resolving `done` does to every waiter in the same block. Entries and
fibers come from pools and are reused when nothing refers to them.

**EventLog** models the writing half of `event.ts`. `event`, `latest` and `owner` are the tables,
`applied` what projectors have run on, `writer` a fiber inside `replayAll` or between its commit and
the wake-up. `Publish`, `ReplayNew`, `ReplayStored`, `ReplayForeign` and `ReplayDies` are the outcomes
of `commitDurableEvent`; which events a replay carries is chosen when each is replayed, so a run may
contain anything of the right shape. `Crash` loses what is in memory. **DurableStream** extends it
with `durable()`: `Subscribe` registers the wake before any read, `ReadRows`, `Emit`, `TakeWake` are
the stream, `Wakes` the sliding pubsub of size one.

**SessionInbox** models `input.ts`, the projectors of its events, `prompt()` and the publications of
`revert.ts`. `input` and `message` are the two tables by primary key, `revert` the staged boundary,
`client` where each request is: `Submit`, `Find`, `Admit`, `AdmitDies`, `Recover`, `Answer` are the
steps of `prompt`; `Stage`/`Staged`, `Clear`/`Cleared`, `Commit`/`Committed`/`CommitDies` those of a
revert (what is read first, what is published then). **SessionDrain** adds the runner loop: `drain`
is where the loop of a session is, with one action per read of the inbox (`StartSteer`, `StartQueue`,
`Cutoff`, `SelectSteers`, `SelectQueued`, `AfterTurn`, `AfterTurns`), per publication
(`PublishPrompted`, `PublishDies`, `Recheck`), `Ask` (the request is built from the history), `Turn`
(the provider's turn, by an agent that has a step limit or has none: `MayContinue`), `Compact` and
`TurnFails`. `Resume`, `Begin`, `Stop`, `Wound`, `Crash` are the
execution around it, on SerialExecution. Three ghosts say what the properties are about: `due` are
the inputs whose wake nothing has voided, `unasked` what was promoted and not yet put to the model,
`voided` the inputs promoted from a row that a revert had deleted after it was selected.

**BackgroundJob** models `background-job.ts`. `current` is the registry, `gen` the records with their
deferreds and scope, `run` the fibers of each generation's runs, `caller` where a caller is between a
`SynchronizedRef.modify` and what follows it (`Fork`, `CancelResolves`, `Promoted`).

**Flock** models `flock.ts` (`effect-flock.ts` does the same operations in the same order). `dir`,
`heart`, `meta`, `breaker` are files with an age, fresh or older than `staleMs`; `proc` is the attempt
of each process. `StatHeart`, `StatMeta`, `StatDir` are `stale()`; `Try`, `Claim`, `StatBreaker`,
`RemoveTheirs`, `Remove` (one step per unlinked file), `Remake`, `Unclaim`,
`WriteHeartbeat`, `WriteMeta` the acquisition, `Release` and `ReleaseReads` the release. `Age` lets
`staleMs` pass when no process is in the middle of an attempt, so the model says nothing of a process
that is suspended for that long inside one. `strained` records what the exemptions need.

**RunState** models one session of `run-state.ts` with `effect/runner.ts` and
`cli/src/sonderr/effect/runner.ts`. `registered` is the Map's entry, `runner` the ref of each runner,
`holder` its lock held across a suspension, `call` and `work` where each call and each fiber is.
`Enter` and `LockTaken` are `ensureRunning` and `startShell` up to their suspension, `Cancel`,
`StopShell`, `Stopped`, `IdleAtLast` the cancellation, `Start`, `Opened`, `End`, `Finish`, `Published` a
fiber's life, `Abandon` the interruption of a caller. `mishaps` is history; see section 6.

**Permission** models `permission.ts` and `permission/saved.ts`. `pending` is the Map in insertion
order, `ask`, `deferred` and `reply` where each request and each reply is. `Configured`, `Evaluated`,
`Asked`, `AskFails`, `Resumes` are `ask`/`assert`; `Reply`, `Reject`, `Decline`, `Save`, `Approve`,
`List`, `Check`, `Grant` are `reply` with its two walks. An iterator of a JavaScript Map yields what
is in the Map and not passed yet: `Ahead` is the set of those positions, `First` the one that comes
next, `Without` a deletion, which moves nobody else. A resource stands for an action and a resource, a wildcard pattern for the set it
covers. Users revoke approvals, delete sessions and switch agents.

**WorkspaceSync** models the synchronisation half of `workspace.ts` with the remote handlers it calls.
`log` is each node's event table, a sequence per session; `place` and `owner` are what home's tables
say of a session; `link` is the phase of each sync loop, `pull` a request for history and what is
left to replay of its answer, `warp` where each `sessionWarp` is. `Connect`, `HistoryFails`, `GoLive`,
`ReplayLive`, `Disconnect`, `StreamFails` are `connectSSE` and the loop: a stream that ends, and a
request for history that fails, leave the loop to its pause ("off"), from which it tries again; a stream
that fails, and a replay of history that dies, end the loop ("none"), which for a known workspace only
`startWorkspaceSyncing` (the request to start syncing) begins anew. `Ask`, `AnswerHistory`, `ReplayHistory` are
`syncHistory`, with `Dies`, `Accepted`, `Refused` the outcomes of a replay (EventLog's, at the grain of
one event); `WarpStart`, `FinalSynced`, `Claim`, `Detach`, `ReadRows`, `SendRow`, `Steal`,
`SetWorkspace`, `WarpFails` the steps of a warp between two awaits. A warp's `from` is the remote
workspace it found the session in when it began. Home's row of a session in a local workspace is not
told from one of a session in none (`Nowhere`), but the warp is: out of a local workspace it claims
the session without a final sync, out of none it claims nothing (`Leaving`), and into a local one it
claims the session for an owner that is no remote workspace (`Project`), as a warp to none does for the
project. Every update of a session carries the workspace its row was in when it was read and
writes that back when it is projected, so a slow one moves the row to where the session has been:
`Carried` is what such a patch may say. The rows of an answer come in the order of
their numbers, those of different sessions with one number in any order (`Answers`). An event is named
by who published it, at which number, and by the place it records.

**InstanceStore** models `instance-store.ts` and the `ScopedCache` of `instance-state.ts`. `cache` is
the Map, `entry` each entry with its deferred and its fiber, numbered as they are made (up to the
bound `MaxEntries`), `state` one service's state per
directory, `disposal` where each call of a disposal and each item of a `disposeAll` is, `noticed` what has been
announced, `scope` the layer's. `Load`, `Reload`, `ReloadDisposes`, `ReloadAnnounces`, `BootEnds` are a load and a
reload with `completeLoad`; `Dispose`, `DisposeDirectory`, `DisposeAll`, `Awaited`, `Disposed` the
disposals before and after their waits; `GetState` is `InstanceState.get` by whoever holds a context;
`Close` and `Stopped` the end of the layer.

**ProviderTurn** models one turn of `llm.ts`, the publisher and the projection of steps and tools in
`message-updater.ts`. `mem` is the publisher's flags, `todo` the events it is in the middle of
publishing under its semaphore, `toolFiber` the tools, `run` the runner's place and exits; `step` and `tool` are
the projected message of the latest turn, `behind` what earlier messages have open, so that turns
need no bound. `Content`, `ToolInput`, `ToolCall`, `HostedResult`, `StepFinish`, `ProviderError`,
`StreamEnds` are what a stream may bring; `ToolReturns`, `ToolPublishes`, `ResultLost` a tool;
`AwaitTools`, `SettleTools`, `FailStep`, `CloseStep`, `Compact`, `Leave` the end of the turn; `Start`,
`Recover`, `RecoverBehind`, `Recovered` the beginning of a run. It is the inside of SessionDrain's
`Turn` and `TurnFails`.

`MCSessionDrain`, `MCBackgroundJob`, `MCRunState` and `MCPermission` add symmetry sets and, for
BackgroundJob and Permission, the runs, rules and requests of the instance. The theorems are in
`SessionRunProofs` (of RunCoordinator and ProviderTurn), `WorkspaceProofs` (of InstanceStore and
WorkspaceSync), `DurableStreamProofs` (of EventLog as well), `SessionDrainProofs` (of SessionInbox as
well), `BackgroundJobProofs`, `FlockProofs`, `RunStateProofs` and `PermissionProofs`, each of which
extends the modules it is about. Definitions whose comment
begins with "Mutant" stand next to the definition they vary; they are plausible mistakes that each
property is known to detect, and nothing uses them. Where an invariant begins with `TypeOK`, the
types of the module's variables are checked with it.

## 3. What the runs show

State counts are distinct states; with two workers every run ends within a few minutes.

| run (`.cfg`) | instance | states | checks |
|---|---|---|---|
| `RunCoordinator` | 1 key, 2 callers, 3 entries, 2 fibers | 176 k | `NobodyOrphaned` `ImplementsSerial` `JoinCoversWakes` `InterruptWaitsForCleanup` `EventuallySerial` `CallersReturn` |
| `DurableStream` | 1 aggregate, 3 ids, 1 owner, 1 writer, 1 stream, 3 sequence numbers | 350 k | `LogContiguous` `ProjectedInOrder` `FencedByOwner` `GapFree` `StreamsCatchUp` |
| `SessionDrain` | 1 session, 2 prompts and a legacy message, both deliveries, 1 client, agents with 2 steps or without a limit | 338 k | `PromotedInOrder` `NothingStranded` `AskedBeforeIdle` `DuePromoted` |
| `SessionDrain_revert` | 1 session, 1 prompt id and a legacy message, both deliveries, 2 clients whose prompts all ask for a wake | 946 k | `TablesAgree` `AcceptedIsRecorded` |
| `BackgroundJob` | 2 generations, one of up to 2 runs, 2 callers | 1.2 M | `Consistent` `OneRunAtATime` `LatestOutputWins` `EndsOnce` |
| `Flock` | 4 processes, 2 crashes | 474 k | `HolderKeepsLock` `CrashRecovered` |
| `Flock_long` | 3 processes, no crash | finds a violation | `MutualExclusion` |
| `RunState` | 4 calls of any kind | 326 k | `WorkIsReachable` `WaitersAnswered` |
| `Permission` | 3 requests, 2 replies, 2 sessions, 2 agents, 1 change of the surroundings | 1.5 M | `WaitersAnswerable` `GrantedOnGrounds` `RepliesSettle` |
| `WorkspaceSync` | 1 session created in a workspace, home and 2 remote workspaces, 2 warps, patches at home, logs of up to 3 events | 981 k | `OneSource` `NothingLeftBehind` `HistoryFits` `CatchesUp` |
| `InstanceStore` | 1 directory, 3 instances, 1 call beside `disposeAll` | 37 k | `OneAfterAnother` `StateIsCurrent` `StateIsKept` `EveryoneReturns` |
| `ProviderTurn` | 2 calls a turn, any number of turns and runs | 280 k | `SettledOnce` `StepEndsOnce` `RequestIsAnswered` `CallsSettle` |

Why the instances are large enough for what is asked:

- `RunCoordinator`: a key has at most one entry in the Map and, while `settle` runs, two fibers; a
  third entry is needed for a waiter's old one. Two callers can join, interrupt and rerun against
  each other. Keys do not share state (each action touches one key), so one suffices for TLC; the
  theorems are for any number. `ImplementsSerial` says that every step of the code is a step of the
  serial executor or none; `EventuallySerial` adds that owed work is begun on. A wake does not wait,
  so it needs no caller and is never bounded. Pools are exhausted only by identities that nothing
  refers to, which are reused.
- `DurableStream`: one aggregate and one stream, since streams do not influence each other and
  aggregates meet only in an id that is used twice, which `IdsUnique` is proved about; an owner to
  claim in the middle of a run; three events, so that a run has a gap, a duplicate and an append, and
  two are announced between one read and the next with their wakes coalesced. `MaxSeq` bounds the
  log. The aggregate may be removed under the stream and written again, which `GapFree` exempts: the
  cursor survives the removal, so the stream skips events up to it (`event.ts:592`).
- `SessionDrain`: two prompts can be of different or of the same delivery, be admitted in both orders
  and race with one loop; the legacy message is the boundary of reverts. Two
  steps are a turn that may continue and the one that is given no tools; an agent without `steps`
  continues at either. A turn's count only tells whether its agent's limit is reached, so it stops at
  the largest limit. `MaxSeq` bounds the sequence numbers: a client admits
  only while numbers are left for the promotions that may follow.
- `SessionDrain_revert`: two clients with one message id and different requests, with reverts that
  are staged, cleared and committed between any two steps of the loop. An input can be admitted,
  selected, reverted and admitted with other content before the selection is published; prompts
  without a wake differ only in what SessionDrain checks.
- `BackgroundJob`: two generations of an id are what old fibers can be confused with, and two runs of
  one settle in each order and end in each way. Callers hold a claimed run, a cancellation and a wait
  against each other. `Consistent` is the count of unfinished runs, the registry's hold on running
  generations and the announcement of every end, in one invariant.
- `Flock`: an owner, and three contenders, of which one recovers the lock while another acts on an
  old verdict and one has crashed with the breaker.
- `RunState`: all combinations of four runs, shells and cancels, each of which may be interrupted.
  Deadlock is checked: except after a mishap, everything settles.
- `Permission`: a request that is replied to, another of the same session that a rejection must take
  along, one of another session; two replies whose walks overlap; and one change (an approval
  revoked, a session deleted, an agent switched) at any moment. The run ends when all replies are
  given, so deadlock is not checked there.

- `WorkspaceSync`: two workspaces, so that one is left while it goes on writing; two warps, so that a
  session may go on, come back or be fought over; three events, so that one is behind, one is in
  flight and one is new. `MaxLen` bounds each log; crashes, failures and reconnections are unbounded.
  `Origins` and `Patching` bound where sessions are created and patched, in this run to one
  workspace and to home: a session reaches none, or a local workspace, by a first warp, and the row a
  stale patch writes is home's. The theorems are for sessions created and patched anywhere.
- `InstanceStore`: directories share nothing. Three instances are one that is disposed of, one that
  has replaced it and one that waits for that one; a second disposal runs against the first through
  `disposeAll`, which may be called any number of times. The run ends when the layer has closed, so
  deadlock is not checked there.
- `ProviderTurn`: two calls are of different owners (the session's and the provider's), or one fails
  while the other is about to publish. Nothing is bounded: a turn's messages are summarised when the
  next begins.

Symmetry is used only in runs without liveness properties.

What holds, in a sentence each. *Coordinator*: no two executions of a session; every wake is worked
off unless an interrupt withdraws it; a joiner that succeeds has everything before it done; an
interrupt returns after cleanup. *Log*: contiguous, projected once in order, fenced. *Streams*: the
wake before the read and the sliding pubsub of one lose nothing. *Inbox*: retries, reverts and
defects in any order keep both tables consistent and an accepted input recorded; the loop's last
reads leave nothing behind. *Jobs*: one end, by the current generation, with the latest output.
*Lock*: short holds are exclusive and crashed owners are recovered. *Run state* and *Permission*: as
stated in section 1, with the exemptions of section 6. *Workspaces*: what home has received since its
own last event comes from one workspace, what was asked for earlier still fits when it is replayed,
and what is lost on the way is found by the next history. *Instances*: one after another, each with its own state, and nobody waits for ever. *Turns*:
interrupts, crashes and failures anywhere leave no call that is settled twice or sent open.

## 4. Fairness

The scheduler of a JavaScript process runs every ready fiber; that is what weak fairness on a
fiber's own steps stands for. Nothing is assumed of users and clients: no run assumes that prompts,
wakes, interrupts, replies or claims happen or stop.

- `RunCoordinator!FairSpec`: owner fibers begin and exit (a drain ends since provider streams and
  tools do, or time out) and a caller that must run again does. `CallersReturn` excuses keys that are
  woken or interrupted for ever, because `done` stays unresolved as long as wakes arrive before each
  drain's end.
- `DurableStream!FairStreamSpec`: a writer that committed announces (the next statement of the same
  fiber) and a stream that is being consumed takes its steps.
- `SessionDrain!FairSpec`: the coordinator begins what is owed (checked as `EventuallySerial`), a
  stopped drain winds down, a loop proceeds. `DuePromoted` has two hypotheses of its own, which the specification does not grant:
  that drains do not fail for ever, and that from some time on no turn is continued where an agent with
  a step limit would have been given no tools (`RunsOn`). `agent.info.steps` is optional
  (`llm.ts:203`): an agent without it may call tools on every turn, and queued inputs then wait for
  ever, which TLC shows at once when `RunsOn` is dropped from the hypothesis. Steers are promoted
  before every turn whatever the limit, but each starts the count again (`llm.ts:195`), so steers that
  never cease keep queued inputs waiting too; `MaxSeq` makes them finitely many.
- `Flock!FairSpec`: contenders retry (they poll with back-off until their timeout, and others come),
  holders release, and time passes: strong fairness of `Age`, which needs a moment when no attempt is
  in progress. `CrashRecovered` has that as its own hypothesis, because contenders that overlap for
  ever would keep `Age` from happening in the model only.

- `WorkspaceSync!CatchesUp` carries its premise itself: the session stays followed and its workspace is
  connected to now and then. The code does not provide that by itself: the loop retries after a stream
  that ends and after a connection or a history that fails, but a stream that fails or a replay of
  history that dies ends it, and it stays so until a client asks to start syncing again
  (`startWorkspaceSyncing`). Requests that hang or fail for ever, which the
  network may do, are outside it as well.
- `InstanceStore!FairSpec`: boots, disposers and the reloads between them proceed and end.
- `ProviderTurn!FairTurns`: the runner's own steps proceed and a tool that has returned gets the
  semaphore. That streams end and tools return (they may wait for a user) is the premise of `CallsSettle`.

`BackgroundJob`, `RunState` and `Permission` are checked for safety; what there must eventually happen is stated as an
invariant (somebody is left who will answer), because users decide when.

## 5. What is proved

For every value of the constants, by TLAPS. Every safety property that the passing runs check is a
theorem, the action properties included. Each proof has an inductive invariant, `IInv` (of the streams
`StreamInv`, of the turns `TurnInv`, of the workspaces `SyncInv`), whose parts are named for
what they say; TLC found them to hold on the runs' instances before they were proved. A proof states first what a step changes, object by object, then that what is left alone
still fits, so that a lemma per action looks only at what the action touches.

**SessionRunProofs**, of RunCoordinator (assumption: `PoolAssumption`, the null values are not in the pools).
`TypeCorrect`, `SerialPerKey` (`OneOwner`), `NoOrphans` (`NobodyOrphaned`). `OneOwner` is not
inductive: `settle` replaces or removes whatever `active[key]` holds, which is right only if the
exiting fiber is the owner of that entry. `IInv` therefore adds `Owned` (a live fiber is the owner of
the entry its key's Map holds), `Staffed` (the converse: an entry in the Map has a live owner), `Flagged`
(`stopping` and the interruption of the owner agree) and `Attended` (a waiter waits on the Map's entry
of its key, an interrupter on a live interrupted fiber of its key). `InterruptTheorem` and
`JoinTheorem` prove `InterruptWaitsForCleanup` and `JoinCoversWakes` from the same invariant.
`Implements`: Spec => `ImplementsSerial`, the coordinator implements SerialExecution. The mapping
quantifies over fibers; the lemma `Mapping` turns it, under `IInv`, into a function of the key's entry
and owner, and each action is followed through that.
Of ProviderTurn (`CallAssumption`: finitely many calls): `TurnInductive`, `CallsSettleOnce`
(`SettledOnce`), `StepsEndOnce` (`StepEndsOnce`), `RequestsAreAnswered` (`RequestIsAnswered`). A call is
known three times, as the publisher's flags, the fiber of its tool and the projected part, and the
three change at different moments. `Agrees` says where flags and part may differ, namely once the run
is interrupted between the two or after a named mishap; `Fibered` what a fiber's end says of its call; `Closed` and `Ends` what a
turn that is ending has settled, how its step has ended, or that the event for it is still to be
published. What makes that hold across the suspensions is `Queue`: each event in `todo` is due, that
is, what it needs is in the flags or published before it and what it settles is unsettled, and none of a
kind is there twice.
The lemmas `QueueHead`, `QueueTail`, `QueueCons` and `QueueCat` follow a queue as events are published
and added, and `FailUnsettledIs` says what failing the open calls adds, in whatever order they come.

**DurableStreamProofs** (assumption: `LogAssumption`). Of the log: `Contiguous` (`LogContiguous`),
`UniqueIds` (`IdsUnique`), `ProjectionsFollow` (`ProjectedInOrder`). The three facts about the tables
hold together or not at all: rows stay contiguous because `latest` is the last row, and projections
stay in order because their number is the next sequence number. `RunsFit` bounds what is left of a
replayed run by what was checked when it was accepted, which keeps the writer's type. `CommitInv` is
the one place that looks into a transaction; publish and replay cite it. `ClaimFences` proves the
action property `FencedByOwner`: only `ReplayNew` of the writer itself brings it from replaying to
announcing, and that commits for the owner or an aggregate without one.
Of the streams: `StreamsGapFree` (`GapFree`), `NothingStrands` (`NoStrandedEvent`: an event
beyond a stream's cursor has a read, a kept wake or a pending announcement to bring it),
and `StreamsRefineLog`: a log with streams is a log, so the theorems above hold
beneath it. `GapFree` needs `LogContiguous` of the log: a read returns the rows after the cursor in increasing
order, and they are the very next sequence numbers only because the log has no holes (`RowsNumbered`
counts them, `NoRoom` places them). `StreamInv` adds that a stream reads only what it has
emitted before (`ReadsAfterEmitting`) and is never ahead of its aggregate (`CursorBehind`).

**SessionDrainProofs** (`InboxAssumption`: ids are finite, null is not among the values; `AbsentRow`;
`StepsAssumption`). `InboxMatchesHistory` (`TablesAgree`), `AnswersAreTrue` (`AcceptedIsRecorded`),
`PromotionsKeepOrder` (`PromotedInOrder`), `NoLostWake` (`NothingStranded`), `PromotedIsAsked`
(`AskedBeforeIdle`). The tables agree because a session's numbers are given once (`Numbered`). A
selection is some list in the order of admission, held across suspensions: `RowsInOrder` says that
whatever waits ahead of a row that is still current is held ahead of it, which is what is left of
"the loop read the table a while ago" when prompts, reverts and other admissions have run since.
`SteersRead` carries the wake through the moment between the loop's reads of steers and of the queue,
where `NothingStranded` has nothing to say yet. `AnswersRecorded` is what a client knows when it
compares the row with its prompt. `SortedExists` shows that the ORDER BY of the model is never empty.

**BackgroundJobProofs** (`JobAssumption`). `JobsConsistent` (`Consistent`), `JobRunsInOrder`
(`OneRunAtATime`), `JobOutputIsLatest` (`LatestOutputWins`), `JobsEndOnce` (`EndsOnce`). That `pending`
counts the unsettled runs needs to know which runs there are (`Numbered`) and that one caller forks each
(`ForkedOnce`). `Before` is about runs that are over as well as those that run: only so does the
chain of tails stay ordered. `Outputs` says what `output` is while the job runs.

**FlockProofs** (`FlockAssumption`). `HolderKept` (`HolderKeepsLock`) and `Excludes`: mutual exclusion as
long as no hold outlived `staleMs` and no crash left a breaker, that is under exactly the exemption
whose absence `Flock_long` refutes. A verdict of `stale()` leaves a holder's lock alone because
nothing of a lock in use is old (`Current`, `Filled`), and a removal in progress is the remover's own
(`OneOwner`), because whoever judged with the breaker in hand is alone in that (`OneBreaker`).

**RunStateProofs** (`CallsAssumption`: finitely many calls, none null). `WorkReachable`
(`WorkIsReachable`) and `WaitersPursued` (`WaitersAnswered`). `Recorded` ties a runner's record to the
fiber of the work, `Registered` says that a runner that records something, or is about to, is
the one in the Map, `Dropped` that a fiber that acts and is not recorded is being stopped; the last two
hold until the mishap that breaks them, and the properties exempt no other.

**PermissionProofs** (`RulesAssumption`, `RequestsAssumption`, `ChangesAssumption`).
`EveryWaiterAnswerable` (`WaitersAnswerable`), `NoGrantWithoutGrounds` (`GrantedOnGrounds`),
`RepliesSettleAll` (`RepliesSettle`). The Map changes under a walk: `Listed` says that a request is in
it once and never again after it left, and `Walked` that whatever the reply still has to settle is
ahead of its position or is the entry at hand. `WithoutLists` and `FirstOf` are the facts about
positions: removing an entry leaves the others, and what an iterator yields next has nothing ahead
that it passes over. `Cleared` connects the history of denials with the rules as they are, and
`Grounded` keeps what `Check` saw until `Grant` acts on it, across the publication in between.

**WorkspaceProofs**, of InstanceStore (`StoreAssumption`). `InstancesFollow` (`OneAfterAnother`), `StateEndsInTime`
(`StateIsCurrent`), `StateIsTakenByItsOwn` (`StateIsKept`). The Map forgets the entries it replaced, so
the invariant speaks of all entries by number: `Newest` (the cached one is the last of its directory),
`Replaces` (a reload waits for the entry right before it) and `Follow` (before one that has started
to boot, all are over). `Keep` and `Awaits` connect what services hold with who is disposing of it.
Of WorkspaceSync (`SyncAssumption`), for any number of sessions, workspaces, warps and events:
`SyncInductive`, `OneSourceHolds` (`OneSource`), `NothingIsLeftBehind` (`NothingLeftBehind`),
`HistoriesFit` (`HistoryFits`). An event carries its number and its publisher, whose own
log has it there (`Numbered`), and all logs of a session begin with the same event (`OneOrigin`): what
two logs hold can be compared although they diverge. `Placed`, `Warped` and `Pulled` say what the
tables, the warps and the answers in transit know of the logs: home's place is one that an event in its
log carries, so a patch, which carries a place its node has seen, cannot name a workspace that has
never held the session. Where home's copy comes from is
`Sourced`: until a warp claims a session, its owner has everything home has received (`Unclaimed`);
after the claim the workspace that is left has it, as long as the new one has only been sent events and
not made any, nor is said to be the place (`IdleAt`), and then the new one has (`Claimed`), because all of home's log is sent to it
before the steal (`Sending`). `Gapless` is about the answers to loops and warps: each row of an answer is known to home, is the next one,
or comes after its predecessor in the same answer; else the session is fenced or contested. The
lemmas that carry this are `OnlyFrom` (when a session is claimed first, unless two calls have found it in no
workspace, only the workspace it leaves has held it), `ClaimedFollows` (what `Claimed` needs to survive a step), `FenceStays` (a fence is lifted
only by a second claim, if the workspace holds the session) and `AnswerIs` (what an answer holds of the log it was read from).

Only model-checked: liveness (`EventuallySerial`, `CallersReturn`, `StreamsCatchUp`, `DuePromoted`,
`CrashRecovered`, `CatchesUp`, `EveryoneReturns`, `CallsSettle`), which is out of the prover's reach.

## 6. Findings and exempt races

One run is expected to find a violation of something the repository says:

- `Flock_long`: `flock.test.ts:120` "enforces mutual exclusion under process contention" and the
  comment at `flock.ts:227`, "Heartbeat prevents long critical sections from being evicted as stale."
  Release unlinks the heartbeat before `meta.json`, whose mtime nothing renews: after a hold longer
  than `staleMs` the release looks stale, and the removal that follows can hit the next owner's lock.

Beside it, places where the code and what is written about it disagree, which need no run to be seen:

- `session-run-coordinator.test.ts:285` is named "starts a resume registered during interruption
  cleanup". A `run` that meets an entry being stopped waits for `done` and continues with `andThen`;
  an interrupted execution ends with the interruption, so the resume fails with it and nothing starts.
  The test passes since its fiber reaches `run` only after the cleanup, when the key is idle.
- `workspace.ts:587` says that events of the workspace that was left "are ignored". One whose log has
  diverged makes a replay of history die, uncaught, and the loop of that workspace ends.
- `workspace.ts:608` says that "if it fails we don't warp the session". A patch or request that fails after
  the claim leaves the session fenced against the workspace it is still in.
- `instance-store.ts:77` says that an entry is always completed. A reload's fiber that ends before
  `completeLoad` (a listener of the announcement throws, or the scope closes) leaves an entry that
  nobody completes and that later loads wait for.
- `session-runner.test.ts:3159` calls raw failures of a stream terminal. One that comes after the step's
  finish publishes `Step.Failed` and then `Step.Ended`.

Races that properties exempt by name, so that what they do not touch can be shown; TLC confirmed that
each exemption is needed:

- `RunState` "unregistered": `onIdle` deletes a registration by session id, whichever runner it is
  (`run-state.ts:62`, reached from `runner.ts:185`), so a late cancel removes a newer runner; or a
  call that waits for the lock of a runner (`run-state.ts:94`) starts on it after it was removed.
- `RunState` "stop abandoned": a canceller interrupted between dropping the state and failing the
  queued run (`runner.ts:199-202`) leaves its waiters unanswered.
- `RunState` "shell stillborn": a shell's fiber interrupted before its first step never runs
  `finishShell`; the runner stays in Shell and a later cancel waits on a latch nobody opens.
- `Flock` "breaker left": a breaker left by a crash is removed by path after its age was read, so a
  contender may remove the fresh breaker of another (seen with five processes and two crashes).
- `BackgroundJob`: while a scope closes, an interrupted extension resolves its tail although the run
  before it is still winding down, so `OneRunAtATime` speaks of open scopes.
- `SessionDrain` `voided`: a loop holds rows it has selected while a revert deletes them. What is
  promoted from such a row is inserted anew by `projectPrompted`, or, if the id was admitted again in
  the meantime, promoted ahead of rows of the same millisecond that were admitted before it. The
  attempt to prove `PromotedInOrder` found the second case, beyond the instance TLC had searched. The
  ghost names both; `TablesAgree` covers these inputs too.

- `WorkspaceSync` "contested": two warps claim one session, also one after the other and out of a local
  workspace, the fence of the first is lifted by the second, and events of both workspaces are taken; or
  one warp claims a session after two others have found it in no remote workspace, which claim nothing if
  they found it in none and may bring it to two. The preparation of the proof found
  the second case, beyond the run's two warps: with three, TLC finds events of two workspaces mixed. A
  stale patch that moves home's row back to a workspace that was left is not exempt: requests go
  there again and history asks for it, but the claim still fences what it publishes. And a step of home itself begins a new stretch of the log:
  the announcement of the steal may arrive live before home records the move itself, and the two then
  take the same number, so the logs diverge; a warp to no workspace and then to one does not claim, so
  the log stays the project's and the new workspace's events are dropped silently.
- `InstanceStore` "late": a request that holds a context builds state while its instance is disposed
  of, or after; and a boot that fails leaves what it built, since no disposers run for it. "Lost": the
  reload described above. An interrupted disposal leaves an instance cached without its state, and
  concurrent disposals run the disposers and announce the end twice; neither breaks a property.
- `ProviderTurn` "revived": on the last step the first local call fails every open call, also those
  whose input has begun (`llm.ts:246`); a provider that announces several and then makes them makes one
  run again in the projection, which the publisher takes for settled, and a steer in the same run
  is sent with it open. "Lost": a call is marked as settled before its result is converted and stored
  (`publish-llm-event.ts:346`); if that dies, it is open until the next run. A stream that dies of a
  defect and a declined turn leave their step without an end.

Further behaviour that is in the models and contradicts nothing the code promises: in `Permission`,
two overlapping replies to one request both announce their answer and the first counts, and a request
evaluated before an approval was saved goes on asking; in `SessionDrain`, a revert commits the boundary
it has read, although a prompt may have been promoted since (`session.ts:458`), and a promoted input
whose turn failed is asked about again only with the next one (`llm.ts:395`).

## 7. What is not modelled

- Within modelled parts: closing the coordinator's scope; live pubsub listeners of events, which
  promise no order across writers; file restoration on a revert and the transcript's projectors except
  ProviderTurn's; text, reasoning and fragments of tool input in a turn; the context epoch
  and location checks of the loop; interruption of a caller inside `BackgroundJob.cancel` and
  `promote`; disposal of an instance with its runners, the cancellation of background jobs before the
  runner's, and the session's status; the finalizer that declines all permissions when a location
  closes; a request id passed to `ask` twice (no caller passes one); of workspaces `waitForSync`, the
  status events, creation and removal, the contents of patches; of a provider's stream, step finishes
  before content and normal ends with an input that was never called, which no adapter produces.
- Questions (`core/src/question.ts`): a pending Map without walks, contained in Permission's.
- Session store, history, todo, memory, schemas: reads or sequential code.
- Tools, MCP, LSP, PTY, the rest of the CLI, worktrees, snapshots, sandboxes, gateways, telemetry, language model routes,
  HTTP server and clients, UI, editor extensions: input and output at the boundary of the program or
  presentation. Their concurrency is that of the parts above.
- Database, migrations, layers and plugins: what is used of them is the atomicity of a transaction.

## 8. Plan

1. `KeyedMutex`, `FileMutation`, `State` (`core/src/effect/keyed-mutex.ts`, `file-mutation.ts`,
   `state.ts`): exclusion per key with reference-counted entries, the stale-content check, rebuilds.
   An abstract mutex as the specification.
2. `ContextEpoch` and move: what a request is built from while the location changes.
3. That `ProviderTurn` refines SessionDrain's `Turn`; `SessionNetwork` and V1 permissions of the CLI.
4. Where a new module's questions outrank older ones, runs are merged or replaced, so that the whole
   set stays one that is rerun on each change.
