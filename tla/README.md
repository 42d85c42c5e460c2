# Tapsmith: TLA+ models, checks and proofs

Tapsmith runs mobile UI tests. A TypeScript runner and CLI
(`packages/tapsmith`) reads the configuration, picks devices, forks worker
processes and runs test files; a Rust daemon (`packages/tapsmith-core`) drives one
device on behalf of one worker over gRPC; an on-device agent (Kotlin in `agent`,
Swift in `ios-agent`) performs the actions. This directory holds TLA+ models of
the parts where the order of events decides whether the program is right, the TLC
configurations that check them, and proofs checked by TLAPS.

## Inventory

| Component (source) | State it keeps | Operations | What is hard | What makes it correct |
|---|---|---|---|---|
| Parallel dispatcher (`dispatcher.ts`, `runParallel`) | wave, file queue, worker handles, failed projects, results, reporter counts | dispatch, file-done, retire and requeue, enter wave, finally, interrupt | workers die at any message; late messages; Ctrl-C; reporter totals | each file finishes exactly once; dependencies first; the run ends and leaves nothing running |
| Worker process (`worker-runner.ts`) | file being run, attempt | run-file, retry after infrastructure error, shutdown | dies between two messages | file-start, results, file-done in order; at most two attempts |
| Bucket coordinator (`dispatcher.ts`, `runMultiBucket`, `coordinateBuckets`) | per-bucket start state, barrier, start failures | start, arrive, release, settle | one bucket fails while others start; error after the barrier | no bucket runs before all started or failed; every file reported once |
| Project graph (`project.ts`) | none (pure) | topologicalSort into waves | duplicate or unknown dependencies, cycles | each project once, after its dependencies |
| Device claims (`device-claims.ts`, `file-lock.ts`) | one claim file per device, a lock directory | claim, release, release session, list, prune | concurrent processes, crashed owners, a lock that cannot be had | one live session per device; a dead session holds nothing |
| Sharding (`project.ts`, `shardProjects`) | none (pure, per machine) | split, drop setup projects nobody needs | machines never talk to each other; chains of setup projects | every file on exactly one shard; a setup project where its dependents are |
| Worker allocation (`project.ts`, `allocateBucketWorkers`) | none (pure) | assign, share, scale to `--workers` | rounding, budgets smaller than the number of targets | no target without a worker; the budget used up and not exceeded |
| Watch mode (`watch-queue.ts`, `watch.ts`) | debounce set, timer, pending request, running flag; known and failed files; worker pool | save, add, delete, keys, dispatch, file done, worker lost, run finished | saves and keys during a run, workers that die, a file in several projects | no saved change is lost; one run at a time; a failure stays listed until it passes |
| Test runner, one file (`runner.ts`, `fixtures.ts`) | stack of scopes, retry state, the app's preparation | enter a scope, reset, beforeAll, attempt, fresh start, serial skip, afterAll, stop | what an earlier failure left on the screen; a set-up that breaks half-way; early returns | nothing starts on a failure's leftovers; each set-up torn down; each test reported once |
| Bounded attempts (`run-bounded.ts`, `action-progress.ts`, `attempt-fence.ts`) | elapsed and excluded time, token, abandoned flag | race of body, timer and stop; device actions | the body outlives its attempt; two clocks of which one stands still | an abandoned attempt touches nothing afterwards; a run is cut off when its budget is up |
| UI mode server (`ui-mode/ui-server.ts`, `worker-startup.ts`) | startup gate, run flag, uiWorkers, the dispatch at hand, what the page shows | ask for a run, dispatch, file done, retire, Stop, escalate, respawn, recycle | several requests, deaths and saves at any moment; a Stop that a worker never answers | each file of a run reported once; no old code; Stop ends; the page shows a run only while there is one |
| Unavailable device targets (`ui-server.ts`, `watch.ts`) | targets that failed to start, attempts in flight | try again once per run | an attempt outlives the run that began it | nobody waits for it after Stop |
| Animation scales (`android_animation_scales.rs`) | per device an owner record and the scales | select, take over, put back, restore | a daemon dies between record and command; commands fail half-way; a serial changes hands | the user's values are never lost |
| System proxy lease (`ios/system_proxy.rs`) | the Mac's proxy, its bypass list, an owner record, a lock, leases | acquire, publish, release, recover | a start is cancelled between setting and publishing; takeovers | the Mac is left as its user had it |
| Agent start on a simulator (`ios/launch_gate.rs`, `ios/agent_launch.rs`) | gate file, task, runner, app and data | end, wipe, open the gate, launch, relaunch | runner and wipe are two processes | a start vouched for as fresh is the first launch on clean data |
| Network routes (`network.ts`, `route_handler.rs`, `network_route` in `grpc_server.rs`) | routes of the SDK and of each stream's handler, the stream, reopen timer, requests held | route, unroute, replay, decide, fetch, release, time out | the stream breaks at any moment; three tasks and the proxy per stream; two streams overlap | the routes outlive the stream; a held request is owed an answer; a decision is carried out as made |
| Device sessions (`device-session.ts`, `session-preflight.ts`) | session context, prepared flag | open, ensure ready, recover, close | recovery during a test | a recovered session restarts the file |
| MCP server without UI mode (`mcp/headless-dispatcher.ts`, `watch-run.ts`) | list of files and its sync, the target and its pins, the run, the process of the file at hand | run_tests, device tools, stop_tests, re-run of a watched file | calls overlap at every `await`; processes break or do not answer; the daemon dies | a request sees the files and the device it is about; totals and results tell one story; Stop ends the run; a target is resolved once |
| Trace recorder (`trace/`) | per-test action log | record, package | concurrent actions | pairs of before and after events |
| Daemon services (`tapsmith-core/src`) | agent registry, connections | connect, retry, capture | answers that come too late | every request answered once |
| Reporters, device API, provisioning | results, handles, emulators | format, poll, start | external tools | not a matter of the order of events |
| Agents (`agent`, `ios-agent`), React Native hooks | UI tree, idling | find, act, wait | device timing | outside the reach of a finite model |

How they meet. The CLI claims devices, splits the files over targets (`Buckets`,
`WorkerAllocation`) and machines (`Sharding`) along the project graph, and each target
runs its waves over worker processes (`Dispatcher`) that talk to it by IPC messages. A
worker runs one file at a time (`TestFile`), every body and hook under a budget
(`BoundedRun`), against a daemon that borrows settings of its host and device
(`AnimationScales`, `SystemProxy`), starts the agent (`LaunchGate`) and asks the test
what becomes of the app's requests (`Routes`). Watch mode and
UI mode replace the dispatcher: they keep workers alive from run to run (`Watch`,
`UiRuns`), and an MCP session without UI mode forks a process per file (`McpRuns`). Runs on one machine meet only in the claim registry (`DeviceClaims`).

## Modules

Names follow the source. An action is a whole handler of the code; what a handler
does after an `await` is an action of its own. `PROJECT.json` maps each definition
to its lines. Definitions marked "Mutant" are bugs put in on purpose: each shows
that the property next to it in `PROJECT.json` can fail.

* `WaveRun` - what `runParallel` promises its caller, without workers: waves in
  order, one outcome per file, dependents of a lost project skipped, all or
  nothing at the end. It has no source of its own: `Dispatcher` is shown to
  implement it.
* `Dispatcher` - `runParallel` from its first wave to its return, and the worker
  processes. State: the locals of `runParallel` (`fileQueue`, `failedProjects`,
  `allResults`, `workerTestCounts`), the `WorkerHandle` fields (`retired`, `busy`,
  `currentFile`), the IPC channels (`toMain`, `toWorker`), the processes and
  daemons: a worker has one for its device and one for each other member of its device
  group (`DaemonsOf`). Actions: `EnterWave` (skips and hands out a wave), one action per
  message type, `RetireWorker` for an error, an exit or a closed channel,
  `Finally`, `Return`, `Interrupt`, and the steps of a worker process. A worker may
  die between any two steps; what it sent before arrives, what it had not sent is
  lost. `FailedAfterWave` folds the failures of a wave in when the next one is
  entered; the code does it right after the wave, before anything can look.
* `Buckets` - `planMultiBucket` and `coordinateBuckets`: one bucket per device
  target, the launch barrier, start failures, a bucket that breaks in mid-run, the
  merge. Inside, each bucket's `runParallel` is abstracted to waves of outcomes, as
  `Dispatcher` is shown to have them. The waves of a bucket are its projects' places in
  the whole graph's order, and `Dependencies` what the configuration says: that the one
  respects the other on each target is `OwnDependenciesFirst`.
* `ProjectGraph` - `validateProjects`' reference and cycle checks (`findCycle` with
  its stack), `collectTransitiveDeps` and `topologicalSort`, loop by loop, over every
  small graph. A project is its position; name 0 stands for an unknown one.
* `Sharding` - `shardProjects`, one copy per machine, with its repeated sweeps.
* `WorkerAllocation` - `allocateBucketWorkers` and `scaleToBudget`, loop by loop.
* `DeviceClaims` - the registry of claims under a lock directory. State: the claim
  file of each device (session and holders), the lock, and per process the call it
  is in. A section is two steps, read and write, so that a crash, or a section run
  without the lock, can fall between them. `enforced` remembers that no section ran
  unlocked and no write failed; the code chooses to go on in both cases.
* `Watch` - `RunQueue` and the watcher, the keys and the runs of watch mode. State:
  the queue's fields, `knownFiles`, `failedFiles`, `lastRunFiles`, the run, what each
  worker runs. `dirty`, `lastFailed` and `overlapped` are history variables: changes that
  are owed a run, the entries that failed in the last one, a run started over another; so
  is `lost` of a run, the files whose worker ended under them.
* `TestFile` - `runSuiteContext` and what it calls, for one file. The file - its
  scopes, their app-state policies, hooks and tests - is data; `agenda` is the list of
  resets and hooks still to run before a scope or an attempt goes on. The several
  `beforeAll` hooks of a scope are run one by one (`BeforeAllHook`), and the scope may fail,
  skip or be stopped after any of them; its `afterAll` hooks, whose failures stop nothing,
  are one item, and so are the `beforeEach` hooks, and the `afterEach` hooks, of an attempt.
  A scope whose own setup failed or was stopped is `"broken"`. The app is kept
  as what the next test can tell of it: whose `beforeAll` it carries, whether a failure
  touched it, whether a reset stopped half-way, whether a recovery relaunched it.
* `BoundedRun` - `runBounded`, the channel of device actions and the fence. Time is in
  ticks; `wall` and `spent` are what the clocks would say, `total` and `since` what the
  code believes of the excluded time.
* `AnimationScales`, `SystemProxy` - the settings a daemon borrows, command by command:
  every shell or `networksetup` call and every write of the record is a step, and
  between two steps the daemon may die, a command may fail (half-way, or by timing out
  and landing later), the user may change the setting. In `AnimationScales` `op` is the
  selection or restore a daemon is at, and `next` the selection that waits for the
  restore of the device it leaves. A lease passes through several hands in `SystemProxy`, and a
  request may be cancelled in each: it is sent to the start that waits for it (`granted`),
  received (`Receive`, `pending`), published, taken out again by a clean-up (`CleanUp`,
  `parting`) which first waits for other locks, and released (`Release`). A lease that was
  sent and not received, or taken and not released, is dropped by a cancelled request
  (`CancelReceiving`, `CancelCleanUp`); the history variable `lost` remembers it. Both
  extend `DaemonProcesses`: the daemons of the host and what is counted of failures and
  changes from outside.
* `LaunchGate` - a cold start of the agent on a simulator: the task that wipes the app,
  the gate file, the XCUITest runner and the launch loop, each at its own pace.
* `UiRuns` - UI mode's server. The server is one thread, so `agenda` holds the calls
  still to make before the handler at hand returns; `Continues` is what resolved
  promises go on with, and only then comes another `Event`. Workers are handles, processes
  and channels, as in `Dispatcher`, but outlive a run.
* `Routes` - the SDK's route manager, the daemon's handler for each stream and the
  proxy's requests. A stream has a queue each way (`up`, `down`), what the handler has
  to say waits in `toSdk` for the forwarding task, and `phase` says where the stream's
  reading task is: opening and closing are two steps each, so two streams can overlap.
  A request is one process from the proxy's question (`Arrive`) to its `outcome`; its
  route handler in the test is `call`. `scene` chooses the patterns, and how often a
  stream breaks, `unroute()` is called or the session is disposed of.
* `McpRuns` - `HeadlessTestDispatcher` and the processes it forks. A call of a tool is one
  process of the model (`step` says which `await` it is at); syncs, the resolution of the
  target and the run are shared. `Continues` and `Event` as in `UiRuns`. Files carry
  version numbers: `disk`, what the sync `looked` at, and what is `known`. A process tells
  its results through `mail`; its exit may be seen before its last messages. A call waits
  first for its own list of files (`asks`), which can be while another call's run is under
  way, and only then decides about the device. `aim` is the pin with which the run's own
  attempt at the target began; `meant`, for the property only, the files the last run was to run.
* `DispatcherProofs`, `PlanningProofs` (about `Buckets` and `DeviceClaims`), `WatchProofs`,
  `RunnerProofs` (about `TestFile` and `BoundedRun`), `AnimationScalesProofs`, `HostProofs` (about `LaunchGate` and
  `SystemProxy`), `UiRunsProofs`, `McpRunsProofs` - the theorems and their proofs.
* `MCDispatcher`, `MCDeviceClaims`, `MCWatch`, `MCUiRuns`, `MCTestFile`, `MCRoutes` - the
  small instances. `MCDispatchers`, `MCPlanning`, `MCRunner`, `MCHost` and `MCWatchModes` put several modules or modes side by side: a variable `part` or `mode`
  is chosen once, the behaviour is about that part only, and the others stay at one
  initial state.

## Runs

| Run | What it checks |
|---|---|
| `dispatcher_waves` | Two workers, a setup project of two files and a project that depends on it, one retry of a test. Workers crash, hang up and lose messages, the user interrupts. Each file keeps one place (queue, worker or result), the results of a run that returns are complete, every worker process has ended or been signalled and every daemon is killed but those of the other members of device groups (`NothingLeftRunning`), the reporter's count per file is right (`LedgerExact`). |
| `dispatchers` | Parallel: the same without test retries - the run ends and every worker process is gone (`ParallelRunEnds`); and it implements `WaveRun`, so a dependent runs only after its dependency passed and a run returns all or nothing. MCP: seven sessions of up to three calls at a time - a call goes on with a list of files that is no older than itself, and a run that names a device runs there (`RequestHonoured`); the totals are what the results add up to, a broken file excepted, and a run that passed has a result of every test of every file it was for (`OneStory`); after a Stop at most one more process is forked, and the one that is asked is killed if it does not answer (`StopHeeded`); the target is never resolved twice at once, nor twice by a run (`ResolvedOnce`). |
| `mcp_watch_lost` | Violation: a watched file saved during a run is not run again. |
| `planning` | Graph: every graph of three projects with up to two dependencies each, unknown, self and repeated ones included, and every selection - what is refused, collected and layered, and when the sort throws, against declarative definitions. Shards: every acyclic graph of three projects of up to two files on two shards. Workers: three targets of up to three files, budgets up to five, pins, explicit counts, with and without `--workers`. Buckets: three targets, one with a chain of three projects of which the middle one has no files, one with a dependency on another target; nothing runs before all targets started or failed, every file is reported once, everything settles before the coordinator throws, a passed run means all ran, nobody is parked on the barrier forever, and a file gets a verdict only when all that its project needs on its target has passed, or is skipped because something of that failed (`OwnDependenciesFirst`). Claims: a run of two processes and a server compete for one device and die anywhere: two sessions never drive it, a driver stays named in its claim, a claim passes on only over the dead, and every call returns. |
| `watch` | Pool: two workers, two projects that share a file, every key, saves, additions, deletions and lost workers. Plain: one device, no projects, a file that appears later and the run-all key. In both, runs do not overlap and no saved change is lost but to a later key (`ChangesScheduled`), a failure in any project of a run is kept (`StickyFailures`), and a failed file stays listed until it passes or its worker ends under it; in the pool a queued request starts. |
| `watch_lost` | Violation: a file whose worker dies under it leaves the list of failed files without having run. |
| `runner` | File: 116 files of up to three scopes, with every policy, one retry; resets, hooks and bodies fail or skip, sessions recover, a stop comes anywhere - no test or nested `beforeAll` starts on a failure's screen or a half-built set-up (`CleanStart`), every completed `beforeAll` hook is followed by its scope's `afterAll`, unless that scope's own set-up broke (`EverySetupTornDown`), each test is reported once, serial groups stop. Budget: two bounded runs one after the other - each is cut off when it is due, and what an abandoned one leaves behind never drives the device. Routes: five scenes of up to two routes and two requests over two streams - the routes come back with the next stream, in order (`RoutesRestored`); a request is held only while somebody owes it an answer (`HeldOnlyWhenOwed`) and a decision is carried out as it was made (`AnswerHonoured`), together `RequestsServed`. |
| `own_reset` | Violation: a test's own reset that fails is taken by the retry for one that was done. |
| `host` | Two daemons and two emulators, then two daemons and the two network services of a Mac, dying, failing and cancelled anywhere while the user changes settings: a device's own scales are never lost, a live session's record is left alone, a published capture keeps the proxy, the Mac never points at a live daemon that has forgotten it, a lost lease apart, and it ends as its user had it (`ProxyLent`). The start of an agent: one vouched for as fresh launched the app once, from clean data. |
| `host_takeover` | Violation: a daemon that takes the proxy over and dies at once leaves the setting at a port no record names. |
| `ui_runs` | Five sessions of two workers and two files (one project, with deaths, with a save or with Stop and a second request; a project per target; a project and its dependent, with a respawn by hand): a run that ends reports every file once and honestly (`Accounted`), the server waits only for answers it is owed and an idle worker has no file left in it (`BusyMeansOwed`), no stopped request and no worker with old code is given a file, the page shows a run only while there is one, and Stop ends it. |
| `ui_closed_channel` | Violation: a worker whose channel is found closed while a dispatch makes its first offers makes the run lose files. |

`PoolQueueDrains` is about the pool (`"pool"`): a user who deletes and re-adds files can
keep a sequential run of watch mode going without end.

### Bounds

Two workers and three files are enough for a file to be requeued to another worker
while the first one's messages are still in flight, and for both to be lost. Two
waves are enough for a dependency to fail, be lost or pass; longer chains repeat the
same step, and the theorems do not depend on the number. One more member per device group is enough for a worker's
daemons to be killed in part. Three targets let two fail
in different ways while the third waits. In the graph, sharding and allocation models
the bounds are on the inputs (named in each module); three projects give chains,
diamonds' edges and cycles of length one to three. Three claim processes are two of
one session and one of another: the sibling, the root and the rival; `MaxWanted`
bounds what one `claimUpTo` asks for, and at most one pid is recycled. Watch mode has no
counter: its runs go on forever in a finite space.

`TestFile` runs the root with a describe inside a describe, or with two beside each
other, under every combination of per-file policies and with all hooks or the root's
alone; then serial groups, per-test resets, skipped and filtered tests, and a device
that cannot be reset. One retry gives a first, a repeated and a last attempt. `BoundedRun` has a
timeout of three ticks, a wall cap of six, a check every two at most and timers that
fire up to one late, so that each budget can end first and a check can fall before, at
and after it; one action at a time per run, plus what an earlier run left behind.

`Routes` has two routes (a URL pattern that catches all and one that does not, one used
up by a call, a regular expression the daemon takes for every URL, one it refuses), up
to two requests and two streams, the second of which may be opened while the first is
still being closed. The third would be opened after a second break, which meets no
state the first does not leave.

In `host`, `MaxFails` and `MaxChanges` allow one failing command and one change by the
user; two scales are enough for a command that lands half-way, and two captures of the
first daemon for a release that meets its own next acquire. On one of the Mac's two
services the bypass list is the user's own, on the other it looks like a daemon's. The three situations
`AnimationScales` does not defend against are outside the run (`Rough = {}`, see below).

In `ui_runs` what comes from outside is counted per session (`Occasions`): deaths of
workers, saves, Stops, requests, clicks on Respawn. One request follows another, or one
Stop or two deaths meet one; each session leaves out what the others cover. When the
occasions are used up the server may be idle for ever, hence `CHECK_DEADLOCK FALSE`
there and nowhere else.

In the `"mcp"` part three calls and two processes are enough for one call to wait on each
of two others, and for the exit of one file's process to come during the next. Its seven
sessions bound runs, device tools, Stops, saves, deaths of processes and of the daemon
one by one (`Sessions`): a run of two files that is stopped and whose process breaks; a run
stopped twice and the one after it; calls that name a device, or none, beside a device
tool, while the target fails or its daemon dies; three `run_tests` calls on two devices
around the death of the daemon; a file saved while it is listed, warm and
cold. A session without calls may rest for ever (`Rest`), so a call that waits for good
would show as a deadlock.

### Fairness

* `Dispatcher`: the main process handles an event it has (`MainEvent`), a worker
  process goes on with its file or ends (`WorkerStep`; `runFile` is bounded by
  timeouts), the shutdown timer fires, and a continuation runs (stated in `PartSpec`, for
  the behaviours about parallel runs). Nothing is assumed about crashes or interrupts.
* `Buckets`: each bucket's `runParallel` goes on and the coordinator's continuation
  runs (stated in `PlanSpec`, for the behaviours about buckets).
* `DeviceClaims`: a call is synchronous code, so a live process goes on with it, and
  the lock's 80 attempts of 25 ms end (stated in `PlanSpec` for the root, whose calls
  `CallsReturn` is about). No fairness for taking the lock.
* `UiRuns`: the server works off its own calls and continuations and handles what has
  arrived; the startup ends; the escalation timer of Stop fires; the process of a
  retired worker ends (it is killed after 3 s) and its exit is seen; a respawn ends.
  Nothing is assumed of a worker that runs a file: `StopEnds` holds because Stop kills
  the worker that does not answer.
* `Watch`: a run goes on (its children answer, exit or time out) and an armed timer
  fires. No fairness for saves, keys or worker deaths.

## What is proved

Each theorem below is about every value of the constants that satisfies the named
assumptions of its module. Its inductive invariant was checked by TLC on the small
instance before it was proved; one lemma per action, or per group of actions that do the
same to the invariant, leads to a step lemma, and the temporal part is one line.

`DispatcherProofs`, for every number of workers, set of files and sequence of waves:

* `TypeCorrect` - `Spec => []TypeOK`;
* `FilesExactlyOnce` - `Spec => []ExactlyOnce`: a file is never at two places at once,
  and never gets two results, however workers retire and files are requeued;
* `ResultsComplete` - `Spec => []CompleteResults`: a run that returns has a result for
  every file;
* `ResourcesCleanedUp` - `Spec => []NothingLeftRunning`.

The inductive invariant is `IInv`. `ExactlyOnce` alone is not inductive: a
`file-done` from a worker could name a file that is no longer its own. `ChannelsInv`
says what a conversation between the main process and one worker may look like: the
messages in flight, the worker's state and the orders still to be read are about the
handle's `currentFile`, and at most one of them is final. `HandleInv` ties `busy` to
`currentFile` and a settled wave to an empty queue; `PlacementInv` says that files of
the waves begun are each at exactly one place and the others nowhere. One lemma per
action, `InductiveStep` puts them together. `ResourceInv` is what
`ResourcesCleanedUp` needs: while the run dispatches, every worker that is not retired has
its daemons, not only one that has a file, that a retired one has none, and that once the
run is over only those of other group members are left.

Also in `DispatcherProofs`: `ReporterAgrees` - `Spec => []LedgerExact`. What the reporter shows
of a file in flight depends on messages nobody has read yet: a `file-retry` on its way
will take back what was told before it. `Tally` therefore replays a worker's
channel: there is a sequence of counts, one per message, that begins with the handle's
count, moves with each message as the handler would, is 0 at a `file-start` and complete at a
`file-done`, and ends with the tests the worker itself has ended. `Books` ties the handles' counts to the reporter's.

Also in `DispatcherProofs`: `WaveRunImplemented` - `Spec => ImplementsWaveRun`, the
refinement of `WaveRun`. `WaveInv` says that a file once begun is decided or of the wave at hand, and
that a project with a failed file has failed already or is in the wave at hand; with
`IInv` it gives, action by action, the abstract step or a stutter.

`PlanningProofs`, for every set of targets, projects and waves, from `BucketsAssumption`:

* `BucketsReport` - `BucketsSpec => []BucketsAccounted`, the barrier and the report;
* `BucketsInOrder` - `BucketsSpec => []OwnDependenciesFirst`.

`BarrierInv` ties who arrived, who failed and who was released to each target's stage;
`StartInv` says what the last to arrive rendered; `ProgressInv` that the files of the
waves behind a target are decided; `ReturnInv` what was handed to the caller.

A target forgets which file failed once it has folded its failures into `lost`, projects
that will not run, and looks at direct dependencies only. `OrderInv` bridges the two:
the waves ahead are untouched (`AheadInv`); a lost project is lost for a failure of its
own or of something it needs, however far away, and all its files are decided (`LostInv`);
a skipped file is of a lost project (`SkippedInv`); and a project of a wave that has begun
is lost, or everything it needs has passed (`BegunInv`). It rests on what `BucketsAssumption` says of
`topologicalSort`: a dependency is in an earlier wave (`PlannedSoundly` checks that).
`Needs` is defined as a least closed set, without recursion; `NeedsDependencies` and `NeedsOnly` say what is in it.

`RunnerProofs`, for every file and every number of retries, from `FileAssumption`
(`describe()` and `test()` register a tree: a scope has one parent, a test one scope):

* `FileTypeCorrect` - `Spec => []FileTypeOK`;
* `FileReported` - `Spec => []Reported`;
* `FileTornDown` - `Spec => []EverySetupTornDown`.

The scopes that are open are those around `cur`. `Progress` says how far each has come:
below a child it has passed all is reported (`Settled`), below one still to come nothing
has begun (`Fresh`), and the child it is at holds `cur`. A step changes things only
within `cur` (`Local`), so that the scopes around it stay as they are (`OpenStays`), and
`Leaves` is the step up. `SerialInv` needs `Fresh` where a serial describe is
entered: nothing has failed in it yet. For `EverySetupTornDown`, `UpInv` says that what
is still up is around `cur`, or is a scope whose own setup broke, and has an `afterAll` and a
test that runs - for scopes that a fresh start sets up again too, since the test it is for
runs below them (`RunnableAbove`): the agenda only holds hooks of such scopes (`AgendaRuns`).
`Those`, the elements of a sequence that are in a set, is a recursive function whose
values are shown to agree on sequences with a common beginning (`CollectsAgree`).

Also in `RunnerProofs`, for every timeout, wall cap, interval of the check and number of
actions, from `BudgetAssumption` (`Timeout <= WallCap` because `WALL_CAP_MULTIPLIER` is 5):

* `CutOffWhenDue` - `BudgetSpec => []CutWhenDue`;
* `GivenUpFenced` - `BudgetSpec => GivenUpIsFenced`.

`CountInv` compares what the code counts with the run's own time: never more, and the
same once no earlier run has an action in flight (`Alone`), when also the next check
comes no later than the end of the budget. `FenceInv` says whose token is closed.

`HostProofs`, for every number of relaunches: `FreshIsFirst` -
`GateSpec => []FreshIsFirstLaunch`. `OrderInv` is the argument: while the start's first
runner is up and knows the gate, the runner is past its wait only if the task is done, and a
task that prepared the launch did so with the app down and its data clean.

Also in `HostProofs`, for every number of daemons, network services, captures, failing
commands and changes by the user, from `ProxyAssumption` (the names of the values are
different things): `ProxyIsLent` - `Spec => []ProxyLent`. `ProxyLent` speaks of what is
left to see; `ProxyInv` says who is responsible for it at every step between:

* `PointedInv` - what points at a daemon is on record as that daemon's, or a successor
  that is about to replace it or take it off is at work;
* `OwedInv` - while the setting points at a live daemon on record, somebody is there to
  take it off: the holder of the record's lease - the start it was sent to, the one
  that received it, the capture, the clean-up that took it (`Held`) - its release, or the
  work at hand; or the lease is `lost`;
* `HeldInv` - the record of a lease that is held is its own, whatever late releases and
  recoveries of others do; `LeaseInv`, that no lease is in two places, is why;
* `UserOnInv` - a proxy the user has on is never overwritten; `BypassInv` - a list that is
  not the user's is the daemon's, and the record has the user's.

Work under the lock is a list of steps, and the actions push and pop its head:
`WorkInv` says which lists there are (what is set after a plan, what is undone before
the record is cleared), so that each action is checked against the step it takes.

`AnimationScalesProofs`, for every number of daemons, devices, scales, failing commands
and changes by the users, as long as nothing of `Rough` happens (`Rough = {}`, which the
run has too):

* `OwnValuesAreKept` - `ScalesSpec => []OwnValuesKept`;
* `LiveSessionsLeft` - `ScalesSpec => LiveSessionKept`.

`AloneInv` and `OpInv` say that a daemon at work on a device is the only one, so what it
read is what the device still has when the command lands. What is hard is the records: a
record may hold a value its user has changed since. `RecordedInv` says where it may not
be put back: only what reads off is, and a scale that reads off, or that a late command
is still to set, has a record with a value that loses nothing. `ReadsInv` is the other half (a scale its
user did not set reads off and has a record), and `SpareInv` lets a record go.

`UiRunsProofs`, for every set of files, projects, targets and requests and any number of
workers, from `UiAssumption`:

* `PageShows` - `Spec => []PageShowsTheRun`;
* `FilesGivenRightly` - `Spec => GivenRightly`;
* `BusyWorkersOwe` - `Spec => []BusyMeansOwed`;
* `FilesAccounted` - `Spec => []Accounted`.

`UiInv` says which steps requests may be at together (one at a time runs, one at a
time is let through the gate, and a dispatch is a running request's), that a stopped
request is over, or about to be refused, or runs and has been aborted, and that the workers
that were stale when a request came are retired from then until they are replaced. `WorkerInv` is about the workers; between two
events `BusyMeansOwed` is nearly inductive, but within a dispatch it is false, since a
worker is offered a file before it has one. So `Owed` adds to the ways in which a busy worker
may be heard of again that a call of the agenda is about it, and `AgendaInv` says what the agenda may hold: offers
in the order of the workers, of which only the last may be to a closed channel, a
retirement only at its head and with no offer behind it. The situation excepted, an
offer behind a retirement, is the one in which `RequeuedOntoSibling` fails.

`Accounted` speaks of the end of a run only, so `AccountInv` says where each file is until
then: in the queue, with one worker, reported, or of a wave still to come (`PlaceInv`,
`WaitInv`, `TimesInv`), with what has been reported counted as the verdict will tell it
(`OutcomeInv`, `VerdictInv`); what a worker is on, or answers, is the file it holds
(`JobInv`). None of that shows that a dispatch which settles has an empty queue.
`DispatchInv` does: while it is open, some worker is busy or a call that will look again
is still on the agenda, and a worker about to be retired is one of the dispatch, in which
it or another still has a file. All of it holds outside
the two situations that `Accounted` excepts (`Calm`). Besides `UiInv` and `WorkerInv` it
needs that `FileOrder` lists every file once, as the discovery of files yields them.

Also in `PlanningProofs`, for every set of processes, sessions and devices, from
`ClaimsAssumption`:

* `ClaimsTyped` - `Spec => []TypeOK`, so no claim file is ever without a holder;
* `DriversHold` - `Spec => []DriverIsHolder`;
* `SessionsApart` - `Spec => []OneSessionPerDevice`;
* `TakenFromTheDead` - `Spec => NotTakenFromTheLiving`.

`OneSessionPerDevice` follows from `DriverIsHolder`, since a device has one claim and
a claim one session; neither is inductive, because nothing in them speaks of a section
between its read and its write. `IInv` adds `LockInv` (a process in a section owns the
lock, so at most one is in a section), `WriteInv` (what it is about to write was
decided on the file that is still there: a claim overrides no live holder of another
session, a release keeps the other live holders, a drop is on the session's own file)
and, independent of the lock, `CallInv` (a release is of a device its process no longer
drives; a drop runs only when the session is closing). The lock passes on only from a
dead process, which is in no section. All of it is under `enforced`: once a section ran
without the lock or a write failed, the code promises nothing and neither do the
theorems.

`WatchProofs`, for all files, projects, waves, workers and keys, from `WatchAssumption`:

* `WatchOneRunAtATime` - types, and the queue's flags agree with the run at hand;
* `WatchChangesScheduled` - `Spec => []ChangesScheduled`;
* `WatchStickyFailures` - `Spec => []StickyFailures`, given workers or no projects: where
  one device runs the files of several projects one by one it is false (below);
* `WatchFailedUntilRerunOrLost` - `Spec => FailedUntilRerunOrLost`, given projects or one
  file at a time: without projects, `executeWaveRunParallel` clears every known file that
  did not fail, also one that failed, was deleted, and came back after the dispatch.

`RunAccounts` is the strengthening for the last two: whatever a parallel run was about is
waiting, with a worker, passed, failed or lost, and a sequential run with workers has one
entry. `StickyInv` says where a failure is before it is on the list: in `run.failed` of a
parallel run, on the list itself as soon as a sequential one has the result. Changes are
covered because a running queue has no armed timer, so that the request that `notifyRunFinished`
hands over has them all.

`McpRunsProofs`, for every number of calls, processes, devices and test files and every
scene, from `McpAssumption` (finitely many test files; a scene's run has each of its files
once, as `matchRequestedFiles` gives them, and at least one, since `runFiles` returns
without):

* `McpTypeCorrect` - `McpSpec => []McpTypeOK`;
* `McpResolvesOnce` - `McpSpec => []ResolvedOnce`;
* `McpHeedsStop` - `McpSpec => []StopHeeded`;
* `McpHonoursRequests` - `McpSpec => []RequestHonoured`;
* `McpTellsOneStory` - `McpSpec => []OneStory`.

The inductive invariant is `McpInv`. Its parts are about one matter each, rest on
`McpTypeOK` and `StageInv` (whose the run is, where it is, and the process it waits for),
and are kept step by step in lemmas of their own:

* `TargetInv` - who may resolve the target: while the session prepares it nobody may use
  it, a retry is of a target that failed and not during a run's own attempt, and the
  attempts of a run are counted by `retried`, which only a dead daemon resets;
* `StopInv` - a Stop that comes between two processes is remembered in `corner`, and a
  process forked after a Stop is the run's last;
* `ListInv` - a call that waits for a sync under way was made before that sync looked at
  the disk; one that waits for the next sync has it queued;
* `PinInv` - a call that names a device and was let through finds the target up on it
  and pinned to it until its run begins (`LetOn`); in the run the target is there, or is
  being resolved with the pin it was begun with (`aim`) while no other call is deciding
  about it, or the file fails (`RunOn`); `AimInv` - meanwhile no tool moves that pin, though
  one whose own attempt fails may forget it, which then names the run in `loose`;
* `StoryInv` - the totals are at every moment the sum over the results of all files but
  the broken ones and the one at hand (`RunStory`); what the process at hand has said is
  what has arrived followed by what is under way (`Fed`), so that at its "done" the
  results are complete;
* `MeantInv` - in a run that nobody stopped a file that is behind it broke or has a
  result of each of its tests, and a process at hand that has sent its "done" has said
  all of them.

`Event` matters here: a probe that drops the target would break `PinInv` if a call were
about to go on with the target it was given, and the server's one thread lets no such
event in between. The sum is `SumFunction` of the community modules, a fold over a finite set
that picks its next element by `CHOOSE`. That it does not depend on the order, and changes by
what one element changes (`SumChanges`), is proved from its definition, by taking a
smallest set for which it fails (`LeastSet`).

The attempt to prove `RequestHonoured` showed that it was false with a third `run_tests`
call, more than the sessions had: what was found is under `McpRuns` below, `loose` names
it, and a session with three calls was added.

### Only model-checked

* Liveness under fairness, which is out of the prover's reach: `ParallelRunEnds`,
  `CoordinatorEnds`, `CallsReturn`, `StopEnds` and what else the runs check of that kind.
* The loops of the planning modules (`PlannedSoundly`, `FilesSharedOut`): what they compute
  is a matter of induction over data, which here would have to be spelled out for each
  loop as it is for the sums of `McpRunsProofs`.
* `SavedIsRun` of `McpRuns`, which is false.
* Not proved yet: the properties of `Routes`, and `CleanStart` of the runner.

(`TypeOK` of `DeviceClaims` is the other way round: it is proved, and no run checks it.)

## What the models found

* `watch_lost`: `retireWorker` in `watch.ts` neither requeues nor fails the file its
  worker was running. The run ends without a result for it, and because it is not
  among the failed paths it is removed from `failedFiles`. (`dispatcher.ts` requeues.)
* `own_reset`: `opts._prepared`, the preparation the startup left, is cleared only after
  a test's own reset succeeded. A reset that fails leaves it recorded, the `afterEach`
  hooks touch the app, and the retry's reset does nothing.
* The same unfinished preparation reaches a describe. Under a root that resets before every
  test, with no `beforeAll`, a describe whose entry reset fails leaves the preparation
  of the file recorded, and a describe beside it under another per-file policy starts on the app
  that reset tore: the fresh start that is due rebuilds the scopes around it, which have
  nothing to build, and its own reset is taken for done. `CleanStart` names this exception, as it
  does a second one that is documented (docs/api-reference.md:2074): a test of a serial
  group that fails and passes on its retry was retried in place, no fresh start is
  due, and a later describe under the same policy starts where the group left the app.
  `app.waived` marks both and nothing else; a failure after it ends the exception.
* `host_takeover`: on a takeover of the system proxy the new record, with the new
  daemon's port, replaces the dead owner's before the setting is changed. A crash in
  between orphans the setting: no record names the port it points at, and from then on
  it is taken for the user's own proxy.
* `ui_closed_channel`: `dispatchFiles` in `ui-server.ts` makes its first offers while it
  attaches the listeners. A worker found dead there is retired, its file goes to an idle
  sibling at once, and the loop then offers that sibling again: one of the two files is
  forgotten and the run ends without it.
* `mcp_watch_lost`: the watch queue of an MCP session is never told that a run has begun
  (nothing there calls `notifyRunStarted`). A watched file that is saved during a run is
  asked for in mid-run, turned away as busy, and not asked for again.

Others, seen with other constants of the same modules, or while reading, kept as notes.

Planning and watch mode:

* `dependencies: ['setup', 'setup']` passes `validateProjects` and then fails in
  `topologicalSort` as a cycle: the in-degree counts entries, the decrement names
  (`project.ts:690`, `:717`). A comment there says of the throw "Should not happen if
  validateProjects passed, but guard anyway" (`project.ts:707`). `PlannedSoundly` names the exception: the sort
  throws exactly when a project that would run names a dependency twice.
* `Watch` with `"enter"` or `"f"` in `Keys`: changes can be lost. `scheduleImmediate`
  replaces what is queued behind a run, a queued run-all included, and when idle it
  cancels the debounce timer and leaves the debounced files with nothing armed.
* `Watch` with workers and no projects: a failed file that is deleted while it runs and
  comes back during a later run of all files leaves the list without a result, because
  that run clears what is known at its end, not what it dispatched (`watch.ts:1079`).
* `Watch` with `Workers = {}` and a file in two projects: `StickyFailures` fails. The
  sequential loops delete a file from `failedFiles` on each pass, while the comment on
  `reconcileFailedFiles` says that a fail in either wave is sticky.
* `Buckets` orders projects inside each target only: a dependency on another target is
  not waited for, and its failure blocks nothing, which `OwnDependenciesFirst` leaves out by
  name. A comment in `planMultiBucket` says that dependencies across buckets are not
  supported (`dispatcher.ts:541`); `docs/api-reference.md:2306` ("dependent projects run
  after their dependencies complete") describes `dependencies` without that limit, and
  nothing refuses such a configuration.

The parallel dispatcher (`Dispatcher`):

* A retirement kills the daemons of all devices of a worker's group, but the `finally` of
  `runParallel` (`dispatcher.ts:2178`) and the interrupt's `teardownResources`
  (`dispatcher.ts:1300`) kill only that of the worker's own device. Those of the other
  members, spawned at `dispatcher.ts:2339`, end by themselves when they find their
  parent process gone. `NothingLeftRunning` excepts them: the daemons left are exactly
  those of other members of workers not retired.
* `shardProjects` looks only at direct dependents that have files of their own: a
  setup project behind a project without files is dropped from every shard.

The runner (`TestFile`, `BoundedRun`):

* A scope with several `beforeAll` hooks of which a later one fails, or is cut short by a stop
  or by an unhandled error, returns without its `afterAll` (`runner.ts:2350`), though the
  earlier ones completed. When a later one skips instead, the comment at
  `runner.ts:2366` has the `afterAll` hooks "still clean up after the `beforeAll` hooks that
  did run". `EverySetupTornDown` excepts a scope whose own setup broke, and no other.
* A `test.skip()` in a `beforeAll` that a retry replays leaves `setupBroken` set
  without a fresh start pending; `describe.skip` suites reach the results without
  `onTestEnd`.
* A retry whose rebuild broke part-way runs outer `beforeAll` hooks again without their
  `afterAll` (`runner.ts:1840`). A describe entered after a sibling with another policy
  starts its first attempt without the root's `beforeAll`, its retries with it
  (`runner.ts:2151`); `docs/writing-tests.md:197` promises the set-up to both.
* The end of an action an abandoned run left behind can end the excluded time of the
  run at hand; `CutWhenDue` is about runs that are not `disturbed` that way.

The daemon (`AnimationScales`, `SystemProxy`, `LaunchGate`):

* Each member of `Rough` breaks `OwnValuesKept`: two daemons at work on one device at the
  same moment; a serial that goes to another AVD under a session (`restore` does not
  compare the AVD it reads with the record's); a timed-out command that lands after the
  restore. A value the user sets during a session is lost when a takeover turns off again.
* Records are kept per serial and AVD, and a record is compared with nothing under
  another serial. An emulator that comes back under a serial at which a daemon died finds
  that record again: if the user has set a scale meanwhile and a session has since turned
  it off, the older value is put back over the newer. It takes three changes from outside,
  more than the run has; the attempt to prove `OwnValuesKept` showed it, and `own` counts
  what is on record under a serial the AVD has left among its user's values.
* A cancelled acquire may run after a later one of its own daemon and replace its
  record (`overtaken`); a failing undo command still clears the record (`undoFailed`);
  a takeover that died half-way orphans the setting (`cut`). And a bypass list with
  nothing of the user's own, such as the empty one, set while the daemon's was never
  read back, is taken for the daemon's and replaced by the one before (`unread`). The
  comment at `system_proxy.rs:609` says "A user list that happens to be such a subset was
  also the snapshot, so "restoring" it changes nothing"; that is so of a list set before
  the capture only. `LeftAsFound` and `ProxyFollowsCapture`, the parts of `ProxyLent`, name these as
  their exceptions.
* A lease can be lost with the daemon alive. `acquire` sends it over a oneshot
  channel and releases it when the sending fails; but a start that is cancelled after
  the sending and before it has received drops the channel with the lease in it. And
  `cleanup_network_proxy` takes the lease out of `ios_system_proxy` and waits for other
  locks before it releases it; a request that is cancelled there drops it. A lease has no
  `Drop`, so the Mac goes on pointing at a port that nobody serves until a later acquire or
  recovery. The comments (`system_proxy.rs:913`, `ios_backend.rs:2021`) have a cancelled
  caller's lease released. `ProxyFollowsCapture` excepts these leases, and `lost` holds
  nothing else. (`stop_network_capture` takes and releases the lease the same way.)
* The start of an agent only logs a failing terminate, goes on when files of the app
  cannot be removed, and takes a gate file that could not be written for consumed
  (`missed`); and the agent's accessibility check may launch the app again, up to twice,
  without the daemon knowing (`retries`). `FreshIsFirstLaunch` names both. A wipe cut off at its deadline goes on while the runner launches, although
  `launch_gate.rs:26` says otherwise; such a start is never vouched for.

Network routes (`Routes`):

* When a stream ends, the daemon compares the stored handler with its own, drops the
  lock, and only then clears the proxy's. A newer stream that installs its handler in
  between loses it, and its routes answer nothing until the next stream, although the
  comment there says that this must not happen (`Compare`, then `Accept`, `Install`,
  then `Clear`). Two streams that open together may also install in the wrong order.
  `RoutesRestored` is about what the stream's handler knows, whichever handler the
  proxy asks.
* A request matched before an `unroute()` may reach the SDK after its reply, which the
  comment on `_unregisterAndAwait` excludes; it is passed on, as any unknown one.
* A route handler that calls `route.fetch()` after its stream dropped, or after the
  daemon gave up on the request, waits for ever. A request matched while its stream is
  being closed, after the release, waits the full 30 s: `HeldOnlyWhenOwed` excepts it.
* Only the last matching route is asked. If it turns the request down - a regular
  expression, a route used up or just removed - the request goes upstream, and an earlier
  route that would have matched is not tried.

UI mode (`UiRuns`; where a property has to leave one out, it does so by a named `corner`):

* Stop does nothing while a request waits in `ensureWorkersReady`, where `isRunning` is
  not yet set, and in the second one of a released request, although the page shows it
  as running (`"again"`).
* A request made during a run recycles idle workers with old code in mid-run, and may
  then be given a worker that was busy when it was made, with old code still.
  `GivenRightly` speaks of the workers idle at the request.
* A respawn by hand that crosses a file loses the file (`"clicked"`). Runs of projects
  have no catch: a rejected dispatch sends no run-end (`"unended"`), loses the counts
  it had, and leaves later waves unreported. The recycle timer may retire a target's
  only worker while a run waits for its workers. A change seen during another run is
  turned away as busy.

MCP sessions (`McpRuns`; exceptions by name again, `corner` and `loose`):

* `watch-run.ts` ignores an abort that arrives while it opens its devices; the grace period
  then kills it.
* A Stop while the next file's target is probed or resolved asks nobody: that file's
  process is forked afterwards and runs to its end (`"unasked"`), although
  `docs/mcp-server.md:386` says that the run stops at once.
* The late exit of an older process clears the timer that was to kill the newer one
  (`"disarmed"`).
* A watched file's runs take neither the test nor the project it is watched for
  (`docs/mcp-server.md:415` promises both).
* A process that breaks counts as one failure; the tests it had told stay in
  `list_results` but not in the totals, although the comment at
  `headless-dispatcher.ts:501` has the two tell "one story". `TotalsAgree`, the first part of
  `OneStory`, excepts broken files and nothing else. The tests of a `describe.skip` are
  counted as skipped at the file's end and have no result in the store; they are left out.
* Two `run_tests` calls that name a device beside a device tool whose attempt at the
  target fails: the first one's failed retry forgets the pin, the second is let through
  without one and may get another device (`loose`), though the tool's description says
  that `device` is never ignored.
* Three `run_tests` calls and a daemon that dies: the first is confirmed on its device and
  waits for the list of files; the second's run probes the daemon, drops the target and
  fails; the third names the other device and has the target resolved there; then the
  first one's run begins and runs there too (`loose`). `deviceChoiceError` holds the target
  to the confirmed device (`headless-dispatcher.ts:738`), but a later call replaces the pin.
  Likewise a call that is refused while a run tries its target again forgets the pin the
  run was confirmed with, and when the daemon dies once more the run takes any device.

## What is not modelled

In the modelled parts: the provisioning of devices, ports and daemons before the
first wave, and worker initialization; unavailable targets in watch mode; a watch worker
that dies between two runs (nobody listens then, and the outcome is up to Node); the
read-only queries of the claim registry; a lock taken over from a live process that
slept past the stale time; worker fixtures, traces and screenshots of the runner;
physical iOS devices and the registry of running agents; runs of single files, batches
and a project with its dependencies in UI mode (the same dispatch with another list),
what it shows of single tests, its background preparation of devices and its MCP loop;
subscriptions to network events and the end of a capture; in an MCP session several
targets and device groups, a device that the config pins, files that match nothing, the
discovery of tests, `runAll` (no tool of such a session calls it), toggling watches,
disposal, and the connection itself.
Messages, paths, times and report layout are left out everywhere.

Not modelled at all:

* Device sessions and the trace recorder: planned, see below.
* The daemon's proxy: byte I/O between the app and the network.
* Device provisioning, daemon service and devices: one handler per request around
  external tools, whose outcomes are inputs of the modelled parts.
* Reporters and blob merge, device API: formatting, conversions and polling around one
  call each; nothing in them depends on the order of events.
* On-device agents and React Native hooks: UI automation against device frameworks,
  with nothing finite to check.

## Plan

1. Proofs: `CleanStart` of `TestFile`; `RoutesRestored` of `Routes`.
2. Device sessions: opening, recovery and the ladder of resets, as `TestFile` uses them.
3. Worker initialization and the start of buckets, composed with `DeviceClaims`: two
   runs on one machine share the devices.
4. Several targets in `McpRuns`; event subscriptions and the end of a capture in
   `Routes`; the registry of running agents; the trace recorder's packaging.
