------------------------------ MODULE McpRuns ------------------------------
(***************************************************************************)
(* How an MCP session without UI mode runs tests: HeadlessTestDispatcher   *)
(* of mcp/headless-dispatcher.ts and the processes (watch-run.ts) it forks, *)
(* one for each file of a run.  Several calls are under way at once: runs,  *)
(* device tools, Stop, and the runs of watched files.  They share the list  *)
(* of files, brought up to date by one sync at a time, the session's one    *)
(* target (daemon, device and agent), and the run, of which there is one.   *)
(*                                                                         *)
(* The server is one thread: what a resolved promise goes on with           *)
(* (Continues) comes before the next event.                                 *)
(***************************************************************************)
EXTENDS Integers, Sequences, FiniteSets, FiniteSetsExt, SequencesExt

CONSTANTS
    TestFiles, Watched,    \* the test files, and the one that is watched
    NumCalls,     \* places for the tool calls and watch runs under way
    NumKids,      \* places for the processes forked
    Devices,
    Scenes,       \* what the session starts from, and what may happen in it
    NoTestFile, NoDevice

Calls == 1..NumCalls
Nobody == 0
Kids == 1..NumKids
NoKid == 0

\* What is bounded: run_tests calls, device tools, Stops, saved files, deaths of
\* processes, deaths of the daemon.
Occasions == {"run", "tool", "stop", "save", "death", "daemon"}

McpWellFormed ==
    /\ Scenes \in Seq([files : Seq(TestFiles), tests : [TestFiles -> Nat], kids : Kids, warm : BOOLEAN,
                         choices : SUBSET (Devices \cup {NoDevice}), bounds : [Occasions -> Nat]])
    /\ Watched \in TestFiles /\ NoTestFile \notin TestFiles /\ NoDevice \notin Devices
    \* matchRequestedFiles: a run has each of its files once; without any it does not begin
    /\ \A i \in DOMAIN Scenes : IsInjective(Scenes[i].files) /\ Scenes[i].files # <<>>
    /\ IsFiniteSet(TestFiles)
    /\ NumCalls \in Nat /\ NumKids \in Nat

ASSUME McpAssumption == McpWellFormed

VARIABLES
    scene,        \* which of them this is
    \* the list of files; versions of the disk are numbers
    listed,       \* "no", "first" (_initPromise) or "yes" (_initialized)
    sync,         \* _syncInFlight: "idle", "looking" or "discovering"
    queued,       \* _syncQueued
    disk, looked, known,   \* the disk, what the sync saw of it, what the list reflects
    debounce,     \* the watch queue's timer is set
    \* the target
    ready,        \* _devicesReady
    preparing,    \* _devicesPromise: "no", "session" or "resolving"
    pending,      \* _pendingPin: the call it is from, or Nobody
    applied,      \* the call whose pin was applied, or Nobody
    target,       \* "none", "failed" (_targetErrors), "up", or "dead": up, its daemon gone
    device,       \* of the target
    pin,          \* _devicePins
    retry,        \* _retryPromise: the call that began it, or Nobody
    retried,      \* _retriedTargets
    \* the calls
    step, want, ask, tried,
    asks,         \* the calls of run_tests that wait for their own list of files
    \* the run
    runner,       \* whose it is (_isRunning), or Nobody
    stopRequested,
    stage,        \* where the run is
    todo,         \* its files still to do, the one at hand first
    aim,          \* the pin its attempt at the target was begun with
    tally, results, broken,  \* totals, _testResults, the file-level failures among them
    verdict,      \* _lastRunEnd
    \* its processes
    kid, awaited, active, timer,  \* the unsettled one, _activeChild, _stopEscalationTimer
    \* for the properties and the bounds
    since,        \* the disk when a call was made
    meant,        \* the files that the last run was to run
    loose,        \* the calls let through though the device they name has no target, whose
                  \* target was dropped before their run began, or whose pin was forgotten
                  \* by another call in their run
    late,         \* processes forked since Stop
    tries,        \* resolutions of the target this run may not repeat
    corner,       \* what the code does not get right about a Stop
    unrun,        \* the watched file was saved and has not run since
    spent

fileVars == <<listed, sync, queued, disk, looked, known, debounce>>
targetVars == <<ready, preparing, pending, applied, target, device, pin, retry, retried>>
callVars == <<step, want, ask, tried, asks, since>>
stageVars == <<runner, stopRequested, stage, todo, aim, meant, tally, results, broken, verdict>>
kidVars == <<kid, awaited, active, timer>>
ghostVars == <<loose, late, tries, corner, unrun>>
mcpVars == <<scene, fileVars, targetVars, callVars, stageVars, kidVars, ghostVars, spent>>

Zero == [passed |-> 0, failed |-> 0, interrupted |-> 0]
NoRun == [status |-> "none", tally |-> Zero]
Gone == [state |-> "gone", file |-> NoTestFile, on |-> NoDevice, said |-> <<>>, mail |-> <<>>,
         abort |-> FALSE, asked |-> FALSE]
Scene == Scenes[scene]
Free == {k \in 1..Scene.kids : kid[k].state = "gone"}

\* A session that has just started, or (warm) one with its files listed and its
\* target up.
McpInit ==
    /\ scene \in DOMAIN Scenes
    /\ listed = (IF Scene.warm THEN "yes" ELSE "no") /\ sync = "idle" /\ queued = FALSE
    /\ disk = 0 /\ looked = 0 /\ known = 0 /\ debounce = FALSE
    /\ ready = Scene.warm /\ preparing = "no" /\ pending = Nobody /\ applied = Nobody
    /\ target = (IF Scene.warm THEN "up" ELSE "none")
    /\ device \in IF Scene.warm THEN Devices ELSE {NoDevice}
    /\ pin = NoDevice /\ retry = Nobody /\ retried = FALSE
    /\ step = [c \in Calls |-> "none"] /\ want = [c \in Calls |-> NoDevice]
    /\ ask = [c \in Calls |-> <<>>] /\ tried = [c \in Calls |-> FALSE] /\ asks = {}
    /\ runner = Nobody /\ stopRequested = FALSE /\ stage = "none" /\ todo = <<>> /\ aim = NoDevice /\ tally = Zero
    /\ results = [f \in TestFiles |-> <<>>] /\ broken = {} /\ verdict = NoRun
    /\ kid = [k \in Kids |-> Gone] /\ awaited = NoKid /\ active = NoKid /\ timer = NoKid
    /\ since = [c \in Calls |-> 0] /\ meant = {} /\ loose = {} /\ late = 0 /\ tries = 0 /\ corner = {}
    /\ unrun = FALSE
    /\ spent = [o \in Occasions |-> 0]

\* A promise has resolved and what awaits it has not gone on yet.
Continues ==
    \/ \E c \in Calls : step[c] \in {"again", "resolved", "listed"}
    \/ \E c \in Calls : step[c] \in {"choosing", "attaching"} /\ preparing = "no"
    \/ \E c \in Calls : step[c] = "settling" /\ retry = Nobody
    \/ stage = "devices" /\ preparing = "no"
    \/ stage = "await" /\ retry = Nobody
Event == ~Continues

\* One more occasion, of those the scene is bounded to.
Spend(o) == spent' = [spent EXCEPT ![o] = @ + 1] /\ spent'[o] <= Scene.bounds[o]

Goes(c, to) == step' = [step EXCEPT ![c] = to]

-----------------------------------------------------------------------------
(* The list of files.                                                      *)

\* Mutant: a call made while a sync runs waits for that one.
ScheduleShared(c) ==
    /\ Goes(c, "listing") /\ UNCHANGED queued
    /\ sync' = IF sync = "idle" THEN "looking" ELSE sync

\* _scheduleSync: a call made while a sync runs waits for the next one.
ScheduleSync(c) ==
    IF queued THEN Goes(c, "queued") /\ UNCHANGED <<sync, queued>>
    ELSE IF sync = "idle" THEN Goes(c, "listing") /\ sync' = "looking" /\ UNCHANGED queued
    ELSE Goes(c, "queued") /\ queued' = TRUE /\ UNCHANGED sync

\* refreshTestFiles: the call that begins the session's first look waits for it,
\* one that finds it begun for another sync after it.
Refresh(c) ==
    CASE listed = "no" -> /\ listed' = "first" /\ sync' = "looking" /\ Goes(c, "listing")
                          /\ UNCHANGED queued
      [] listed = "first" -> Goes(c, "first") /\ UNCHANGED <<listed, sync, queued>>
      [] listed = "yes" -> ScheduleSync(c) /\ UNCHANGED listed

\* The first look is over: schedule the sync.
RefreshAgain(c) ==
    /\ step[c] = "again" /\ ScheduleSync(c)
    /\ UNCHANGED <<scene, listed, disk, looked, known, debounce, targetVars, want, ask, tried, asks, since,
                   stageVars, kidVars, ghostVars, spent>>

\* _syncTestFiles: the files are globbed and stamped.
Look ==
    /\ Event /\ sync = "looking" /\ sync' = "discovering" /\ looked' = disk
    /\ UNCHANGED <<scene, listed, queued, disk, known, debounce, targetVars, callVars, stageVars, kidVars,
                   ghostVars, spent>>

\* A sync ends, with the new list or, when the glob threw, with the old one; the
\* queued one starts.
EndSync ==
    /\ Event
    /\ \/ sync = "discovering" /\ known' = looked /\ UNCHANGED since
       \/ /\ sync = "looking" /\ UNCHANGED known
          /\ since' = [c \in Calls |-> IF step[c] = "listing" THEN 0 ELSE since[c]]
    /\ listed' = "yes" /\ queued' = FALSE
    /\ sync' = IF queued THEN "looking" ELSE "idle"
    /\ step' = [c \in Calls |-> CASE step[c] = "listing" -> "listed"
                                  [] step[c] = "first" -> "again"
                                  [] step[c] = "queued" -> "listing"
                                  [] OTHER -> step[c]]
    /\ UNCHANGED <<scene, disk, looked, debounce, targetVars, want, ask, tried, asks, stageVars, kidVars,
                   ghostVars, spent>>

\* A test file is written; it is a watched one, and its change arms the timer of
\* the watch queue.
Save ==
    /\ Event /\ Spend("save")
    /\ disk' = disk + 1 /\ debounce' = TRUE /\ unrun' = TRUE
    /\ UNCHANGED <<scene, loose, listed, sync, queued, looked, known, targetVars, callVars, stageVars, kidVars,
                   late, tries, corner>>

\* The place of the next call.
NextCall == LET idle == {c \in Calls : step[c] = "none"} IN IF idle = {} THEN {} ELSE {Min(idle)}

\* Call c is made: what it wants of the target, and the files it asks for.
Made(c, d, files) ==
    /\ want' = [want EXCEPT ![c] = d] /\ ask' = [ask EXCEPT ![c] = files]
    /\ since' = [since EXCEPT ![c] = disk] /\ loose' = loose \ {c}

\* The timer fires: runFiles of the changed file.  Nothing tells the queue that
\* a run is under way (notifyRunStarted), so it does not wait for one.
DebounceFires ==
    /\ Event /\ debounce /\ debounce' = FALSE
    /\ \E c \in NextCall : Made(c, NoDevice, <<Watched>>) /\ Refresh(c)
    /\ UNCHANGED <<scene, disk, looked, known, targetVars, tried, asks, stageVars, kidVars, late, tries, corner,
                   unrun, spent>>

-----------------------------------------------------------------------------
(* The target.                                                             *)

\* _resolveOnePlatformTarget ends: with the device that was pinned when it began
\* or, with no pin, any one; or none.
Resolved(pinned) ==
    \/ target' = "failed" /\ device' = NoDevice
    \/ target' = "up" /\ device' \in IF pinned = NoDevice THEN Devices ELSE {pinned}

HasTarget == target \in {"up", "dead"}

\* ensureDevicesReady: what is under way is shared.
Prepare == preparing' = IF ~ready /\ preparing = "no" THEN "session" ELSE preparing

\* The session is loaded: the pending pin is applied (_applyPendingPin), and the
\* target resolved.
ApplyPin ==
    /\ Event /\ preparing = "session" /\ preparing' = "resolving"
    /\ IF pending = Nobody THEN UNCHANGED <<pin, applied>>
       ELSE pin' = want[pending] /\ applied' = pending
    /\ UNCHANGED <<scene, fileVars, ready, pending, target, device, retry, retried, callVars, stageVars,
                   kidVars, ghostVars, spent>>

Prepared ==
    /\ Event /\ preparing = "resolving" /\ preparing' = "no"
    /\ ready' = TRUE /\ retried' = FALSE /\ Resolved(pin)
    /\ UNCHANGED <<scene, fileVars, pending, applied, pin, retry, callVars, stageVars, kidVars, ghostVars,
                   spent>>

\* A retry of the failed target ends.  Nobody changes the pin before it does.
RetryEnds ==
    /\ Event /\ retry # Nobody /\ retry' = Nobody /\ Resolved(pin)
    /\ step' = [c \in Calls |-> IF step[c] = "retrying" THEN "none"
                                ELSE IF step[c] = "resolving" THEN "resolved" ELSE step[c]]
    /\ UNCHANGED <<scene, fileVars, ready, preparing, pending, applied, pin, retried, want, ask, tried, asks,
                   since, stageVars, kidVars, ghostVars, spent>>

\* The daemon dies; nobody is told.
DaemonDies ==
    /\ Event /\ target = "up" /\ Spend("daemon") /\ target' = "dead"
    /\ UNCHANGED <<scene, fileVars, ready, preparing, pending, applied, device, pin, retry, retried,
                   callVars, stageVars, kidVars, ghostVars>>

\* A device tool (ensureDevicesReady with retryFailedTargets): it prepares the
\* target on the device it names, or tries a failed one again, but not during a
\* run nor within the interval since the last time.
Tool(c) ==
    /\ Event /\ c \in NextCall /\ Spend("tool")
    /\ \E d \in Scene.choices : Made(c, d, <<>>)
    /\ CASE ~ready /\ preparing = "no" ->
              /\ preparing' = "session" /\ Goes(c, "attaching") /\ UNCHANGED retry
              /\ IF want'[c] # NoDevice /\ pending = Nobody
                 THEN pending' = c ELSE UNCHANGED pending
         [] ready /\ retry = Nobody /\ target = "failed" /\ runner = Nobody ->
              /\ UNCHANGED <<preparing, pending>>
              /\ \/ retry' = c /\ Goes(c, "retrying")
                 \/ UNCHANGED <<retry, step>>
         [] OTHER -> UNCHANGED <<preparing, pending, retry, step>>
    /\ UNCHANGED <<scene, fileVars, ready, applied, target, device, pin, retried, tried, asks, stageVars,
                   kidVars, late, tries, corner, unrun>>

\* The tool that prepared the target goes on: a device that could not be set up
\* pins nothing.
ToolAttached(c) ==
    /\ step[c] = "attaching" /\ preparing = "no" /\ Goes(c, "none")
    /\ pending' = IF pending = c THEN Nobody ELSE pending
    /\ applied' = IF applied = c THEN Nobody ELSE applied
    /\ pin' = IF applied = c /\ ~HasTarget THEN NoDevice ELSE pin
    /\ UNCHANGED <<scene, fileVars, ready, preparing, target, device, retry, retried, want, ask, tried, asks,
                   since, stageVars, kidVars, ghostVars, spent>>

\* run_tests on a device, its files brought up to date, perhaps during a run by
\* now: deviceChoiceError pins the device for the target to be resolved with, or
\* looks at the one there is.
AskOnDevice(c) ==
    /\ pending' = IF ready THEN pending ELSE c
    /\ tried' = [tried EXCEPT ![c] = ~ready]
    /\ Prepare /\ Goes(c, "choosing")
    /\ UNCHANGED <<listed, sync, queued>>

\* The answer to a call that names a device: refused, or let through to runFiles.
\* A device that could not be set up pins nothing; one confirmed is held to.
Conclude(c) ==
    LET d == want[c] IN
    /\ loose' = IF HasTarget THEN loose
                ELSE loose \cup {c} \cup {b \in Calls : b = runner /\ pin = d}
    /\ CASE ~HasTarget /\ pin = d -> /\ pin' = NoDevice /\ Goes(c, "none")
                                     /\ UNCHANGED <<listed, sync, queued>>
         [] ~HasTarget /\ pin # d -> UNCHANGED pin /\ Refresh(c)
         [] HasTarget /\ device = d -> pin' = (IF pin = NoDevice THEN d ELSE pin) /\ Refresh(c)
         [] HasTarget /\ device # d -> UNCHANGED <<pin, listed, sync, queued>> /\ Goes(c, "none")

\* With no retry under way, a target that failed is tried on the device named,
\* unless it just was, but not during a run, which tries its own.
Settle(c, justTried) ==
    IF ~justTried /\ runner = Nobody /\ target = "failed"
    THEN /\ pin' = want[c] /\ retried' = TRUE /\ retry' = c /\ Goes(c, "resolving")
         /\ UNCHANGED <<listed, sync, queued, loose>>
    ELSE Conclude(c) /\ UNCHANGED <<retried, retry>>

\* The target was resolved, with this pin or without.  A tool that prepared it
\* awaits the same promise, and did so first.
Chosen(c) ==
    LET justTried == tried[c] /\ pin = want[c] IN
    /\ step[c] = "choosing" /\ preparing = "no" /\ \A b \in Calls : step[b] # "attaching"
    /\ pending' = IF pending = c THEN Nobody ELSE pending
    /\ applied' = IF applied = c THEN Nobody ELSE applied
    /\ tried' = [tried EXCEPT ![c] = justTried]
    /\ IF retry = Nobody THEN Settle(c, justTried)
       ELSE Goes(c, "settling") /\ UNCHANGED <<pin, retry, retried, listed, sync, queued, loose>>
    /\ UNCHANGED <<scene, disk, looked, known, debounce, ready, preparing, target, device, want, ask, asks,
                   since, stageVars, kidVars, late, tries, corner, unrun, spent>>

\* The retry it waited for is over.
Settled(c) ==
    /\ step[c] = "settling" /\ retry = Nobody /\ Settle(c, tried[c])
    /\ UNCHANGED <<scene, disk, looked, known, debounce, ready, preparing, pending, applied, target, device,
                   want, ask, tried, asks, since, stageVars, kidVars, late, tries, corner, unrun, spent>>

\* Its own retry is.
ResolvedForCall(c) ==
    /\ step[c] = "resolved" /\ Conclude(c)
    /\ UNCHANGED <<scene, disk, looked, known, debounce, ready, preparing, pending, applied, target, device,
                   retry, retried, want, ask, tried, asks, since, stageVars, kidVars, late, tries, corner, unrun, spent>>

\* run_tests: refused at once during a run; it brings the list of files up to date.
Ask(c) ==
    /\ Event /\ c \in NextCall /\ runner = Nobody /\ Spend("run")
    /\ \E d \in Scene.choices : Made(c, d, Scene.files) /\ Refresh(c)
    /\ asks' = asks \cup {c}
    /\ UNCHANGED <<scene, disk, looked, known, debounce, targetVars, tried, stageVars, kidVars, late, tries,
                   corner, unrun>>

\* It goes on with the list: to the choice of its device, if it names one, or to
\* runFiles.
AskGoesOn(c) ==
    /\ step[c] = "listed" /\ c \in asks /\ asks' = asks \ {c}
    /\ IF want[c] # NoDevice THEN AskOnDevice(c)
       ELSE Refresh(c) /\ UNCHANGED <<pending, preparing, tried>>
    /\ UNCHANGED <<scene, disk, looked, known, debounce, ready, applied, target, device, pin, retry,
                   retried, want, ask, since, stageVars, kidVars, ghostVars, spent>>

-----------------------------------------------------------------------------
(* The run.                                                                *)

\* _tallyResults and _salvageFromStore: what a list of results counts as.
Count(said) == [o \in DOMAIN Zero |-> Cardinality({i \in DOMAIN said : said[i] = o})]
Plus(t, u) == [o \in DOMAIN Zero |-> t[o] + u[o]]
OneFailure == [Zero EXCEPT !.failed = 1]

\* _finishRun and _endRunState.
Finish(t) ==
    /\ verdict' = [status |-> IF stopRequested THEN "stopped"
                              ELSE IF t.failed > 0 THEN "failed" ELSE "passed", tally |-> t]
    /\ runner' = Nobody /\ stopRequested' = FALSE /\ stage' = "none" /\ todo' = <<>> /\ tally' = Zero
    /\ timer' = NoKid /\ Goes(runner, "none")
    /\ late' = 0 /\ tries' = 0 /\ corner' = {}

\* The run goes on with the files rest, its totals at t.
GoOn(t, rest, armed) ==
    IF stopRequested \/ rest = <<>> THEN Finish(t)
    ELSE /\ stage' = "await" /\ todo' = rest /\ tally' = t /\ timer' = armed
         /\ UNCHANGED <<verdict, runner, stopRequested, step, late, tries, corner>>

\* Mutant: a file that was cut off counts for nothing.
FileFailsBlank(armed) ==
    IF stopRequested
    THEN Finish(tally) /\ UNCHANGED broken
    ELSE broken' = broken \cup {Head(todo)} /\ GoOn(Plus(tally, OneFailure), Tail(todo), armed)

\* The file at hand ended without results: interrupted, and what it had reported
\* is counted, or failed (_accountForFileError).
FileFails(armed) ==
    IF stopRequested
    THEN Finish(Plus(tally, Count(results[Head(todo)]))) /\ UNCHANGED broken
    ELSE broken' = broken \cup {Head(todo)} /\ GoOn(Plus(tally, OneFailure), Tail(todo), armed)

\* runFiles, its files brought up to date: busy, or the run begins.
StartRun(c) ==
    /\ step[c] = "listed" /\ c \notin asks
    /\ IF runner # Nobody
       THEN Goes(c, "none") /\ UNCHANGED <<preparing, retried, runner, stopRequested, stage, todo, meant,
                                           tally, results, broken>>
       ELSE /\ Goes(c, "running") /\ runner' = c /\ retried' = FALSE /\ stopRequested' = FALSE
            /\ results' = [f \in TestFiles |-> <<>>] /\ broken' = {} /\ tally' = Zero /\ todo' = ask[c]
            /\ meant' = ToSet(ask[c])
            /\ stage' = (IF ready THEN "await" ELSE "devices") /\ Prepare
    /\ UNCHANGED <<scene, fileVars, ready, pending, applied, target, device, pin, retry, want, ask, tried, asks,
                   since, aim, verdict, kidVars, ghostVars, spent>>

\* The target is prepared; the first file, unless a Stop came first.
DevicesReady ==
    /\ stage = "devices" /\ preparing = "no" /\ GoOn(tally, todo, timer)
    /\ UNCHANGED <<scene, loose, fileVars, targetVars, want, ask, tried, asks, since, aim, meant, results,
                   broken, kid, awaited, active, unrun, spent>>

\* A process is forked for the file at hand, on the target's device.
Fork ==
    /\ Free # {}
    /\ LET k == Min(Free) IN
       /\ kid' = [kid EXCEPT ![k] = [Gone EXCEPT !.state = "forked", !.file = Head(todo), !.on = device']]
       /\ awaited' = k /\ active' = k
    /\ stage' = "child"
    /\ late' = (IF stopRequested THEN late + 1 ELSE late) /\ unrun' = (unrun /\ Head(todo) # Watched)
    /\ UNCHANGED <<runner, stopRequested, todo, tally, verdict, broken, timer, step, tries, corner>>

\* The target's daemon is probed, and a target that failed tried again once in a
\* run.
EnsureNow ==
    /\ stage = "await"
    /\ IF HasTarget
       THEN /\ stage' = "probe"
            /\ UNCHANGED <<retried, aim, runner, stopRequested, todo, tally, verdict, broken, timer, step, late,
                           tries, corner>>
       ELSE IF retried THEN FileFails(timer) /\ UNCHANGED <<retried, aim>>
       ELSE /\ stage' = "resolving" /\ retried' = TRUE /\ aim' = pin /\ tries' = tries + 1
            /\ UNCHANGED <<runner, stopRequested, todo, tally, verdict, broken, timer, step, late, corner>>
    /\ UNCHANGED <<scene, loose, fileVars, ready, preparing, pending, applied, target, device, pin,
                   retry, want,
                   ask, tried, asks, since, meant, results, kid, awaited, active, unrun, spent>>

\* Mutant: a retry under way is not waited for.
EnsureTargetAtOnce == EnsureNow

\* _ensureTargetForProject: a retry under way is waited for.
EnsureTarget == retry = Nobody /\ EnsureNow

\* The calls that were let through, their run still to begin.
LetThrough == {c \in Calls \ asks : step[c] \in {"first", "again", "listing", "queued", "listed"}}

\* The daemon answers, or it is gone and the target forgotten with its budget
\* (_dropTargetIfDaemonDied).
Probe ==
    /\ Event /\ stage = "probe"
    /\ \/ target = "up" /\ UNCHANGED <<target, device, retried, aim, loose>> /\ Fork
       \/ /\ target = "dead" /\ target' = "failed" /\ device' = NoDevice
          /\ stage' = "resolving" /\ retried' = TRUE /\ aim' = pin /\ tries' = 1
          /\ loose' = loose \cup LetThrough
          /\ UNCHANGED <<runner, stopRequested, todo, tally, verdict, broken, kidVars, step, late, corner,
                         unrun>>
    /\ UNCHANGED <<scene, fileVars, ready, preparing, pending, applied, pin, retry, want, ask, tried, asks,
                   since, meant, results, spent>>

\* The run's own attempt at the target ends.
RunResolves ==
    /\ Event /\ stage = "resolving" /\ Resolved(aim) /\ aim' = NoDevice
    /\ IF target' = "up" THEN Fork
       ELSE FileFails(timer) /\ UNCHANGED <<kid, awaited, active, unrun>>
    /\ UNCHANGED <<scene, loose, fileVars, ready, preparing, pending, applied, pin, retry, retried, want, ask,
                   tried, asks, since, meant, results, spent>>

-----------------------------------------------------------------------------
(* The processes.                                                          *)

\* The process at hand is asked to abort.  There may be none, or still the one of
\* the file before.
AskToAbort ==
    /\ Event /\ runner # Nobody /\ Spend("stop")
    /\ stopRequested' = TRUE
    /\ IF active = NoKid THEN UNCHANGED kid ELSE kid' = [kid EXCEPT ![active].abort = TRUE]
    /\ corner' = IF awaited # NoKid THEN {}
                 ELSE IF stage \in {"await", "probe", "resolving"} THEN {"unasked"} ELSE corner
    /\ UNCHANGED <<scene, loose, fileVars, targetVars, callVars, runner, stage, todo, aim, meant, tally,
                   results, broken, verdict, awaited, active, late, tries, unrun>>

\* Mutant: a process that does not answer is not killed.
StopPolitely == AskToAbort /\ UNCHANGED timer

\* stop(): it is killed when the grace period ends.
Stop == AskToAbort /\ timer' = IF active = NoKid THEN timer ELSE active

\* The grace period is over.
Escalate ==
    /\ Event /\ timer # NoKid /\ timer' = NoKid
    /\ kid' = [kid EXCEPT ![timer].state = IF @ = "gone" THEN @ ELSE "exited"]
    /\ UNCHANGED <<scene, fileVars, targetVars, callVars, stageVars, awaited, active, ghostVars, spent>>

KidMoves(k, new) ==
    /\ Event /\ kid' = [kid EXCEPT ![k] = new]
    /\ UNCHANGED <<scene, fileVars, targetVars, callVars, stageVars, awaited, active, timer, ghostVars>>

\* The device group is open; what was said before found no run to abort.
KidOpens(k) ==
    /\ kid[k].state = "forked" /\ KidMoves(k, [kid[k] EXCEPT !.state = "running"]) /\ UNCHANGED spent

\* The abort arrives.
KidHears(k) ==
    /\ kid[k].abort
    /\ KidMoves(k, [kid[k] EXCEPT !.abort = FALSE, !.asked = @ \/ kid[k].state = "running"])
    /\ UNCHANGED spent

\* A test ends; one that was cut off counts as interrupted.
KidReports(k) ==
    /\ kid[k].state = "running" /\ Len(kid[k].said) < Scene.tests[kid[k].file]
    /\ \E o \in {"passed", "failed"} \cup (IF kid[k].asked THEN {"interrupted"} ELSE {}) :
          KidMoves(k, [kid[k] EXCEPT !.said = Append(@, o), !.mail = Append(@, o)])
    /\ UNCHANGED spent

\* The file is done, or what is left of it not run after an abort.
KidEnds(k) ==
    /\ kid[k].state = "running"
    /\ kid[k].asked \/ Len(kid[k].said) = Scene.tests[kid[k].file]
    /\ KidMoves(k, [kid[k] EXCEPT !.state = "closing", !.mail = Append(@, "done")]) /\ UNCHANGED spent

\* The process exits after its file, or breaks: with an error that it tells, when
\* the device does not open or the run throws, or without a word.
KidExits(k) ==
    \/ /\ kid[k].state = "closing"
       /\ KidMoves(k, [kid[k] EXCEPT !.state = "exited", !.abort = FALSE]) /\ UNCHANGED spent
    \/ /\ kid[k].state \in {"forked", "running"} /\ Spend("death")
       /\ \E last \in {<<>>, <<"error">>} :
             KidMoves(k, [kid[k] EXCEPT !.state = "exited", !.abort = FALSE, !.mail = @ \o last])

\* A message arrives; one of a process that has been settled is not listened to.
Deliver(k) ==
    LET m == Head(kid[k].mail) f == kid[k].file IN
    /\ Event /\ kid[k].mail # <<>>
    /\ kid' = [kid EXCEPT ![k].mail = Tail(@)]
    /\ CASE awaited # k ->
              UNCHANGED <<awaited, active, results, broken, stage, todo, tally, timer, verdict, runner,
                          stopRequested, step, late, tries, corner>>
         [] awaited = k /\ m = "done" ->
              /\ awaited' = NoKid /\ UNCHANGED <<active, results, broken>>
              /\ GoOn(Plus(tally, Count(kid[k].said)), Tail(todo), timer)
         [] awaited = k /\ m = "error" ->
              /\ awaited' = NoKid /\ active' = NoKid /\ UNCHANGED results /\ FileFails(NoKid)
         [] OTHER ->
              /\ results' = [results EXCEPT ![f] = Append(@, m)]
              /\ UNCHANGED <<awaited, active, broken, stage, todo, tally, timer, verdict, runner,
                             stopRequested, step, late, tries, corner>>
    /\ UNCHANGED <<scene, loose, fileVars, targetVars, want, ask, tried, asks, since, aim, meant, unrun,
                   spent>>

\* A process is seen to have exited, which may come before its last messages.
\* The timer of a Stop is cleared, whichever process it was for.
ExitSeen(k) ==
    /\ Event /\ kid[k].state = "exited"
    /\ kid' = [kid EXCEPT ![k] = Gone]
    /\ active' = IF active = k THEN NoKid ELSE active
    /\ IF awaited = k
       THEN awaited' = NoKid /\ FileFails(NoKid)
       ELSE /\ timer' = NoKid
            /\ corner' = IF timer \notin {NoKid, k} THEN corner \cup {"disarmed"} ELSE corner
            /\ UNCHANGED <<awaited, broken, stage, todo, tally, verdict, runner, stopRequested, step, late,
                           tries>>
    /\ UNCHANGED <<scene, loose, fileVars, targetVars, want, ask, tried, asks, since, aim, meant, results,
                   unrun, spent>>

\* A file that takes an hour is given up, and its process killed.
TimesOut ==
    /\ Event /\ awaited # NoKid
    /\ kid' = [kid EXCEPT ![awaited].state = "exited", ![awaited].abort = FALSE]
    /\ awaited' = NoKid /\ active' = NoKid /\ Spend("death") /\ FileFails(NoKid)
    /\ UNCHANGED <<scene, loose, fileVars, targetVars, want, ask, tried, asks, since, aim, meant, results,
                   unrun>>

-----------------------------------------------------------------------------
\* With no call under way and no run the session may wait for the next for good.
Rest == runner = Nobody /\ (\A c \in Calls : step[c] = "none") /\ UNCHANGED mcpVars

McpNext ==
    \/ Rest
    \/ Look \/ EndSync \/ Save \/ DebounceFires
    \/ ApplyPin \/ Prepared \/ RetryEnds \/ DaemonDies
    \/ DevicesReady \/ EnsureTarget \/ Probe \/ RunResolves \/ Stop \/ Escalate \/ TimesOut
    \/ \E c \in Calls : RefreshAgain(c) \/ Tool(c) \/ ToolAttached(c) \/ Chosen(c) \/ Settled(c)
                        \/ ResolvedForCall(c) \/ Ask(c) \/ AskGoesOn(c) \/ StartRun(c)
    \/ \E k \in Kids : KidOpens(k) \/ KidHears(k) \/ KidReports(k) \/ KidEnds(k) \/ KidExits(k)
                       \/ Deliver(k) \/ ExitSeen(k)

McpSpec == McpInit /\ [][McpNext]_mcpVars

-----------------------------------------------------------------------------
(* Properties.                                                             *)

\* A request gets what it asked for.  It goes on with a list of files that shows
\* the disk as it was when the request was made, or later, unless the look at the
\* disk failed; and a run that named a device runs there or not at all.
RequestHonoured ==
    /\ \A c \in Calls : step[c] = "listed" => known >= since[c]
    /\ (awaited # NoKid /\ want[runner] # NoDevice /\ runner \notin loose) => kid[awaited].on = want[runner]

\* After a run its totals are what its results add up to, but that a file that broke
\* is one failure whatever it had reported.
TotalsAgree ==
    LET Sum(o) == SumFunction([f \in TestFiles |-> IF f \in broken THEN 0 ELSE Count(results[f])[o]])
    IN (runner = Nobody /\ verdict.status # "none") =>
        /\ verdict.tally = [o \in DOMAIN Zero |-> Sum(o) + IF o = "failed" THEN Cardinality(broken) ELSE 0]
        /\ verdict.status = "passed" => broken = {} /\ Sum("failed") + Sum("interrupted") = 0

\* After a run that passed, every test of every file that was asked for has a result.
EveryTestTold ==
    (runner = Nobody /\ verdict.status = "passed") =>
        \A f \in meant : Len(results[f]) = Scene.tests[f]

\* The summary and list_results tell one story, a broken file excepted; and "passed"
\* means that every test ran, and passed.
OneStory == TotalsAgree /\ EveryTestTold

\* A Stop ends the run: no more than one process is forked after it, and one that
\* is asked has its grace period running or is killed.  Not asked are a process
\* forked after the Stop and one whose timer an older process cleared.
StopHeeded ==
    /\ late <= 1
    /\ (stopRequested /\ awaited # NoKid /\ corner = {}) =>
           timer = awaited \/ kid[awaited].state = "exited"

\* "two resolutions of one target start two daemons": the target is resolved by
\* one at a time, and by a run once, unless its daemon died since.
ResolvedOnce ==
    /\ Cardinality({w \in {"session", "retry", "run"} :
           CASE w = "session" -> preparing = "resolving"
             [] w = "retry" -> retry # Nobody
             [] w = "run" -> stage = "resolving"}) <= 1
    /\ tries <= 1

\* "When enabled, the file automatically re-runs on save": a saved file waits for
\* the timer, is in a run to come or still to do in the run at hand, or had its
\* run fail before it began.  (A Stop takes files off the run.)
SavedIsRun ==
    (unrun /\ spent["stop"] = 0) =>
        \/ debounce \/ Watched \in broken
        \/ \E c \in Calls : step[c] \in {"first", "again", "listing", "queued", "listed"}
                            /\ Watched \in ToSet(ask[c])
        \/ Watched \in ToSet(todo) /\ (stage = "child" => Head(todo) # Watched)
=============================================================================
