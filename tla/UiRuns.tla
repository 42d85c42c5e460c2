------------------------------- MODULE UiRuns -------------------------------
(***************************************************************************)
(* How UI mode runs tests: the server of ui-mode/ui-server.ts with its     *)
(* persistent workers.  Requests pass the startup gate (worker-startup.ts), *)
(* wait until the workers are ready, and one of them becomes the run; its  *)
(* waves are dispatched file by file; Stop, a worker's death, a recycle    *)
(* after a source change and a respawn may come at any time.               *)
(*                                                                         *)
(* The server is one thread.  What a handler calls before it returns is    *)
(* the agenda, worked off call by call; what a resolved promise continues  *)
(* with comes next, and only then another event.                           *)
(***************************************************************************)
EXTENDS Integers, Sequences, FiniteSets, FiniteSetsExt, SequencesExt

CONSTANTS
    NumSlots,     \* places in uiWorkers, one device each
    Files, FileOrder,    \* the test files, and their order in the config
    Projects, Buckets,   \* projects and device targets
    Suites,       \* the configurations to choose from
    Requests,     \* callers that ask for runs: the page, MCP, the watcher
    NoFile, Nobody

Slots == 1..NumSlots

\* What is bounded: workers' deaths, saved files, Stop, requests, respawn clicks.
Occasions == {"death", "save", "stop", "ask", "click"}

ASSUME UiAssumption ==
    /\ NumSlots \in Nat
    /\ Nobody \notin Requests /\ NoFile \notin Files
    /\ FileOrder \in Seq(Files) /\ \A f \in Files : \E i \in DOMAIN FileOrder : FileOrder[i] = f
    /\ \A i, j \in DOMAIN FileOrder : FileOrder[i] = FileOrder[j] => i = j
    /\ Suites \subseteq [project : [Files -> Projects], target : [Projects -> Buckets],
                         device : [Slots -> Buckets], needs : [Projects -> SUBSET Projects],
                         wave : [Projects -> 1..2], bounds : [Occasions -> Nat]]

VARIABLES
    suite,      \* the configuration of the session
    \* WorkerStartupGate
    starting, waiter, preparing, stoppedPreparing,
    \* afterWorkerStartup, ensureWorkersReady and the run functions
    step,       \* what each request is doing
    want,       \* "all" or the project it asks for
    awaits,     \* the slots whose respawn it waits for
    waited,     \* it was held by the gate
    \* the run
    runner,     \* whose run is under way (isRunning), or Nobody
    aborted,    \* parallelRunAborted, stopRequested
    timer,      \* stopEscalationTimer
    wave, failedProjects, tried, reviving,
    \* the dispatch of a wave
    dispatch,   \* "none", "open", "settled" or "rejected"
    offered,    \* initialDispatchDone
    fileQueue, anyFailed,
    agenda,     \* the calls still to make before the handler returns
    \* uiWorkers and their processes
    handle, child, job, mail, respawning,
    down, attempts,      \* unavailableTargets: failed, and attempts in flight
    recycleDue, \* a timer that recycles stale workers is set
    \* what the page shows, and what the run reported
    page, outcome, times, verdict,
    \* for the properties and the bounds
    stopped,    \* requests Stop was pressed for
    due,        \* for each request, the idle workers stale when it was made
    corner,     \* situations the code does not get right (see the properties)
    spent       \* how often each occasion has come

gateVars == <<starting, waiter, preparing, stoppedPreparing>>
requestVars == <<step, want, awaits, waited>>
runVars == <<runner, aborted, timer, wave, failedProjects, tried, reviving>>
dispatchVars == <<dispatch, offered, fileQueue, anyFailed, agenda>>
workerVars == <<handle, child, job, mail, respawning>>
targetVars == <<down, attempts, recycleDue>>
reportVars == <<page, outcome, times, verdict>>
ghostVars == <<stopped, due, corner>>
vars == <<suite, gateVars, requestVars, runVars, dispatchVars, workerVars, targetVars,
          reportVars, ghostVars, spent>>

BucketOf(f) == suite.target[suite.project[f]]
Absent == [there |-> FALSE, retired |-> TRUE, busy |-> FALSE, file |-> NoFile,
           stale |-> FALSE, active |-> FALSE]
Fresh == [Absent EXCEPT !.there = TRUE, !.retired = FALSE]

\* A worker that is given up, and one that is handed file f or, NoFile, is not.
GivenUp(h) == [h EXCEPT !.retired = TRUE, !.busy = FALSE, !.file = NoFile]
Holding(h, busy, f) == [h EXCEPT !.busy = busy, !.file = f]

NoVerdict == [files |-> {}, status |-> "none"]

Live == {s \in Slots : handle[s].there /\ ~handle[s].retired}
Remaining == {s \in Live : handle[s].active}    \* of the dispatch's activeWorkers
\* Mutant: settled once nothing is queued.
AllDoneWhenEmpty == fileQueue = <<>>

AllDone == \A s \in Remaining : ~handle[s].busy

Init ==
    /\ suite \in Suites
    /\ starting = TRUE /\ waiter = Nobody /\ preparing = FALSE /\ stoppedPreparing = FALSE
    /\ step = [r \in Requests |-> "none"] /\ want = [r \in Requests |-> "all"]
    /\ awaits = [r \in Requests |-> {}] /\ waited = [r \in Requests |-> FALSE]
    /\ runner = Nobody /\ aborted = FALSE /\ timer = FALSE /\ wave = 1
    /\ failedProjects = {} /\ tried = {} /\ reviving = {}
    /\ dispatch = "none" /\ offered = FALSE /\ fileQueue = <<>> /\ anyFailed = FALSE
    /\ agenda = <<>>
    /\ handle = [s \in Slots |-> Absent] /\ child = [s \in Slots |-> "gone"]
    /\ job = [s \in Slots |-> <<>>] /\ mail = [s \in Slots |-> <<>>]
    /\ respawning = {} /\ down = {} /\ attempts = {} /\ recycleDue = FALSE
    /\ page = FALSE /\ outcome = [f \in Files |-> "none"] /\ times = [f \in Files |-> 0]
    /\ verdict = NoVerdict /\ stopped = {} /\ due = [r \in Requests |-> {}] /\ corner = {}
    /\ spent = [o \in Occasions |-> 0]

\* A promise has resolved and its continuation has not run yet.
Continues ==
    \/ \E r \in Requests : step[r] \in {"gated", "readying", "marked"} /\ awaits[r] = {}
    \/ \E r \in Requests : step[r] = "between"
    \/ \E r \in Requests : step[r] = "reviving" /\ (reviving = {} \/ aborted)
    \/ dispatch \in {"settled", "rejected"}

\* The event loop takes the next event.
Event == agenda = <<>> /\ ~Continues

\* One more occasion, of those the session is bounded to.
Spend(o, n) ==
    /\ spent' = [spent EXCEPT ![o] = @ + n]
    /\ spent'[o] <= suite.bounds[o]

\* The results, marks and failures reported for the files of fs.
Report(fs, result) ==
    /\ outcome' = [f \in Files |-> IF f \in fs THEN result ELSE outcome[f]]
    /\ times' = [f \in Files |-> IF f \in fs THEN times[f] + 1 ELSE times[f]]

-----------------------------------------------------------------------------
(* The workers of the session.                                             *)

\* respawnWorkerAtNow begins: the old handle is retired and its process ends.
\* One respawn per slot at a time.
RespawnAll(ss) ==
    /\ handle' = [s \in Slots |-> IF s \in ss THEN [handle[s] EXCEPT !.retired = TRUE] ELSE handle[s]]
    /\ respawning' = respawning \cup ss

\* Mutant: a request replaces the dead workers only.
UnreadyDead == {s \in Slots : handle[s].there /\ handle[s].retired}

\* What ensureWorkersReady waits for: retired workers and idle stale ones.
Unready == {s \in Slots : /\ handle[s].there
                          /\ handle[s].retired \/ (handle[s].stale /\ ~handle[s].busy)}

\* Request r calls ensureWorkersReady.
EnsureReady(r) == awaits' = [awaits EXCEPT ![r] = Unready] /\ RespawnAll(Unready)

\* The old process is gone, the new one answered "ready": uiWorkers[index] is
\* a new handle, which the dispatch under way does not know.
RespawnReady(s) ==
    /\ Event /\ s \in respawning /\ child[s] = "gone"
    /\ respawning' = respawning \ {s}
    /\ handle' = [handle EXCEPT ![s] = Fresh]
    /\ child' = [child EXCEPT ![s] = "up"]
    /\ job' = [job EXCEPT ![s] = <<>>] /\ mail' = [mail EXCEPT ![s] = <<>>]
    /\ awaits' = [r \in Requests |-> awaits[r] \ {s}]
    /\ due' = [r \in Requests |-> due[r] \ {s}]
    /\ UNCHANGED <<suite, gateVars, step, want, waited, runVars, dispatchVars, targetVars,
                   reportVars, stopped, corner, spent>>

\* It did not: the old handle stays, retired, for the next request to retry.
RespawnFails(s) ==
    /\ Event /\ s \in respawning /\ child[s] = "gone"
    /\ respawning' = respawning \ {s}
    /\ awaits' = [r \in Requests |-> awaits[r] \ {s}]
    /\ UNCHANGED <<suite, gateVars, step, want, waited, runVars, dispatchVars, handle, child, job,
                   mail, targetVars, reportVars, ghostVars, spent>>

\* markWorkersCodeStale: a source file was saved.
Save ==
    /\ Event /\ ~starting /\ Spend("save", 1)
    /\ handle' = [s \in Slots |-> IF s \in Live THEN [handle[s] EXCEPT !.stale = TRUE] ELSE handle[s]]
    /\ recycleDue' = TRUE
    /\ UNCHANGED <<suite, gateVars, requestVars, runVars, dispatchVars, child, job, mail, respawning,
                   down, attempts, reportVars, ghostVars>>

\* The recycle timer: never during a run; a worker that prepares its device in
\* the background is passed over.
RecycleStale ==
    /\ Event /\ recycleDue /\ recycleDue' = FALSE
    /\ \E ss \in SUBSET {s \in Live : handle[s].stale /\ ~handle[s].busy} :
          RespawnAll(IF runner = Nobody THEN ss ELSE {})
    /\ UNCHANGED <<suite, gateVars, requestVars, runVars, dispatchVars, child, job, mail, down,
                   attempts, reportVars, ghostVars, spent>>

\* respawn-worker: the page offers it on an idle or a dead worker, and the
\* worker may have been given a file since.
UserRespawn(s) ==
    /\ Event /\ handle[s].there /\ Spend("click", 1)
    /\ corner' = IF s \in Live /\ handle[s].busy THEN corner \cup {"clicked"} ELSE corner
    /\ LET ss == {s} \cup Unready IN
       /\ handle' = [x \in Slots |->
              IF x = s /\ x \in Live THEN [handle[x] EXCEPT !.retired = TRUE, !.busy = FALSE]
              ELSE IF x \in ss THEN [handle[x] EXCEPT !.retired = TRUE] ELSE handle[x]]
       /\ respawning' = respawning \cup ss
    /\ UNCHANGED <<suite, gateVars, requestVars, runVars, dispatchVars, child, job, mail,
                   targetVars, reportVars, stopped, due>>

\* A worker's process ends: it crashed, or it was told to (a retired one always).
ChildEnds(s) ==
    /\ Event /\ child[s] = "up"
    /\ \/ s \in Live /\ Spend("death", 1)
       \/ s \notin Live /\ UNCHANGED spent
    /\ child' = [child EXCEPT ![s] = "dead"] /\ job' = [job EXCEPT ![s] = <<>>]
    /\ UNCHANGED <<suite, gateVars, requestVars, runVars, dispatchVars, handle, mail, respawning,
                   targetVars, reportVars, ghostVars>>

\* Its channel is seen to be closed before its exit is.
ChannelCloses(s) ==
    /\ Event /\ child[s] = "dead" /\ mail[s] = <<>>
    /\ child' = [child EXCEPT ![s] = "closed"]
    /\ UNCHANGED <<suite, gateVars, requestVars, runVars, dispatchVars, handle, job, mail, respawning,
                   targetVars, reportVars, ghostVars, spent>>

\* A device target tried again comes up, with a worker on some of its devices,
\* or does not; nobody need be waiting for it any more.
AttemptEnds(b) ==
    /\ Event /\ b \in attempts
    /\ attempts' = attempts \ {b} /\ reviving' = reviving \ {b}
    /\ \/ UNCHANGED <<down, handle, child>>
       \/ \E ss \in SUBSET {s \in Slots : suite.device[s] = b /\ ~handle[s].there} :
             /\ ss # {} /\ down' = down \ {b}
             /\ handle' = [s \in Slots |-> IF s \in ss THEN Fresh ELSE handle[s]]
             /\ child' = [s \in Slots |-> IF s \in ss THEN "up" ELSE child[s]]
    /\ UNCHANGED <<suite, gateVars, requestVars, runner, aborted, timer, wave, failedProjects, tried,
                   dispatchVars, job, mail, respawning, recycleDue, reportVars, ghostVars, spent>>

-----------------------------------------------------------------------------
(* Asking for a run.                                                       *)

UseParallel == Live # {} \/ down # {}
Goes(r, to, what, held) ==
    /\ step' = [step EXCEPT ![r] = to] /\ want' = [want EXCEPT ![r] = what]
    /\ waited' = [waited EXCEPT ![r] = held]
NoRun(r) == Goes(r, "none", "all", FALSE)

\* markRunStarted and what every run function does with it.
Mark(r) ==
    /\ runner' = r /\ aborted' = FALSE /\ wave' = 1 /\ failedProjects' = {} /\ tried' = {}
    /\ outcome' = [f \in Files |-> "none"] /\ times' = [f \in Files |-> 0] /\ verdict' = NoVerdict
    /\ UNCHANGED <<timer, reviving>>

\* runAllFiles waits for the workers first; runProjectOnlyNow takes the run at
\* once, when there is a worker and no other run.
EnterRun(r, what, held) ==
    \/ /\ what = "all"
       /\ Goes(r, "readying", what, held) /\ EnsureReady(r)
       /\ UNCHANGED <<runVars, outcome, times, verdict>>
    \/ /\ what # "all" /\ UseParallel /\ runner = Nobody
       /\ Mark(r) /\ Goes(r, "marked", what, held) /\ EnsureReady(r)
    \/ /\ what # "all" /\ ~(UseParallel /\ runner = Nobody)
       /\ NoRun(r) /\ UNCHANGED <<awaits, handle, respawning, runVars, outcome, times, verdict>>

\* A request: held while the workers start, turned away while another is held
\* or, released, has not begun.
Ask(r) ==
    /\ Event /\ step[r] = "none" /\ Spend("ask", 1)
    /\ waiter = Nobody /\ ~preparing
    /\ \E what \in {"all"} \cup Projects :
          /\ \/ /\ starting
                /\ waiter' = r /\ Goes(r, "waiting", what, TRUE) /\ page' = TRUE
                /\ UNCHANGED <<awaits, handle, respawning, runVars, outcome, times, verdict>>
             \/ ~starting /\ EnterRun(r, what, FALSE) /\ UNCHANGED <<waiter, page>>
    /\ due' = [due EXCEPT ![r] = {s \in Live : handle[s].stale /\ ~handle[s].busy}]
    /\ stopped' = stopped \ {r}
    /\ UNCHANGED <<suite, starting, preparing, stoppedPreparing, dispatchVars, child, job, mail,
                   targetVars, corner>>

\* initializeWorkers is over: some devices have a worker, one of which may have
\* died since, a target with none is unavailable; the held run is released.
FinishStartup ==
    /\ starting /\ starting' = FALSE
    /\ \E up \in SUBSET Slots : \E gone \in SUBSET up :
          /\ Spend("death", Cardinality(gone))
          /\ handle' = [s \in Slots |-> IF s \notin up THEN Absent
                                        ELSE [Fresh EXCEPT !.retired = s \in gone]]
          /\ child' = [s \in Slots |-> IF s \in up \ gone THEN "up" ELSE "gone"]
          /\ down' = LET targets == {suite.device[s] : s \in Slots} IN
                     IF Cardinality(targets) > 1 THEN targets \ {suite.device[s] : s \in up} ELSE {}
          /\ IF waiter = Nobody
             THEN UNCHANGED <<waiter, preparing, step, awaits, respawning>>
             ELSE /\ waiter' = Nobody /\ preparing' = TRUE
                  /\ step' = [step EXCEPT ![waiter] = "gated"]
                  /\ awaits' = [awaits EXCEPT ![waiter] = gone] /\ respawning' = gone
    /\ UNCHANGED <<suite, stoppedPreparing, want, waited, runVars, dispatchVars, job, mail, attempts,
                   recycleDue, reportVars, ghostVars>>

\* The released run has prepared its workers: proceed().
Proceed(r) ==
    /\ agenda = <<>> /\ step[r] = "gated" /\ awaits[r] = {}
    /\ preparing' = FALSE /\ stoppedPreparing' = FALSE
    /\ IF stoppedPreparing
       THEN NoRun(r) /\ UNCHANGED <<awaits, handle, respawning, runVars, outcome, times, verdict>>
       ELSE EnterRun(r, want[r], TRUE)
    /\ corner' = IF ~stoppedPreparing /\ runner' = Nobody /\ awaits'[r] # {}
                 THEN corner \cup {"again"} ELSE corner
    /\ page' = (page /\ (runner # Nobody \/ step'[r] # "none"))
    /\ UNCHANGED <<suite, starting, waiter, dispatchVars, child, job, mail, targetVars, stopped, due,
                   spent>>

\* Mutant: a released run that does not come about is not taken back.
StartAllForgets(r) ==
    /\ agenda = <<>> /\ step[r] = "readying" /\ awaits[r] = {}
    /\ IF UseParallel /\ runner = Nobody
       THEN Mark(r) /\ Goes(r, "between", want[r], waited[r]) /\ page' = TRUE
       ELSE NoRun(r) /\ UNCHANGED <<page, runVars, outcome, times, verdict>>
    /\ UNCHANGED <<suite, gateVars, awaits, dispatchVars, workerVars, targetVars, ghostVars, spent>>

\* runAllFiles, its workers ready.
StartAll(r) ==
    /\ agenda = <<>> /\ step[r] = "readying" /\ awaits[r] = {}
    /\ IF UseParallel /\ runner = Nobody
       THEN Mark(r) /\ Goes(r, "between", want[r], waited[r]) /\ page' = TRUE
       ELSE /\ NoRun(r) /\ page' = (page /\ (runner # Nobody \/ ~waited[r]))
            /\ UNCHANGED <<runVars, outcome, times, verdict>>
    /\ UNCHANGED <<suite, gateVars, awaits, dispatchVars, workerVars, targetVars, ghostVars, spent>>

\* runProjectOnlyNow, its workers ready.
StartProject(r) ==
    /\ agenda = <<>> /\ step[r] = "marked" /\ awaits[r] = {}
    /\ step' = [step EXCEPT ![r] = "between"] /\ page' = TRUE
    /\ UNCHANGED <<suite, gateVars, want, awaits, waited, runVars, dispatchVars, workerVars, targetVars,
                   outcome, times, verdict, ghostVars, spent>>

-----------------------------------------------------------------------------
(* The waves of the run.                                                   *)

FilesOf(ps) == {f \in Files : suite.project[f] \in ps}

\* The numbers of ns, each once, in ascending order.
Ascending(ns) ==
    {order \in [1..Cardinality(ns) -> ns] :
        ToSet(order) = ns /\ \A i, j \in DOMAIN order : i < j => order[i] < order[j]}

\* The files of fs in the order of the list q.
InOrder(q, fs) ==
    {[i \in DOMAIN order |-> q[order[i]]] : order \in Ascending({i \in DOMAIN q : q[i] \in fs})}

\* endRun and markRunEnded; a run whose dispatch rejects never comes to its
\* later waves.  A project's run has no catch: when its dispatch
\* rejects nothing tells the page that the run ended, unless the gate held it.
EndRun(r, rejected) ==
    /\ runner' = Nobody /\ timer' = FALSE /\ NoRun(r)
    /\ wave' = 1 /\ failedProjects' = {} /\ tried' = {} /\ anyFailed' = FALSE
    /\ verdict' = [files |-> FilesOf(IF want[r] = "all"
                                     THEN {p \in Projects : rejected => suite.wave[p] <= wave}
                                     ELSE {want[r]}),
                   status |-> IF aborted THEN "stopped"
                              ELSE IF rejected \/ anyFailed THEN "failed" ELSE "passed"]
    /\ page' = (page /\ rejected /\ want[r] # "all" /\ ~waited[r])
    /\ corner' = IF page' THEN corner \cup {"unended"} ELSE corner
    /\ recycleDue' = (recycleDue \/ \E s \in Live : handle[s].stale)

\* The next wave, without the projects a failed dependency blocks; a project's
\* own run is one wave.
NextWave(r) ==
    /\ agenda = <<>> /\ step[r] = "between" /\ dispatch = "none"
    /\ LET mine == IF want[r] = "all" THEN {p \in Projects : suite.wave[p] = wave}
                   ELSE IF wave = 1 THEN {want[r]} ELSE {}
           blocked == {p \in mine : want[r] = "all" /\ suite.needs[p] \cap failedProjects # {}}
           files == FilesOf(mine \ blocked)
           needed == {BucketOf(f) : f \in files} \cap down
       IN IF wave > 2 \/ aborted
          THEN /\ EndRun(r, FALSE)
               /\ UNCHANGED <<aborted, reviving, fileQueue, attempts, outcome, times>>
          ELSE /\ Report(FilesOf(blocked), "skipped")
               /\ failedProjects' = failedProjects \cup blocked
               /\ anyFailed' = (anyFailed /\ wave > 1)
               /\ IF files = {}
                  THEN wave' = wave + 1 /\ UNCHANGED <<step, tried, reviving, fileQueue, attempts>>
                  ELSE \* reviveTargetsFor: each target once per run
                       /\ step' = [step EXCEPT ![r] = "reviving"] /\ fileQueue' \in InOrder(FileOrder, files)
                       /\ tried' = tried \cup needed /\ reviving' = needed \ tried
                       /\ attempts' = attempts \cup (needed \ tried) /\ UNCHANGED wave
               /\ UNCHANGED <<runner, want, waited, aborted, timer, recycleDue, verdict, page, corner>>
    /\ UNCHANGED <<suite, gateVars, awaits, dispatch, offered, agenda, workerVars, down,
                   stopped, due, spent>>

\* The dispatch is over.
NothingToDispatch(r) ==
    step' = [step EXCEPT ![r] = "between"] /\ wave' = wave + 1 /\ fileQueue' = <<>>

Calls(name, ss) == [i \in 1..Len(ss) |-> [call |-> name, slot |-> ss[i]]]
Call(name) == <<[call |-> name, slot |-> 0]>>

\* dispatchFilesParallel: the files of a target that is still down fail, then
\* every live worker is offered a file in turn.
OpenDispatch(r) ==
    /\ agenda = <<>> /\ step[r] = "reviving" /\ (reviving = {} \/ aborted)
    /\ reviving' = {}
    /\ LET files == ToSet(fileQueue)
           lost == IF Live = {} THEN files ELSE {f \in files : BucketOf(f) \in down}
           rest == files \ lost
       IN IF aborted
          THEN NothingToDispatch(r)
               /\ UNCHANGED <<dispatch, offered, agenda, handle, failedProjects, anyFailed, corner,
                              outcome, times>>
          ELSE /\ Report(lost, "unservable")
               /\ anyFailed' = (anyFailed \/ lost # {})
               /\ failedProjects' = failedProjects \cup {suite.project[f] : f \in lost}
               /\ IF rest = {}
                  THEN NothingToDispatch(r) /\ UNCHANGED <<dispatch, offered, agenda, handle, corner>>
                  ELSE /\ dispatch' = "open" /\ offered' = FALSE
                       /\ fileQueue' \in InOrder(FileOrder, rest)
                       /\ step' = [step EXCEPT ![r] = "dispatching"]
                       /\ handle' = [s \in Slots |-> [handle[s] EXCEPT !.active = s \in Live]]
                       /\ \E order \in Ascending(Live) :
                             agenda' = Calls("dispatchNext", order) \o Call("offered")
                       /\ corner' = IF \E s, t \in Live : s < t /\ child[s] = "closed"
                                    THEN corner \cup {"closed"} ELSE corner
                       /\ UNCHANGED wave
    /\ UNCHANGED <<suite, gateVars, want, awaits, waited, runner, aborted, timer, tried, child, job,
                   mail, respawning, targetVars, page, verdict, stopped, due, spent>>

\* The promise of the dispatch settles.
EndDispatch(r) ==
    /\ agenda = <<>> /\ dispatch \in {"settled", "rejected"} /\ step[r] = "dispatching"
    /\ dispatch' = "none" /\ fileQueue' = <<>> /\ offered' = FALSE
    /\ handle' = [s \in Slots |-> [handle[s] EXCEPT !.active = FALSE]]
    /\ IF dispatch = "settled"
       THEN /\ step' = [step EXCEPT ![r] = "between"] /\ wave' = wave + 1
            /\ UNCHANGED <<runner, want, waited, timer, failedProjects, tried, anyFailed, verdict, page,
                           corner, recycleDue>>
       ELSE EndRun(r, TRUE)
    /\ UNCHANGED <<suite, gateVars, awaits, aborted, reviving, agenda, child, job, mail, respawning, down, attempts, outcome,
                   times, stopped, due, spent>>

-----------------------------------------------------------------------------
(* Inside a dispatch: the calls of the agenda.                             *)

Calling(name) == agenda # <<>> /\ Head(agenda).call = name
Caller == Head(agenda).slot

Settle == dispatch' = IF dispatch = "open" THEN "settled" ELSE dispatch

\* dispatchNext: the first queued file of the worker's target, if any.  A
\* worker whose channel is closed is retired instead; one whose end has not
\* been seen yet is sent the file in vain.
DispatchNext ==
    LET s == Caller
        fits == {i \in 1..Len(fileQueue) : BucketOf(fileQueue[i]) = suite.device[s]}
    IN
    /\ Calling("dispatchNext")
    /\ \/ /\ s \notin Live \/ aborted
          /\ agenda' = Tail(agenda) /\ UNCHANGED <<handle, job, fileQueue>>
       \/ /\ s \in Live /\ ~aborted /\ fits = {}
          /\ handle' = [handle EXCEPT ![s] = Holding(@, FALSE, NoFile)]
          /\ agenda' = Call("maybeResolve") \o Tail(agenda)
          /\ UNCHANGED <<job, fileQueue>>
       \/ /\ s \in Live /\ ~aborted /\ fits # {}
          /\ LET next == fileQueue[Min(fits)] IN
             /\ fileQueue' = RemoveAt(fileQueue, Min(fits))
             /\ handle' = [handle EXCEPT ![s] = Holding(@, TRUE, next)]
             /\ job' = [job EXCEPT ![s] = IF child[s] = "up" THEN Append(@, next) ELSE @]
          /\ agenda' = (IF child[s] = "closed" THEN Calls("retireWorker", <<s>>) ELSE <<>>)
                       \o Tail(agenda)
    /\ UNCHANGED <<suite, gateVars, requestVars, runVars, dispatch, offered, anyFailed, child, mail,
                   respawning, targetVars, reportVars, ghostVars, spent>>

\* A file cut short by a stop, and those that no worker is left for.
ReportLost(cut, orphans) ==
    /\ outcome' = [f \in Files |-> IF f \in orphans THEN "unservable"
                                   ELSE IF f \in cut THEN "interrupted" ELSE outcome[f]]
    /\ times' = [f \in Files |-> times[f] + (IF f \in cut THEN 1 ELSE 0) + (IF f \in orphans THEN 1 ELSE 0)]

\* retireWorker: the worker's file is interrupted by a stop or goes back to the
\* head of the queue; what no remaining worker can run fails, also during a stop;
\* with none left the dispatch rejects; an idle one is offered the next file.
RetireWorker ==
    LET s == Caller
        f == handle[s].file
        cut == IF aborted THEN {f} \ {NoFile} ELSE {}
        queue == (IF f # NoFile /\ ~aborted THEN <<f>> ELSE <<>>) \o fileQueue
        rest == Remaining \ {s}
        orphans == {g \in ToSet(queue) : \A x \in rest : suite.device[x] # BucketOf(g)}
        idle == {x \in rest : ~handle[x].busy}
    IN
    /\ Calling("retireWorker")
    /\ IF s \notin Live
       THEN /\ agenda' = Tail(agenda)
            /\ UNCHANGED <<handle, fileQueue, dispatch, anyFailed, failedProjects, outcome, times>>
       ELSE /\ handle' = [handle EXCEPT ![s] = GivenUp(@)]
            /\ ReportLost(cut, orphans)
            /\ fileQueue' \in InOrder(queue, ToSet(queue) \ orphans)
            /\ anyFailed' = (anyFailed \/ orphans # {})
            /\ failedProjects' = failedProjects \cup {suite.project[g] : g \in orphans}
            /\ IF rest = {}
               THEN /\ dispatch' = IF dispatch # "open" THEN dispatch
                                   ELSE IF aborted THEN "settled" ELSE "rejected"
                    /\ agenda' = Tail(agenda)
               ELSE /\ agenda' = (IF idle # {} THEN Calls("dispatchNext", <<Min(idle)>>) ELSE <<>>)
                                 \o Call("maybeResolve") \o Tail(agenda)
                    /\ UNCHANGED dispatch
    /\ UNCHANGED <<suite, gateVars, requestVars, runner, aborted, timer, wave, tried, reviving, offered,
                   child, job, mail, respawning, targetVars, page, verdict, ghostVars, spent>>

\* maybeResolve: settled when nothing is queued, or no worker will take what
\* is, and every worker is idle.
MaybeResolve ==
    LET stuck == ~aborted /\ fileQueue # <<>> IN
    /\ Calling("maybeResolve") /\ agenda' = Tail(agenda)
    /\ IF dispatch # "open" \/ ~AllDone \/ (stuck /\ ~offered)
       THEN UNCHANGED <<dispatch, fileQueue, anyFailed, failedProjects, outcome, times>>
       ELSE /\ Settle
            /\ Report(IF stuck THEN ToSet(fileQueue) ELSE {}, "unservable")
            /\ anyFailed' = (anyFailed \/ stuck)
            /\ failedProjects' = IF stuck
                   THEN failedProjects \cup {suite.project[f] : f \in ToSet(fileQueue)}
                   ELSE failedProjects
            /\ fileQueue' = IF stuck THEN <<>> ELSE fileQueue
    /\ UNCHANGED <<suite, gateVars, requestVars, runner, aborted, timer, wave, tried, reviving, offered,
                   workerVars, targetVars, page, verdict, ghostVars, spent>>

\* Every worker has been offered work once.
AllOffered ==
    /\ Calling("offered") /\ offered' = TRUE
    /\ agenda' = Call("maybeResolve") \o Tail(agenda)
    /\ UNCHANGED <<suite, gateVars, requestVars, runVars, dispatch, fileQueue, anyFailed, workerVars,
                   targetVars, reportVars, ghostVars, spent>>

-----------------------------------------------------------------------------
(* Inside a dispatch: the events.                                          *)

\* A worker ends the file it is on: file-done with its results, those of a
\* stopped test counted as interrupted, or the error the file died of.
ChildAnswers(s) ==
    /\ Event /\ s \in Live /\ child[s] = "up" /\ job[s] # <<>>
    /\ \E result \in {"passed", "failed", "error"} \cup (IF aborted THEN {"interrupted"} ELSE {}) :
          mail' = [mail EXCEPT ![s] = Append(@, [file |-> Head(job[s]), result |-> result])]
    /\ job' = [job EXCEPT ![s] = Tail(@)]
    /\ UNCHANGED <<suite, gateVars, requestVars, runVars, dispatchVars, handle, child, respawning,
                   targetVars, reportVars, ghostVars, spent>>

\* messageHandler.  Outside its dispatch nobody listens to a worker's answers.
Deliver(s) ==
    LET m == Head(mail[s])
        heard == dispatch = "open" /\ s \in Remaining
    IN
    /\ Event /\ mail[s] # <<>> /\ child[s] \in {"up", "dead"}
    /\ mail' = [mail EXCEPT ![s] = Tail(@)]
    /\ \/ /\ ~heard
          /\ UNCHANGED <<handle, agenda, anyFailed, failedProjects, outcome, times>>
       \/ /\ heard /\ m.result = "error" /\ agenda' = Calls("retireWorker", <<s>>)
          /\ UNCHANGED <<handle, anyFailed, failedProjects, outcome, times>>
       \/ /\ heard /\ m.result # "error"
          /\ Report({m.file}, m.result)
          /\ anyFailed' = (anyFailed \/ m.result = "failed")
          /\ failedProjects' =
                 IF m.result \in {"failed", "interrupted"} /\ handle[s].file # NoFile
                 THEN failedProjects \cup {suite.project[handle[s].file]} ELSE failedProjects
          /\ handle' = [handle EXCEPT ![s] = Holding(@, @.busy /\ ~aborted, NoFile)]
          /\ agenda' = IF aborted THEN Call("maybeResolve") ELSE Calls("dispatchNext", <<s>>)
    /\ UNCHANGED <<suite, gateVars, requestVars, runner, aborted, timer, wave, tried, reviving, dispatch,
                   offered, fileQueue, child, job, respawning, targetVars, page, verdict, ghostVars,
                   spent>>

\* Mutant: nobody listens for an exit outside a dispatch.
ExitSeenUnheard(s) ==
    LET attached == dispatch = "open" /\ handle[s].active IN
    /\ Event /\ child[s] \in {"dead", "closed"}
    /\ child' = [child EXCEPT ![s] = "gone"] /\ mail' = [mail EXCEPT ![s] = <<>>]
    /\ agenda' = IF ~attached THEN <<>>
                 ELSE IF handle[s].retired THEN Call("maybeResolve") ELSE Calls("retireWorker", <<s>>)
    /\ UNCHANGED <<suite, gateVars, requestVars, runVars, dispatch, offered, fileQueue, anyFailed, job,
                   handle, respawning, targetVars, reportVars, ghostVars, spent>>

\* The exit of a worker is seen: exitHandler within a dispatch, the worker's own
\* listener outside one.
ExitSeen(s) ==
    LET attached == dispatch = "open" /\ handle[s].active IN
    /\ Event /\ child[s] \in {"dead", "closed"}
    /\ child' = [child EXCEPT ![s] = "gone"] /\ mail' = [mail EXCEPT ![s] = <<>>]
    /\ agenda' = IF ~attached THEN <<>>
                 ELSE IF handle[s].retired THEN Call("maybeResolve") ELSE Calls("retireWorker", <<s>>)
    /\ handle' = IF attached \/ handle[s].retired THEN handle
                 ELSE [handle EXCEPT ![s] = GivenUp(@)]
    /\ UNCHANGED <<suite, gateVars, requestVars, runVars, dispatch, offered, fileQueue, anyFailed, job,
                   respawning, targetVars, reportVars, ghostVars, spent>>

\* WorkerStartupGate.cancel: the request that is held, or prepares its workers.
Cancel ==
    \/ /\ waiter # Nobody
       /\ waiter' = Nobody /\ NoRun(waiter)
       /\ stopped' = stopped \cup {waiter}
       /\ UNCHANGED <<preparing, stoppedPreparing>>
    \/ /\ preparing
       /\ preparing' = FALSE /\ stoppedPreparing' = TRUE
       /\ stopped' = stopped \cup {r \in Requests : step[r] = "gated"}
       /\ UNCHANGED <<waiter, step, want, waited>>

\* Mutant: Stop waits for the workers to answer the abort.
StopPatiently ==
    /\ Event /\ Spend("stop", 1)
    /\ \/ Cancel /\ page' = FALSE /\ UNCHANGED aborted
       \/ /\ waiter = Nobody /\ ~preparing /\ runner # Nobody
          /\ aborted' = TRUE /\ stopped' = stopped \cup {runner}
          /\ UNCHANGED <<waiter, step, want, waited, preparing, stoppedPreparing, page>>
    /\ UNCHANGED <<suite, starting, awaits, runner, timer, wave, failedProjects, tried, reviving,
                   dispatchVars, workerVars, targetVars, outcome, times, verdict, due, corner>>

\* stopRun: a request that has not begun, or the run; busy workers are told to
\* abort, and the grace period starts.
Stop ==
    /\ Event /\ Spend("stop", 1)
    /\ \/ Cancel /\ page' = FALSE /\ UNCHANGED <<aborted, timer>>
       \/ /\ waiter = Nobody /\ ~preparing /\ runner # Nobody
          /\ aborted' = TRUE /\ timer' = TRUE /\ stopped' = stopped \cup {runner}
          /\ UNCHANGED <<waiter, step, want, waited, preparing, stoppedPreparing, page>>
    /\ UNCHANGED <<suite, starting, awaits, runner, wave, failedProjects, tried, reviving,
                   dispatchVars, workerVars, targetVars, outcome, times, verdict, due, corner>>

\* escalateStop: a worker still busy is killed, and with none left the dispatch
\* settles at once.
Escalate ==
    LET wedged == {s \in Live : handle[s].busy} IN
    /\ Event /\ timer /\ timer' = FALSE
    /\ IF aborted /\ wedged # {}
       THEN /\ handle' = [s \in Slots |-> IF s \in wedged
                  THEN GivenUp(handle[s])
                  ELSE handle[s]]
            /\ child' = [s \in Slots |-> IF s \in wedged /\ child[s] = "up" THEN "dead" ELSE child[s]]
            /\ job' = [s \in Slots |-> IF s \in wedged THEN <<>> ELSE job[s]]
            /\ Report({handle[s].file : s \in wedged} \ {NoFile}, "interrupted")
            /\ Settle
       ELSE UNCHANGED <<handle, child, job, outcome, times, dispatch>>
    /\ UNCHANGED <<suite, gateVars, requestVars, runner, aborted, wave, failedProjects, tried, reviving,
                   offered, fileQueue, anyFailed, agenda, mail, respawning, targetVars, page, verdict,
                   ghostVars, spent>>

-----------------------------------------------------------------------------
Server ==
    \/ DispatchNext \/ RetireWorker \/ MaybeResolve \/ AllOffered
    \/ \E r \in Requests : Proceed(r) \/ StartAll(r) \/ StartProject(r) \/ NextWave(r)
                           \/ OpenDispatch(r) \/ EndDispatch(r)

WorkerUp(s) == RespawnReady(s) \/ RespawnFails(s)

Next ==
    \/ Server \/ FinishStartup \/ Save \/ RecycleStale \/ Stop \/ Escalate
    \/ \E r \in Requests : Ask(r)
    \/ \E s \in Slots : WorkerUp(s) \/ UserRespawn(s) \/ ChildEnds(s) \/ ChannelCloses(s)
                        \/ ChildAnswers(s) \/ Deliver(s) \/ ExitSeen(s)
    \/ \E b \in Buckets : AttemptEnds(b)

Spec == Init /\ [][Next]_vars

\* The server works off what it has to do, its timers fire, a process told to
\* end is killed in the end, and a respawn is bounded by its timeout.  Nothing
\* is assumed of a worker that runs a file.
Fairness ==
    /\ WF_vars(Server) /\ WF_vars(FinishStartup) /\ WF_vars(Escalate)
    /\ \A s \in Slots : /\ WF_vars(s \notin Live /\ ChildEnds(s)) /\ WF_vars(ExitSeen(s))
                        /\ WF_vars(WorkerUp(s))
FairSpec == Spec /\ Fairness

-----------------------------------------------------------------------------
(* Properties.                                                             *)

\* The verdict of a run and what became of its files agree.
Honest ==
    LET with == {outcome[f] : f \in verdict.files} IN
    /\ verdict.status = "passed" => with \subseteq {"passed"}
    /\ verdict.status = "failed" => with \cap {"failed", "unservable"} # {}
    /\ \A f \in verdict.files : times[f] <= 1 /\ (verdict.status # "stopped" => times[f] = 1)

\* A run that was not stopped has reported every file of it exactly once: with
\* its results, as failed for want of a worker, or as skipped behind a failed
\* dependency.  No file is lost with the worker that had it or counted twice,
\* and a run that passed ran them all.  Excepted are the two situations of
\* "corner": a worker whose channel is closed when the dispatch begins (see
\* RequeuedOntoSibling), and a click on "Respawn worker" that crosses a file on
\* its way to the worker.
Accounted == corner \cap {"closed", "clicked"} = {} => Honest

\* dispatchNext: "Retiring requeues `next` ... onto a sibling instead", also
\* when the worker is found dead while the dispatch makes its first offers.
RequeuedOntoSibling == "clicked" \notin corner => Honest

\* What the server believes of a live worker: a busy one owes an answer, or its
\* end is still to be seen, so the dispatch never waits for nothing; an idle one
\* has no file left in it, so no answer of one run reaches the next.  Excepted is
\* a worker whose channel is closed when the dispatch begins.
BusyMeansOwed ==
    (agenda = <<>> /\ "closed" \notin corner) =>
        \A s \in Live :
            IF handle[s].busy
            THEN Len(job[s]) + Len(mail[s]) = 1 \/ child[s] \in {"dead", "closed"}
            ELSE job[s] = <<>> /\ mail[s] = <<>>

\* No file is given to a worker that should not run it.  A request that Stop ended,
\* held, preparing its workers or running, gives none any more; and a worker that
\* was idle and ran old code when the run was asked for was replaced first,
\* whichever timer, request or click recycles it ("ensureWorkersReady recycles
\* before the next run").
GivenRightly ==
    [][\A s \in Slots : Len(job'[s]) > Len(job[s]) =>
           runner \notin stopped /\ s \notin due[runner]]_vars

\* Whenever the page shows a run, held, preparing or under way, Stop finds one to
\* end: no run, refused, failed or never begun, leaves the page showing it.
\* Excepted are a project's run whose dispatch rejects, and a released request
\* whose workers are respawned a second time.
PageShowsTheRun ==
    (Event /\ page /\ corner \cap {"unended", "again"} = {}) =>
        waiter # Nobody \/ preparing \/ runner # Nobody

\* Stop ends the run, whatever its workers do: one that never answers is killed
\* after the grace period, a target being tried again is not waited for.
StopEnds == (runner # Nobody /\ aborted) ~> (runner = Nobody)
=============================================================================
