----------------------------- MODULE Dispatcher -----------------------------
(***************************************************************************)
(* The parallel test dispatcher (packages/tapsmith/src/dispatcher.ts,      *)
(* runParallel) and the worker processes it drives (worker-runner.ts).     *)
(*                                                                         *)
(* One main process hands test files to N forked workers over IPC, one     *)
(* wave of projects at a time.  A worker streams test results back and     *)
(* reports a finished file; when it dies, or its channel breaks, the main  *)
(* process retires it, takes back what it had told the reporter about the  *)
(* file in flight, and gives the file to somebody else.  The main process  *)
(* is a single Node.js event loop: every handler is one atomic step, and   *)
(* the microtasks of a settled wave run before the next event.             *)
(*                                                                         *)
(* A file here is one (test file, project) pair, the TaggedFile of the     *)
(* code.  Only the number of a file's tests and whether one of them failed *)
(* are kept of its results.                                                *)
(***************************************************************************)
EXTENDS Integers, Sequences, FiniteSets

CONSTANTS
    N,            \* number of initialized workers
    Files,        \* tagged files of the run
    Projects,     \* projects of the run
    ProjectOf,    \* the project of each file
    ProjectWaves, \* opts.projectWaves: a sequence of sets of projects
    WaveFiles,    \* the files of each wave, in dispatch order
    Dependencies, \* project.dependencies
    NumTests,     \* how many results a finished file reports
    TestRetries,  \* config.retries: how often one test may be retried
    GroupMembers, \* devices of a worker's group besides its own, 0 without a group
    NoFile        \* "currentFile is undefined"

Workers == 1..N
WaveCount == Len(ProjectWaves)
\* Each of a worker's devices has a daemon; 0 is the device of its own.
DaemonsOf(w) == {w} \X (0..GroupMembers)
Range1(s) == {s[i] : i \in DOMAIN s}
IsInjective1(s) == \A i, j \in DOMAIN s : s[i] = s[j] => i = j

ASSUME WorkersAssumption == N \in Nat \ {0} /\ GroupMembers \in Nat
ASSUME FilesAssumption ==
    /\ NoFile \notin Files
    /\ ProjectOf \in [Files -> Projects]
    /\ NumTests \in [Files -> Nat]
    /\ TestRetries \in Nat
\* project.ts puts every project in one wave, after the dependencies that are
\* part of the same run (topologicalSort); a dependency that runs in another
\* bucket is in no wave of this one.
ASSUME WavesAssumption ==
    /\ ProjectWaves \in Seq(SUBSET Projects)
    /\ WaveFiles \in Seq(Seq(Files))
    /\ Len(WaveFiles) = Len(ProjectWaves)
    /\ \A i \in 1..WaveCount :
          /\ IsInjective1(WaveFiles[i])
          /\ Range1(WaveFiles[i]) = {f \in Files : ProjectOf[f] \in ProjectWaves[i]}
    /\ \A p \in Projects : \E i \in 1..WaveCount : p \in ProjectWaves[i]
    /\ \A i, j \in 1..WaveCount : i # j => ProjectWaves[i] \cap ProjectWaves[j] = {}
    /\ Dependencies \in [Projects -> SUBSET Projects]
    /\ \A i, j \in 1..WaveCount : \A p \in ProjectWaves[i], d \in ProjectWaves[j] :
          d \in Dependencies[p] => j < i

VARIABLES
    phase,        \* "dispatching", then "closing" (the finally block), then
                  \* "returned"; or "exited" after a signal or a crash
    wave,         \* index of the current wave, 0 before the first
    settled,      \* state of the wave's promise
    shuttingDown, \* dispatcherIsShuttingDown
    fileQueue,    \* files of the wave not yet handed out
    failedProjects,
    allResults,   \* per file: the outcomes pushed for it, oldest first
    retired, busy, currentFile,   \* the WorkerHandles
    workerTestCounts,             \* final results reported since file-start
    reported,     \* per file: results the reporter shows, net of discards
    daemons,      \* the daemon processes that are up: of which worker, of which device
    proc,         \* each worker process: "running", "killed" or "exited"
    toWorker, toMain,             \* the two directions of the IPC channel
    run           \* what each worker process is executing

mainVars == <<phase, wave, settled, shuttingDown, fileQueue, failedProjects, allResults>>
handleVars == <<retired, busy, currentFile>>
reportVars == <<workerTestCounts, reported>>
workerVars == <<proc, toWorker, toMain, run>>
vars == <<mainVars, handleVars, reportVars, daemons, workerVars>>

Idle == [file |-> NoFile, attempt |-> 0, ended |-> 0, retries |-> 0]
Status == {"passed", "failed", "skipped"}
Message == [type : {"file-start", "test-end", "test-will-retry", "file-retry", "error"}, file : Files]
           \cup [type : {"file-done"}, file : Files, status : {"passed", "failed"}]
Order == [type : {"run-file"}, file : Files] \cup [type : {"shutdown"}]

-----------------------------------------------------------------------------
Init ==
    /\ phase = "dispatching"
    /\ wave = 0
    /\ settled = "resolved"
    /\ shuttingDown = FALSE
    /\ fileQueue = <<>>
    /\ failedProjects = {}
    /\ allResults = [f \in Files |-> <<>>]
    /\ retired = [w \in Workers |-> FALSE]
    /\ busy = [w \in Workers |-> FALSE]
    /\ currentFile = [w \in Workers |-> NoFile]
    /\ workerTestCounts = [w \in Workers |-> 0]
    /\ reported = [f \in Files |-> 0]
    /\ daemons = UNION {DaemonsOf(w) : w \in Workers}
    /\ proc = [w \in Workers |-> "running"]
    /\ toWorker = [w \in Workers |-> <<>>]
    /\ toMain = [w \in Workers |-> <<>>]
    /\ run = [w \in Workers |-> Idle]

-----------------------------------------------------------------------------
\* The event loop takes an event only once the microtasks of a settled wave ran.
MainIdle == phase = "dispatching" /\ settled = "pending"

\* Mutant: the wave settles when the queue is empty, busy workers or not.
MaybeResolveOnEmptyQueue ==
    settled' = IF fileQueue' = <<>> THEN "resolved" ELSE settled

\* maybeResolve, on the state a handler leaves behind.
MaybeResolve ==
    settled' = IF fileQueue' = <<>> /\ \A w \in Workers : retired'[w] \/ ~busy'[w]
               THEN "resolved" ELSE settled

\* dispatchNext(worker), from the queue and handles the handler computed so far.
DispatchNext(w, queue, isBusy, current) ==
    IF queue = <<>>
    THEN /\ fileQueue' = queue
         /\ busy' = [isBusy EXCEPT ![w] = FALSE]
         /\ currentFile' = [current EXCEPT ![w] = NoFile]
         /\ UNCHANGED toWorker
    ELSE /\ fileQueue' = Tail(queue)
         /\ busy' = [isBusy EXCEPT ![w] = TRUE]
         /\ currentFile' = [current EXCEPT ![w] = Head(queue)]
         /\ toWorker' = [toWorker EXCEPT ![w] = Append(@, [type |-> "run-file", file |-> Head(queue)])]

\* Mutant: cleanupWorkerResources forgets the daemons of the group's other members.
CleanupOwnDevice(w) ==
    /\ proc' = [proc EXCEPT ![w] = IF @ = "running" THEN "killed" ELSE @]
    /\ daemons' = daemons \ {<<w, 0>>}

\* cleanupWorkerResources: signal the process if it has not exited, kill the daemons
\* of its device and of the members of its group.
CleanupWorkerResources(w) ==
    /\ proc' = [proc EXCEPT ![w] = IF @ = "running" THEN "killed" ELSE @]
    /\ daemons' = daemons \ DaemonsOf(w)

\* Mutant: the file goes back to the queue but no idle worker is woken for it.
RetireWithoutWake(w) ==
    /\ retired' = [retired EXCEPT ![w] = TRUE]
    /\ CleanupWorkerResources(w)
    /\ fileQueue' = IF currentFile[w] = NoFile THEN fileQueue ELSE <<currentFile[w]>> \o fileQueue
    /\ busy' = [busy EXCEPT ![w] = FALSE]
    /\ currentFile' = [currentFile EXCEPT ![w] = NoFile]
    /\ IF \A v \in Workers : v # w => retired[v] THEN settled' = "rejected" ELSE MaybeResolve
    /\ UNCHANGED <<toWorker, reportVars>>

\* retireWorker when the run goes on: take the file in flight back, put it at
\* the head of the queue and wake the first idle worker, or fail the run.
RetireAndRequeue(w) ==
    LET f       == currentFile[w]
        queue   == IF f = NoFile THEN fileQueue ELSE <<f>> \o fileQueue
        isBusy  == [busy EXCEPT ![w] = FALSE]
        current == [currentFile EXCEPT ![w] = NoFile]
        active  == {v \in Workers : v # w /\ ~retired[v]}
        idle    == {v \in active : ~busy[v]}
    IN  /\ retired' = [retired EXCEPT ![w] = TRUE]
        /\ CleanupWorkerResources(w)
        /\ IF f = NoFile
           THEN UNCHANGED reportVars
           ELSE /\ reported' = [reported EXCEPT ![f] = @ - workerTestCounts[w]]
                /\ workerTestCounts' = [workerTestCounts EXCEPT ![w] = 0]
        /\ \/ /\ active = {}
              /\ fileQueue' = queue /\ busy' = isBusy /\ currentFile' = current
              /\ settled' = "rejected"
              /\ UNCHANGED toWorker
           \/ /\ active # {} /\ idle = {}
              /\ fileQueue' = queue /\ busy' = isBusy /\ currentFile' = current
              /\ MaybeResolve
              /\ UNCHANGED toWorker
           \/ \E v \in idle :
              /\ \A u \in idle : v <= u
              /\ DispatchNext(v, queue, isBusy, current)
              /\ MaybeResolve

\* retireWorker of a worker that is still active.
RetireWorker(w) ==
    IF shuttingDown
    THEN /\ retired' = [retired EXCEPT ![w] = TRUE]
         /\ UNCHANGED <<settled, fileQueue, busy, currentFile, reportVars, daemons, proc, toWorker>>
    ELSE RetireAndRequeue(w)

-----------------------------------------------------------------------------
(* Messages from worker w, as the wave's 'message' listener handles them.  *)

NextMessage(w, type) ==
    /\ MainIdle
    /\ toMain[w] # <<>> /\ Head(toMain[w]).type = type
    /\ ~retired[w]
    /\ toMain' = [toMain EXCEPT ![w] = Tail(@)]

\* What a message that only concerns the reporter leaves alone.
ReportOnly ==
    UNCHANGED <<mainVars, handleVars, daemons, proc, toWorker, run>>

OnFileStart(w) ==
    /\ NextMessage(w, "file-start")
    /\ workerTestCounts' = [workerTestCounts EXCEPT ![w] = 0]
    /\ UNCHANGED reported
    /\ ReportOnly

\* handleParallelTestEndMessage: a result that will be retried is shown, not counted.
OnTestEnd(w) ==
    /\ NextMessage(w, "test-end")
    /\ workerTestCounts' = [workerTestCounts EXCEPT ![w] = @ + 1]
    /\ reported' = [reported EXCEPT ![Head(toMain[w]).file] = @ + 1]
    /\ ReportOnly

\* Mutant: a provisional result is added to the file's count.
OnTestWillRetryCounted(w) ==
    /\ NextMessage(w, "test-will-retry")
    /\ workerTestCounts' = [workerTestCounts EXCEPT ![w] = @ + 1]
    /\ UNCHANGED reported
    /\ ReportOnly

OnTestWillRetry(w) ==
    /\ NextMessage(w, "test-will-retry")
    /\ UNCHANGED reportVars
    /\ ReportOnly

\* handleParallelFileRetryMessage: the worker starts the file over.
OnFileRetry(w) ==
    /\ NextMessage(w, "file-retry")
    /\ reported' = [reported EXCEPT ![Head(toMain[w]).file] = @ - workerTestCounts[w]]
    /\ workerTestCounts' = [workerTestCounts EXCEPT ![w] = 0]
    /\ ReportOnly

OnFileDone(w) ==
    /\ NextMessage(w, "file-done")
    /\ LET m == Head(toMain[w])
       IN  allResults' = [allResults EXCEPT ![m.file] = Append(@, m.status)]
    /\ workerTestCounts' = [workerTestCounts EXCEPT ![w] = 0]
    /\ DispatchNext(w, fileQueue, busy, [currentFile EXCEPT ![w] = NoFile])
    /\ UNCHANGED <<phase, wave, shuttingDown, failedProjects, retired, reported, daemons, proc, run>>
    /\ MaybeResolve

OnError(w) ==
    /\ NextMessage(w, "error")
    /\ RetireWorker(w)
    /\ UNCHANGED <<phase, wave, shuttingDown, failedProjects, allResults, run>>

\* hasError || worker.retired: whatever a retired worker still says is dropped.
DropMessage(w) ==
    /\ MainIdle
    /\ retired[w] /\ toMain[w] # <<>>
    /\ toMain' = [toMain EXCEPT ![w] = Tail(@)]
    /\ UNCHANGED <<mainVars, handleVars, reportVars, daemons, proc, toWorker, run>>

\* The 'exit' event.  Node may deliver it before messages the worker had sent.
OnExit(w) ==
    /\ MainIdle
    /\ proc[w] = "exited" /\ ~retired[w] /\ ~shuttingDown
    /\ RetireAndRequeue(w)
    /\ UNCHANGED <<phase, wave, shuttingDown, failedProjects, allResults, toMain, run>>

\* A send that failed, or an 'error' event of the channel: the process may be alive.
OnChannelFailure(w) ==
    /\ MainIdle
    /\ ~retired[w]
    /\ RetireWorker(w)
    /\ UNCHANGED <<phase, wave, shuttingDown, failedProjects, allResults, toMain, run>>

-----------------------------------------------------------------------------
(* From one wave to the next.                                              *)

\* Projects of the current wave that failed in it, added to those known.
FailedAfterWave ==
    failedProjects \cup
    (IF wave = 0 THEN {} ELSE {p \in ProjectWaves[wave] :
        \E f \in Files : ProjectOf[f] = p /\ "failed" \in Range1(allResults[f])})

Blocked(i, failed) == {p \in ProjectWaves[i] : Dependencies[p] \cap failed # {}}

\* q holds the elements of s that are in keep, in the order they have in s.
KeptInOrder(q, s, keep) ==
    /\ IsInjective1(q)
    /\ Range1(q) = Range1(s) \cap keep
    /\ \A a, b \in DOMAIN q : a < b =>
          \E i, j \in DOMAIN s : i < j /\ s[i] = q[a] /\ s[j] = q[b]

\* Mutant: a retired worker still takes a turn, and a file with it.
VisitingEveryWorker(turn) == \A w \in Workers : turn[w] = w

\* turn numbers the active workers 1, 2, ... in the order the loop visits them.
VisitingOrder(turn) ==
    /\ \A w \in Workers : turn[w] = 0 <=> retired[w]
    /\ \A v, w \in Workers : v < w /\ turn[v] # 0 /\ turn[w] # 0 => turn[v] < turn[w]
    /\ \A w \in Workers : \A k \in 1..turn[w] : \E v \in Workers : turn[v] = k

\* dispatchWaveInner's listener loop: dispatchNext for every active worker.
DispatchToAll(q) ==
    \E turn \in [Workers -> 0..N] : \E last \in 1..N :
        /\ VisitingOrder(turn)
        /\ \A w \in Workers : turn[w] <= last
        /\ \E w \in Workers : turn[w] = last
        /\ fileQueue' = SubSeq(q, last + 1, Len(q))
        /\ busy' = [w \in Workers |-> IF retired[w] THEN busy[w] ELSE turn[w] <= Len(q)]
        /\ currentFile' = [w \in Workers |->
              IF retired[w] THEN currentFile[w]
              ELSE IF turn[w] <= Len(q) THEN q[turn[w]] ELSE NoFile]
        /\ toWorker' = [w \in Workers |->
              IF ~retired[w] /\ turn[w] <= Len(q)
              THEN Append(toWorker[w], [type |-> "run-file", file |-> q[turn[w]]])
              ELSE toWorker[w]]

\* The loop body over projectWaves: skip the blocked projects, dispatch the rest.
EnterWave ==
    /\ phase = "dispatching" /\ settled = "resolved" /\ wave < WaveCount
    /\ LET next    == wave + 1
           blocked == Blocked(next, FailedAfterWave)
           skipped == {f \in Files : ProjectOf[f] \in blocked}
       IN  /\ wave' = next
           /\ failedProjects' = FailedAfterWave \cup blocked
           /\ allResults' = [f \in Files |->
                 IF f \in skipped THEN Append(allResults[f], "skipped") ELSE allResults[f]]
           /\ reported' = [f \in Files |-> IF f \in skipped THEN reported[f] + 1 ELSE reported[f]]
           /\ \E n \in 0..Len(WaveFiles[next]) : \E q \in [1..n -> Files] :
                 /\ KeptInOrder(q, WaveFiles[next], Files \ skipped)
                 /\ \/ /\ q = <<>>
                       /\ UNCHANGED <<settled, fileQueue, busy, currentFile, toWorker>>
                    \/ /\ q # <<>> /\ \A w \in Workers : retired[w]
                       /\ settled' = "rejected"
                       /\ fileQueue' = q
                       /\ UNCHANGED <<busy, currentFile, toWorker>>
                    \/ /\ q # <<>> /\ \E w \in Workers : ~retired[w]
                       /\ settled' = "pending"
                       /\ DispatchToAll(q)
    /\ workerTestCounts' = [w \in Workers |-> 0]   \* a new Map per wave
    /\ UNCHANGED <<phase, shuttingDown, retired, daemons, proc, toMain, run>>

\* Mutant: the loop over the waves stops after the first that settles.
FinallyAfterAnyWave ==
    /\ phase = "dispatching"
    /\ settled = "rejected" \/ (settled = "resolved" /\ wave > 0)
    /\ phase' = "closing"
    /\ retired' = [w \in Workers |-> TRUE]
    /\ UNCHANGED <<wave, settled, shuttingDown, fileQueue, failedProjects, allResults,
                   busy, currentFile, reportVars, daemons, proc, toWorker, toMain, run>>

\* The finally block: ask every process that has not exited to shut down.
Finally ==
    /\ phase = "dispatching"
    /\ settled = "rejected" \/ (settled = "resolved" /\ wave = WaveCount)
    /\ phase' = "closing"
    /\ retired' = [w \in Workers |-> TRUE]
    /\ toWorker' = [w \in Workers |-> IF proc[w] = "exited" THEN toWorker[w]
                                      ELSE Append(toWorker[w], [type |-> "shutdown"])]
    /\ UNCHANGED <<wave, settled, shuttingDown, fileQueue, failedProjects, allResults,
                   busy, currentFile, reportVars, daemons, proc, toMain, run>>

\* The 3 s timer of a worker that did not exit.
ShutdownTimeout(w) ==
    /\ phase = "closing" /\ proc[w] = "running"
    /\ proc' = [proc EXCEPT ![w] = "killed"]
    /\ UNCHANGED <<mainVars, handleVars, reportVars, daemons, toWorker, toMain, run>>

\* What the finally block and the teardown leave: the loop over the workers kills
\* worker.daemonProcess, and not the daemons of worker.members.
MemberDaemons == {daemon \in daemons : daemon[2] # 0}

\* Every exit promise is resolved: kill the workers' daemons and return the results.
Return ==
    /\ phase = "closing" /\ \A w \in Workers : proc[w] # "running"
    /\ phase' = "returned"
    /\ daemons' = MemberDaemons
    /\ UNCHANGED <<wave, settled, shuttingDown, fileQueue, failedProjects, allResults,
                   handleVars, reportVars, workerVars>>

\* A signal or an uncaught error: teardownResources, the exit is deferred.
Interrupt ==
    /\ MainIdle /\ ~shuttingDown
    /\ shuttingDown' = TRUE
    /\ proc' = [w \in Workers |-> IF proc[w] = "running" THEN "killed" ELSE proc[w]]
    /\ daemons' = MemberDaemons
    /\ UNCHANGED <<phase, wave, settled, fileQueue, failedProjects, allResults,
                   handleVars, reportVars, toWorker, toMain, run>>

\* setImmediate(() => process.exit(code))
ExitProcess ==
    /\ shuttingDown /\ phase \in {"dispatching", "closing"}
    /\ phase' = "exited"
    /\ UNCHANGED <<wave, settled, shuttingDown, fileQueue, failedProjects, allResults,
                   handleVars, reportVars, daemons, workerVars>>

-----------------------------------------------------------------------------
(* The worker processes (worker-runner.ts).                                *)

Send(w, m) == toMain' = [toMain EXCEPT ![w] = Append(@, m)]

WorkerOnly == UNCHANGED <<mainVars, handleVars, reportVars, daemons>>

\* handleRunFile up to the first test.
RunFile(w) ==
    /\ proc[w] # "exited" /\ run[w] = Idle
    /\ toWorker[w] # <<>> /\ Head(toWorker[w]).type = "run-file"
    /\ LET f == Head(toWorker[w]).file
       IN  /\ run' = [run EXCEPT ![w] = [file |-> f, attempt |-> 1, ended |-> 0, retries |-> 0]]
           /\ Send(w, [type |-> "file-start", file |-> f])
    /\ toWorker' = [toWorker EXCEPT ![w] = Tail(@)]
    /\ UNCHANGED proc
    /\ WorkerOnly

Running(w) == proc[w] # "exited" /\ run[w] # Idle

TestEnd(w) ==
    /\ Running(w) /\ run[w].ended < NumTests[run[w].file]
    /\ run' = [run EXCEPT ![w] = [file |-> @.file, attempt |-> @.attempt, ended |-> @.ended + 1, retries |-> 0]]
    /\ Send(w, [type |-> "test-end", file |-> run[w].file])
    /\ UNCHANGED <<proc, toWorker>>
    /\ WorkerOnly

\* A failed attempt of a test that has retries left: the result is provisional.
TestWillRetry(w) ==
    /\ Running(w) /\ run[w].ended < NumTests[run[w].file] /\ run[w].retries < TestRetries
    /\ run' = [run EXCEPT ![w] = [@ EXCEPT !.retries = run[w].retries + 1]]
    /\ Send(w, [type |-> "test-will-retry", file |-> run[w].file])
    /\ UNCHANGED <<proc, toWorker>>
    /\ WorkerOnly

\* Mutant: a file is retried however often it failed before.
FileRetryAlways(w) ==
    /\ Running(w)
    /\ run' = [run EXCEPT ![w] = [file |-> @.file, attempt |-> @.attempt + 1, ended |-> 0, retries |-> 0]]
    /\ Send(w, [type |-> "file-retry", file |-> run[w].file])
    /\ UNCHANGED <<proc, toWorker>>
    /\ WorkerOnly

\* runFileWithRecovery, attempt 1 hit an infrastructure error: run the file again.
FileRetry(w) ==
    /\ Running(w) /\ run[w].attempt = 1
    /\ run' = [run EXCEPT ![w] = [file |-> @.file, attempt |-> 2, ended |-> 0, retries |-> 0]]
    /\ Send(w, [type |-> "file-retry", file |-> run[w].file])
    /\ UNCHANGED <<proc, toWorker>>
    /\ WorkerOnly

FileDone(w) ==
    /\ Running(w) /\ run[w].ended = NumTests[run[w].file]
    /\ \E status \in {"passed", "failed"} :
          Send(w, [type |-> "file-done", file |-> run[w].file, status |-> status])
    /\ run' = [run EXCEPT ![w] = Idle]
    /\ UNCHANGED <<proc, toWorker>>
    /\ WorkerOnly

\* An error the file retry does not absorb: the 'message' handler's catch.
FileError(w) ==
    /\ Running(w)
    /\ Send(w, [type |-> "error", file |-> run[w].file])
    /\ run' = [run EXCEPT ![w] = Idle]
    /\ UNCHANGED <<proc, toWorker>>
    /\ WorkerOnly

\* The process ends: a crash, a signal or process.exit after 'shutdown'.  What
\* it had not flushed to the channel is lost.
Exit(w) ==
    /\ proc' = [proc EXCEPT ![w] = "exited"]
    /\ run' = [run EXCEPT ![w] = Idle]
    /\ \E k \in 0..Len(toMain[w]) : toMain' = [toMain EXCEPT ![w] = SubSeq(@, 1, k)]
    /\ UNCHANGED toWorker
    /\ WorkerOnly

Crash(w) == proc[w] = "running" /\ Exit(w)

KilledExit(w) == proc[w] = "killed" /\ Exit(w)

\* handleShutdown
Shutdown(w) ==
    /\ proc[w] # "exited"
    /\ toWorker[w] # <<>> /\ Head(toWorker[w]).type = "shutdown"
    /\ Exit(w)

\* The run is over and every process is gone.
Terminated ==
    /\ phase \in {"returned", "exited"}
    /\ \A w \in Workers : proc[w] = "exited"
    /\ UNCHANGED vars

-----------------------------------------------------------------------------
MainEvent(w) ==
    \/ OnFileStart(w) \/ OnTestEnd(w) \/ OnTestWillRetry(w) \/ OnFileRetry(w)
    \/ OnFileDone(w) \/ OnError(w) \/ DropMessage(w) \/ OnExit(w)

WorkerStep(w) ==
    \/ RunFile(w) \/ TestEnd(w) \/ FileRetry(w) \/ FileDone(w) \/ FileError(w)
    \/ KilledExit(w) \/ Shutdown(w)

Next ==
    \/ \E w \in Workers :
          \/ MainEvent(w) \/ OnChannelFailure(w) \/ ShutdownTimeout(w)
          \/ WorkerStep(w) \/ TestWillRetry(w) \/ Crash(w)
    \/ EnterWave \/ Finally \/ Return \/ Interrupt \/ ExitProcess
    \/ Terminated

\* The event loop keeps running, a test ends (it has a timeout), a process that
\* was signalled or told to shut down exits, the 3 s timer fires.  Nothing makes
\* a worker crash, a channel break or the user interrupt.
Fairness ==
    /\ \A w \in Workers : /\ WF_vars(MainEvent(w))
                          /\ WF_vars(WorkerStep(w))
                          /\ WF_vars(ShutdownTimeout(w))
    /\ WF_vars(EnterWave \/ Finally \/ Return \/ ExitProcess)

Spec == Init /\ [][Next]_vars
FairSpec == Spec /\ Fairness

-----------------------------------------------------------------------------
(* Properties.                                                             *)

\* Every variable stays in its domain, whatever order messages, exits and
\* interrupts come in.
TypeOK ==
    /\ phase \in {"dispatching", "closing", "returned", "exited"}
    /\ wave \in 0..WaveCount
    /\ settled \in {"pending", "resolved", "rejected"}
    /\ shuttingDown \in BOOLEAN
    /\ fileQueue \in Seq(Files)
    /\ failedProjects \subseteq Projects
    /\ allResults \in [Files -> Seq(Status)]
    /\ retired \in [Workers -> BOOLEAN]
    /\ busy \in [Workers -> BOOLEAN]
    /\ currentFile \in [Workers -> Files \cup {NoFile}]
    /\ workerTestCounts \in [Workers -> Nat]
    /\ reported \in [Files -> Int]
    /\ daemons \subseteq Workers \X (0..GroupMembers)
    /\ proc \in [Workers -> {"running", "killed", "exited"}]
    /\ toWorker \in [Workers -> Seq(Order)]
    /\ toMain \in [Workers -> Seq(Message)]
    /\ run \in [Workers -> [file : Files \cup {NoFile}, attempt : 0..2, ended : Nat, retries : Nat]]

\* Where a file of the run is: in the queue, with a worker, or among the results.
Holders(f) ==
    {<<"queue", i>> : i \in {j \in DOMAIN fileQueue : fileQueue[j] = f}}
    \cup {<<"worker", w>> : w \in {v \in Workers : currentFile[v] = f}}
    \cup {<<"result", i>> : i \in DOMAIN allResults[f]}

\* No file is lost and none is counted twice: a file of a wave that has begun is
\* in exactly one place (queued, assigned to one worker, or finished with one
\* outcome), through every crash, requeue and late message; a file of a later
\* wave is nowhere yet.
ExactlyOnce ==
    \A i \in 1..WaveCount : \A f \in Range1(WaveFiles[i]) :
        IF i <= wave THEN \E h \in Holders(f) : Holders(f) = {h}
                     ELSE Holders(f) = {}

\* A run that returns results returns all of them: when runParallel does not
\* throw and nobody interrupted it, every file has its outcome.
CompleteResults ==
    phase \in {"closing", "returned"} /\ settled = "resolved" /\ ~shuttingDown
        => \A f \in Files : Len(allResults[f]) = 1

\* The reporter's totals agree with the run: what it was told about a file, less
\* what onTestFileRetry took back, is the file's final results once it is done,
\* the results since the last (re)start while it runs, and nothing before that.
LedgerExact ==
    ~shuttingDown => \A f \in Files :
        reported[f] =
            IF allResults[f] = <<"skipped">> THEN 1
            ELSE IF allResults[f] # <<>> THEN NumTests[f]
            ELSE IF \E w \in Workers : currentFile[w] = f
                 THEN workerTestCounts[CHOOSE w \in Workers : currentFile[w] = f]
            ELSE 0

\* What the caller of runParallel can tell of the run.  The outcomes of a run
\* that throws or is interrupted are never seen.
Abandoned == settled = "rejected" \/ shuttingDown
RunView == INSTANCE WaveRun WITH
    at <- IF Abandoned THEN 0 ELSE wave,
    outcome <- [f \in Files |-> IF Abandoned \/ allResults[f] = <<>> THEN "none"
                                ELSE allResults[f][Len(allResults[f])]],
    lost <- IF Abandoned THEN {} ELSE failedProjects,
    ending <- IF Abandoned THEN "abandoned"
              ELSE IF phase = "dispatching" THEN "running" ELSE "completed"

\* The dispatcher implements WaveRun: whatever workers do, the run the caller
\* sees decides each file once, wave after wave, skips exactly the dependents of
\* lost projects, and completes only when everything is decided.
ImplementsWaveRun == RunView!RunSpec

\* A daemon lives as long as the run needs it and no longer.  When runParallel
\* returns, and when an interrupt makes the process exit, every worker process has
\* exited or been signalled and every daemon has been killed, except those of the
\* other members of device groups (neither the finally block nor the teardown kills
\* them; they end with the process that started them).  Before that, a worker that
\* has a file is not signalled and the daemons of all its devices are up, and a
\* worker that was given up leaves no daemon of any device.
NothingLeftRunning ==
    /\ phase \in {"returned", "exited"} =>
          daemons = MemberDaemons /\ \A w \in Workers : proc[w] # "running"
    /\ phase = "dispatching" /\ ~shuttingDown => \A w \in Workers :
          /\ currentFile[w] # NoFile => DaemonsOf(w) \subseteq daemons /\ proc[w] # "killed"
          /\ retired[w] => DaemonsOf(w) \cap daemons = {}

\* The run always ends, whichever workers crash and whenever: it returns, throws
\* or exits, and every worker process is gone for good.
RunEnds ==
    <>[](phase \in {"returned", "exited"} /\ \A w \in Workers : proc[w] = "exited")
=============================================================================
