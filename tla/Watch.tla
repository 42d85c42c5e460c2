------------------------------- MODULE Watch -------------------------------
(***************************************************************************)
(* Watch mode: the RunQueue (packages/tapsmith/src/watch-queue.ts), the    *)
(* events that feed it, and the runs it starts (watch.ts): a child process *)
(* per file, or persistent workers that take files from a shared queue.    *)
(*                                                                         *)
(* Every device target has started (ctx.unavailableTargets is empty), and  *)
(* a worker's end is noticed because a dispatch is listening.  Queues are  *)
(* sets: the order of files comes from the disk and the config.            *)
(***************************************************************************)
EXTENDS Integers, Sequences

CONSTANTS
    Files, Initial,   \* what may exist, and what is there at the start
    Projects,         \* {} when the config has none
    Waves,            \* the projects in dependency order: a sequence of sets
    DependsOn,        \* per project
    TestFiles,        \* per project, fixed at the start
    Workers,          \* {} when watch mode runs files one by one
    Serves,           \* per worker: the projects of its device target
    MultiTarget,      \* more than one device target
    Keys,             \* the keys pressed, of "a", "f" and "enter"
    Main, NoProject, NoRun

Entry == [file : Files, project : Projects \cup {NoProject}]

\* A run; lost are the files whose worker ended under them.
RunRecord ==
    [kind : {"all", "files"}, files : SUBSET Files, wave : Nat, todo : SUBSET Entry, sequential : BOOLEAN,
     failedProjects : SUBSET (Projects \cup {NoProject}),
     ran : SUBSET Files, failed : SUBSET Files, passed : SUBSET Files, lost : SUBSET Files]

ASSUME WatchAssumption ==
    /\ Initial \subseteq Files
    /\ DependsOn \in [Projects -> SUBSET Projects]
    /\ TestFiles \in [Projects -> SUBSET Files]
    /\ Waves \in Seq(SUBSET Projects)
    /\ Serves \in [Workers -> SUBSET Projects]
    /\ Main \notin Workers /\ NoProject \notin Projects
    /\ NoRun \notin Files /\ NoRun \notin RunRecord

Idle == [file |-> NoRun, project |-> NoProject]
Runners == Workers \cup {Main}

\* A RunRequest, or none.
NoRequest == [type |-> "none", files |-> {}]
AllFiles == [type |-> "all", files |-> {}]
OnlyFiles(files) == [type |-> "files", files |-> files]

FilesOf(entries) == {e.file : e \in entries}

VARIABLES
    known, failedFiles, lastRunFiles,   \* watch mode's own state
    debounce, timer, pending, running,  \* the RunQueue
    run,                                \* the run in progress, or NoRun
    busy,                               \* per runner: the entry it runs, or Idle
    retired,                            \* workers that are gone for good
    dirty, lastFailed, overlapped       \* history: changes that are owed a run, the failures of the
                                        \* last run that went through, a run started over another

queue == <<debounce, timer, pending, running>>
history == <<dirty, lastFailed, overlapped>>
vars == <<known, failedFiles, lastRunFiles, queue, run, busy, retired, history>>

Init ==
    /\ known = Initial /\ failedFiles = {} /\ lastRunFiles = {}
    /\ debounce = {} /\ timer = FALSE /\ pending = NoRequest /\ running = FALSE
    /\ run = NoRun
    /\ busy = [r \in Runners |-> Idle]
    /\ retired = {}
    /\ dirty = {} /\ lastFailed = {} /\ overlapped = FALSE

-----------------------------------------------------------------------------
(* Starting a run: executeWaveRun and executeFileRun up to their dispatch. *)

\* One wave of every known file when there are no projects.
WaveEntries(i) ==
    IF Projects = {} THEN {[file |-> f, project |-> NoProject] : f \in known}
    ELSE UNION {{[file |-> f, project |-> p] : f \in TestFiles[p]} : p \in Waves[i]}

WaveCount == IF Projects = {} THEN 1 ELSE Len(Waves)

RunAllFiles == FilesOf(UNION {WaveEntries(i) : i \in 1..WaveCount})

Covers(request, f) == IF request = AllFiles THEN f \in RunAllFiles ELSE f \in request.files

\* A file runs once in every project it belongs to.
FileEntries(f) ==
    IF \E p \in Projects : f \in TestFiles[p]
    THEN {[file |-> f, project |-> p] : p \in {q \in Projects : f \in TestFiles[q]}}
    ELSE {[file |-> f, project |-> NoProject]}

NewRun(kind, files, entries) ==
    [kind |-> kind, files |-> files, wave |-> 0, todo |-> entries,
     sequential |-> Workers = {} \/ (kind = "files" /\ (\E e \in entries : entries = {e}) /\ ~MultiTarget),
     failedProjects |-> {}, ran |-> {}, failed |-> {}, passed |-> {}, lost |-> {}]

\* The RunQueue's callback.
StartRun(request) ==
    /\ IF request = AllFiles
       THEN /\ run' = NewRun("all", known, {})
            /\ lastRunFiles' = known
       ELSE /\ run' = NewRun("files", request.files, UNION {FileEntries(f) : f \in request.files})
            /\ lastRunFiles' = request.files
    /\ running' = TRUE

OnRun(request) ==
    /\ StartRun(request)
    /\ dirty' = {f \in dirty : ~Covers(request, f)}

-----------------------------------------------------------------------------
(* The RunQueue.                                                           *)

\* scheduleFiles: debounced when idle, queued while a run is in progress.
ScheduleFiles(files) ==
    IF running
    THEN /\ timer' = FALSE
         /\ pending' = IF pending = AllFiles THEN AllFiles ELSE OnlyFiles(pending.files \cup files)
         /\ UNCHANGED <<debounce, running>>
    ELSE /\ debounce' = debounce \cup files
         /\ timer' = TRUE
         /\ UNCHANGED <<pending, running>>

\* scheduleAll and scheduleImmediate: at once when idle; what is queued while a
\* run is in progress is replaced.  The files of a cancelled debounce stay.  A change
\* that the key's request leaves out is owed nothing from then on.
ScheduleNow(request) ==
    IF running
    THEN /\ pending' = request
         /\ dirty' = {f \in dirty : Covers(request, f)}
         /\ UNCHANGED <<debounce, timer, running, run, lastRunFiles, overlapped>>
    ELSE /\ timer' = FALSE
         /\ StartRun(request) /\ dirty' = {}
         /\ overlapped' = (overlapped \/ run # NoRun)
         /\ UNCHANGED <<debounce, pending>>

DebounceFires ==
    /\ timer
    /\ timer' = FALSE
    /\ debounce' = {}
    /\ OnRun(OnlyFiles(debounce))
    /\ overlapped' = (overlapped \/ run # NoRun)
    /\ UNCHANGED <<known, failedFiles, pending, busy, retired, lastFailed>>

\* Mutant: the queued request is dropped.
NotifyRunFinishedDrop ==
    /\ pending' = NoRequest
    /\ run' = NoRun /\ running' = FALSE
    /\ UNCHANGED <<lastRunFiles, dirty, debounce, timer, overlapped>>

\* notifyRunFinished, at the end of a run: the queued request starts.
NotifyRunFinished ==
    /\ IF pending = NoRequest
       THEN /\ run' = NoRun /\ running' = FALSE
            /\ UNCHANGED <<lastRunFiles, dirty>>
       ELSE OnRun(pending)
    /\ pending' = NoRequest
    /\ UNCHANGED <<debounce, timer, overlapped>>

-----------------------------------------------------------------------------
(* The watcher and the keyboard.                                           *)

\* A sequential run of all files goes through the live set of known files; nothing
\* happens between one file's end and the next one's start, or the loop's end.
Iterating ==
    /\ run # NoRun /\ Projects = {} /\ Workers = {} /\ run.kind = "all"
    /\ busy[Main] # Idle

Change(f) ==
    /\ f \in known
    /\ ScheduleFiles({f})
    /\ dirty' = dirty \cup {f}
    /\ UNCHANGED <<known, failedFiles, lastRunFiles, run, busy, retired, lastFailed, overlapped>>

Add(f) ==
    /\ f \notin known
    /\ known' = known \cup {f}
    /\ ScheduleFiles({f})
    /\ dirty' = dirty \cup {f}
    /\ run' = IF Iterating THEN [run EXCEPT !.todo = @ \cup {[file |-> f, project |-> NoProject]}] ELSE run
    /\ UNCHANGED <<failedFiles, lastRunFiles, busy, retired, lastFailed, overlapped>>

Unlink(f) ==
    /\ f \in known
    /\ known' = known \ {f}
    /\ failedFiles' = failedFiles \ {f}
    /\ dirty' = dirty \ {f}
    /\ lastFailed' = {e \in lastFailed : e.file # f}
    /\ run' = IF Iterating THEN [run EXCEPT !.todo = {e \in @ : e.file # f}] ELSE run
    /\ UNCHANGED <<lastRunFiles, queue, busy, retired, overlapped>>

PressRunAll ==
    /\ "a" \in Keys
    /\ ScheduleNow(AllFiles)
    /\ UNCHANGED <<known, failedFiles, busy, retired, lastFailed>>

PressRunFailed ==
    /\ "f" \in Keys
    /\ failedFiles \cap known # {}
    /\ ScheduleNow(OnlyFiles(failedFiles \cap known))
    /\ UNCHANGED <<known, failedFiles, busy, retired, lastFailed>>

PressRerun ==
    /\ "enter" \in Keys
    /\ lastRunFiles \cap known # {}
    /\ ScheduleNow(OnlyFiles(lastRunFiles \cap known))
    /\ UNCHANGED <<known, failedFiles, busy, retired, lastFailed>>

-----------------------------------------------------------------------------
(* A run.                                                                  *)

Live == IF run.sequential THEN {Main} ELSE Workers \ retired
MayRun(r, e) == r = Main \/ e.project = NoProject \/ e.project \in Serves[r]
NobodyBusy == \A r \in Live : busy[r] = Idle

\* What the runners in rs may hold once each, in turn, has taken an entry.
Handed(rs, entries) ==
    {b \in [Runners -> entries \cup {Idle}] :
        /\ \A r \in Runners \ rs : b[r] = Idle
        /\ \A r \in rs : b[r] # Idle => MayRun(r, b[r])
        /\ \A r, s \in rs : r # s /\ b[r] # Idle => b[r] # b[s]
        /\ \A r \in rs : b[r] = Idle => \A e \in entries \ {b[s] : s \in rs} : ~MayRun(r, e)}

Blocked(p) == DependsOn[p] \cap run.failedProjects # {}

\* The next wave, or the one of a file run: projects whose dependency failed are
\* skipped, and the rest is handed out.
Dispatch ==
    /\ run # NoRun
    /\ run.wave = 0 \/ (NobodyBusy /\ run.todo = {})
    /\ run.wave < (IF run.kind = "all" THEN WaveCount ELSE 1)
    /\ LET i       == run.wave + 1
           skipped == IF run.kind = "all" /\ Projects # {} THEN {p \in Waves[i] : Blocked(p)} ELSE {}
           entries == IF run.kind = "all" THEN {e \in WaveEntries(i) : e.project \notin skipped} ELSE run.todo
       IN  \E b \in Handed(Live, entries) :
              /\ busy' = b
              /\ run' = [run EXCEPT !.wave = i, !.todo = entries \ {b[r] : r \in Live},
                                    !.failedProjects = @ \cup skipped, !.ran = @ \cup FilesOf(entries)]
    /\ lastFailed' = IF run.wave = 0 THEN {} ELSE lastFailed
    /\ UNCHANGED <<known, failedFiles, lastRunFiles, queue, retired, dirty, overlapped>>

\* runFileInChild settles, or a worker's file-done: a crash of a child is a failure.
\* The runner goes on with what is queued.
FileDone(r, failed) ==
    /\ run # NoRun /\ r \in Live /\ busy[r] # Idle
    /\ LET e    == busy[r]
           mine == {x \in run.todo : MayRun(r, x)}
       IN  \E next \in (IF mine = {} THEN {Idle} ELSE mine) :
              /\ busy' = [busy EXCEPT ![r] = next]
              /\ run' = [run EXCEPT !.todo = @ \ {next},
                                    !.failed = IF failed THEN @ \cup {e.file} ELSE @,
                                    !.passed = IF failed THEN @ ELSE @ \cup {e.file},
                                    !.failedProjects = IF failed THEN @ \cup {e.project} ELSE @]
              /\ failedFiles' = IF ~run.sequential THEN failedFiles
                                ELSE IF failed THEN failedFiles \cup {e.file} ELSE failedFiles \ {e.file}
              /\ lastFailed' = IF failed /\ e.file \in known THEN lastFailed \cup {e} ELSE lastFailed \ {e}
    /\ UNCHANGED <<known, lastRunFiles, queue, retired, dirty, overlapped>>

\* retireWorker: the worker's file is nobody's any more.  The last one's end
\* rejects the dispatch, and the run with it.
RetireWorker(w) ==
    /\ run # NoRun /\ ~run.sequential /\ run.wave > 0
    /\ w \in Live /\ ~NobodyBusy
    /\ retired' = retired \cup {w}
    /\ IF Live = {w}
       THEN /\ busy' = [r \in Runners |-> Idle]
            /\ NotifyRunFinished
            /\ lastFailed' = {}
       ELSE /\ busy' = [busy EXCEPT ![w] = Idle]
            /\ run' = [run EXCEPT !.lost = @ \cup ({busy[w].file} \ {NoRun})]
            /\ UNCHANGED <<lastRunFiles, queue, history>>
    /\ UNCHANGED <<known, failedFiles>>

\* Mutant: what no live worker may take is left for one to come.
FailStrandedWait == FALSE /\ UNCHANGED vars

\* maybeResolve: what no live worker may take fails.
FailStranded ==
    /\ run # NoRun /\ run.wave > 0 /\ NobodyBusy /\ run.todo # {}
    /\ run' = [run EXCEPT !.todo = {}, !.failed = @ \cup FilesOf(run.todo),
                          !.failedProjects = @ \cup {e.project : e \in run.todo}]
    /\ lastFailed' = lastFailed \cup {e \in run.todo : e.file \in known}
    /\ UNCHANGED <<known, failedFiles, lastRunFiles, queue, busy, retired, dirty, overlapped>>

\* Mutant: the last result of a file decides.
ReconciledByPass ==
    LET about == IF run.kind = "files" THEN run.files ELSE IF Projects = {} THEN known ELSE run.ran
    IN  IF run.sequential THEN failedFiles
        ELSE (failedFiles \ about) \cup ((run.failed \ run.passed) \cap about)

\* The list of failed files after a parallel run: reconcileFailedFiles over the
\* files dispatched, or over the files the run was about.
Reconciled ==
    LET about == IF run.kind = "files" THEN run.files ELSE IF Projects = {} THEN known ELSE run.ran
    IN  IF run.sequential THEN failedFiles
        ELSE (failedFiles \ about) \cup (run.failed \cap about)

RunDone == run.wave = (IF run.kind = "all" THEN WaveCount ELSE 1) /\ run.todo = {} /\ NobodyBusy

\* Mutant: the failures of this run replace the list.
FinishRunReplace ==
    /\ run # NoRun /\ RunDone
    /\ failedFiles' = run.failed
    /\ NotifyRunFinished
    /\ UNCHANGED <<known, busy, retired, lastFailed>>

\* The end of executeWaveRun and executeFileRun, and finishRun.
FinishRun ==
    /\ run # NoRun /\ RunDone
    /\ failedFiles' = Reconciled
    /\ NotifyRunFinished
    /\ UNCHANGED <<known, busy, retired, lastFailed>>

\* The reporters cannot be made: the queue's catch ends the run.
RunThrows ==
    /\ run # NoRun /\ run.wave = 0
    /\ NotifyRunFinished
    /\ UNCHANGED <<known, failedFiles, busy, retired, lastFailed>>

Running ==
    \/ Dispatch \/ FailStranded \/ FinishRun
    \/ \E r \in Runners : FileDone(r, TRUE) \/ FileDone(r, FALSE)

Next ==
    \/ \E f \in Files : Change(f) \/ Add(f) \/ Unlink(f)
    \/ PressRunAll \/ PressRunFailed \/ PressRerun
    \/ DebounceFires \/ Running \/ RunThrows
    \/ \E w \in Workers : RetireWorker(w)

\* Timers fire, and a run that can go on does: children answer, exit or are killed.
Fairness == WF_vars(DebounceFires) /\ WF_vars(Running)

Spec == Init /\ [][Next]_vars
FairSpec == Spec /\ Fairness

-----------------------------------------------------------------------------
(* Properties.                                                             *)

\* Two runs never overlap on the device: the debounce timer, which starts a run
\* without looking at isRunning, is never armed while one is in progress.
OneRunAtATime == ~overlapped /\ (timer => run = NoRun)

\* No saved change is lost: until a run that includes it starts, a changed file that
\* a run of all files includes is waiting for the debounce timer or is in the queued
\* request, unless a key pressed since has asked for other files instead.
ChangeCovered ==
    \A f \in dirty \cap RunAllFiles : (timer /\ f \in debounce) \/ Covers(pending, f)

\* Saved changes run, one run at a time (scheduleFiles, scheduleImmediate,
\* notifyRunFinished).
ChangesScheduled == OneRunAtATime /\ ChangeCovered

\* "a fail in either wave is sticky": a file that failed in any project of the last
\* run, and was not deleted, is in the list that the f key re-runs
\* (reconcileFailedFiles).
StickyFailures == run = NoRun => FilesOf(lastFailed) \subseteq failedFiles

FailuresKept(lost) ==
    \A f \in failedFiles \ failedFiles' :
        \/ f \notin known'
        \/ f \in run.passed
        \/ run' # NoRun /\ f \in run'.passed
        \/ f \in lost

\* "its prior failed-state must persist until it actually re-runs": a file leaves
\* the list only by being deleted or by passing in the run at hand.
FailedUntilRerun == [][FailuresKept({})]_vars

\* The same, but for a file whose worker ended under it: a skipped project, a failed
\* wave, a thrown run and a run of other files leave a file's failure alone.
FailedUntilRerunOrLost == [][FailuresKept(IF run = NoRun THEN {} ELSE run.lost)]_vars

\* A request queued behind a run starts: the run comes to its end, whichever
\* workers it loses, and hands over.
QueueDrains == pending # NoRequest ~> pending = NoRequest
=============================================================================
