---------------------------- MODULE WatchProofs ----------------------------
(***************************************************************************)
(* Proofs about Watch, for any files, projects, waves, workers and keys:   *)
(* runs never overlap, no saved change and no failure is forgotten.        *)
(***************************************************************************)
EXTENDS Watch, TLAPS

Request == [type : {"none", "all", "files"}, files : SUBSET Files]

TypeOK ==
    /\ known \in SUBSET Files /\ failedFiles \in SUBSET Files /\ lastRunFiles \in SUBSET Files
    /\ debounce \in SUBSET Files /\ timer \in BOOLEAN /\ running \in BOOLEAN
    /\ pending \in Request /\ (pending.type # "files" => pending.files = {})
    /\ run \in RunRecord \cup {NoRun}
    /\ busy \in [Runners -> Entry \cup {Idle}]
    /\ retired \in SUBSET Workers
    /\ dirty \in SUBSET Files /\ lastFailed \in SUBSET Entry

\* The queue's flags tell the truth about the run at hand.
QueueInv ==
    /\ running <=> run # NoRun
    /\ timer => ~running
    /\ pending # NoRequest => running
    /\ ~overlapped

\* A run that has just been started.
FreshRun(r) ==
    /\ r \in RunRecord /\ r # NoRun /\ r.wave = 0
    /\ r.ran = {} /\ r.failed = {} /\ r.passed = {} /\ r.lost = {}
    /\ r.kind = "files" => FilesOf(r.todo) = r.files
    /\ r.sequential \/ Workers # {}
    /\ r.sequential /\ Workers # {} => r.kind = "files" /\ \E e \in Entry : r.todo = {e}

-----------------------------------------------------------------------------
(* Runs that start.                                                        *)

\* The files of a wave are entries, and a file run's entries are its files.
LEMMA EntriesType ==
    ASSUME known \in SUBSET Files
    PROVE  /\ \A i \in 1..WaveCount : WaveEntries(i) \in SUBSET Entry
           /\ \A f \in Files : FileEntries(f) \in SUBSET Entry /\ FilesOf(FileEntries(f)) = {f}
<1>1. ASSUME NEW i \in 1..WaveCount
      PROVE  WaveEntries(i) \in SUBSET Entry
    <2>1. CASE Projects = {}
        BY <2>1 DEF WaveEntries, Entry
    <2>2. CASE Projects # {}
        <3>1. Waves[i] \in SUBSET Projects
            BY <2>2, <1>1, WatchAssumption DEF WaveCount
        <3>2. \A p \in Waves[i] : {[file |-> f, project |-> p] : f \in TestFiles[p]} \in SUBSET Entry
            BY <3>1, WatchAssumption DEF Entry
        <3> QED BY <3>2, <2>2 DEF WaveEntries
    <2> QED BY <2>1, <2>2
<1>2. ASSUME NEW f \in Files
      PROVE  FileEntries(f) \in SUBSET Entry /\ FilesOf(FileEntries(f)) = {f}
    <2>1. CASE \E p \in Projects : f \in TestFiles[p]
        <3>1. FileEntries(f) = {[file |-> f, project |-> p] : p \in {q \in Projects : f \in TestFiles[q]}}
            BY <2>1 DEF FileEntries
        <3>2. FileEntries(f) \in SUBSET Entry
            BY <3>1 DEF Entry
        <3>3. PICK p \in Projects : f \in TestFiles[p]
            BY <2>1
        <3>4. [file |-> f, project |-> p] \in FileEntries(f)
            BY <3>1, <3>3
        <3>5. \A e \in FileEntries(f) : e.file = f
            BY <3>1
        <3> QED BY <3>2, <3>4, <3>5 DEF FilesOf
    <2>2. CASE ~\E p \in Projects : f \in TestFiles[p]
        BY <2>2 DEF FileEntries, FilesOf, Entry
    <2> QED BY <2>1, <2>2
<1> QED BY <1>1, <1>2

\* A run record is as long as its fields say, and is not "no run".
LEMMA NewRunFresh ==
    ASSUME NEW kind \in {"all", "files"}, NEW files \in SUBSET Files, NEW entries \in SUBSET Entry,
           kind = "all" => entries = {}, kind = "files" => FilesOf(entries) = files
    PROVE  FreshRun(NewRun(kind, files, entries))
<1> DEFINE r == NewRun(kind, files, entries)
<1>1. r \in RunRecord
    BY DEF NewRun, RunRecord
<1>2. r # NoRun
    BY <1>1, WatchAssumption
<1>3. r.wave = 0 /\ r.ran = {} /\ r.failed = {} /\ r.passed = {} /\ r.lost = {} /\ r.kind = kind
      /\ r.todo = entries /\ r.files = files
      /\ r.sequential = (Workers = {} \/ (kind = "files" /\ (\E e \in entries : entries = {e}) /\ ~MultiTarget))
    BY DEF NewRun
<1> QED BY <1>1, <1>2, <1>3 DEF FreshRun

\* Whatever is asked of the queue's callback, a fresh run starts.
LEMMA StartRunFresh ==
    ASSUME known \in SUBSET Files, NEW request \in Request, StartRun(request)
    PROVE  FreshRun(run') /\ running' = TRUE /\ lastRunFiles' \in SUBSET Files
<1>1. CASE request = AllFiles
    BY <1>1, NewRunFresh DEF StartRun
<1>2. CASE request # AllFiles
    <2> DEFINE entries == UNION {FileEntries(f) : f \in request.files}
    <2>1. request.files \in SUBSET Files
        BY DEF Request
    <2>2. entries \in SUBSET Entry /\ FilesOf(entries) = request.files
        BY <2>1, EntriesType DEF FilesOf
    <2>3. run' = NewRun("files", request.files, entries) /\ lastRunFiles' = request.files /\ running' = TRUE
        BY <1>2 DEF StartRun
    <2>4. FreshRun(NewRun("files", request.files, entries))
        BY <2>1, <2>2, NewRunFresh
    <2> QED BY <2>1, <2>3, <2>4
<1> QED BY <1>1, <1>2

\* At the end of a run there is no run, or the one that was queued.
LEMMA FinishedOrFresh ==
    ASSUME TypeOK, NotifyRunFinished
    PROVE  /\ run' = NoRun \/ FreshRun(run')
           /\ running' = (run' # NoRun)
           /\ pending' = NoRequest /\ UNCHANGED <<debounce, timer, overlapped>>
           /\ dirty' \in SUBSET dirty /\ lastRunFiles' \in SUBSET Files
<1>1. CASE pending = NoRequest
    BY <1>1 DEF NotifyRunFinished, TypeOK
<1>2. CASE pending # NoRequest
    <2>1. StartRun(pending)
        BY <1>2 DEF NotifyRunFinished, OnRun
    <2>2. FreshRun(run') /\ running' = TRUE /\ lastRunFiles' \in SUBSET Files
        BY <2>1, StartRunFresh DEF TypeOK
    <2> QED BY <2>2, <1>2 DEF NotifyRunFinished, OnRun, FreshRun
<1> QED BY <1>1, <1>2

-----------------------------------------------------------------------------
(* Types and the queue's flags, action by action.                          *)

TypeAndQueue == TypeOK /\ QueueInv

LEMMA WatchInit == Init => TypeAndQueue
<1> SUFFICES ASSUME Init PROVE TypeAndQueue
    OBVIOUS
<1>1. TypeOK
    BY WatchAssumption DEF Init, TypeOK, Request, NoRequest, Runners
<1>2. QueueInv
    BY DEF Init, QueueInv
<1> QED BY <1>1, <1>2 DEF TypeAndQueue

\* Files are scheduled behind the timer or behind the run.
LEMMA ScheduleFilesStep ==
    ASSUME TypeAndQueue, NEW files \in SUBSET Files, ScheduleFiles(files)
    PROVE  /\ debounce' \in SUBSET Files /\ timer' \in BOOLEAN /\ running' = running
           /\ pending' \in Request /\ (pending'.type # "files" => pending'.files = {})
           /\ timer' => ~running
           /\ pending' # NoRequest => running
<1>1. CASE running
    <2>1. pending \in Request /\ pending.files \in SUBSET Files
        BY DEF TypeAndQueue, TypeOK, Request
    <2>2. pending' \in {AllFiles, OnlyFiles(pending.files \cup files)}
          /\ timer' = FALSE /\ UNCHANGED <<debounce, running>>
        BY <1>1 DEF ScheduleFiles
    <2>3. AllFiles \in Request /\ AllFiles.files = {}
        BY DEF AllFiles, Request
    <2>4. OnlyFiles(pending.files \cup files) \in Request /\ OnlyFiles(pending.files \cup files).type = "files"
        BY <2>1 DEF OnlyFiles, Request
    <2> QED BY <1>1, <2>2, <2>3, <2>4 DEF TypeAndQueue, TypeOK
<1>2. CASE ~running
    BY <1>2 DEF TypeAndQueue, TypeOK, QueueInv, ScheduleFiles
<1> QED BY <1>1, <1>2

\* A key's request starts at once, or takes the place of what is queued.
LEMMA ScheduleNowStep ==
    ASSUME TypeAndQueue, NEW request \in Request, request.type # "files" => request.files = {},
           request # NoRequest,
           ScheduleNow(request), UNCHANGED <<known, failedFiles, busy, retired, lastFailed>>
    PROVE  /\ TypeAndQueue'
           /\ ~running => FreshRun(run')
           /\ running => run' = run
<1>1. CASE running
    BY <1>1 DEF TypeAndQueue, TypeOK, QueueInv, ScheduleNow, Runners
<1>2. CASE ~running
    <2>1. StartRun(request) /\ timer' = FALSE /\ dirty' = {} /\ overlapped' = (overlapped \/ run # NoRun)
          /\ UNCHANGED <<debounce, pending>>
        BY <1>2 DEF ScheduleNow
    <2>2. FreshRun(run') /\ running' = TRUE /\ lastRunFiles' \in SUBSET Files
        BY <2>1, StartRunFresh DEF TypeAndQueue, TypeOK
    <2>3. TypeOK'
        BY <2>1, <2>2 DEF TypeAndQueue, TypeOK, FreshRun, Runners
    <2>4. QueueInv'
        BY <1>2, <2>1, <2>2 DEF TypeAndQueue, QueueInv, FreshRun
    <2> QED BY <1>2, <2>2, <2>3, <2>4 DEF TypeAndQueue
<1> QED BY <1>1, <1>2

\* The debounce timer finds nothing running.
LEMMA DebounceStep ==
    ASSUME TypeAndQueue, DebounceFires
    PROVE  TypeAndQueue' /\ run = NoRun /\ FreshRun(run')
<1>1. OnlyFiles(debounce) \in Request
    BY DEF TypeAndQueue, TypeOK, OnlyFiles, Request
<1>2. FreshRun(run') /\ running' = TRUE /\ lastRunFiles' \in SUBSET Files
    BY <1>1, StartRunFresh DEF TypeAndQueue, TypeOK, DebounceFires, OnRun
<1>3. run = NoRun
    BY DEF TypeAndQueue, QueueInv, DebounceFires
<1>4. TypeOK'
    BY <1>2 DEF TypeAndQueue, TypeOK, DebounceFires, FreshRun, OnRun, Runners
<1>5. QueueInv'
    BY <1>2, <1>3 DEF TypeAndQueue, QueueInv, DebounceFires, FreshRun
<1> QED BY <1>2, <1>3, <1>4, <1>5 DEF TypeAndQueue

\* What every end of a run does to the types and the flags.
LEMMA FinishStep ==
    ASSUME TypeAndQueue, NotifyRunFinished, run # NoRun,
           failedFiles' \in SUBSET Files, known' = known, busy' \in [Runners -> Entry \cup {Idle}],
           retired' \in SUBSET Workers, lastFailed' \in SUBSET Entry
    PROVE  TypeAndQueue'
<1>1. /\ run' = NoRun \/ FreshRun(run')
      /\ running' = (run' # NoRun)
      /\ pending' = NoRequest /\ UNCHANGED <<debounce, timer, overlapped>>
      /\ dirty' \in SUBSET dirty /\ lastRunFiles' \in SUBSET Files
    BY FinishedOrFresh DEF TypeAndQueue
<1>2. TypeOK'
    <2>1. run' \in RunRecord \cup {NoRun}
        BY <1>1 DEF FreshRun
    <2>2. NoRequest \in Request /\ NoRequest.files = {}
        BY DEF NoRequest, Request
    <2>3. running' \in BOOLEAN
        BY <1>1
    <2>4. UNCHANGED Runners
        BY DEF Runners
    <2> QED BY <1>1, <2>1, <2>2, <2>3, <2>4 DEF TypeAndQueue, TypeOK
<1>3. QueueInv'
    BY <1>1 DEF TypeAndQueue, QueueInv
<1> QED BY <1>2, <1>3 DEF TypeAndQueue

\* The watcher's events, the keys and the timer keep types and flags.
LEMMA EventsTyped ==
    ASSUME TypeAndQueue,
           \/ \E f \in Files : Change(f) \/ Add(f) \/ Unlink(f)
           \/ PressRunAll \/ PressRunFailed \/ PressRerun \/ DebounceFires
    PROVE  TypeAndQueue'
<1>1. ASSUME NEW f \in Files, Change(f)
      PROVE  TypeAndQueue'
    <2>1. /\ debounce' \in SUBSET Files /\ timer' \in BOOLEAN /\ running' = running
          /\ pending' \in Request /\ (pending'.type # "files" => pending'.files = {})
          /\ timer' => ~running
          /\ pending' # NoRequest => running
        BY <1>1, ScheduleFilesStep DEF Change
    <2> QED BY <1>1, <2>1 DEF Change, TypeAndQueue, TypeOK, QueueInv, Runners
<1>2. ASSUME NEW f \in Files, Add(f)
      PROVE  TypeAndQueue'
    <2>1. /\ debounce' \in SUBSET Files /\ timer' \in BOOLEAN /\ running' = running
          /\ pending' \in Request /\ (pending'.type # "files" => pending'.files = {})
          /\ timer' => ~running
          /\ pending' # NoRequest => running
        BY <1>2, ScheduleFilesStep DEF Add
    <2>2. run' \in RunRecord \cup {NoRun} /\ (run' = NoRun <=> run = NoRun)
        <3>1. CASE Iterating
            <4>1. run \in RunRecord /\ [file |-> f, project |-> NoProject] \in Entry
                BY <3>1 DEF Iterating, TypeAndQueue, TypeOK, Entry
            <4>2. run' = [run EXCEPT !.todo = run.todo \cup {[file |-> f, project |-> NoProject]}]
                BY <1>2, <3>1 DEF Add
            <4>3. run' \in RunRecord
                BY <4>1, <4>2 DEF RunRecord
            <4> QED BY <4>3, <4>1, WatchAssumption
        <3>2. CASE ~Iterating
            BY <1>2, <3>2 DEF Add, TypeAndQueue, TypeOK
        <3> QED BY <3>1, <3>2
    <2> QED BY <1>2, <2>1, <2>2 DEF Add, TypeAndQueue, TypeOK, QueueInv, Runners
<1>3. ASSUME NEW f \in Files, Unlink(f)
      PROVE  TypeAndQueue'
    <2>1. run' \in RunRecord \cup {NoRun} /\ (run' = NoRun <=> run = NoRun)
        <3>1. CASE Iterating
            <4>1. run \in RunRecord
                BY <3>1 DEF Iterating, TypeAndQueue, TypeOK
            <4>2. run' = [run EXCEPT !.todo = {e \in run.todo : e.file # f}]
                BY <1>3, <3>1 DEF Unlink
            <4>3. run' \in RunRecord
                BY <4>1, <4>2 DEF RunRecord
            <4> QED BY <4>3, <4>1, WatchAssumption
        <3>2. CASE ~Iterating
            BY <1>3, <3>2 DEF Unlink, TypeAndQueue, TypeOK
        <3> QED BY <3>1, <3>2
    <2> QED BY <1>3, <2>1 DEF Unlink, TypeAndQueue, TypeOK, QueueInv, queue, Runners
<1>4. CASE PressRunAll
    <2>1. AllFiles \in Request /\ AllFiles # NoRequest /\ AllFiles.files = {}
        BY DEF AllFiles, NoRequest, Request
    <2> QED BY <1>4, <2>1, ScheduleNowStep DEF PressRunAll
<1>5. CASE PressRunFailed
    <2>1. OnlyFiles(failedFiles \cap known) \in Request /\ OnlyFiles(failedFiles \cap known) # NoRequest
          /\ OnlyFiles(failedFiles \cap known).type = "files"
        BY DEF OnlyFiles, NoRequest, Request, TypeAndQueue, TypeOK
    <2> QED BY <1>5, <2>1, ScheduleNowStep DEF PressRunFailed
<1>6. CASE PressRerun
    <2>1. OnlyFiles(lastRunFiles \cap known) \in Request /\ OnlyFiles(lastRunFiles \cap known) # NoRequest
          /\ OnlyFiles(lastRunFiles \cap known).type = "files"
        BY DEF OnlyFiles, NoRequest, Request, TypeAndQueue, TypeOK
    <2> QED BY <1>6, <2>1, ScheduleNowStep DEF PressRerun
<1>7. CASE DebounceFires
    BY <1>7, DebounceStep
<1> QED BY <1>1, <1>2, <1>3, <1>4, <1>5, <1>6, <1>7

\* What a wave hands out comes from the files it is about.
LEMMA DispatchStep ==
    ASSUME TypeAndQueue, Dispatch
    PROVE  \E entries \in SUBSET Entry : \E b \in Handed(Live, entries) :
              /\ busy' = b
              /\ run.kind = "files" => entries = run.todo
              /\ run \in RunRecord /\ run' \in RunRecord /\ run' # NoRun
              /\ run'.wave = run.wave + 1 /\ run'.todo = entries \ {b[r] : r \in Live}
              /\ run'.ran = run.ran \cup FilesOf(entries)
              /\ run'.kind = run.kind /\ run'.files = run.files /\ run'.sequential = run.sequential
              /\ run'.failed = run.failed /\ run'.passed = run.passed /\ run'.lost = run.lost
<1> DEFINE i == run.wave + 1
           skipped == IF run.kind = "all" /\ Projects # {} THEN {p \in Waves[i] : Blocked(p)} ELSE {}
           entries == IF run.kind = "all" THEN {e \in WaveEntries(i) : e.project \notin skipped} ELSE run.todo
<1>1. run \in RunRecord
    BY DEF Dispatch, TypeAndQueue, TypeOK
<1>2. PICK b \in Handed(Live, entries) :
          busy' = b /\ run' = [run EXCEPT !.wave = i, !.todo = entries \ {b[r] : r \in Live},
                                          !.failedProjects = @ \cup skipped, !.ran = @ \cup FilesOf(entries)]
    BY DEF Dispatch
<1>3. run.kind \in {"all", "files"} /\ run.wave \in Nat /\ run.todo \in SUBSET Entry /\ run.ran \in SUBSET Files
      /\ run.failedProjects \in SUBSET (Projects \cup {NoProject})
    BY <1>1 DEF RunRecord
<1>4. run.kind = "all" => i \in 1..WaveCount
    <2>1. WaveCount \in Nat
        BY WatchAssumption DEF WaveCount
    <2> QED BY <1>3, <2>1 DEF Dispatch
<1>5. entries \in SUBSET Entry
    <2>1. run.kind = "all" => WaveEntries(i) \in SUBSET Entry
        BY <1>4, EntriesType DEF TypeAndQueue, TypeOK
    <2> QED BY <1>3, <2>1
<1>6. skipped \in SUBSET Projects
    <2>1. run.kind = "all" /\ Projects # {} => Waves[i] \in SUBSET Projects
        BY <1>4, WatchAssumption DEF WaveCount
    <2> QED BY <2>1
<1>7. FilesOf(entries) \in SUBSET Files
    BY <1>5 DEF FilesOf, Entry
<1>8. run.kind = "files" => entries = run.todo
    OBVIOUS
<1> HIDE DEF entries, skipped
<1>9. run' \in RunRecord
    <2>1. ASSUME NEW w \in Nat, NEW t \in SUBSET Entry, NEW p \in SUBSET (Projects \cup {NoProject}),
                 NEW n \in SUBSET Files
          PROVE  [run EXCEPT !.wave = w, !.todo = t, !.failedProjects = p, !.ran = n] \in RunRecord
        BY <1>1 DEF RunRecord
    <2>2. run.wave + 1 \in Nat /\ entries \ {b[r] : r \in Live} \in SUBSET Entry
          /\ run.failedProjects \cup skipped \in SUBSET (Projects \cup {NoProject})
          /\ run.ran \cup FilesOf(entries) \in SUBSET Files
        BY <1>3, <1>5, <1>6, <1>7
    <2> QED BY <1>2, <2>1, <2>2
<1>10. run'.wave = run.wave + 1 /\ run'.todo = entries \ {b[r] : r \in Live}
       /\ run'.ran = run.ran \cup FilesOf(entries)
       /\ run'.kind = run.kind /\ run'.files = run.files /\ run'.sequential = run.sequential
       /\ run'.failed = run.failed /\ run'.passed = run.passed /\ run'.lost = run.lost
    BY <1>1, <1>2 DEF RunRecord
<1>11. run' # NoRun
    BY <1>9, WatchAssumption
<1> QED BY <1>1, <1>2, <1>5, <1>8, <1>9, <1>10, <1>11

\* A file's end: its runner goes on with another, or with none.
FileDoneTo(r, failed, next) ==
    /\ r \in Live /\ busy[r] # Idle /\ busy[r] \in Entry
    /\ next = Idle => \A x \in run.todo : ~MayRun(r, x)
    /\ busy' = [busy EXCEPT ![r] = next]
    /\ run \in RunRecord /\ run' \in RunRecord /\ run' # NoRun
    /\ run'.wave = run.wave /\ run'.todo = run.todo \ {next} /\ run'.ran = run.ran
    /\ run'.kind = run.kind /\ run'.files = run.files /\ run'.sequential = run.sequential
    /\ run'.failed = IF failed THEN run.failed \cup {busy[r].file} ELSE run.failed
    /\ run'.passed = IF failed THEN run.passed ELSE run.passed \cup {busy[r].file}
    /\ run'.lost = run.lost
    /\ next = Idle => run'.todo = run.todo
    /\ next \in Entry \cup {Idle}

LEMMA FileDoneStep ==
    ASSUME TypeAndQueue, NEW r \in Runners, NEW failed \in BOOLEAN, FileDone(r, failed)
    PROVE  \E next \in run.todo \cup {Idle} : FileDoneTo(r, failed, next)
<1> DEFINE e == busy[r]
           mine == {x \in run.todo : MayRun(r, x)}
<1>1. run \in RunRecord /\ r \in Live /\ e # Idle
    BY DEF FileDone, TypeAndQueue, TypeOK
<1>2. e \in Entry
    BY <1>1 DEF TypeAndQueue, TypeOK
<1>3. PICK next \in (IF mine = {} THEN {Idle} ELSE mine) :
          /\ busy' = [busy EXCEPT ![r] = next]
          /\ run' = [run EXCEPT !.todo = @ \ {next},
                                !.failed = IF failed THEN @ \cup {e.file} ELSE @,
                                !.passed = IF failed THEN @ ELSE @ \cup {e.file},
                                !.failedProjects = IF failed THEN @ \cup {e.project} ELSE @]
    BY DEF FileDone
<1>4. e.file \in Files /\ e.project \in Projects \cup {NoProject}
    BY <1>2 DEF Entry
<1>5. run.todo \in SUBSET Entry /\ run.failed \in SUBSET Files /\ run.passed \in SUBSET Files
      /\ run.failedProjects \in SUBSET (Projects \cup {NoProject})
    BY <1>1 DEF RunRecord
<1> HIDE DEF e
<1>6. run' \in RunRecord
    <2>1. ASSUME NEW t \in SUBSET Entry, NEW p \in SUBSET (Projects \cup {NoProject}),
                 NEW f \in SUBSET Files, NEW s \in SUBSET Files
          PROVE  [run EXCEPT !.todo = t, !.failed = f, !.passed = s, !.failedProjects = p] \in RunRecord
        BY <1>1 DEF RunRecord
    <2>2. run.todo \ {next} \in SUBSET Entry
          /\ (IF failed THEN run.failed \cup {e.file} ELSE run.failed) \in SUBSET Files
          /\ (IF failed THEN run.passed ELSE run.passed \cup {e.file}) \in SUBSET Files
          /\ (IF failed THEN run.failedProjects \cup {e.project} ELSE run.failedProjects)
                \in SUBSET (Projects \cup {NoProject})
        BY <1>4, <1>5
    <2> QED BY <1>3, <2>1, <2>2
<1>7. run'.wave = run.wave /\ run'.todo = run.todo \ {next} /\ run'.ran = run.ran
      /\ run'.kind = run.kind /\ run'.files = run.files /\ run'.sequential = run.sequential
      /\ run'.failed = (IF failed THEN run.failed \cup {e.file} ELSE run.failed)
      /\ run'.passed = (IF failed THEN run.passed ELSE run.passed \cup {e.file})
      /\ run'.lost = run.lost
    BY <1>1, <1>3 DEF RunRecord
<1>8. run' # NoRun
    BY <1>6, WatchAssumption
<1>9. Idle \notin Entry
    BY WatchAssumption DEF Idle, Entry
<1>10. next \in run.todo \cup {Idle} /\ (next = Idle => mine = {})
    BY <1>5, <1>9
<1>11. next = Idle => run.todo \ {next} = run.todo
    BY <1>5, <1>9
<1> QED BY <1>1, <1>2, <1>3, <1>5, <1>6, <1>7, <1>8, <1>10, <1>11 DEF e, FileDoneTo

\* A worker's end takes its file with it, or the run.
LEMMA RetireStep ==
    ASSUME TypeAndQueue, NEW w \in Workers, RetireWorker(w)
    PROVE  /\ run \in RunRecord /\ ~run.sequential /\ run.wave > 0 /\ w \in Live
           /\ retired' = retired \cup {w} /\ UNCHANGED <<known, failedFiles>>
           /\ \/ /\ busy' = [r \in Runners |-> Idle] /\ NotifyRunFinished /\ lastFailed' = {}
                 /\ Live = {w}
              \/ /\ busy' = [busy EXCEPT ![w] = Idle] /\ run' \in RunRecord /\ run' # NoRun
                 /\ run'.wave = run.wave /\ run'.todo = run.todo /\ run'.ran = run.ran
                 /\ run'.kind = run.kind /\ run'.files = run.files /\ run'.sequential = run.sequential
                 /\ run'.failed = run.failed /\ run'.passed = run.passed
                 /\ run'.lost = run.lost \cup ({busy[w].file} \ {NoRun})
                 /\ UNCHANGED <<lastRunFiles, queue, history>>
<1>1. run \in RunRecord /\ ~run.sequential /\ run.wave > 0 /\ w \in Live
      /\ retired' = retired \cup {w} /\ UNCHANGED <<known, failedFiles>>
    BY DEF RetireWorker, TypeAndQueue, TypeOK
<1>2. CASE Live = {w}
    BY <1>1, <1>2 DEF RetireWorker
<1>3. CASE Live # {w}
    <2>1. busy' = [busy EXCEPT ![w] = Idle] /\ UNCHANGED <<lastRunFiles, queue, history>>
          /\ run' = [run EXCEPT !.lost = @ \cup ({busy[w].file} \ {NoRun})]
        BY <1>3 DEF RetireWorker
    <2>2. {busy[w].file} \ {NoRun} \in SUBSET Files
        <3>1. busy[w] \in Entry \cup {Idle}
            BY DEF TypeAndQueue, TypeOK, Runners
        <3> QED BY <3>1 DEF Entry, Idle
    <2>3. run' \in RunRecord
        BY <1>1, <2>1, <2>2 DEF RunRecord
    <2>4. run'.wave = run.wave /\ run'.todo = run.todo /\ run'.ran = run.ran
          /\ run'.kind = run.kind /\ run'.files = run.files /\ run'.sequential = run.sequential
          /\ run'.failed = run.failed /\ run'.passed = run.passed
          /\ run'.lost = run.lost \cup ({busy[w].file} \ {NoRun})
        BY <1>1, <2>1 DEF RunRecord
    <2>5. run' # NoRun
        BY <2>3, WatchAssumption
    <2> QED BY <1>1, <2>1, <2>3, <2>4, <2>5
<1> QED BY <1>2, <1>3

\* What nobody may take fails.
LEMMA FailStrandedStep ==
    ASSUME TypeAndQueue, FailStranded
    PROVE  /\ run \in RunRecord /\ run' \in RunRecord /\ run' # NoRun
           /\ run'.wave = run.wave /\ run'.todo = {} /\ run'.ran = run.ran
           /\ run'.kind = run.kind /\ run'.files = run.files /\ run'.sequential = run.sequential
           /\ run'.failed = run.failed \cup FilesOf(run.todo) /\ run'.passed = run.passed
           /\ run'.lost = run.lost
<1>1. run \in RunRecord
    BY DEF FailStranded, TypeAndQueue, TypeOK
<1> DEFINE projects == {e.project : e \in run.todo}
<1>2. run' = [run EXCEPT !.todo = {}, !.failed = run.failed \cup FilesOf(run.todo),
                         !.failedProjects = run.failedProjects \cup projects]
    BY DEF FailStranded
<1>3. projects \in SUBSET (Projects \cup {NoProject}) /\ FilesOf(run.todo) \in SUBSET Files
    BY <1>1 DEF RunRecord, Entry, FilesOf
<1> HIDE DEF projects
<1>4. run' \in RunRecord
    BY <1>1, <1>2, <1>3 DEF RunRecord
<1>5. run'.wave = run.wave /\ run'.todo = {} /\ run'.ran = run.ran
      /\ run'.kind = run.kind /\ run'.files = run.files /\ run'.sequential = run.sequential
      /\ run'.failed = run.failed \cup FilesOf(run.todo) /\ run'.passed = run.passed
      /\ run'.lost = run.lost
    BY <1>1, <1>2 DEF RunRecord
<1>6. run' # NoRun
    BY <1>4, WatchAssumption
<1> QED BY <1>1, <1>4, <1>5, <1>6

\* The list after a run: as it was, or what failed of what the run was about.
LEMMA ReconciledType == TypeAndQueue /\ run # NoRun => Reconciled \in SUBSET Files
<1> SUFFICES ASSUME TypeAndQueue, run # NoRun PROVE Reconciled \in SUBSET Files
    OBVIOUS
<1>1. run.files \in SUBSET Files /\ run.failed \in SUBSET Files /\ run.ran \in SUBSET Files
      /\ known \in SUBSET Files /\ failedFiles \in SUBSET Files
    BY DEF TypeAndQueue, TypeOK, RunRecord
<1> QED BY <1>1 DEF Reconciled

\* The steps of a run keep types and flags.
LEMMA RunTyped ==
    ASSUME TypeAndQueue, Running \/ RunThrows \/ \E w \in Workers : RetireWorker(w)
    PROVE  TypeAndQueue'
<1>1. CASE Dispatch
    <2>1. PICK entries \in SUBSET Entry : \E b \in Handed(Live, entries) :
              busy' = b /\ run' \in RunRecord /\ run' # NoRun
        BY <1>1, DispatchStep
    <2>2. busy' \in [Runners -> Entry \cup {Idle}]
        BY <2>1 DEF Handed
    <2>3. lastFailed' \in SUBSET Entry /\ UNCHANGED <<known, failedFiles, lastRunFiles, queue, retired, dirty, overlapped>>
        BY <1>1 DEF Dispatch, TypeAndQueue, TypeOK
    <2>4. run # NoRun /\ run' # NoRun
        BY <1>1, <2>1 DEF Dispatch
    <2> QED BY <2>1, <2>2, <2>3, <2>4 DEF TypeAndQueue, TypeOK, QueueInv, queue, Runners
<1>2. CASE FailStranded
    <2>1. run \in RunRecord /\ run' \in RunRecord /\ run' # NoRun /\ run # NoRun
        BY <1>2, FailStrandedStep DEF FailStranded
    <2>2. lastFailed' \in SUBSET Entry
        BY <1>2, <2>1 DEF FailStranded, TypeAndQueue, TypeOK, RunRecord
    <2> QED BY <1>2, <2>1, <2>2 DEF FailStranded, TypeAndQueue, TypeOK, QueueInv, queue, Runners
<1>3. CASE FinishRun
    <2>1. NotifyRunFinished /\ run # NoRun /\ failedFiles' = Reconciled /\ UNCHANGED <<known, busy, retired, lastFailed>>
        BY <1>3 DEF FinishRun
    <2>2. failedFiles' \in SUBSET Files
        BY <2>1, ReconciledType
    <2> QED BY <2>1, <2>2, FinishStep DEF TypeAndQueue, TypeOK
<1>4. CASE RunThrows
    <2>1. NotifyRunFinished /\ run # NoRun /\ UNCHANGED <<known, failedFiles, busy, retired, lastFailed>>
        BY <1>4 DEF RunThrows
    <2> QED BY <2>1, FinishStep DEF TypeAndQueue, TypeOK
<1>5. ASSUME NEW r \in Runners, NEW failed \in BOOLEAN, FileDone(r, failed)
      PROVE  TypeAndQueue'
    <2>0. PICK next \in run.todo \cup {Idle} : FileDoneTo(r, failed, next)
        BY <1>5, FileDoneStep
    <2>1. /\ busy' = [busy EXCEPT ![r] = next] /\ next \in Entry \cup {Idle}
          /\ busy[r] \in Entry /\ run' \in RunRecord /\ run' # NoRun /\ run \in RunRecord
        BY <2>0 DEF FileDoneTo
    <2>2. run # NoRun /\ lastFailed' \in SUBSET Entry /\ failedFiles' \in SUBSET Files
          /\ UNCHANGED <<known, lastRunFiles, queue, retired, dirty, overlapped>>
        BY <1>5, <2>1 DEF FileDone, TypeAndQueue, TypeOK, Entry
    <2>3. busy' \in [Runners -> Entry \cup {Idle}]
        BY <2>1 DEF TypeAndQueue, TypeOK
    <2> QED BY <2>1, <2>2, <2>3 DEF TypeAndQueue, TypeOK, QueueInv, queue, Runners
<1>6. ASSUME NEW w \in Workers, RetireWorker(w)
      PROVE  TypeAndQueue'
    <2>1. retired' \in SUBSET Workers /\ UNCHANGED <<known, failedFiles>> /\ run # NoRun
        BY <1>6, RetireStep, WatchAssumption DEF TypeAndQueue, TypeOK
    <2>2. CASE busy' = [r \in Runners |-> Idle] /\ NotifyRunFinished /\ lastFailed' = {}
        <3>1. busy' \in [Runners -> Entry \cup {Idle}]
            BY <2>2
        <3> QED BY <2>1, <2>2, <3>1, FinishStep DEF TypeAndQueue, TypeOK
    <2>3. CASE busy' = [busy EXCEPT ![w] = Idle] /\ run' \in RunRecord /\ run' # NoRun
               /\ UNCHANGED <<lastRunFiles, queue, history>>
        BY <2>1, <2>3 DEF TypeAndQueue, TypeOK, QueueInv, queue, history, Runners
    <2> QED BY <1>6, <2>2, <2>3, RetireStep
<1> QED BY <1>1, <1>2, <1>3, <1>4, <1>5, <1>6 DEF Running

\* Every step does.
LEMMA TypedStep == TypeAndQueue /\ [Next]_vars => TypeAndQueue'
<1> SUFFICES ASSUME TypeAndQueue, [Next]_vars PROVE TypeAndQueue'
    OBVIOUS
<1>1. CASE UNCHANGED vars
    BY <1>1 DEF vars, queue, history, TypeAndQueue, TypeOK, QueueInv, Runners
<1>2. CASE Next
    BY <1>2, EventsTyped, RunTyped DEF Next
<1> QED BY <1>1, <1>2

\* The queue's flags always tell the truth: two runs never overlap on the device, and
\* the debounce timer, which does not look at isRunning, is never armed during one.
THEOREM WatchOneRunAtATime == Spec => [](TypeAndQueue /\ OneRunAtATime)
<1>1. TypeAndQueue => OneRunAtATime
    BY DEF TypeAndQueue, QueueInv, OneRunAtATime
<1> QED BY <1>1, WatchInit, TypedStep, PTL DEF Spec

-----------------------------------------------------------------------------
(* No saved change is lost.                                                *)

\* A run of all files gains the files that are added, and nothing else.
LEMMA RunAllGrows == known' \in SUBSET Files => RunAllFiles' \subseteq RunAllFiles \cup (known' \ known)
<1>1. CASE Projects = {}
    BY <1>1 DEF RunAllFiles, WaveEntries, WaveCount, FilesOf
<1>2. CASE Projects # {}
    BY <1>2 DEF RunAllFiles, WaveEntries, WaveCount, FilesOf
<1> QED BY <1>1, <1>2

\* The request that was queued when a run ends takes every change along.
LEMMA FinishCovers ==
    ASSUME TypeAndQueue, ChangeCovered, NotifyRunFinished, run # NoRun, known' = known
    PROVE  ChangeCovered'
<1>1. ~timer
    BY DEF TypeAndQueue, QueueInv
<1>2. RunAllFiles' \subseteq RunAllFiles
    BY RunAllGrows DEF TypeAndQueue, TypeOK
<1>3. \A f \in dirty \cap RunAllFiles : Covers(pending, f)
    BY <1>1 DEF ChangeCovered
<1>4. CASE pending = NoRequest
    <2>1. \A f : ~Covers(pending, f)
        BY <1>4 DEF Covers, NoRequest, AllFiles
    <2>2. dirty' = dirty
        BY <1>4 DEF NotifyRunFinished
    <2> QED BY <1>2, <1>3, <2>1, <2>2 DEF ChangeCovered
<1>5. CASE pending # NoRequest
    <2>1. dirty' = {f \in dirty : ~Covers(pending, f)}
        BY <1>5 DEF NotifyRunFinished, OnRun
    <2> QED BY <1>2, <1>3, <2>1 DEF ChangeCovered
<1> QED BY <1>4, <1>5

\* A scheduled file is covered, and so is what was.
LEMMA ScheduleCovers ==
    ASSUME TypeAndQueue, ChangeCovered, NEW f \in Files, ScheduleFiles({f}), dirty' = dirty \cup {f},
           known' \in SUBSET Files, known' \subseteq known \cup {f}
    PROVE  ChangeCovered'
<1>1. RunAllFiles' \subseteq RunAllFiles \cup {f}
    BY RunAllGrows
<1> SUFFICES ASSUME NEW g \in dirty' \cap RunAllFiles'
             PROVE  (timer' /\ g \in debounce') \/ Covers(pending, g)'
    BY DEF ChangeCovered
<1>2. g = f \/ g \in dirty \cap RunAllFiles
    BY <1>1
<1>3. CASE running
    <2>1. ~timer
        BY <1>3 DEF TypeAndQueue, QueueInv
    <2>2. CASE pending = AllFiles
        BY <1>3, <2>2 DEF ScheduleFiles, Covers
    <2>3. CASE pending # AllFiles
        <3>1. pending' = OnlyFiles(pending.files \cup {f})
            BY <1>3, <2>3 DEF ScheduleFiles
        <3>2. pending' # AllFiles /\ pending'.files = pending.files \cup {f}
            BY <3>1 DEF OnlyFiles, AllFiles
        <3>3. g = f \/ g \in pending.files
            BY <1>2, <2>1, <2>3 DEF ChangeCovered, Covers
        <3> QED BY <3>2, <3>3 DEF Covers
    <2> QED BY <2>2, <2>3
<1>4. CASE ~running
    <2>1. ~Covers(pending, g)
        BY <1>4 DEF TypeAndQueue, QueueInv, Covers, NoRequest, AllFiles
    <2> QED BY <1>2, <1>4, <2>1 DEF ScheduleFiles, ChangeCovered
<1> QED BY <1>3, <1>4

\* A key's request covers the changes that are still owed a run.
LEMMA KeyCovers ==
    ASSUME TypeAndQueue, NEW request, ScheduleNow(request)
    PROVE  ChangeCovered'
<1>1. CASE running
    BY <1>1 DEF ScheduleNow, ChangeCovered, Covers, RunAllFiles, WaveEntries, WaveCount
<1>2. CASE ~running
    BY <1>2 DEF ScheduleNow, ChangeCovered
<1> QED BY <1>1, <1>2

\* A step that leaves the queue and the files alone keeps changes covered.
LEMMA SameQueueCovers ==
    ASSUME ChangeCovered, known' = known, dirty' = dirty, UNCHANGED queue
    PROVE  ChangeCovered'
    BY DEF ChangeCovered, Covers, RunAllFiles, WaveEntries, WaveCount, queue

LEMMA CoveredStep == TypeAndQueue /\ ChangeCovered /\ [Next]_vars => ChangeCovered'
<1> SUFFICES ASSUME TypeAndQueue, ChangeCovered, [Next]_vars PROVE ChangeCovered'
    OBVIOUS
<1>1. CASE UNCHANGED vars
    BY <1>1, SameQueueCovers DEF vars, history
<1>2. ASSUME NEW f \in Files, Change(f) \/ Add(f)
      PROVE  ChangeCovered'
    <2>1. ScheduleFiles({f}) /\ dirty' = dirty \cup {f} /\ known' \in SUBSET Files /\ known' \subseteq known \cup {f}
        BY <1>2 DEF Change, Add, TypeAndQueue, TypeOK
    <2> QED BY <2>1, ScheduleCovers
<1>3. ASSUME NEW f \in Files, Unlink(f)
      PROVE  ChangeCovered'
    <2>1. known' = known \ {f} /\ dirty' = dirty \ {f} /\ UNCHANGED queue
        BY <1>3 DEF Unlink
    <2>2. RunAllFiles' \subseteq RunAllFiles
        BY <2>1, RunAllGrows DEF TypeAndQueue, TypeOK
    <2>3. \A g \in RunAllFiles' : Covers(pending, g) => Covers(pending, g)'
        BY <2>1 DEF queue, Covers
    <2> QED BY <2>1, <2>2, <2>3 DEF ChangeCovered, queue
<1>4. CASE PressRunAll \/ PressRunFailed \/ PressRerun
    BY <1>4, KeyCovers DEF PressRunAll, PressRunFailed, PressRerun
<1>5. CASE DebounceFires
    <2>1. pending = NoRequest /\ known' = known /\ dirty' = {f \in dirty : ~Covers(OnlyFiles(debounce), f)}
        BY <1>5 DEF DebounceFires, TypeAndQueue, QueueInv, OnRun
    <2>2. RunAllFiles' \subseteq RunAllFiles
        BY <2>1, RunAllGrows DEF TypeAndQueue, TypeOK
    <2>3. \A f : ~Covers(pending, f) /\ (Covers(OnlyFiles(debounce), f) <=> f \in debounce)
        BY <2>1 DEF Covers, NoRequest, AllFiles, OnlyFiles
    <2> QED BY <2>1, <2>2, <2>3 DEF ChangeCovered
<1>6. CASE Dispatch \/ FailStranded
    BY <1>6, SameQueueCovers DEF Dispatch, FailStranded
<1>7. CASE FinishRun \/ RunThrows
    BY <1>7, FinishCovers DEF FinishRun, RunThrows
<1>8. ASSUME NEW r \in Runners, NEW failed, FileDone(r, failed)
      PROVE  ChangeCovered'
    BY <1>8, SameQueueCovers DEF FileDone
<1>9. ASSUME NEW w \in Workers, RetireWorker(w)
      PROVE  ChangeCovered'
    BY <1>9, RetireStep, FinishCovers, SameQueueCovers, WatchAssumption DEF history
<1> QED BY <1>1, <1>2, <1>3, <1>4, <1>5, <1>6, <1>7, <1>8, <1>9 DEF Next, Running

\* Saved changes run, one run at a time: no change to a file that a full run includes
\* is lost, except to a key pressed after it that asks for other files.
THEOREM WatchChangesScheduled == Spec => []ChangesScheduled
<1>1. Init => ChangeCovered
    BY DEF Init, ChangeCovered
<1>2. OneRunAtATime /\ ChangeCovered => ChangesScheduled
    BY DEF ChangesScheduled
<1>3. TypeAndQueue => OneRunAtATime
    BY DEF TypeAndQueue, QueueInv, OneRunAtATime
<1> QED BY <1>1, <1>2, <1>3, WatchInit, TypedStep, CoveredStep, PTL DEF Spec

-----------------------------------------------------------------------------
(* No failure is forgotten.                                                *)

\* The entries of the run at hand that are waiting or with a runner.
Held == {e \in Entry : e \in run.todo \/ \E r \in Runners : busy[r] = e}

\* What the run knows of its files, and what a sequential run holds.
RunAccounts ==
    /\ run.wave = 0 => run.ran = {} /\ run.failed = {} /\ run.passed = {} /\ run.lost = {}
    /\ run.sequential \/ Workers # {}
    /\ run.kind = "files" => \/ run.wave = 0 /\ FilesOf(run.todo) = run.files
                             \/ run.wave = 1 /\ run.ran = run.files
    /\ run.wave > 0 /\ ~run.sequential =>
          /\ FilesOf(Held) \subseteq run.ran /\ run.failed \subseteq run.ran
          /\ run.ran \subseteq run.failed \cup run.passed \cup run.lost \cup FilesOf(Held)
    /\ run.sequential /\ run.wave > 0 /\ busy[Main] = Idle => run.todo = {}
    /\ run.sequential /\ Workers # {} =>
          /\ run.kind = "files"
          /\ run.wave = 0 => \E e \in Entry : run.todo = {e}
          /\ run.wave > 0 => run.todo = {}

RunInv ==
    /\ \A r \in Runners : busy[r] # Idle => run # NoRun /\ run.wave > 0 /\ r \in Live
    /\ run # NoRun => RunAccounts

\* Failures are on the list as soon as they are there to stay.
StickyInv ==
    /\ FilesOf(lastFailed) \subseteq known
    /\ (run = NoRun \/ run.wave = 0 \/ run.sequential) => FilesOf(lastFailed) \subseteq failedFiles
    /\ run # NoRun /\ run.wave > 0 /\ ~run.sequential => FilesOf(lastFailed) \subseteq run.failed
    /\ run # NoRun /\ run.wave > 0 /\ run.sequential /\ Workers # {} => lastFailed = {} \/ busy[Main] = Idle

\* With nobody busy, no run or a fresh one has nothing to account for.
LEMMA RestedAccounts ==
    ASSUME \A r \in Runners : busy'[r] = Idle, run' = NoRun \/ FreshRun(run')
    PROVE  RunInv'
<1>1. \A r \in Runners' : busy'[r] = Idle
    BY DEF Runners
<1>2. ASSUME FreshRun(run') PROVE RunAccounts'
    BY <1>2 DEF RunAccounts, FreshRun, RunRecord
<1> QED BY <1>1, <1>2 DEF RunInv

\* When a run is over or has not begun, nobody is busy.
LEMMA AllIdle ==
    ASSUME RunInv, run = NoRun \/ run.wave = 0 \/ NobodyBusy
    PROVE  \A r \in Runners : busy[r] = Idle
    BY DEF RunInv, NobodyBusy

\* A run that nothing happens to keeps its accounts.
LEMMA SameAccounts == RunInv /\ run' = run /\ busy' = busy /\ retired' = retired => RunInv'
    BY DEF RunInv, RunAccounts, Held, Live, Runners

\* Deleted and added files reach only a sequential run of all files.
LEMMA EventsAccount ==
    ASSUME TypeAndQueue, RunInv,
           \/ \E f \in Files : Change(f) \/ Add(f) \/ Unlink(f)
           \/ PressRunAll \/ PressRunFailed \/ PressRerun \/ DebounceFires
    PROVE  RunInv'
<1>1. ASSUME NEW f \in Files, Change(f)
      PROVE  RunInv'
    BY <1>1, SameAccounts DEF Change
<1>2. ASSUME NEW todo \in SUBSET Entry, Iterating, run' = [run EXCEPT !.todo = todo],
             busy' = busy, retired' = retired
      PROVE  RunInv'
    <2>1. run \in RunRecord /\ run # NoRun
        BY <1>2 DEF Iterating, TypeAndQueue, TypeOK
    <2>2. run' \in RunRecord /\ run'.wave = run.wave /\ run'.ran = run.ran /\ run'.failed = run.failed
          /\ run'.passed = run.passed /\ run'.lost = run.lost /\ run'.kind = run.kind
          /\ run'.sequential = run.sequential
        BY <2>1, <1>2 DEF RunRecord
    <2>3. run' # NoRun
        BY <2>2, WatchAssumption
    <2>4. run.kind = "all" /\ run.sequential /\ Workers = {} /\ busy[Main] # Idle /\ RunAccounts
        BY <1>2, <2>1 DEF Iterating, RunInv, RunAccounts
    <2>5. RunAccounts'
        BY <2>2, <2>4, <1>2 DEF RunAccounts
    <2>6. \A r \in Runners' : busy'[r] # Idle => run' # NoRun /\ run'.wave > 0 /\ r \in Live'
        BY <1>2, <2>2, <2>3 DEF RunInv, Live, Runners
    <2> QED BY <2>5, <2>6 DEF RunInv
<1>3. ASSUME NEW f \in Files, Add(f)
      PROVE  RunInv'
    <2>1. CASE Iterating
        <3>1. run \in RunRecord /\ [file |-> f, project |-> NoProject] \in Entry
            BY <2>1 DEF Iterating, TypeAndQueue, TypeOK, Entry
        <3>2. run.todo \cup {[file |-> f, project |-> NoProject]} \in SUBSET Entry
            BY <3>1 DEF RunRecord
        <3> QED BY <1>2, <1>3, <2>1, <3>2 DEF Add
    <2>2. CASE ~Iterating
        BY <1>3, <2>2, SameAccounts DEF Add
    <2> QED BY <2>1, <2>2
<1>4. ASSUME NEW f \in Files, Unlink(f)
      PROVE  RunInv'
    <2>1. CASE Iterating
        <3>1. {e \in run.todo : e.file # f} \in SUBSET Entry
            BY <2>1 DEF Iterating, TypeAndQueue, TypeOK, RunRecord
        <3> QED BY <1>2, <1>4, <2>1, <3>1 DEF Unlink
    <2>2. CASE ~Iterating
        BY <1>4, <2>2, SameAccounts DEF Unlink
    <2> QED BY <2>1, <2>2
<1>5. ASSUME NEW request \in Request, ScheduleNow(request), busy' = busy, retired' = retired
      PROVE  RunInv'
    <2>1. CASE running
        BY <1>5, <2>1, SameAccounts DEF ScheduleNow
    <2>2. CASE ~running
        <3>1. run = NoRun
            BY <2>2 DEF TypeAndQueue, QueueInv
        <3>2. FreshRun(run')
            BY <1>5, <2>2, StartRunFresh DEF ScheduleNow, TypeAndQueue, TypeOK
        <3> QED BY <1>5, <3>1, <3>2, AllIdle, RestedAccounts
    <2> QED BY <2>1, <2>2
<1>6. AllFiles \in Request /\ OnlyFiles(failedFiles \cap known) \in Request /\ OnlyFiles(lastRunFiles \cap known) \in Request
    BY DEF AllFiles, OnlyFiles, Request, TypeAndQueue, TypeOK
<1>7. CASE PressRunAll \/ PressRunFailed \/ PressRerun
    BY <1>5, <1>6, <1>7 DEF PressRunAll, PressRunFailed, PressRerun
<1>8. CASE DebounceFires
    <2>1. run = NoRun /\ FreshRun(run') /\ busy' = busy
        BY <1>8, DebounceStep DEF DebounceFires
    <2> QED BY <2>1, AllIdle, RestedAccounts
<1> QED BY <1>1, <1>3, <1>4, <1>7, <1>8

\* A dispatched wave is waiting or with the runners.
LEMMA DispatchAccounts ==
    ASSUME TypeAndQueue, RunInv, Dispatch
    PROVE  RunInv'
<1>1. PICK entries \in SUBSET Entry : \E b \in Handed(Live, entries) :
              /\ busy' = b
              /\ run.kind = "files" => entries = run.todo
              /\ run \in RunRecord /\ run' \in RunRecord /\ run' # NoRun
              /\ run'.wave = run.wave + 1 /\ run'.todo = entries \ {b[r] : r \in Live}
              /\ run'.ran = run.ran \cup FilesOf(entries)
              /\ run'.kind = run.kind /\ run'.files = run.files /\ run'.sequential = run.sequential
              /\ run'.failed = run.failed /\ run'.passed = run.passed /\ run'.lost = run.lost
    BY DispatchStep
<1>2. PICK b \in Handed(Live, entries) :
              /\ busy' = b
              /\ run.kind = "files" => entries = run.todo
              /\ run \in RunRecord /\ run' \in RunRecord /\ run' # NoRun
              /\ run'.wave = run.wave + 1 /\ run'.todo = entries \ {b[r] : r \in Live}
              /\ run'.ran = run.ran \cup FilesOf(entries)
              /\ run'.kind = run.kind /\ run'.files = run.files /\ run'.sequential = run.sequential
              /\ run'.failed = run.failed /\ run'.passed = run.passed /\ run'.lost = run.lost
    BY <1>1
<1>3. run # NoRun /\ RunAccounts /\ retired' = retired /\ run.wave \in Nat
      /\ (run.wave = 0 \/ (NobodyBusy /\ run.todo = {})) /\ (run.kind = "files" => run.wave = 0)
    <2>1. run.wave \in Nat /\ run.kind \in {"all", "files"}
        BY <1>2 DEF RunRecord
    <2>2. run # NoRun /\ retired' = retired /\ (run.wave = 0 \/ (NobodyBusy /\ run.todo = {}))
          /\ (run.kind = "files" => run.wave < 1)
        BY DEF Dispatch
    <2> QED BY <2>1, <2>2 DEF RunInv
<1>4. Live' = Live /\ Idle \notin Entry /\ Live \subseteq Runners
    BY <1>2, <1>3, WatchAssumption DEF Live, Idle, Entry, Runners
<1>5. \A r \in Runners : busy[r] = Idle
    BY <1>3, AllIdle
<1>6. \A r \in Runners' : busy'[r] # Idle => run' # NoRun /\ run'.wave > 0 /\ r \in Live'
    BY <1>2, <1>3, <1>4 DEF Handed, Runners
<1>7. run.kind = "files" => run'.wave = 1 /\ run'.ran = run'.files
    BY <1>2, <1>3 DEF RunAccounts
<1>8. Held' = entries
    <2>1. \A e \in Entry : (\E r \in Runners' : busy'[r] = e) <=> \E r \in Live : b[r] = e
        BY <1>2, <1>4 DEF Handed, Runners
    <2>2. \A r \in Live : b[r] \in entries \cup {Idle}
        BY <1>2, <1>4 DEF Handed
    <2>3. \A e \in Entry : e \in run'.todo <=> e \in entries /\ ~\E r \in Live : b[r] = e
        BY <1>2
    <2>4. \A e \in Held' : e \in entries
        BY <2>1, <2>2, <2>3, <1>4 DEF Held
    <2>5. \A e \in entries : e \in Held'
        BY <2>1, <2>3 DEF Held
    <2> QED BY <2>4, <2>5
<1>9. ~run.sequential => /\ FilesOf(Held') \subseteq run'.ran /\ run'.failed \subseteq run'.ran
                         /\ run'.ran \subseteq run'.failed \cup run'.passed \cup run'.lost \cup FilesOf(Held')
    <2>1. run.wave > 0 => FilesOf(Held) = {}
        BY <1>3, <1>4, <1>5 DEF Held, FilesOf
    <2> QED BY <1>2, <1>3, <1>8, <2>1 DEF RunAccounts
<1>10. run.sequential => \/ busy'[Main] = Idle /\ entries = {}
                         \/ busy'[Main] \in entries /\ run'.todo = entries \ {busy'[Main]}
    <2>1. ASSUME run.sequential PROVE Live = {Main}
        BY <2>1 DEF Live
    <2>2. \A e : MayRun(Main, e)
        BY DEF MayRun
    <2> QED BY <1>2, <1>4, <2>1, <2>2 DEF Handed
<1>11. RunAccounts'
    <2>1. run'.wave > 0
        BY <1>2, <1>3
    <2>2. run'.sequential /\ busy'[Main] = Idle => run'.todo = {}
        BY <1>2, <1>4, <1>10
    <2>3. run'.sequential /\ Workers # {} => run'.kind = "files" /\ run'.todo = {}
        <3>1. ASSUME run.sequential, Workers # {}
              PROVE  run.kind = "files" /\ \E e \in Entry : entries = {e}
            BY <1>2, <1>3, <3>1 DEF RunAccounts
        <3> QED BY <1>2, <1>10, <3>1
    <2> QED BY <1>2, <1>3, <1>7, <1>9, <2>1, <2>2, <2>3 DEF RunAccounts
<1> QED BY <1>6, <1>11 DEF RunInv

\* A finished file has passed or failed, and its runner holds another, or none.
LEMMA FileDoneAccounts ==
    ASSUME TypeAndQueue, RunInv, NEW r \in Runners, NEW failed \in BOOLEAN, FileDone(r, failed)
    PROVE  RunInv'
<1>1. PICK next \in run.todo \cup {Idle} : FileDoneTo(r, failed, next)
    BY FileDoneStep
<1> DEFINE e == busy[r]
<1>2. /\ r \in Live /\ e # Idle /\ e \in Entry /\ busy' = [busy EXCEPT ![r] = next]
      /\ next = Idle => \A x \in run.todo : ~MayRun(r, x)
      /\ run \in RunRecord /\ run' # NoRun
      /\ run'.wave = run.wave /\ run'.todo = run.todo \ {next} /\ run'.ran = run.ran
      /\ run'.kind = run.kind /\ run'.files = run.files /\ run'.sequential = run.sequential
      /\ run'.failed = (IF failed THEN run.failed \cup {e.file} ELSE run.failed)
      /\ run'.passed = (IF failed THEN run.passed ELSE run.passed \cup {e.file})
      /\ run'.lost = run.lost /\ (next = Idle => run'.todo = run.todo)
    BY <1>1 DEF FileDoneTo
<1>3. busy \in [Runners -> Entry \cup {Idle}] /\ retired' = retired /\ run # NoRun /\ run.wave > 0 /\ RunAccounts
    BY <1>2 DEF TypeAndQueue, TypeOK, FileDone, RunInv
<1>4. Live' = Live /\ Runners' = Runners /\ run.todo \in SUBSET Entry /\ Idle \notin Entry
    BY <1>2, <1>3, WatchAssumption DEF Live, Runners, RunRecord, Idle, Entry
<1> HIDE DEF e
<1>5. \A s \in Runners : busy'[s] = IF s = r THEN next ELSE busy[s]
    BY <1>2, <1>3
<1>6. \A s \in Runners' : busy'[s] # Idle => run' # NoRun /\ run'.wave > 0 /\ s \in Live'
    BY <1>2, <1>3, <1>4, <1>5 DEF RunInv
<1>7. Held' \subseteq Held /\ Held \subseteq Held' \cup {e} /\ e \in Held
    <2>1. \A x \in Held' : x \in Held
        BY <1>2, <1>4, <1>5 DEF Held
    <2>2. \A x \in Held : x \in Held' \cup {e}
        BY <1>2, <1>4, <1>5 DEF Held, e
    <2> QED BY <1>2, <2>1, <2>2 DEF Held, e
<1>8. ~run.sequential => /\ FilesOf(Held') \subseteq run'.ran /\ run'.failed \subseteq run'.ran
                         /\ run'.ran \subseteq run'.failed \cup run'.passed \cup run'.lost \cup FilesOf(Held')
    <2>1. FilesOf(Held') \subseteq FilesOf(Held) /\ FilesOf(Held) \subseteq FilesOf(Held') \cup {e.file}
          /\ e.file \in FilesOf(Held)
        BY <1>7 DEF FilesOf
    <2>2. run'.failed \subseteq run.failed \cup {e.file} /\ run.failed \subseteq run'.failed
          /\ run.passed \subseteq run'.passed /\ e.file \in run'.failed \cup run'.passed
        BY <1>2
    <2>3. ASSUME ~run.sequential
          PROVE  /\ FilesOf(Held) \subseteq run.ran /\ run.failed \subseteq run.ran
                 /\ run.ran \subseteq run.failed \cup run.passed \cup run.lost \cup FilesOf(Held)
        BY <1>3, <2>3 DEF RunAccounts
    <2> QED BY <1>2, <2>1, <2>2, <2>3
<1>9. run.sequential /\ busy'[Main] = Idle => run'.todo = {}
    <2>1. ASSUME run.sequential, busy'[Main] = Idle PROVE run'.todo = {}
        <3>1. r = Main
            BY <1>2, <2>1 DEF Live
        <3>2. next = Idle
            BY <1>5, <2>1, <3>1 DEF Runners
        <3> QED BY <1>2, <3>1, <3>2 DEF MayRun
    <2> QED BY <2>1
<1>10. run.sequential /\ Workers # {} => run.kind = "files" /\ run'.todo = {}
    BY <1>2, <1>3 DEF RunAccounts
<1>11. RunAccounts'
    BY <1>2, <1>3, <1>8, <1>9, <1>10 DEF RunAccounts
<1> QED BY <1>6, <1>11 DEF RunInv

\* A worker that ends leaves its file lost.
LEMMA RetireAccounts ==
    ASSUME TypeAndQueue, RunInv, NEW w \in Workers, RetireWorker(w)
    PROVE  RunInv'
<1>1. run \in RunRecord /\ ~run.sequential /\ run.wave > 0 /\ w \in Live /\ retired' = retired \cup {w} /\ run # NoRun
    BY RetireStep, WatchAssumption
<1>2. CASE busy' = [r \in Runners |-> Idle] /\ NotifyRunFinished
    BY <1>2, FinishedOrFresh, RestedAccounts DEF TypeAndQueue
<1>3. CASE /\ busy' = [busy EXCEPT ![w] = Idle] /\ run' \in RunRecord /\ run' # NoRun
           /\ run'.wave = run.wave /\ run'.todo = run.todo /\ run'.ran = run.ran
           /\ run'.kind = run.kind /\ run'.files = run.files /\ run'.sequential = run.sequential
           /\ run'.failed = run.failed /\ run'.passed = run.passed
           /\ run'.lost = run.lost \cup ({busy[w].file} \ {NoRun})
    <2>1. RunAccounts /\ busy \in [Runners -> Entry \cup {Idle}]
        BY <1>1 DEF RunInv, TypeAndQueue, TypeOK
    <2>2. \A s \in Runners : busy'[s] = IF s = w THEN Idle ELSE busy[s]
        BY <1>3, <2>1
    <2>3. Live' = Live \ {w} /\ Runners' = Runners
        BY <1>1, <1>3 DEF Live, Runners
    <2>4. \A s \in Runners' : busy'[s] # Idle => run' # NoRun /\ run'.wave > 0 /\ s \in Live'
        BY <1>1, <1>3, <2>2, <2>3 DEF RunInv
    <2>5. Idle \notin Entry
        BY WatchAssumption DEF Idle, Entry
    <2>6. \A x \in Held' : x \in Held
        BY <1>3, <2>2, <2>3, <2>5 DEF Held
    <2>7. \A x \in Held : x \in Held' \/ (x = busy[w] /\ x.file \in run'.lost)
        <3>1. \A x \in Entry : x.file # NoRun
            BY WatchAssumption DEF Entry
        <3>2. \A x \in Held : x \in Held' \/ x = busy[w]
            BY <1>3, <2>2, <2>3 DEF Held
        <3> QED BY <1>3, <3>1, <3>2 DEF Held
    <2>8. FilesOf(Held') \subseteq FilesOf(Held) /\ FilesOf(Held) \subseteq FilesOf(Held') \cup run'.lost
        BY <2>6, <2>7 DEF FilesOf
    <2>9. RunAccounts'
        BY <1>1, <1>3, <2>1, <2>8 DEF RunAccounts
    <2> QED BY <2>4, <2>9 DEF RunInv
<1> QED BY <1>2, <1>3, RetireStep

\* What nobody may take has failed.
LEMMA FailStrandedAccounts ==
    ASSUME TypeAndQueue, RunInv, FailStranded
    PROVE  RunInv'
<1>1. /\ run \in RunRecord /\ run' # NoRun
      /\ run'.wave = run.wave /\ run'.todo = {} /\ run'.ran = run.ran
      /\ run'.kind = run.kind /\ run'.files = run.files /\ run'.sequential = run.sequential
      /\ run'.failed = run.failed \cup FilesOf(run.todo) /\ run'.passed = run.passed
      /\ run'.lost = run.lost
    BY FailStrandedStep
<1>2. run # NoRun /\ run.wave > 0 /\ busy' = busy /\ retired' = retired /\ RunAccounts
    BY DEF FailStranded, RunInv
<1>3. \A r \in Runners' : busy'[r] # Idle => run' # NoRun /\ run'.wave > 0 /\ r \in Live'
    BY <1>1, <1>2 DEF RunInv, Live, Runners
<1>4. Held' \subseteq Held /\ run.todo \subseteq Held /\ \A x \in Held : x \in Held' \/ x \in run.todo
    BY <1>1, <1>2 DEF Held, Runners, RunRecord
<1>5. FilesOf(Held') \subseteq FilesOf(Held) /\ FilesOf(run.todo) \subseteq FilesOf(Held)
      /\ FilesOf(Held) \subseteq FilesOf(Held') \cup FilesOf(run.todo)
    BY <1>4 DEF FilesOf
<1>6. RunAccounts'
    BY <1>1, <1>2, <1>5 DEF RunAccounts
<1> QED BY <1>3, <1>6 DEF RunInv

\* The run's accounts hold at every step.
LEMMA AccountsStep == TypeAndQueue /\ RunInv /\ [Next]_vars => RunInv'
<1> SUFFICES ASSUME TypeAndQueue, RunInv, [Next]_vars PROVE RunInv'
    OBVIOUS
<1>1. CASE UNCHANGED vars
    BY <1>1, SameAccounts DEF vars
<1>2. CASE FinishRun
    BY <1>2, AllIdle, FinishedOrFresh, RestedAccounts DEF FinishRun, RunDone, TypeAndQueue
<1>3. CASE RunThrows
    BY <1>3, AllIdle, FinishedOrFresh, RestedAccounts DEF RunThrows, TypeAndQueue
<1> QED BY <1>1, <1>2, <1>3, EventsAccount, DispatchAccounts, FileDoneAccounts, RetireAccounts,
           FailStrandedAccounts DEF Next, Running

LEMMA AccountsInit == Init => RunInv
    BY DEF Init, RunInv, Runners

\* Between runs the list has every failure.
LEMMA RestedSticky ==
    ASSUME FilesOf(lastFailed') \subseteq known', FilesOf(lastFailed') \subseteq failedFiles',
           run' = NoRun \/ FreshRun(run')
    PROVE  StickyInv'
    BY DEF StickyInv, FreshRun

\* The events and the keys forget nothing but deleted files.
LEMMA EventsSticky ==
    ASSUME TypeAndQueue, StickyInv,
           \/ \E f \in Files : Change(f) \/ Add(f) \/ Unlink(f)
           \/ PressRunAll \/ PressRunFailed \/ PressRerun \/ DebounceFires
    PROVE  StickyInv'
<1>1. ASSUME NEW f \in Files, Change(f)
      PROVE  StickyInv'
    BY <1>1 DEF Change, StickyInv
<1>2. ASSUME NEW todo \in SUBSET Entry, run' = IF Iterating THEN [run EXCEPT !.todo = todo] ELSE run
      PROVE  /\ run' = NoRun <=> run = NoRun
             /\ run # NoRun => run'.wave = run.wave /\ run'.sequential = run.sequential /\ run'.failed = run.failed
    <2>1. CASE Iterating
        <3>1. run \in RunRecord /\ run' = [run EXCEPT !.todo = todo]
            BY <1>2, <2>1 DEF Iterating, TypeAndQueue, TypeOK
        <3>2. run' \in RunRecord
            BY <3>1 DEF RunRecord
        <3> QED BY <3>1, <3>2, WatchAssumption DEF RunRecord
    <2>2. CASE ~Iterating
        BY <1>2, <2>2
    <2> QED BY <2>1, <2>2
<1>3. ASSUME NEW f \in Files, Add(f)
      PROVE  StickyInv'
    <2>1. ASSUME Iterating PROVE run.todo \cup {[file |-> f, project |-> NoProject]} \in SUBSET Entry
        BY <2>1 DEF Iterating, TypeAndQueue, TypeOK, RunRecord, Entry
    <2>2. PICK todo \in SUBSET Entry : run' = IF Iterating THEN [run EXCEPT !.todo = todo] ELSE run
        BY <1>3, <2>1 DEF Add
    <2>3. /\ run' = NoRun <=> run = NoRun
          /\ run # NoRun => run'.wave = run.wave /\ run'.sequential = run.sequential /\ run'.failed = run.failed
        BY <1>2, <2>2
    <2> QED BY <1>3, <2>3 DEF Add, StickyInv
<1>4. ASSUME NEW f \in Files, Unlink(f)
      PROVE  StickyInv'
    <2>1. ASSUME Iterating PROVE {e \in run.todo : e.file # f} \in SUBSET Entry
        BY <2>1 DEF Iterating, TypeAndQueue, TypeOK, RunRecord
    <2>2. PICK todo \in SUBSET Entry : run' = IF Iterating THEN [run EXCEPT !.todo = todo] ELSE run
        BY <1>4, <2>1 DEF Unlink
    <2>3. /\ run' = NoRun <=> run = NoRun
          /\ run # NoRun => run'.wave = run.wave /\ run'.sequential = run.sequential /\ run'.failed = run.failed
        BY <1>2, <2>2
    <2>4. lastFailed' = {e \in lastFailed : e.file # f} /\ known' = known \ {f} /\ failedFiles' = failedFiles \ {f}
          /\ busy' = busy
        BY <1>4 DEF Unlink
    <2>5. FilesOf(lastFailed') = FilesOf(lastFailed) \ {f}
        BY <2>4 DEF FilesOf
    <2>6. lastFailed = {} => lastFailed' = {}
        BY <2>4
    <2> QED BY <2>3, <2>4, <2>5, <2>6 DEF StickyInv
<1>5. ASSUME NEW request \in Request, ScheduleNow(request),
             UNCHANGED <<known, failedFiles, busy, retired, lastFailed>>
      PROVE  StickyInv'
    <2>1. CASE running
        BY <1>5, <2>1 DEF ScheduleNow, StickyInv
    <2>2. CASE ~running
        <3>1. run = NoRun
            BY <2>2 DEF TypeAndQueue, QueueInv
        <3>2. FreshRun(run')
            BY <1>5, <2>2, StartRunFresh DEF ScheduleNow, TypeAndQueue, TypeOK
        <3> QED BY <1>5, <3>1, <3>2, RestedSticky DEF StickyInv
    <2> QED BY <2>1, <2>2
<1>6. AllFiles \in Request /\ OnlyFiles(failedFiles \cap known) \in Request /\ OnlyFiles(lastRunFiles \cap known) \in Request
    BY DEF AllFiles, OnlyFiles, Request, TypeAndQueue, TypeOK
<1>7. CASE PressRunAll \/ PressRunFailed \/ PressRerun
    BY <1>5, <1>6, <1>7 DEF PressRunAll, PressRunFailed, PressRerun
<1>8. CASE DebounceFires
    <2>1. run = NoRun /\ FreshRun(run') /\ UNCHANGED <<known, failedFiles, lastFailed>>
        BY <1>8, DebounceStep DEF DebounceFires
    <2> QED BY <2>1, RestedSticky DEF StickyInv
<1> QED BY <1>1, <1>3, <1>4, <1>7, <1>8

\* A result settles the list at once, or waits in the run for its end.
LEMMA FileDoneSticky ==
    ASSUME TypeAndQueue, RunInv, StickyInv, Workers # {} \/ Projects = {},
           NEW r \in Runners, NEW failed \in BOOLEAN, FileDone(r, failed)
    PROVE  StickyInv'
<1>1. PICK next \in run.todo \cup {Idle} : FileDoneTo(r, failed, next)
    BY FileDoneStep
<1> DEFINE e == busy[r]
<1>2. /\ r \in Live /\ e # Idle /\ e \in Entry /\ busy' = [busy EXCEPT ![r] = next]
      /\ run' # NoRun /\ run'.wave = run.wave /\ run'.sequential = run.sequential
      /\ run'.failed = (IF failed THEN run.failed \cup {e.file} ELSE run.failed)
    BY <1>1 DEF FileDoneTo
<1>3. /\ run # NoRun /\ run.wave > 0 /\ RunAccounts /\ known' = known
      /\ busy \in [Runners -> Entry \cup {Idle}] /\ lastFailed \in SUBSET Entry
    BY <1>2 DEF FileDone, RunInv, TypeAndQueue, TypeOK
<1>4. /\ failedFiles' = IF ~run.sequential THEN failedFiles
                        ELSE IF failed THEN failedFiles \cup {e.file} ELSE failedFiles \ {e.file}
      /\ lastFailed' = IF failed /\ e.file \in known THEN lastFailed \cup {e} ELSE lastFailed \ {e}
    BY DEF FileDone
<1>5. run.sequential => r = Main
    BY <1>2 DEF Live
<1>6. run.sequential /\ Workers # {} => busy'[Main] = Idle /\ lastFailed = {}
    <2>1. ASSUME run.sequential, Workers # {} PROVE run.todo = {} /\ lastFailed = {}
        BY <1>2, <1>3, <1>5, <2>1 DEF RunAccounts, StickyInv
    <2> QED BY <1>1, <1>2, <1>3, <1>5, <2>1
<1> HIDE DEF e
<1>7. FilesOf(lastFailed') \subseteq known'
    BY <1>3, <1>4 DEF StickyInv, FilesOf
<1>8. run.sequential => FilesOf(lastFailed') \subseteq failedFiles'
    <2>1. CASE failed
        BY <1>3, <1>4, <2>1 DEF StickyInv, FilesOf
    <2>2. CASE ~failed
        <3>1. run.sequential => \A x \in lastFailed : x.file = e.file => x = e
            <4>1. CASE Workers # {}
                BY <1>6, <4>1
            <4>2. CASE Projects = {}
                BY <1>2, <1>3, <4>2 DEF Entry
            <4> QED BY <4>1, <4>2
        <3> QED BY <1>3, <1>4, <2>2, <3>1 DEF StickyInv, FilesOf
    <2> QED BY <2>1, <2>2
<1>9. ~run.sequential => FilesOf(lastFailed') \subseteq run'.failed
    <2>1. FilesOf(lastFailed') \subseteq FilesOf(lastFailed) \cup (IF failed THEN {e.file} ELSE {})
        BY <1>4 DEF FilesOf
    <2> QED BY <1>2, <1>3, <2>1 DEF StickyInv
<1> QED BY <1>2, <1>3, <1>6, <1>7, <1>8, <1>9 DEF StickyInv

\* The run's end puts on the list what failed in it.
LEMMA FinishSticky ==
    ASSUME TypeAndQueue, RunInv, StickyInv, FinishRun
    PROVE  StickyInv'
<1>1. run \in RunRecord /\ run # NoRun /\ RunAccounts /\ NotifyRunFinished
      /\ failedFiles' = Reconciled /\ known' = known /\ lastFailed' = lastFailed
    BY DEF FinishRun, TypeAndQueue, TypeOK, RunInv
<1>2. run.kind \in {"all", "files"} /\ run.wave \in Nat
      /\ run.wave = (IF run.kind = "all" THEN WaveCount ELSE 1)
    BY <1>1 DEF RunRecord, FinishRun, RunDone
<1>3. FilesOf(lastFailed) \subseteq Reconciled
    <2>1. CASE run.sequential
        BY <2>1 DEF StickyInv, Reconciled
    <2>2. CASE ~run.sequential /\ run.wave = 0
        <3>1. run.kind = "all" /\ Projects # {} /\ run.ran = {}
            BY <1>1, <1>2, <2>2 DEF WaveCount, RunAccounts
        <3> QED BY <2>2, <3>1 DEF StickyInv, Reconciled
    <2>3. CASE ~run.sequential /\ run.wave > 0
        <3>1. FilesOf(lastFailed) \subseteq run.failed /\ FilesOf(lastFailed) \subseteq known
            BY <1>1, <2>3 DEF StickyInv
        <3>2. run.failed \subseteq run.ran /\ (run.kind = "files" => run.ran = run.files)
            BY <1>1, <2>3 DEF RunAccounts
        <3> QED BY <2>3, <3>1, <3>2 DEF Reconciled
    <2> QED BY <1>2, <2>1, <2>2, <2>3
<1> QED BY <1>1, <1>3, FinishedOrFresh, RestedSticky DEF StickyInv, TypeAndQueue

LEMMA StickyStep ==
    ASSUME TypeAndQueue, RunInv, StickyInv, Workers # {} \/ Projects = {}, [Next]_vars
    PROVE  StickyInv'
<1>1. CASE UNCHANGED vars
    BY <1>1 DEF vars, history, StickyInv
<1>2. CASE Dispatch
    <2>1. PICK entries \in SUBSET Entry : \E b \in Handed(Live, entries) :
              /\ run' # NoRun /\ run'.wave = run.wave + 1 /\ run \in RunRecord
              /\ run'.sequential = run.sequential /\ run'.failed = run.failed
        BY <1>2, DispatchStep
    <2>2. run'.wave > 0 /\ run.wave \in Nat /\ run.kind \in {"all", "files"}
        BY <2>1 DEF RunRecord
    <2>3. lastFailed' = (IF run.wave = 0 THEN {} ELSE lastFailed) /\ UNCHANGED <<known, failedFiles>>
          /\ run # NoRun /\ RunAccounts /\ (run.kind = "files" => run.wave < 1)
        BY <1>2 DEF Dispatch, RunInv
    <2>4. run.sequential /\ Workers # {} => run.wave = 0
        BY <2>2, <2>3 DEF RunAccounts
    <2>5. FilesOf({}) = {}
        BY DEF FilesOf
    <2> QED BY <2>1, <2>2, <2>3, <2>4, <2>5 DEF StickyInv
<1>3. CASE FailStranded
    <2>1. /\ run' # NoRun /\ run'.wave = run.wave /\ run'.sequential = run.sequential
          /\ run'.failed = run.failed \cup FilesOf(run.todo)
        BY <1>3, FailStrandedStep
    <2>2. run # NoRun /\ run.wave > 0 /\ UNCHANGED <<known, failedFiles>> /\ RunAccounts
          /\ lastFailed' = lastFailed \cup {e \in run.todo : e.file \in known} /\ run.todo # {} /\ NobodyBusy
        BY <1>3 DEF FailStranded, RunInv
    <2>3. ~run.sequential
        BY <2>2 DEF RunAccounts, NobodyBusy, Live
    <2>4. FilesOf(lastFailed') \subseteq FilesOf(lastFailed) \cup FilesOf(run.todo)
          /\ FilesOf(lastFailed') \subseteq FilesOf(lastFailed) \cup known
        BY <2>2 DEF FilesOf
    <2> QED BY <2>1, <2>2, <2>3, <2>4 DEF StickyInv
<1>4. CASE RunThrows
    BY <1>4, FinishedOrFresh, RestedSticky DEF RunThrows, StickyInv, TypeAndQueue
<1>5. ASSUME NEW w \in Workers, RetireWorker(w)
      PROVE  StickyInv'
    <2>1. run # NoRun /\ run.wave > 0 /\ ~run.sequential /\ UNCHANGED <<known, failedFiles>>
        BY <1>5, RetireStep, WatchAssumption
    <2>2. CASE NotifyRunFinished /\ lastFailed' = {}
        <3>1. FilesOf(lastFailed') = {}
            BY <2>2 DEF FilesOf
        <3> QED BY <2>2, <3>1, FinishedOrFresh, RestedSticky DEF TypeAndQueue
    <2>3. CASE /\ run' # NoRun /\ run'.wave = run.wave /\ run'.sequential = run.sequential
               /\ run'.failed = run.failed /\ UNCHANGED history
        BY <2>1, <2>3 DEF StickyInv, history
    <2> QED BY <1>5, <2>2, <2>3, RetireStep
<1> QED BY <1>1, <1>2, <1>3, <1>4, <1>5, EventsSticky, FileDoneSticky, FinishSticky DEF Next, Running

\* "a fail in either wave is sticky": with workers, or with no projects, a file that
\* failed in any project of the last run is on the list that the f key re-runs until
\* it is deleted (reconcileFailedFiles, and the loops that run files one by one).
THEOREM WatchStickyFailures == Workers # {} \/ Projects = {} => (Spec => []StickyFailures)
<1> SUFFICES ASSUME Workers # {} \/ Projects = {} PROVE Spec => []StickyFailures
    OBVIOUS
<1>1. Init => StickyInv
    BY DEF Init, StickyInv, FilesOf
<1>2. TypeAndQueue /\ RunInv /\ StickyInv /\ [Next]_vars => StickyInv'
    BY StickyStep
<1>3. StickyInv => StickyFailures
    BY DEF StickyInv, StickyFailures
<1> QED BY <1>1, <1>2, <1>3, WatchInit, AccountsInit, TypedStep, AccountsStep, PTL DEF Spec

\* A file leaves the list by its deletion, or by the result of its own run.
LEMMA KeptStep ==
    ASSUME TypeAndQueue, RunInv, Workers = {} \/ Projects # {}, [Next]_vars
    PROVE  [FailuresKept(IF run = NoRun THEN {} ELSE run.lost)]_vars
<1> SUFFICES ASSUME Next, NEW f \in failedFiles, f \notin failedFiles'
             PROVE  \/ f \notin known'
                    \/ f \in run.passed
                    \/ run' # NoRun /\ f \in run'.passed
                    \/ f \in IF run = NoRun THEN {} ELSE run.lost
    BY DEF FailuresKept
<1>1. CASE FinishRun
    <2>1. run \in RunRecord /\ run # NoRun /\ RunAccounts /\ f \notin Reconciled /\ NobodyBusy /\ run.todo = {}
        BY <1>1 DEF FinishRun, RunDone, TypeAndQueue, TypeOK, RunInv
    <2>2. run.kind \in {"all", "files"} /\ run.wave \in Nat
          /\ run.wave = (IF run.kind = "all" THEN WaveCount ELSE 1)
        BY <1>1, <2>1 DEF RunRecord, FinishRun, RunDone
    <2>3. ~run.sequential /\ Projects # {}
        BY <2>1 DEF Reconciled, RunAccounts
    <2>4. run.wave > 0
        BY <2>1, <2>2, <2>3 DEF Reconciled, RunAccounts
    <2>5. f \in run.ran \ run.failed
        BY <2>1, <2>2, <2>3, <2>4 DEF Reconciled, RunAccounts
    <2>6. FilesOf(Held) = {}
        <3>1. Idle \notin Entry
            BY WatchAssumption DEF Idle, Entry
        <3> QED BY <2>1, <3>1, AllIdle DEF Held, FilesOf
    <2> QED BY <2>1, <2>3, <2>4, <2>5, <2>6 DEF RunAccounts
<1>2. ASSUME NEW r \in Runners, NEW failed \in BOOLEAN, FileDone(r, failed)
      PROVE  run' # NoRun /\ f \in run'.passed
    <2>1. PICK next \in run.todo \cup {Idle} : FileDoneTo(r, failed, next)
        BY <1>2, FileDoneStep
    <2>2. ~failed /\ f = busy[r].file
        BY <1>2 DEF FileDone
    <2> QED BY <2>1, <2>2 DEF FileDoneTo
<1>3. ASSUME NEW g \in Files, Unlink(g)
      PROVE  f \notin known'
    BY <1>3 DEF Unlink
<1>4. ASSUME NEW w \in Workers, RetireWorker(w) PROVE FALSE
    BY <1>4 DEF RetireWorker
<1>5. ASSUME NEW g \in Files, Change(g) \/ Add(g) PROVE FALSE
    BY <1>5 DEF Change, Add
<1>6. CASE PressRunAll \/ PressRunFailed \/ PressRerun \/ DebounceFires
    BY <1>6 DEF PressRunAll, PressRunFailed, PressRerun, DebounceFires
<1>7. CASE Dispatch \/ FailStranded \/ RunThrows
    BY <1>7 DEF Dispatch, FailStranded, RunThrows
<1> QED BY <1>1, <1>2, <1>3, <1>4, <1>5, <1>6, <1>7 DEF Next, Running

\* "its prior failed-state must persist until it actually re-runs": with projects, or
\* one file at a time, a file leaves the list only by being deleted, by passing in
\* the run at hand, or with the worker that ended under it.
THEOREM WatchFailedUntilRerunOrLost == Workers = {} \/ Projects # {} => (Spec => FailedUntilRerunOrLost)
<1> SUFFICES ASSUME Workers = {} \/ Projects # {} PROVE Spec => FailedUntilRerunOrLost
    OBVIOUS
<1>1. TypeAndQueue /\ RunInv /\ [Next]_vars => [FailuresKept(IF run = NoRun THEN {} ELSE run.lost)]_vars
    BY KeptStep
<1> QED BY <1>1, WatchInit, AccountsInit, TypedStep, AccountsStep, PTL DEF Spec, FailedUntilRerunOrLost
=============================================================================
