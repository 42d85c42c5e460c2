------------------------------ MODULE Buckets -------------------------------
(***************************************************************************)
(* A run over several device targets (packages/tapsmith/src/dispatcher.ts, *)
(* planMultiBucket, runMultiBucket and coordinateBuckets).  The projects   *)
(* are split into buckets by device signature; every bucket is one         *)
(* runParallel of its own, with its own workers and its own share of the   *)
(* waves.  A launch barrier holds all of them back until each has started  *)
(* or failed to; a bucket that cannot start has its files reported as      *)
(* failed, and the others run.                                             *)
(*                                                                         *)
(* Each bucket's runParallel is the abstract one of WaveRun, preceded by   *)
(* the start of its workers.                                               *)
(***************************************************************************)
EXTENDS Integers, Sequences, FiniteSets

CONSTANTS
    NumBuckets,    \* buckets that planMultiBucket gave at least one worker
    Files,         \* (test file, project) pairs of those buckets
    Projects,
    ProjectOf,     \* the project of each file
    BucketOf,      \* the bucket of each project: its device signature
    ProjectWaves,  \* opts.projectWaves: a sequence of sets of projects
    Dependencies   \* project.dependencies

Buckets == 1..NumBuckets
ProjectsIn(i) == {p \in Projects : BucketOf[p] = i}
FilesIn(i) == {f \in Files : BucketOf[ProjectOf[f]] = i}

ASSUME BucketsAssumption ==
    /\ NumBuckets \in Nat \ {0}
    /\ ProjectOf \in [Files -> Projects]
    /\ BucketOf \in [Projects -> Buckets]
    /\ ProjectWaves \in Seq(SUBSET Projects)
    /\ \A p \in Projects : \E w \in DOMAIN ProjectWaves : p \in ProjectWaves[w]
    /\ \A v, w \in DOMAIN ProjectWaves : v # w => ProjectWaves[v] \cap ProjectWaves[w] = {}
    /\ Dependencies \in [Projects -> SUBSET Projects]
    /\ \A w \in DOMAIN ProjectWaves : \A p \in ProjectWaves[w] : \A d \in Dependencies[p] :
          \E v \in 1..w - 1 : d \in ProjectWaves[v]   \* topologicalSort

VARIABLES
    stage,            \* per bucket: where its run is
    arrived,          \* buckets that reached the barrier or failed to start
    released,         \* the barrier's promise is resolved
    startFailures,    \* buckets that failed before they arrived
    startResults,     \* startFailureResults: per file, the results pushed
    at, outcome, lost,   \* the wave, outcomes and failedProjects of the bucket runs
    coordinator,      \* coordinateBuckets: "waiting", "returned" or "threw"
    tests, status     \* what it returned: per file its results; the run's status

barrierVars == <<arrived, released, startFailures, startResults>>
waveVars == <<at, outcome, lost>>
returnVars == <<coordinator, tests, status>>
bucketVars == <<stage, barrierVars, waveVars, returnVars>>

Settled == {"fulfilled", "unstarted", "rejected"}

\* The global wave list cut down to bucket i.  planMultiBucket also drops the
\* waves this leaves empty; entering an empty wave changes nothing but `at`.
BucketWaves(i) == [w \in DOMAIN ProjectWaves |-> ProjectWaves[w] \cap ProjectsIn(i)]

-----------------------------------------------------------------------------
BucketsInit ==
    /\ stage = [i \in Buckets |-> "starting"]
    /\ arrived = {}
    /\ released = FALSE
    /\ startFailures = {}
    /\ startResults = [f \in Files |-> <<>>]
    /\ at = [i \in Buckets |-> 0]
    /\ outcome = [f \in Files |-> "none"]
    /\ lost = [i \in Buckets |-> {}]
    /\ coordinator = "waiting"
    /\ tests = [f \in Files |-> <<>>]
    /\ status = "none"

\* renderStarted: one failed result for every file of the buckets in failures;
\* when it throws, only some were pushed.
StartFailureResults(failures, rendered) ==
    LET failed == {f \in Files : BucketOf[ProjectOf[f]] \in failures}
    IN  \/ /\ rendered
           /\ startResults' = [f \in Files |-> IF f \in failed THEN <<"failed">> ELSE <<>>]
        \/ /\ ~rendered
           /\ \E pushed \in SUBSET failed :
                 startResults' = [f \in Files |-> IF f \in pushed THEN <<"failed">> ELSE <<>>]

\* arrive(i): the last bucket renders the outcome of the start and, whatever
\* rendering does, opens the barrier.  rendered is FALSE when rendering throws.
Arrive(i, failures, rendered) ==
    /\ arrived' = arrived \cup {i}
    /\ startFailures' = failures
    /\ IF arrived' # Buckets
       THEN /\ rendered
            /\ UNCHANGED <<released, startResults>>
       ELSE /\ released' = TRUE
            /\ IF failures = Buckets THEN UNCHANGED startResults
               ELSE StartFailureResults(failures, rendered)

\* The workers of bucket i are ready: beforeDispatch arrives and awaits the barrier.
Ready(i) ==
    /\ stage[i] = "starting"
    /\ \E rendered \in BOOLEAN :
          /\ Arrive(i, startFailures, rendered)
          /\ stage' = [stage EXCEPT ![i] = IF rendered THEN "waiting" ELSE "rejected"]
    /\ UNCHANGED <<waveVars, returnVars>>

\* Mutant: the failed bucket never tells the barrier.
StartFailsSilently(i) ==
    /\ stage[i] = "starting"
    /\ startFailures' = startFailures \cup {i}
    /\ stage' = [stage EXCEPT ![i] = "unstarted"]
    /\ UNCHANGED <<arrived, released, startResults, waveVars, returnVars>>

\* Bucket i fails before it arrived, its own teardown done: catch, not arrived[i].
StartFails(i) ==
    /\ stage[i] = "starting"
    /\ \E rendered \in BOOLEAN :
          /\ Arrive(i, startFailures \cup {i}, rendered)
          /\ stage' = [stage EXCEPT ![i] = IF rendered THEN "unstarted" ELSE "rejected"]
    /\ UNCHANGED <<waveVars, returnVars>>

\* The barrier's promise resolves for a bucket that awaits it.
PassBarrier(i) ==
    /\ stage[i] = "waiting" /\ released
    /\ stage' = [stage EXCEPT ![i] = "running"]
    /\ UNCHANGED <<barrierVars, waveVars, returnVars>>

-----------------------------------------------------------------------------
(* The run of a bucket that passed the barrier (WaveRun).                  *)

LostSoFar(i) ==
    lost[i] \cup {ProjectOf[f] : f \in {g \in FilesIn(i) : outcome[g] = "failed"}}

WaveDecided(i) ==
    at[i] > 0 => \A f \in FilesIn(i) :
        ProjectOf[f] \in ProjectWaves[at[i]] => outcome[f] # "none"

\* Mutant: a skipped project is not put among the failed ones, so what depends on
\* it runs.
NextWaveForgetsSkipped(i) ==
    /\ stage[i] = "running" /\ at[i] < Len(ProjectWaves) /\ WaveDecided(i)
    /\ LET skip == {p \in BucketWaves(i)[at[i] + 1] : Dependencies[p] \cap LostSoFar(i) # {}}
       IN  /\ lost' = [lost EXCEPT ![i] = LostSoFar(i)]
           /\ outcome' = [f \in Files |-> IF ProjectOf[f] \in skip THEN "skipped" ELSE outcome[f]]
    /\ at' = [at EXCEPT ![i] = @ + 1]
    /\ UNCHANGED <<stage, barrierVars, returnVars>>

NextWave(i) ==
    /\ stage[i] = "running" /\ at[i] < Len(ProjectWaves) /\ WaveDecided(i)
    /\ LET skip == {p \in BucketWaves(i)[at[i] + 1] : Dependencies[p] \cap LostSoFar(i) # {}}
       IN  /\ lost' = [lost EXCEPT ![i] = LostSoFar(i) \cup skip]
           /\ outcome' = [f \in Files |-> IF ProjectOf[f] \in skip THEN "skipped" ELSE outcome[f]]
    /\ at' = [at EXCEPT ![i] = @ + 1]
    /\ UNCHANGED <<stage, barrierVars, returnVars>>

Decide(i) ==
    /\ stage[i] = "running" /\ at[i] > 0
    /\ \E f \in FilesIn(i), verdict \in {"passed", "failed"} :
          /\ ProjectOf[f] \in ProjectWaves[at[i]] /\ outcome[f] = "none"
          /\ outcome' = [outcome EXCEPT ![f] = verdict]
    /\ UNCHANGED <<stage, barrierVars, at, lost, returnVars>>

Finish(i) ==
    /\ stage[i] = "running" /\ at[i] = Len(ProjectWaves) /\ WaveDecided(i)
    /\ stage' = [stage EXCEPT ![i] = "fulfilled"]
    /\ UNCHANGED <<barrierVars, waveVars, returnVars>>

\* Mutant: a bucket that dies in mid-run is treated as one that never started.
BreaksAsUnstarted(i) ==
    /\ stage[i] \in {"waiting", "running"} /\ released
    /\ stage' = [stage EXCEPT ![i] = "unstarted"]
    /\ startFailures' = startFailures \cup {i}
    /\ UNCHANGED <<arrived, released, startResults, waveVars, returnVars>>

\* All workers of a running bucket became unavailable: arrived[i], rethrown.
Breaks(i) ==
    /\ stage[i] = "running"
    /\ stage' = [stage EXCEPT ![i] = "rejected"]
    /\ UNCHANGED <<barrierVars, waveVars, returnVars>>

-----------------------------------------------------------------------------
\* Every bucket settled, and one broke in mid-run or none started.
Throw ==
    /\ coordinator = "waiting"
    /\ \A i \in Buckets : stage[i] \in Settled
    /\ (\E i \in Buckets : stage[i] = "rejected") \/ startFailures = Buckets
    /\ coordinator' = "threw"
    /\ UNCHANGED <<stage, barrierVars, waveVars, tests, status>>

\* mergeBucketResults: failed when a bucket's results hold a failed one.
MergedStatus ==
    IF \E f \in Files : stage[BucketOf[ProjectOf[f]]] = "fulfilled" /\ outcome[f] = "failed"
    THEN "failed" ELSE "passed"

\* Every bucket settled and some ran: merge, the files of failed starts first.
Return ==
    /\ coordinator = "waiting"
    /\ \A i \in Buckets : stage[i] \in Settled \ {"rejected"}
    /\ startFailures # Buckets
    /\ coordinator' = "returned"
    /\ status' = IF startFailures # {} THEN "failed" ELSE MergedStatus
    /\ tests' = [f \in Files |-> startResults[f] \o
                    (IF stage[BucketOf[ProjectOf[f]]] = "fulfilled" THEN <<outcome[f]>> ELSE <<>>)]
    /\ UNCHANGED <<stage, barrierVars, waveVars>>

Terminated == coordinator # "waiting" /\ UNCHANGED bucketVars

BucketStep(i) ==
    Ready(i) \/ StartFails(i) \/ PassBarrier(i) \/ NextWave(i) \/ Decide(i) \/ Finish(i)

BucketsNext ==
    \/ \E i \in Buckets : BucketStep(i) \/ Breaks(i)
    \/ Throw \/ Return \/ Terminated

\* Starting a bucket and running a wave both end (every device operation of the
\* start has a timeout; WaveRun's waves end by RunEnds of Dispatcher).
Fairness == (\A i \in Buckets : WF_bucketVars(BucketStep(i))) /\ WF_bucketVars(Throw \/ Return)

BucketsSpec == BucketsInit /\ [][BucketsNext]_bucketVars
FairSpec == BucketsSpec /\ Fairness

-----------------------------------------------------------------------------
(* Properties.                                                             *)

\* The launch barrier of coordinateBuckets: while one bucket is still starting,
\* no bucket has dispatched anything and no file has a result.
BarrierHolds ==
    (\E i \in Buckets : stage[i] = "starting") =>
        /\ \A i \in Buckets : stage[i] \notin {"running", "fulfilled"} /\ at[i] = 0
        /\ \A f \in Files : outcome[f] = "none" /\ startResults[f] = <<>>

\* A multi-bucket run that returns has exactly one result for every file: the
\* run's own, or the start failure of its target, never both and never none, and is
\* green only if every target started and no file failed; and whether it returns or
\* throws, every bucket has settled, its teardown included.
EveryFileReportedOnce ==
    /\ coordinator = "returned" =>
          \A f \in Files : \E r \in {"passed", "failed", "skipped"} : tests[f] = <<r>>
    /\ status = "passed" => \A f \in Files : tests[f] \in {<<"passed">>, <<"skipped">>}
    /\ coordinator # "waiting" => \A i \in Buckets : stage[i] \in Settled

\* The buckets start together, settle, and report every file once.
BucketsAccounted == BarrierHolds /\ EveryFileReportedOnce

\* What project p needs on its own target, through other projects too: the least
\* set that holds its dependencies there and theirs.
OwnDependencies(p) == {d \in Dependencies[p] : BucketOf[d] = BucketOf[p]}
DependsWithin(S) == \A q \in S : OwnDependencies(q) \subseteq S
Needs == [p \in Projects |->
    {q \in Projects : \A S \in SUBSET Projects :
        OwnDependencies(p) \subseteq S /\ DependsWithin(S) => q \in S}]
FilesNeeded(f) == {g \in Files : ProjectOf[g] \in Needs[ProjectOf[f]]}

\* Projects wait for their dependencies, each target by itself: a file gets a
\* verdict of its own only when everything its project needs there has passed, and
\* it is skipped only when something of it failed, whatever the other targets do and
\* though a project on the way may have no files.  The named exception: a dependency
\* on another target is not waited for, and its failure blocks nothing.
OwnDependenciesFirst ==
    \A f \in Files :
        /\ outcome[f] \in {"passed", "failed"} => \A g \in FilesNeeded(f) : outcome[g] = "passed"
        /\ outcome[f] = "skipped" => \E g \in FilesNeeded(f) : outcome[g] = "failed"

=============================================================================
