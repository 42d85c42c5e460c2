------------------------------ MODULE MCPlanning ------------------------------
(* How a run is laid out, one thing at a time: the waves of the projects   *)
(* (ProjectGraph), a machine's share of their files (Sharding), the        *)
(* workers of each device target (WorkerAllocation), the devices that      *)
(* sessions side by side may have (DeviceClaims), or the runs of the       *)
(* targets side by side (Buckets).                                         *)
EXTENDS MCDeviceClaims, Buckets

CONSTANTS NumProjects, Total, MaxFiles, MaxBucketFiles, MaxWorkers,
          f1, f2, f3, f4, setup, app, admin, ios, web

\* Dependency lists of at most two names; a name may be written twice.
ShortLists ==
    {<<>>} \cup {<<p>> : p \in 0..NumProjects}
    \cup ((1..NumProjects) \X (1..NumProjects))

\* Three targets.  The first runs setup, app, which has no files and needs setup,
\* and admin, which needs app; web needs setup too, which runs on another target.
ThreeFiles == {f1, f2, f3, f4}
ThreeProjects == {setup, app, admin, ios, web}
ThreeProjectOf == [f \in ThreeFiles |->
    CASE f = f1 -> setup [] f = f2 -> admin [] f = f3 -> ios [] f = f4 -> web]
ThreeBucketOf == [p \in ThreeProjects |-> IF p = ios THEN 2 ELSE IF p = web THEN 3 ELSE 1]
ThreeProjectWaves == <<{setup, ios}, {app, web}, {admin}>>
ThreeDependencies == [p \in ThreeProjects |->
    IF p \in {app, web} THEN {setup} ELSE IF p = admin THEN {app} ELSE {}]

VARIABLES part,   \* what a behaviour is about: "graph", "shards", "workers", "claims" or "buckets"
    dependencies, selected, phase, path, look, visited, cycle, todo, required, remaining, inDegree, waves,
    uses, numFiles, shard, testFiles, sweep, changed,
    totalBudget, capped, files, explicit, pinned, step, result, left, turn, madeProgress, natural

Gr == INSTANCE ProjectGraph WITH DependencyLists <- ShortLists
Sh == INSTANCE Sharding WITH dependencies <- uses, pc <- shard
Al == INSTANCE WorkerAllocation WITH MaxFiles <- MaxBucketFiles, pc <- step, remaining <- left

ASSUME ProjectsAssumption == Gr!ProjectsWellFormed

graphVars == <<dependencies, selected, phase, path, look, visited, cycle, todo, required, remaining,
               inDegree, waves>>
shardVars == <<uses, numFiles, shard, testFiles, sweep, changed>>
workerVars == <<totalBudget, capped, files, explicit, pinned, step, result, left, turn,
                madeProgress, natural>>
planVars == <<part, vars, graphVars, shardVars, workerVars, bucketVars>>

\* The parts a behaviour is not about stay at one initial state.
NoGraph == dependencies = [p \in Gr!Positions |-> <<>>] /\ selected = Gr!Positions /\ Gr!Init
NoShards == uses = [p \in Gr!Positions |-> {}] /\ numFiles = [p \in Gr!Positions |-> 0] /\ Sh!Init
NoWorkers ==
    /\ totalBudget = 1 /\ capped = FALSE /\ pinned = {}
    /\ files = [i \in Al!Buckets |-> 0] /\ explicit = [i \in Al!Buckets |-> 0]
    /\ Al!Init

PlanInit ==
    /\ Init /\ BucketsInit
    /\ \/ part = "graph" /\ NoShards /\ NoWorkers /\ Gr!Init
       \/ part = "shards" /\ NoGraph /\ NoWorkers /\ Sh!Init
       \/ part = "workers" /\ NoGraph /\ NoShards /\ Al!Init
       \/ part \in {"claims", "buckets"} /\ NoGraph /\ NoShards /\ NoWorkers

PlanNext ==
    \/ part = "graph" /\ Gr!Next /\ UNCHANGED <<part, vars, shardVars, workerVars, bucketVars>>
    \/ part = "shards" /\ Sh!Next /\ UNCHANGED <<part, vars, graphVars, workerVars, bucketVars>>
    \/ part = "workers" /\ Al!Next /\ UNCHANGED <<part, vars, graphVars, shardVars, bucketVars>>
    \/ part = "claims" /\ SmallNext /\ UNCHANGED <<part, graphVars, shardVars, workerVars, bucketVars>>
    \/ part = "buckets" /\ BucketsNext /\ UNCHANGED <<part, vars, graphVars, shardVars, workerVars>>

BucketMoves(i) == part = "buckets" /\ BucketStep(i)
CoordinatorMoves == part = "buckets" /\ (Throw \/ Return)

RootMoves == part = "claims" /\ Step(cli)

\* The fairness of Buckets and of MCDeviceClaims, for the behaviours about them.
PlanSpec ==
    /\ PlanInit /\ [][PlanNext]_planVars
    /\ WF_vars(RootMoves)
    /\ \A i \in Buckets : WF_bucketVars(BucketMoves(i))
    /\ WF_bucketVars(CoordinatorMoves)

\* The properties of ProjectGraph, and of Sharding and WorkerAllocation together:
\* shards split the files exactly and take the projects they need along, and the
\* budget of workers is shared out to the targets that have files.
PlannedSoundly == Gr!PlannedSoundly
FilesSharedOut == Sh!ShardsExact /\ Al!SharedOut

\* coordinateBuckets always returns or throws: no bucket is parked on the
\* barrier forever, whichever fail to start and even if rendering throws.
CoordinatorEnds == part = "buckets" => <>(coordinator # "waiting")
=============================================================================
