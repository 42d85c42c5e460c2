------------------------------ MODULE Sharding ------------------------------
(***************************************************************************)
(* `--shard=current/total` (packages/tapsmith/src/project.ts,              *)
(* shardProjects): every machine cuts the projects' file lists down on its *)
(* own, and the machines never talk to each other.  A project another one  *)
(* depends on is not split; it is dropped, in repeated sweeps over the     *)
(* projects, from a shard that has no files of its dependents.             *)
(*                                                                         *)
(* A file is its project and its position in the project's sorted list.    *)
(***************************************************************************)
EXTENDS Integers, FiniteSets

CONSTANTS
    NumProjects,   \* projects, in config order
    Total,         \* number of shards
    MaxFiles       \* bound on the files of one project

Positions == 1..NumProjects   \* the projects, by their place in the config
Shards == 1..Total

VARIABLES
    dependencies, numFiles,  \* the config: what a project depends on, its file count
    pc,          \* per shard: "splitting", "sweeping" or "done"
    testFiles,   \* per shard and project: the positions it keeps
    sweep,       \* per shard: the next project of the sweep
    changed      \* per shard: the sweep emptied a project

vars == <<dependencies, numFiles, pc, testFiles, sweep, changed>>

\* validateProjects has refused cycles.
Acyclic(deps) == ~\E S \in SUBSET Positions : S # {} /\ \A p \in S : deps[p] \cap S # {}

All(p) == 0..numFiles[p] - 1

Init ==
    /\ dependencies \in {deps \in [Positions -> SUBSET Positions] : Acyclic(deps)}
    /\ numFiles \in [Positions -> 0..MaxFiles]
    /\ pc = [s \in Shards |-> "splitting"]
    /\ testFiles = [s \in Shards |-> [p \in Positions |-> All(p)]]
    /\ sweep = [s \in Shards |-> 1]
    /\ changed = [s \in Shards |-> FALSE]

DependedOn == UNION {dependencies[p] : p \in Positions}

\* Cut every project nothing depends on to the shard's positions.
Split(s) ==
    /\ pc[s] = "splitting"
    /\ testFiles' = [testFiles EXCEPT ![s] = [p \in Positions |->
          IF p \in DependedOn THEN All(p) ELSE {i \in All(p) : i % Total = s - 1}]]
    /\ pc' = [pc EXCEPT ![s] = "sweeping"]
    /\ UNCHANGED <<dependencies, numFiles, sweep, changed>>

HasDependentTests(s, p) == \E q \in Positions : p \in dependencies[q] /\ testFiles[s][q] # {}

\* One project of a sweep.
Visit(s) ==
    /\ pc[s] = "sweeping" /\ sweep[s] <= NumProjects
    /\ LET p == sweep[s]
       IN  IF p \in DependedOn /\ testFiles[s][p] # {} /\ ~HasDependentTests(s, p)
           THEN /\ testFiles' = [testFiles EXCEPT ![s] = [@ EXCEPT ![p] = {}]]
                /\ changed' = [changed EXCEPT ![s] = TRUE]
           ELSE UNCHANGED <<testFiles, changed>>
    /\ sweep' = [sweep EXCEPT ![s] = @ + 1]
    /\ UNCHANGED <<dependencies, numFiles, pc>>

\* Mutant: one sweep is enough.
EndFirstSweep(s) ==
    /\ pc[s] = "sweeping" /\ sweep[s] > NumProjects
    /\ pc' = [pc EXCEPT ![s] = "done"]
    /\ UNCHANGED <<dependencies, numFiles, testFiles, sweep, changed>>

\* The end of a sweep: another one if it changed anything.
EndSweep(s) ==
    /\ pc[s] = "sweeping" /\ sweep[s] > NumProjects
    /\ IF changed[s]
       THEN /\ sweep' = [sweep EXCEPT ![s] = 1]
            /\ changed' = [changed EXCEPT ![s] = FALSE]
            /\ UNCHANGED pc
       ELSE /\ pc' = [pc EXCEPT ![s] = "done"]
            /\ UNCHANGED <<sweep, changed>>
    /\ UNCHANGED <<dependencies, numFiles, testFiles>>

Terminated == (\A s \in Shards : pc[s] = "done") /\ UNCHANGED vars

Next == (\E s \in Shards : Split(s) \/ Visit(s) \/ EndSweep(s)) \/ Terminated

Spec == Init /\ [][Next]_vars

-----------------------------------------------------------------------------
(* Properties.                                                             *)

\* Its files are each kept by one machine and by no other.
SplitOnce(p) ==
    \A i \in All(p) : \E s \in Shards :
        i \in testFiles[s][p] /\ \A t \in Shards \ {s} : i \notin testFiles[t][p]

\* It is whole on a shard with files of one of its dependents, and not at all on
\* one that has none.
GoesWithDependents(p) ==
    \A s \in Shards : testFiles[s][p] = IF HasDependentTests(s, p) THEN All(p) ELSE {}

\* The shards together run each file of a project nothing depends on exactly once,
\* and none of them runs a project without the files it depends on, nor a setup
\* project nobody there needs, whatever order the config lists them in.
ShardsExact ==
    (\A s \in Shards : pc[s] = "done") =>
        \A p \in Positions : IF p \in DependedOn THEN GoesWithDependents(p) ELSE SplitOnce(p)
=============================================================================
