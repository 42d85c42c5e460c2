------------------------------- MODULE WaveRun -------------------------------
(***************************************************************************)
(* What runParallel (packages/tapsmith/src/dispatcher.ts) promises its     *)
(* caller, with no workers in sight: the waves of projects run one after   *)
(* the other, every file of a wave gets exactly one outcome, a project     *)
(* that depends on a failed or skipped one is skipped as a whole, and the  *)
(* run either completes with an outcome for every file or is abandoned     *)
(* with none (runParallel throws, or the process exits).                   *)
(***************************************************************************)
EXTENDS Integers, Sequences

CONSTANTS Files, Projects, ProjectOf, ProjectWaves, Dependencies

VARIABLES
    at,        \* index of the current wave, 0 before the first
    outcome,   \* per file: "none" until it is decided
    lost,      \* projects of earlier waves that failed, and every skipped one
    ending     \* "running", "completed" or "abandoned"

runVars == <<at, outcome, lost, ending>>

FilesOf(i) == {f \in Files : ProjectOf[f] \in ProjectWaves[i]}

LostSoFar == lost \cup {ProjectOf[f] : f \in {g \in Files : outcome[g] = "failed"}}

RunInit ==
    /\ at = 0
    /\ outcome = [f \in Files |-> "none"]
    /\ lost = {}
    /\ ending = "running"

WaveDecided == at > 0 => \A f \in FilesOf(at) : outcome[f] # "none"

\* Enter the next wave: the projects that depend on a lost one are skipped.
NextWave ==
    /\ ending = "running" /\ at < Len(ProjectWaves) /\ WaveDecided
    /\ LET skip == {p \in ProjectWaves[at + 1] : Dependencies[p] \cap LostSoFar # {}}
       IN  /\ lost' = LostSoFar \cup skip
           /\ outcome' = [f \in Files |-> IF ProjectOf[f] \in skip THEN "skipped" ELSE outcome[f]]
    /\ at' = at + 1
    /\ UNCHANGED ending

\* A file of the current wave is decided, once.
Decide(f, verdict) ==
    /\ ending = "running" /\ at > 0
    /\ f \in FilesOf(at) /\ outcome[f] = "none"
    /\ outcome' = [outcome EXCEPT ![f] = verdict]
    /\ UNCHANGED <<at, lost, ending>>

Complete ==
    /\ ending = "running" /\ at = Len(ProjectWaves) /\ WaveDecided
    /\ ending' = "completed"
    /\ UNCHANGED <<at, outcome, lost>>

\* runParallel throws or the process exits: nobody sees any outcome.
Abandon ==
    /\ ending = "running"
    /\ ending' = "abandoned"
    /\ at' = 0
    /\ lost' = {}
    /\ outcome' = [f \in Files |-> "none"]

RunNext ==
    \/ NextWave
    \/ \E f \in Files, verdict \in {"passed", "failed"} : Decide(f, verdict)
    \/ Complete
    \/ Abandon

RunSpec == RunInit /\ [][RunNext]_runVars
=============================================================================
