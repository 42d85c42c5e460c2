--------------------------- MODULE PlanningProofs ---------------------------
(***************************************************************************)
(* The theorems about Buckets, then those about DeviceClaims.              *)
(*                                                                         *)
(* Buckets: why a run over several device targets starts together, reports *)
(* every file once and keeps each target's projects in the order of their  *)
(* dependencies, for any number of targets, projects, waves and files.     *)
(* The barrier is a set of buckets in the code and a stage per bucket in   *)
(* the run; the strengthening says that they agree, what a bucket that has *)
(* not passed the barrier cannot have done, and that every wave behind a   *)
(* bucket's current one is decided.  OrderInv adds whom a lost project is  *)
(* to blame on, through any chain of projects.                             *)
(*                                                                         *)
(* DeviceClaims: why two sessions never drive one device, for every set of *)
(* processes, sessions and devices, as long as the lock could be had and   *)
(* the files be written.                                                   *)
(***************************************************************************)
EXTENDS Buckets, DeviceClaims, TLAPS, SequenceTheorems

Stages == {"starting", "waiting", "running", "fulfilled", "unstarted", "rejected"}
Outcomes == {"none", "passed", "failed", "skipped"}

BucketsTypeOK ==
    /\ stage \in [Buckets -> Stages]
    /\ startResults \in [Files -> {<<>>, <<"failed">>}]
    /\ at \in [Buckets -> Nat] /\ \A i \in Buckets : at[i] <= Len(ProjectWaves)
    /\ outcome \in [Files -> Outcomes]
    /\ lost \in [Buckets -> SUBSET Projects]
    /\ coordinator \in {"waiting", "returned", "threw"}

\* The barrier's books agree with the stages of the buckets.
BarrierInv ==
    /\ arrived = {i \in Buckets : stage[i] # "starting"}
    /\ released <=> arrived = Buckets
    /\ \A i \in Buckets :
          /\ stage[i] = "unstarted" => i \in startFailures
          /\ i \in startFailures => stage[i] \in {"unstarted", "rejected"}
          /\ stage[i] \in {"running", "fulfilled", "rejected"} => released

\* What the last bucket to arrive rendered, unless rendering threw.
StartInv ==
    /\ ~released => \A f \in Files : startResults[f] = <<>>
    /\ released /\ startFailures # Buckets /\ (\A i \in Buckets : stage[i] # "rejected") =>
          \A f \in Files : startResults[f] =
              IF BucketOf[ProjectOf[f]] \in startFailures THEN <<"failed">> ELSE <<>>

\* A bucket has run nothing before it passes the barrier, and every file of the
\* waves behind it, or of all its waves when it is through, is decided.
ProgressInv ==
    \A i \in Buckets :
        /\ stage[i] \in {"starting", "waiting", "unstarted"} =>
              at[i] = 0 /\ \A f \in FilesIn(i) : outcome[f] = "none"
        /\ \A f \in FilesIn(i), w \in DOMAIN ProjectWaves :
              ProjectOf[f] \in ProjectWaves[w] /\ (w < at[i] \/ stage[i] = "fulfilled") =>
                  outcome[f] # "none"

\* What coordinateBuckets returned.
ReturnInv ==
    /\ coordinator # "waiting" => \A i \in Buckets : stage[i] \in Settled
    /\ coordinator = "returned" =>
          \A f \in Files : \E r \in {"passed", "failed", "skipped"} : tests[f] = <<r>>
    /\ status = "passed" => \A f \in Files : tests[f] \in {<<"passed">>, <<"skipped">>}

BucketsInv == BucketsTypeOK /\ BarrierInv /\ StartInv /\ ProgressInv /\ ReturnInv

-----------------------------------------------------------------------------
LEMMA BucketsInvInit == BucketsInit => BucketsInv
<1>. SUFFICES ASSUME BucketsInit PROVE BucketsInv
  OBVIOUS
<1>0. Len(ProjectWaves) \in Nat /\ 1 \in Buckets
  BY BucketsAssumption, LenProperties DEF Buckets
<1>1. BucketsTypeOK
  BY <1>0 DEF BucketsInit, BucketsTypeOK, Stages, Outcomes
<1>2. BarrierInv
  BY <1>0 DEF BucketsInit, BarrierInv
<1>3. StartInv
  BY DEF BucketsInit, StartInv
<1>4. ProgressInv
  <2>1. DOMAIN ProjectWaves \subseteq Nat
    BY BucketsAssumption, LenProperties
  <2>2. \A i \in Buckets, w \in DOMAIN ProjectWaves : ~(w < at[i]) /\ stage[i] = "starting"
    BY <1>0, <2>1, BucketsAssumption, LenProperties DEF BucketsInit
  <2>. QED  BY <2>2 DEF BucketsInit, ProgressInv, FilesIn
<1>5. ReturnInv
  BY DEF BucketsInit, ReturnInv
<1>. QED  BY <1>1, <1>2, <1>3, <1>4, <1>5 DEF BucketsInv

\* A bucket that is still starting reaches the barrier, or fails to.
LEMMA ArriveInv ==
    ASSUME NEW i \in Buckets, BucketsInv, stage[i] = "starting",
           NEW failures, NEW rendered \in BOOLEAN, NEW s, Arrive(i, failures, rendered),
           \/ failures = startFailures /\ s \in {"waiting", "rejected"}
           \/ failures = startFailures \cup {i} /\ s \in {"unstarted", "rejected"},
           s = "rejected" <=> ~rendered,
           stage' = [stage EXCEPT ![i] = s], UNCHANGED <<waveVars, returnVars>>
    PROVE  BucketsInv'
<1>1. /\ arrived' = arrived \cup {i} /\ startFailures' = failures
      /\ UNCHANGED <<at, outcome, lost, coordinator, tests, status>>
  BY DEF Arrive, waveVars, returnVars
<1>2. BucketsTypeOK /\ BarrierInv /\ StartInv /\ ProgressInv /\ ReturnInv
  BY DEF BucketsInv
<1>3. stage'[i] = s /\ s \in Stages /\ s # "starting" /\ \A j \in Buckets \ {i} : stage'[j] = stage[j]
  BY <1>2 DEF BucketsTypeOK, Stages
<1>4. ~released /\ i \notin arrived /\ \A f \in Files : startResults[f] = <<>>
  BY <1>2 DEF BarrierInv, StartInv
<1>5. CASE arrived' # Buckets
  <2>1. UNCHANGED <<released, startResults>> /\ rendered
    BY <1>5 DEF Arrive
  <2>2. BucketsTypeOK'
    BY <1>1, <1>2, <1>3, <2>1 DEF BucketsTypeOK, Stages
  <2>3. BarrierInv'
    BY <1>1, <1>2, <1>3, <1>4, <1>5, <2>1 DEF BarrierInv
  <2>4. StartInv'
    BY <1>4, <2>1 DEF StartInv
  <2>. QED  BY <1>1, <1>2, <1>3, <2>2, <2>3, <2>4 DEF BucketsInv, ProgressInv, ReturnInv, Settled
<1>6. CASE arrived' = Buckets
  <2>. DEFINE failed == {f \in Files : BucketOf[ProjectOf[f]] \in failures}
  <2>1. released' = TRUE
        /\ IF failures = Buckets THEN UNCHANGED startResults ELSE StartFailureResults(failures, rendered)
    BY <1>6 DEF Arrive
  <2>2. \/ UNCHANGED startResults /\ failures = Buckets
        \/ /\ rendered
           /\ startResults' = [f \in Files |-> IF f \in failed THEN <<"failed">> ELSE <<>>]
        \/ /\ ~rendered
           /\ \E pushed \in SUBSET failed :
                 startResults' = [f \in Files |-> IF f \in pushed THEN <<"failed">> ELSE <<>>]
    BY <2>1 DEF StartFailureResults
  <2>3. startResults' \in [Files -> {<<>>, <<"failed">>}]
    BY <1>2, <2>2 DEF BucketsTypeOK
  <2>4. BucketsTypeOK'
    BY <1>1, <1>2, <1>3, <2>3 DEF BucketsTypeOK
  <2>5. BarrierInv'
    <3>1. arrived' = {j \in Buckets : stage'[j] # "starting"}
      BY <1>1, <1>2, <1>3 DEF BarrierInv
    <3>2. \A j \in Buckets :
             /\ stage'[j] = "unstarted" => j \in startFailures'
             /\ j \in startFailures' => stage'[j] \in {"unstarted", "rejected"}
      BY <1>1, <1>2, <1>3 DEF BarrierInv
    <3>. QED  BY <1>6, <2>1, <3>1, <3>2 DEF BarrierInv
  <2>6. StartInv'
    <3>1. ASSUME startFailures' # Buckets, \A j \in Buckets : stage'[j] # "rejected", NEW f \in Files
          PROVE  startResults'[f] = IF BucketOf[ProjectOf[f]] \in startFailures' THEN <<"failed">> ELSE <<>>
      <4>1. rendered /\ failures # Buckets
        BY <1>1, <1>3, <3>1
      <4>. QED  BY <1>1, <2>2, <4>1
    <3>. QED  BY <2>1, <3>1 DEF StartInv
  <2>7. ProgressInv' /\ ReturnInv'
    BY <1>1, <1>2, <1>3 DEF ProgressInv, ReturnInv, Settled
  <2>. QED  BY <2>4, <2>5, <2>6, <2>7 DEF BucketsInv
<1>. QED  BY <1>5, <1>6

LEMMA BarrierStepInv ==
    ASSUME NEW i \in Buckets, BucketsInv, Ready(i) \/ StartFails(i)
    PROVE  BucketsInv'
<1>1. CASE Ready(i)
  <2>1. PICK rendered \in BOOLEAN :
          /\ Arrive(i, startFailures, rendered)
          /\ stage' = [stage EXCEPT ![i] = IF rendered THEN "waiting" ELSE "rejected"]
    BY <1>1 DEF Ready
  <2>2. stage[i] = "starting" /\ UNCHANGED <<waveVars, returnVars>>
    BY <1>1 DEF Ready
  <2>. QED  BY <2>1, <2>2, ArriveInv
<1>2. CASE StartFails(i)
  <2>1. PICK rendered \in BOOLEAN :
          /\ Arrive(i, startFailures \cup {i}, rendered)
          /\ stage' = [stage EXCEPT ![i] = IF rendered THEN "unstarted" ELSE "rejected"]
    BY <1>2 DEF StartFails
  <2>2. stage[i] = "starting" /\ UNCHANGED <<waveVars, returnVars>>
    BY <1>2 DEF StartFails
  <2>. QED  BY <2>1, <2>2, ArriveInv
<1>. QED  BY <1>1, <1>2

\* A bucket that passed the barrier, or passes it, and tells nobody.
LEMMA StageMoved ==
    ASSUME NEW i \in Buckets, BucketsInv, NEW s \in {"running", "fulfilled", "rejected"},
           \/ stage[i] = "waiting" /\ s = "running" /\ released
           \/ stage[i] = "running" /\ s = "rejected"
           \/ stage[i] = "running" /\ s = "fulfilled" /\ \A f \in FilesIn(i) : outcome[f] # "none",
           stage' = [stage EXCEPT ![i] = s], UNCHANGED <<barrierVars, waveVars, returnVars>>
    PROVE  BucketsInv'
<1>1. UNCHANGED <<arrived, released, startFailures, startResults, at, outcome, lost, coordinator, tests, status>>
  BY DEF barrierVars, waveVars, returnVars
<1>2. BucketsTypeOK /\ BarrierInv /\ StartInv /\ ProgressInv /\ ReturnInv
  BY DEF BucketsInv
<1>3. stage'[i] = s /\ s # "starting" /\ \A j \in Buckets \ {i} : stage'[j] = stage[j]
  BY <1>2 DEF BucketsTypeOK
<1>4. BucketsTypeOK'
  BY <1>1, <1>2 DEF BucketsTypeOK, Stages
<1>5. BarrierInv'
  <2>1. \A j \in Buckets :
           /\ stage'[j] = "unstarted" => j \in startFailures
           /\ j \in startFailures => stage'[j] \in {"unstarted", "rejected"}
           /\ stage'[j] \in {"running", "fulfilled", "rejected"} => released
    BY <1>2, <1>3 DEF BarrierInv
  <2>2. arrived = {j \in Buckets : stage'[j] # "starting"}
    BY <1>2, <1>3 DEF BarrierInv
  <2>. QED  BY <1>1, <1>2, <2>1, <2>2 DEF BarrierInv
<1>6. StartInv'
  <2>1. (\A j \in Buckets : stage'[j] # "rejected") => \A j \in Buckets : stage[j] # "rejected"
    BY <1>3
  <2>. QED  BY <1>1, <1>2, <2>1 DEF StartInv
<1>7. ProgressInv'
  <2>1. ASSUME NEW j \in Buckets
        PROVE  /\ stage'[j] \in {"starting", "waiting", "unstarted"} =>
                     at[j] = 0 /\ \A f \in FilesIn(j) : outcome[f] = "none"
               /\ \A f \in FilesIn(j), w \in DOMAIN ProjectWaves :
                     ProjectOf[f] \in ProjectWaves[w] /\ (w < at[j] \/ stage'[j] = "fulfilled") =>
                         outcome[f] # "none"
    BY <1>2, <1>3 DEF ProgressInv
  <2>. QED  BY <1>1, <2>1 DEF ProgressInv
<1>8. ReturnInv'
  BY <1>1, <1>2, <1>3 DEF ReturnInv, Settled
<1>. QED  BY <1>4, <1>5, <1>6, <1>7, <1>8 DEF BucketsInv

\* Every file is in some wave: when the last one is decided they all are.
LEMMA AllDecided ==
    ASSUME NEW i \in Buckets, BucketsInv, at[i] = Len(ProjectWaves), WaveDecided(i)
    PROVE  \A f \in FilesIn(i) : outcome[f] # "none"
<1>. SUFFICES ASSUME NEW f \in FilesIn(i) PROVE outcome[f] # "none"
  OBVIOUS
<1>1. PICK w \in DOMAIN ProjectWaves : ProjectOf[f] \in ProjectWaves[w]
  BY BucketsAssumption DEF FilesIn
<1>2. w \in 1..Len(ProjectWaves) /\ Len(ProjectWaves) \in Nat
  BY BucketsAssumption, LenProperties
<1>3. CASE w = at[i]
  BY <1>1, <1>2, <1>3 DEF WaveDecided
<1>4. CASE w < at[i]
  BY <1>1, <1>4 DEF BucketsInv, ProgressInv
<1>. QED  BY <1>2, <1>3, <1>4

LEMMA StageStepInv ==
    ASSUME NEW i \in Buckets, BucketsInv, PassBarrier(i) \/ Finish(i) \/ Breaks(i)
    PROVE  BucketsInv'
<1>1. CASE PassBarrier(i)
  BY <1>1, StageMoved DEF PassBarrier
<1>2. CASE Finish(i)
  BY <1>2, StageMoved, AllDecided DEF Finish
<1>3. CASE Breaks(i)
  BY <1>3, StageMoved DEF Breaks
<1>. QED  BY <1>1, <1>2, <1>3

\* A running bucket decides files of its own and goes on to the next wave at most.
LEMMA WavesMoved ==
    ASSUME NEW i \in Buckets, BucketsInv, stage[i] = "running",
           UNCHANGED <<stage, barrierVars, returnVars>>,
           outcome' \in [Files -> Outcomes], lost' \in [Buckets -> SUBSET Projects],
           \A f \in Files : outcome[f] # "none" => outcome'[f] # "none",
           \A f \in Files \ FilesIn(i) : outcome'[f] = outcome[f],
           \/ at' = at
           \/ at' = [at EXCEPT ![i] = @ + 1] /\ at[i] < Len(ProjectWaves) /\ WaveDecided(i)
    PROVE  BucketsInv'
<1>1. UNCHANGED <<stage, arrived, released, startFailures, startResults, coordinator, tests, status>>
  BY DEF barrierVars, returnVars
<1>2. BucketsTypeOK /\ BarrierInv /\ StartInv /\ ProgressInv /\ ReturnInv
  BY DEF BucketsInv
<1>3. Len(ProjectWaves) \in Nat /\ DOMAIN ProjectWaves = 1..Len(ProjectWaves)
  BY BucketsAssumption, LenProperties
<1>4. /\ \A j \in Buckets \ {i} : at'[j] = at[j]
      /\ at'[i] = at[i] \/ (at'[i] = at[i] + 1 /\ at[i] < Len(ProjectWaves) /\ WaveDecided(i))
      /\ at' \in [Buckets -> Nat]
  BY <1>2 DEF BucketsTypeOK
<1>5. BucketsTypeOK'
  <2>1. \A j \in Buckets : at'[j] <= Len(ProjectWaves)
    BY <1>2, <1>3, <1>4 DEF BucketsTypeOK
  <2>. QED  BY <1>1, <1>2, <1>4, <2>1 DEF BucketsTypeOK
<1>6. BarrierInv' /\ StartInv' /\ ReturnInv'
  BY <1>1, <1>2 DEF BarrierInv, StartInv, ReturnInv
<1>7. ProgressInv'
  <2>1. ASSUME NEW j \in Buckets, j # i, NEW f \in FilesIn(j)
        PROVE  outcome'[f] = outcome[f]
    BY <2>1 DEF FilesIn
  <2>2. ASSUME NEW f \in FilesIn(i), NEW w \in DOMAIN ProjectWaves,
               ProjectOf[f] \in ProjectWaves[w], w < at'[i] \/ stage[i] = "fulfilled"
        PROVE  outcome'[f] # "none"
    <3>1. at[i] \in Nat /\ w \in Nat /\ w > 0 /\ f \in Files
      BY <1>2, <1>3, <2>2 DEF BucketsTypeOK, FilesIn
    <3>2. w < at[i] \/ (w = at[i] /\ WaveDecided(i))
      BY <1>4, <2>2, <3>1
    <3>3. outcome[f] # "none"
      BY <1>2, <2>2, <3>1, <3>2 DEF ProgressInv, WaveDecided
    <3>. QED  BY <3>1, <3>3
  <2>3. ASSUME NEW j \in Buckets
        PROVE  /\ stage[j] \in {"starting", "waiting", "unstarted"} =>
                     at'[j] = 0 /\ \A f \in FilesIn(j) : outcome'[f] = "none"
               /\ \A f \in FilesIn(j), w \in DOMAIN ProjectWaves :
                     ProjectOf[f] \in ProjectWaves[w] /\ (w < at'[j] \/ stage[j] = "fulfilled") =>
                         outcome'[f] # "none"
    <3>1. CASE j = i
      BY <2>2, <3>1
    <3>2. CASE j # i
      BY <1>2, <1>4, <2>1, <3>2 DEF ProgressInv
    <3>. QED  BY <3>1, <3>2
  <2>. QED  BY <1>1, <2>3 DEF ProgressInv
<1>. QED  BY <1>5, <1>6, <1>7 DEF BucketsInv

LEMMA WaveStepInv ==
    ASSUME NEW i \in Buckets, BucketsInv, NextWave(i) \/ Decide(i)
    PROVE  BucketsInv'
<1>1. BucketsTypeOK /\ stage[i] = "running"
  BY DEF BucketsInv, NextWave, Decide
<1>2. LostSoFar(i) \subseteq Projects
  BY <1>1, BucketsAssumption DEF LostSoFar, BucketsTypeOK, FilesIn
<1>3. CASE NextWave(i)
  <2>. DEFINE skip == {p \in BucketWaves(i)[at[i] + 1] : Dependencies[p] \cap LostSoFar(i) # {}}
  <2>1. /\ at[i] < Len(ProjectWaves) /\ WaveDecided(i)
        /\ at' = [at EXCEPT ![i] = @ + 1]
        /\ UNCHANGED <<stage, barrierVars, returnVars>>
        /\ lost' = [lost EXCEPT ![i] = LostSoFar(i) \cup skip]
        /\ outcome' = [f \in Files |-> IF ProjectOf[f] \in skip THEN "skipped" ELSE outcome[f]]
    BY <1>3 DEF NextWave
  <2>2. at[i] + 1 \in DOMAIN ProjectWaves
    BY <1>1, <2>1, BucketsAssumption, LenProperties DEF BucketsTypeOK
  <2>3. skip \subseteq ProjectsIn(i)
    BY <2>2 DEF BucketWaves
  <2>4. skip \subseteq Projects /\ \A f \in Files : ProjectOf[f] \in skip => f \in FilesIn(i)
    BY <2>3 DEF ProjectsIn, FilesIn
  <2>. HIDE DEF skip
  <2>5. outcome' \in [Files -> Outcomes] /\ lost' \in [Buckets -> SUBSET Projects]
    BY <1>1, <1>2, <2>1, <2>4 DEF BucketsTypeOK, Outcomes
  <2>6. /\ \A f \in Files : outcome[f] # "none" => outcome'[f] # "none"
        /\ \A f \in Files \ FilesIn(i) : outcome'[f] = outcome[f]
    BY <2>1, <2>4
  <2>. QED  BY <1>1, <2>1, <2>5, <2>6, WavesMoved
<1>4. CASE Decide(i)
  <2>1. PICK f \in FilesIn(i), verdict \in {"passed", "failed"} :
           outcome' = [outcome EXCEPT ![f] = verdict]
    BY <1>4 DEF Decide
  <2>2. at' = at /\ lost' = lost /\ UNCHANGED <<stage, barrierVars, returnVars>>
    BY <1>4 DEF Decide
  <2>3. outcome' \in [Files -> Outcomes] /\ lost' \in [Buckets -> SUBSET Projects]
    BY <1>1, <2>1, <2>2 DEF BucketsTypeOK, Outcomes
  <2>4. /\ \A g \in Files : outcome[g] # "none" => outcome'[g] # "none"
        /\ \A g \in Files \ FilesIn(i) : outcome'[g] = outcome[g]
    BY <1>1, <2>1 DEF BucketsTypeOK
  <2>. QED  BY <1>1, <2>2, <2>3, <2>4, WavesMoved
<1>. QED  BY <1>3, <1>4

\* A file of a bucket that ran has its outcome and no start failure; a file of a
\* bucket that did not start has the start failure alone.
LEMMA ReturnedOnce ==
    ASSUME BucketsInv, Return, NEW f \in Files
    PROVE  \/ /\ BucketOf[ProjectOf[f]] \in startFailures
              /\ tests'[f] = <<"failed">>
           \/ /\ stage[BucketOf[ProjectOf[f]]] = "fulfilled"
              /\ outcome[f] \in {"passed", "failed", "skipped"}
              /\ tests'[f] = <<outcome[f]>>
<1>. DEFINE b == BucketOf[ProjectOf[f]]
<1>1. b \in Buckets /\ f \in FilesIn(b) /\ ProjectOf[f] \in Projects
  BY BucketsAssumption DEF FilesIn
<1>2. /\ \A j \in Buckets : stage[j] \in {"fulfilled", "unstarted"}
      /\ startFailures # Buckets
      /\ tests'[f] = startResults[f] \o (IF stage[b] = "fulfilled" THEN <<outcome[f]>> ELSE <<>>)
  BY DEF Return, Settled
<1>. HIDE DEF b
<1>3. BucketsTypeOK /\ BarrierInv /\ StartInv /\ ProgressInv
  BY DEF BucketsInv
<1>4. released
  BY <1>2, <1>3 DEF BarrierInv
<1>5. startResults[f] = IF b \in startFailures THEN <<"failed">> ELSE <<>>
  BY <1>2, <1>3, <1>4 DEF StartInv, b
<1>6. CASE stage[b] = "fulfilled"
  <2>1. b \notin startFailures
    BY <1>1, <1>3, <1>6 DEF BarrierInv
  <2>2. PICK w \in DOMAIN ProjectWaves : ProjectOf[f] \in ProjectWaves[w]
    BY <1>1, BucketsAssumption
  <2>3. outcome[f] \in {"passed", "failed", "skipped"}
    BY <1>1, <1>3, <1>6, <2>2 DEF ProgressInv, BucketsTypeOK, Outcomes
  <2>4. tests'[f] = <<>> \o <<outcome[f]>>
    BY <1>2, <1>5, <1>6, <2>1
  <2>. QED  BY <1>6, <2>3, <2>4 DEF b
<1>7. CASE stage[b] = "unstarted"
  <2>1. b \in startFailures
    BY <1>1, <1>3, <1>7 DEF BarrierInv
  <2>2. tests'[f] = <<"failed">> \o <<>>
    BY <1>2, <1>5, <1>7, <2>1
  <2>. QED  BY <2>1, <2>2 DEF b
<1>. QED  BY <1>1, <1>2, <1>6, <1>7

LEMMA CoordinatorStepInv ==
    ASSUME BucketsInv, Throw \/ Return
    PROVE  BucketsInv'
<1>1. /\ UNCHANGED <<stage, arrived, released, startFailures, startResults, at, outcome, lost>>
      /\ coordinator' \in {"returned", "threw"}
      /\ \A i \in Buckets : stage[i] \in Settled
  BY DEF Throw, Return, barrierVars, waveVars, Settled
<1>2. BucketsTypeOK /\ BarrierInv /\ StartInv /\ ProgressInv /\ ReturnInv
  BY DEF BucketsInv
<1>3. BucketsTypeOK'
  BY <1>1, <1>2 DEF BucketsTypeOK
<1>4. BarrierInv' /\ StartInv' /\ ProgressInv'
  BY <1>1, <1>2 DEF BarrierInv, StartInv, ProgressInv
<1>5. CASE Throw
  <2>1. coordinator' = "threw" /\ tests' = tests /\ status' = status
    BY <1>5 DEF Throw
  <2>2. ReturnInv'
    BY <1>1, <1>2, <2>1 DEF ReturnInv
  <2>. QED  BY <1>3, <1>4, <2>2 DEF BucketsInv
<1>6. CASE Return
  <2>1. \A f \in Files : \E r \in {"passed", "failed", "skipped"} : tests'[f] = <<r>>
    BY <1>6, ReturnedOnce
  <2>2. ASSUME status' = "passed", NEW f \in Files
        PROVE  tests'[f] \in {<<"passed">>, <<"skipped">>}
    <3>1. startFailures = {} /\ MergedStatus = "passed"
      BY <1>6, <2>2 DEF Return
    <3>2. ~(stage[BucketOf[ProjectOf[f]]] = "fulfilled" /\ outcome[f] = "failed")
      BY <2>2, <3>1 DEF MergedStatus
    <3>. QED  BY <1>6, <3>1, <3>2, ReturnedOnce
  <2>3. ReturnInv'
    BY <1>1, <2>1, <2>2 DEF ReturnInv
  <2>. QED  BY <1>3, <1>4, <2>3 DEF BucketsInv
<1>. QED  BY <1>5, <1>6

LEMMA BucketsStutter == BucketsInv /\ UNCHANGED bucketVars => BucketsInv'
<1>. SUFFICES ASSUME BucketsInv, UNCHANGED bucketVars PROVE BucketsInv'
  OBVIOUS
<1>1. UNCHANGED <<stage, arrived, released, startFailures, startResults, at, outcome, lost,
                  coordinator, tests, status>>
  BY DEF bucketVars, barrierVars, waveVars, returnVars
<1>. QED
  BY <1>1 DEF BucketsInv, BucketsTypeOK, BarrierInv, StartInv, ProgressInv, ReturnInv

LEMMA BucketsStep == BucketsInv /\ [BucketsNext]_bucketVars => BucketsInv'
<1>. SUFFICES ASSUME BucketsInv, [BucketsNext]_bucketVars PROVE BucketsInv'
  OBVIOUS
<1>1. ASSUME NEW i \in Buckets, BucketStep(i) \/ Breaks(i) PROVE BucketsInv'
  BY <1>1, BarrierStepInv, StageStepInv, WaveStepInv DEF BucketStep
<1>2. CASE Throw \/ Return
  BY <1>2, CoordinatorStepInv
<1>3. CASE Terminated \/ UNCHANGED bucketVars
  BY <1>3, BucketsStutter DEF Terminated
<1>. QED  BY <1>1, <1>2, <1>3 DEF BucketsNext

LEMMA BucketsFromInv == BucketsInv => BucketsAccounted
<1>. SUFFICES ASSUME BucketsInv PROVE BucketsAccounted
  OBVIOUS
<1>1. BarrierHolds
  <2>. SUFFICES ASSUME NEW k \in Buckets, stage[k] = "starting"
                PROVE  /\ \A i \in Buckets : stage[i] \notin {"running", "fulfilled"} /\ at[i] = 0
                       /\ \A f \in Files : outcome[f] = "none" /\ startResults[f] = <<>>
    BY DEF BarrierHolds
  <2>1. ~released
    BY DEF BucketsInv, BarrierInv
  <2>2. \A i \in Buckets : stage[i] \notin {"running", "fulfilled"}
    BY <2>1 DEF BucketsInv, BarrierInv
  <2>3. \A i \in Buckets : stage[i] \in {"starting", "waiting", "unstarted"}
    BY <2>1, <2>2 DEF BucketsInv, BucketsTypeOK, BarrierInv, Stages
  <2>4. ASSUME NEW f \in Files PROVE f \in FilesIn(BucketOf[ProjectOf[f]]) /\ BucketOf[ProjectOf[f]] \in Buckets
    BY BucketsAssumption DEF FilesIn
  <2>5. \A f \in Files : outcome[f] = "none" /\ startResults[f] = <<>>
    BY <2>1, <2>3, <2>4 DEF BucketsInv, ProgressInv, StartInv
  <2>6. \A i \in Buckets : stage[i] \notin {"running", "fulfilled"} /\ at[i] = 0
    BY <2>2, <2>3 DEF BucketsInv, ProgressInv
  <2>. QED  BY <2>5, <2>6
<1>2. EveryFileReportedOnce
  BY DEF BucketsInv, ReturnInv, EveryFileReportedOnce
<1>. QED  BY <1>1, <1>2 DEF BucketsAccounted

(***************************************************************************)
(* However the starts and the deaths of the device targets interleave, no  *)
(* target dispatches before all have started or failed to, and a run that  *)
(* returns has reported every file exactly once (coordinateBuckets).       *)
(***************************************************************************)
THEOREM BucketsReport == BucketsSpec => []BucketsAccounted
<1>1. BucketsSpec => []BucketsInv
  BY BucketsInvInit, BucketsStep, PTL DEF BucketsSpec
<1>. QED  BY <1>1, BucketsFromInv, PTL

-----------------------------------------------------------------------------
(* Projects wait for their dependencies.                                   *)

LEMMA NeedsIn == ASSUME NEW p \in Projects PROVE Needs[p] \subseteq Projects
BY DEF Needs

\* A project needs its dependencies and what they need.
LEMMA NeedsDependencies ==
    ASSUME NEW p \in Projects, NEW d \in OwnDependencies(p)
    PROVE  d \in Projects /\ d \in Needs[p] /\ Needs[d] \subseteq Needs[p]
<1>1. d \in Projects
  BY BucketsAssumption DEF OwnDependencies
<1>2. d \in Needs[p]
  BY <1>1 DEF Needs
<1>3. ASSUME NEW q \in Needs[d] PROVE q \in Needs[p]
  <2>1. q \in Projects
    BY <1>1, <1>3, NeedsIn
  <2>2. ASSUME NEW S \in SUBSET Projects, OwnDependencies(p) \subseteq S, DependsWithin(S)
        PROVE  q \in S
    <3>1. OwnDependencies(d) \subseteq S
      BY <2>2 DEF DependsWithin
    <3>. QED  BY <1>1, <1>3, <2>2, <3>1 DEF Needs
  <2>. QED  BY <2>1, <2>2 DEF Needs
<1>. QED  BY <1>1, <1>2, <1>3

\* And nothing else.
LEMMA NeedsOnly ==
    ASSUME NEW p \in Projects, NEW q \in Needs[p]
    PROVE  \E d \in OwnDependencies(p) : q = d \/ q \in Needs[d]
<1>. DEFINE S == {r \in Projects : \E d \in OwnDependencies(p) : r = d \/ r \in Needs[d]}
<1>1. OwnDependencies(p) \subseteq S
  BY NeedsDependencies
<1>2. ASSUME NEW r \in S, NEW e \in OwnDependencies(r) PROVE e \in S
  <2>1. r \in Projects /\ e \in Projects /\ e \in Needs[r]
    BY <1>2, NeedsDependencies
  <2>2. PICK d \in OwnDependencies(p) : r = d \/ r \in Needs[d]
    BY <1>2
  <2>3. d \in Projects
    BY NeedsDependencies
  <2>4. CASE r = d
    BY <2>1, <2>2, <2>4
  <2>5. CASE r \in Needs[d]
    <3>1. ASSUME NEW T \in SUBSET Projects, OwnDependencies(d) \subseteq T, DependsWithin(T)
          PROVE  e \in T
      <4>1. r \in T
        BY <2>3, <2>5, <3>1 DEF Needs
      <4>. QED  BY <1>2, <3>1, <4>1 DEF DependsWithin
    <3>2. e \in Needs[d]
      BY <2>1, <2>3, <3>1 DEF Needs
    <3>. QED  BY <2>1, <2>2, <3>2
  <2>. QED  BY <2>2, <2>4, <2>5
<1>3. DependsWithin(S)
  BY <1>2 DEF DependsWithin
<1>4. q \in S
  <2>1. S \in SUBSET Projects
    OBVIOUS
  <2>. HIDE DEF S
  <2>. QED  BY <1>1, <1>3, <2>1 DEF Needs
<1>. QED  BY <1>4

\* Waves ahead are untouched.  Of a project of a wave begun, either it is lost, which
\* it is for something it needs or for a failure of its own, and then all its files
\* are decided; or everything it needs has passed.
BlamedOn(p, g) == outcome[g] = "failed" /\ (ProjectOf[g] = p \/ ProjectOf[g] \in Needs[p])
AheadInv ==
    \A f \in Files : \A w \in DOMAIN ProjectWaves :
        w > at[BucketOf[ProjectOf[f]]] /\ ProjectOf[f] \in ProjectWaves[w] => outcome[f] = "none"
LostInv ==
    \A i \in Buckets : \A p \in lost[i] :
        /\ p \in ProjectsIn(i)
        /\ \E g \in Files : BlamedOn(p, g)
        /\ \A f \in Files : ProjectOf[f] = p => outcome[f] # "none"
SkippedInv == \A f \in Files : outcome[f] = "skipped" => ProjectOf[f] \in lost[BucketOf[ProjectOf[f]]]
BegunInv ==
    \A w \in DOMAIN ProjectWaves : \A p \in ProjectWaves[w] \cap Projects :
        w <= at[BucketOf[p]] =>
            \/ p \in lost[BucketOf[p]]
            \/ \A g \in Files : ProjectOf[g] \in Needs[p] => outcome[g] = "passed"
OrderInv == AheadInv /\ LostInv /\ SkippedInv /\ BegunInv /\ OwnDependenciesFirst

LEMMA OrderInit == BucketsInit => OrderInv
<1>. SUFFICES ASSUME BucketsInit PROVE OrderInv
  OBVIOUS
<1>1. DOMAIN ProjectWaves = 1..Len(ProjectWaves) /\ Len(ProjectWaves) \in Nat
  BY BucketsAssumption, LenProperties
<1>2. /\ \A i \in Buckets : lost[i] = {} /\ at[i] = 0
      /\ \A f \in Files : outcome[f] = "none"
  BY DEF BucketsInit
<1>3. \A p \in Projects : BucketOf[p] \in Buckets
  BY BucketsAssumption
<1>4. \A w \in DOMAIN ProjectWaves : ~(w <= 0)
  BY <1>1
<1>5. BegunInv
  BY <1>2, <1>3, <1>4 DEF BegunInv
<1>. QED  BY <1>2, <1>5 DEF OrderInv, AheadInv, LostInv, SkippedInv, OwnDependenciesFirst

LEMMA OrderStutter == OrderInv /\ UNCHANGED waveVars => OrderInv'
BY DEF OrderInv, AheadInv, LostInv, SkippedInv, BegunInv, OwnDependenciesFirst, FilesNeeded, BlamedOn, waveVars

\* A file decided in the current wave is one whose needs have all passed.
LEMMA OrderDecide ==
    ASSUME NEW i \in Buckets, BucketsInv, OrderInv, Decide(i)
    PROVE  OrderInv'
<1>1. PICK f \in FilesIn(i), verdict \in {"passed", "failed"} :
         /\ ProjectOf[f] \in ProjectWaves[at[i]] /\ outcome[f] = "none"
         /\ outcome' = [outcome EXCEPT ![f] = verdict]
  BY DEF Decide
<1>2. at[i] > 0 /\ at' = at /\ lost' = lost /\ BucketsTypeOK
  BY DEF Decide, BucketsInv
<1>3. f \in Files /\ ProjectOf[f] \in Projects /\ BucketOf[ProjectOf[f]] = i /\ at[i] \in DOMAIN ProjectWaves
  BY <1>2, BucketsAssumption, LenProperties DEF FilesIn, BucketsTypeOK
<1>4. outcome'[f] = verdict /\ \A g \in Files \ {f} : outcome'[g] = outcome[g]
  BY <1>1, <1>2, <1>3 DEF BucketsTypeOK
<1>5. \A g \in Files : outcome[g] # "none" => outcome'[g] = outcome[g]
  BY <1>1, <1>4
<1>6. at[i] \in Nat
  BY <1>2 DEF BucketsTypeOK
<1>7. \A g \in FilesNeeded(f) : outcome[g] = "passed" /\ outcome'[g] = "passed"
  <2>1. ProjectOf[f] \notin lost[i]
    BY <1>1, <1>3 DEF OrderInv, LostInv
  <2>2. \A g \in FilesNeeded(f) : outcome[g] = "passed"
    BY <1>1, <1>3, <1>6, <2>1 DEF OrderInv, BegunInv, FilesNeeded
  <2>. QED  BY <1>5, <2>2 DEF FilesNeeded
<1>8. AheadInv'
  <2>. SUFFICES ASSUME NEW g \in Files, NEW w \in DOMAIN ProjectWaves,
                       w > at[BucketOf[ProjectOf[g]]], ProjectOf[g] \in ProjectWaves[w]
                PROVE  outcome'[g] = "none"
    BY <1>2 DEF AheadInv
  <2>1. outcome[g] = "none"
    BY DEF OrderInv, AheadInv
  <2>2. g # f
    BY <1>1, <1>3, <1>6, BucketsAssumption
  <2>. QED  BY <1>4, <2>1, <2>2
<1>9. LostInv'
  <2>. SUFFICES ASSUME NEW j \in Buckets, NEW p \in lost[j]
                PROVE  /\ p \in ProjectsIn(j)
                       /\ \E g \in Files : BlamedOn(p, g)'
                       /\ \A g \in Files : ProjectOf[g] = p => outcome'[g] # "none"
    BY <1>2 DEF LostInv
  <2>1. PICK g \in Files : BlamedOn(p, g)
    BY DEF OrderInv, LostInv
  <2>2. BlamedOn(p, g)'
    BY <1>5, <2>1 DEF BlamedOn
  <2>. QED  BY <1>5, <2>2 DEF OrderInv, LostInv
<1>10. SkippedInv'
  BY <1>1, <1>2, <1>4 DEF OrderInv, SkippedInv
<1>11. BegunInv'
  BY <1>2, <1>5 DEF OrderInv, BegunInv
<1>12. OwnDependenciesFirst'
  <2>. SUFFICES ASSUME NEW g \in Files
                PROVE  /\ outcome'[g] \in {"passed", "failed"} => \A h \in FilesNeeded(g) : outcome'[h] = "passed"
                       /\ outcome'[g] = "skipped" => \E h \in FilesNeeded(g) : outcome'[h] = "failed"
    BY DEF OwnDependenciesFirst, FilesNeeded
  <2>1. CASE g = f
    BY <1>1, <1>4, <1>7, <2>1
  <2>2. CASE g # f
    BY <1>4, <1>5, <2>2 DEF OrderInv, OwnDependenciesFirst, FilesNeeded
  <2>. QED  BY <2>1, <2>2
<1>. QED  BY <1>8, <1>9, <1>10, <1>11, <1>12 DEF OrderInv

\* Everything a wave behind or at the current one holds is decided with it.
LEMMA WaveBehind ==
    ASSUME NEW i \in Buckets, BucketsInv, AheadInv, WaveDecided(i), NEW g \in FilesIn(i), outcome[g] # "none",
           NEW f \in FilesIn(i), ProjectOf[f] = ProjectOf[g]
    PROVE  outcome[f] # "none"
<1>1. PICK w \in DOMAIN ProjectWaves : ProjectOf[g] \in ProjectWaves[w]
  BY BucketsAssumption DEF FilesIn
<1>2. g \in Files /\ f \in Files /\ BucketOf[ProjectOf[g]] = i
  BY DEF FilesIn
<1>3. at[i] \in Nat /\ w \in Nat /\ w > 0
  BY <1>1, BucketsAssumption, LenProperties DEF BucketsInv, BucketsTypeOK
<1>4. ~(w > at[i])
  BY <1>1, <1>2 DEF AheadInv
<1>5. CASE w = at[i]
  BY <1>1, <1>3, <1>5 DEF WaveDecided
<1>6. CASE w < at[i]
  BY <1>1, <1>6 DEF BucketsInv, ProgressInv
<1>. QED  BY <1>3, <1>4, <1>5, <1>6

\* A dependency on the target is in a wave behind: lost, or it and all it needs passed.
LEMMA BehindPassed ==
    ASSUME NEW i \in Buckets, BucketsInv, OrderInv, WaveDecided(i),
           NEW w \in DOMAIN ProjectWaves, w <= at[i] + 1,
           NEW p \in ProjectWaves[w] \cap ProjectsIn(i), NEW d \in OwnDependencies(p), d \notin LostSoFar(i),
           NEW g \in Files, ProjectOf[g] = d \/ ProjectOf[g] \in Needs[d]
    PROVE  outcome[g] = "passed"
<1>1. /\ p \in Projects /\ BucketOf[p] = i /\ d \in Projects /\ BucketOf[d] = i /\ d \in Dependencies[p]
      /\ d \notin lost[i] /\ \A h \in FilesIn(i) : outcome[h] = "failed" => ProjectOf[h] # d
  BY NeedsDependencies DEF ProjectsIn, OwnDependencies, LostSoFar
<1>2. PICK v \in 1..w - 1 : d \in ProjectWaves[v]
  BY <1>1, BucketsAssumption
<1>3. at[i] \in Nat /\ w \in Nat /\ v \in DOMAIN ProjectWaves /\ v <= at[i] /\ v > 0
  BY <1>2, BucketsAssumption, LenProperties DEF BucketsInv, BucketsTypeOK
<1>4. CASE ProjectOf[g] \in Needs[d]
  BY <1>1, <1>2, <1>3, <1>4 DEF OrderInv, BegunInv
<1>5. CASE ProjectOf[g] = d
  <2>1. g \in FilesIn(i)
    BY <1>1, <1>5 DEF FilesIn
  <2>2. outcome[g] # "none"
    <3>1. CASE v = at[i]
      BY <1>2, <1>3, <1>5, <2>1, <3>1 DEF WaveDecided
    <3>2. CASE v < at[i]
      BY <1>2, <1>3, <1>5, <2>1, <3>2 DEF BucketsInv, ProgressInv
    <3>. QED  BY <1>3, <3>1, <3>2
  <2>3. outcome[g] # "skipped" /\ outcome[g] # "failed"
    BY <1>1, <1>5, <2>1 DEF OrderInv, SkippedInv
  <2>. QED  BY <2>2, <2>3 DEF BucketsInv, BucketsTypeOK, Outcomes
<1>. QED  BY <1>4, <1>5

\* The next wave: what depends on a lost project is skipped for what that one was.
LEMMA OrderNextWave ==
    ASSUME NEW i \in Buckets, BucketsInv, OrderInv, NextWave(i)
    PROVE  OrderInv'
<1>. DEFINE wave == at[i] + 1
            skip == {p \in BucketWaves(i)[wave] : Dependencies[p] \cap LostSoFar(i) # {}}
<1>1. /\ at[i] < Len(ProjectWaves) /\ WaveDecided(i)
      /\ at' = [at EXCEPT ![i] = @ + 1]
      /\ lost' = [lost EXCEPT ![i] = LostSoFar(i) \cup skip]
      /\ outcome' = [f \in Files |-> IF ProjectOf[f] \in skip THEN "skipped" ELSE outcome[f]]
      /\ BucketsTypeOK
  BY DEF NextWave, BucketsInv
<1>2. /\ at[i] \in Nat /\ wave \in DOMAIN ProjectWaves /\ DOMAIN ProjectWaves \subseteq Nat
      /\ BucketWaves(i)[wave] = ProjectWaves[wave] \cap ProjectsIn(i)
  BY <1>1, BucketsAssumption, LenProperties DEF BucketsTypeOK, BucketWaves
<1>3. ASSUME NEW p \in LostSoFar(i)
      PROVE  /\ p \in ProjectsIn(i)
             /\ \E g \in Files : BlamedOn(p, g)
             /\ \A f \in Files : ProjectOf[f] = p => outcome[f] # "none"
  <2>1. CASE p \in lost[i]
    BY <2>1 DEF OrderInv, LostInv
  <2>2. CASE p \notin lost[i]
    <3>1. PICK g \in FilesIn(i) : outcome[g] = "failed" /\ p = ProjectOf[g]
      BY <1>3, <2>2 DEF LostSoFar
    <3>2. g \in Files /\ p \in ProjectsIn(i)
      BY <3>1, BucketsAssumption DEF FilesIn, ProjectsIn
    <3>3. \A f \in Files : ProjectOf[f] = p => outcome[f] # "none"
      BY <1>1, <3>1, WaveBehind DEF OrderInv, FilesIn
    <3>. QED  BY <3>1, <3>2, <3>3 DEF BlamedOn
  <2>. QED  BY <2>1, <2>2
<1>4. ASSUME NEW p \in skip
      PROVE  /\ p \in ProjectsIn(i) /\ p \in Projects /\ BucketOf[p] = i /\ p \in ProjectWaves[wave]
             /\ \E g \in Files : outcome[g] = "failed" /\ ProjectOf[g] \in Needs[p]
  <2>1. p \in ProjectsIn(i) /\ p \in Projects /\ BucketOf[p] = i /\ p \in ProjectWaves[wave]
    BY <1>2 DEF ProjectsIn
  <2>2. PICK d \in Dependencies[p] : d \in LostSoFar(i)
    OBVIOUS
  <2>3. d \in OwnDependencies(p)
    BY <1>3, <2>1, <2>2 DEF OwnDependencies, ProjectsIn
  <2>4. PICK g \in Files : BlamedOn(d, g)
    BY <1>3, <2>2
  <2>5. ProjectOf[g] \in Needs[p]
    BY <2>1, <2>3, <2>4, NeedsDependencies DEF BlamedOn
  <2>. QED  BY <2>1, <2>4, <2>5 DEF BlamedOn
<1>5. \A p \in Projects : BucketOf[p] = i => (p \in BucketWaves(i)[wave] <=> p \in ProjectWaves[wave])
  BY <1>2 DEF ProjectsIn
<1>6. \A p \in BucketWaves(i)[wave] : p \notin skip => Dependencies[p] \cap LostSoFar(i) = {}
  OBVIOUS
<1>. HIDE DEF skip
<1>7. /\ at'[i] = wave /\ lost'[i] = LostSoFar(i) \cup skip /\ lost[i] \subseteq LostSoFar(i)
      /\ \A j \in Buckets \ {i} : at'[j] = at[j] /\ lost'[j] = lost[j]
      /\ \A f \in Files : ProjectOf[f] \in skip => outcome'[f] = "skipped"
      /\ \A f \in Files : ProjectOf[f] \notin skip => outcome'[f] = outcome[f]
  BY <1>1 DEF BucketsTypeOK, LostSoFar
<1>8. /\ \A f \in Files : ProjectOf[f] \in skip => outcome[f] = "none"
      /\ \A f \in Files : outcome[f] # "none" => outcome'[f] = outcome[f]
  <2>1. ASSUME NEW f \in Files, ProjectOf[f] \in skip PROVE outcome[f] = "none"
    <3>1. BucketOf[ProjectOf[f]] = i /\ ProjectOf[f] \in ProjectWaves[wave]
      BY <1>4, <2>1
    <3>2. wave > at[i]
      BY <1>2
    <3>. QED  BY <1>2, <3>1, <3>2 DEF OrderInv, AheadInv
  <2>. QED  BY <1>7, <2>1
<1>9. \A f \in Files : ProjectOf[f] \in Projects /\ BucketOf[ProjectOf[f]] \in Buckets
  BY BucketsAssumption
<1>10. AheadInv'
  <2>. SUFFICES ASSUME NEW f \in Files, NEW w \in DOMAIN ProjectWaves,
                       w > at'[BucketOf[ProjectOf[f]]], ProjectOf[f] \in ProjectWaves[w]
                PROVE  outcome'[f] = "none"
    BY DEF AheadInv
  <2>1. w > at[BucketOf[ProjectOf[f]]]
    BY <1>2, <1>7, <1>9
  <2>2. outcome[f] = "none"
    BY <2>1 DEF OrderInv, AheadInv
  <2>3. ProjectOf[f] \notin skip
    <3>. SUFFICES ASSUME ProjectOf[f] \in skip PROVE FALSE
      OBVIOUS
    <3>1. BucketOf[ProjectOf[f]] = i /\ ProjectOf[f] \in ProjectWaves[wave]
      BY <1>4
    <3>2. w > wave
      BY <1>7, <3>1
    <3>. QED  BY <1>2, <3>1, <3>2, BucketsAssumption
  <2>. QED  BY <1>7, <2>2, <2>3
<1>11. LostInv'
  <2>. SUFFICES ASSUME NEW j \in Buckets, NEW p \in lost'[j]
                PROVE  /\ p \in ProjectsIn(j)
                       /\ \E g \in Files : BlamedOn(p, g)'
                       /\ \A f \in Files : ProjectOf[f] = p => outcome'[f] # "none"
    BY DEF LostInv
  <2>1. CASE j = i /\ p \in skip
    <3>1. PICK g \in Files : outcome[g] = "failed" /\ ProjectOf[g] \in Needs[p]
      BY <1>4, <2>1
    <3>2. BlamedOn(p, g)'
      BY <1>8, <3>1 DEF BlamedOn
    <3>. QED  BY <1>4, <1>7, <2>1, <3>2
  <2>2. CASE ~(j = i /\ p \in skip)
    <3>1. /\ p \in ProjectsIn(j)
          /\ \E g \in Files : BlamedOn(p, g)
          /\ \A f \in Files : ProjectOf[f] = p => outcome[f] # "none"
      BY <1>3, <1>7, <2>2 DEF OrderInv, LostInv
    <3>2. PICK g \in Files : BlamedOn(p, g)
      BY <3>1
    <3>3. BlamedOn(p, g)'
      BY <1>8, <3>2 DEF BlamedOn
    <3>. QED  BY <1>8, <3>1, <3>3
  <2>. QED  BY <2>1, <2>2
<1>12. SkippedInv'
  <2>. SUFFICES ASSUME NEW f \in Files, outcome'[f] = "skipped"
                PROVE  ProjectOf[f] \in lost'[BucketOf[ProjectOf[f]]]
    BY DEF SkippedInv
  <2>1. CASE ProjectOf[f] \in skip
    BY <1>4, <1>7, <2>1
  <2>2. CASE ProjectOf[f] \notin skip
    BY <1>7, <1>9, <2>2 DEF OrderInv, SkippedInv
  <2>. QED  BY <2>1, <2>2
<1>13. BegunInv'
  <2>. SUFFICES ASSUME NEW w \in DOMAIN ProjectWaves, NEW p \in ProjectWaves[w] \cap Projects,
                       w <= at'[BucketOf[p]], p \notin lost'[BucketOf[p]],
                       NEW g \in Files, ProjectOf[g] \in Needs[p]
                PROVE  outcome'[g] = "passed"
    BY DEF BegunInv
  <2>1. BucketOf[p] \in Buckets
    BY BucketsAssumption
  <2>2. CASE w <= at[BucketOf[p]]
    <3>1. p \notin lost[BucketOf[p]]
      BY <1>7, <2>1
    <3>2. outcome[g] = "passed"
      BY <2>2, <3>1 DEF OrderInv, BegunInv
    <3>. QED  BY <1>8, <3>2
  <2>3. CASE ~(w <= at[BucketOf[p]])
    <3>1. BucketOf[p] = i /\ w = wave
      BY <1>1, <1>2, <1>7, <2>1, <2>3 DEF BucketsTypeOK
    <3>2. p \in ProjectsIn(i) /\ p \notin skip /\ p \in BucketWaves(i)[wave]
      BY <1>2, <1>7, <3>1 DEF ProjectsIn
    <3>3. PICK d \in OwnDependencies(p) : ProjectOf[g] = d \/ ProjectOf[g] \in Needs[d]
      BY NeedsOnly
    <3>4. d \notin LostSoFar(i)
      BY <1>6, <3>2, <3>3 DEF OwnDependencies
    <3>5. outcome[g] = "passed"
      BY <1>1, <1>2, <3>1, <3>2, <3>3, <3>4, BehindPassed
    <3>. QED  BY <1>8, <3>5
  <2>. QED  BY <2>2, <2>3
<1>14. OwnDependenciesFirst'
  <2>. SUFFICES ASSUME NEW f \in Files
                PROVE  /\ outcome'[f] \in {"passed", "failed"} => \A g \in FilesNeeded(f) : outcome'[g] = "passed"
                       /\ outcome'[f] = "skipped" => \E g \in FilesNeeded(f) : outcome'[g] = "failed"
    BY DEF OwnDependenciesFirst, FilesNeeded
  <2>1. CASE ProjectOf[f] \in skip
    <3>1. PICK g \in Files : outcome[g] = "failed" /\ ProjectOf[g] \in Needs[ProjectOf[f]]
      BY <1>4, <2>1
    <3>. QED  BY <1>7, <1>8, <2>1, <3>1 DEF FilesNeeded
  <2>2. CASE ProjectOf[f] \notin skip
    <3>1. outcome'[f] = outcome[f]
      BY <1>7, <2>2
    <3>. QED  BY <1>8, <3>1 DEF OrderInv, OwnDependenciesFirst, FilesNeeded
  <2>. QED  BY <2>1, <2>2
<1>. QED  BY <1>10, <1>11, <1>12, <1>13, <1>14 DEF OrderInv

LEMMA OrderStep == BucketsInv /\ OrderInv /\ [BucketsNext]_bucketVars => OrderInv'
<1>. SUFFICES ASSUME BucketsInv, OrderInv, [BucketsNext]_bucketVars PROVE OrderInv'
  OBVIOUS
<1>1. ASSUME NEW i \in Buckets, BucketStep(i) \/ Breaks(i)
      PROVE  (NextWave(i) \/ Decide(i)) \/ UNCHANGED waveVars
  BY <1>1 DEF BucketStep, Ready, StartFails, PassBarrier, Finish, Breaks
<1>2. CASE Throw \/ Return \/ Terminated \/ UNCHANGED bucketVars
  BY <1>2, OrderStutter DEF Throw, Return, Terminated, bucketVars
<1>. QED  BY <1>1, <1>2, OrderStutter, OrderDecide, OrderNextWave DEF BucketsNext

(***************************************************************************)
(* On each target, a project is given verdicts only after everything it    *)
(* needs there has passed, and is skipped only when some of that failed,   *)
(* through projects without files too (runParallel's failedProjects, on    *)
(* the waves planMultiBucket cut down to the target).                      *)
(***************************************************************************)
THEOREM BucketsInOrder == BucketsSpec => []OwnDependenciesFirst
<1>1. BucketsSpec => []BucketsInv
  BY BucketsInvInit, BucketsStep, PTL DEF BucketsSpec
<1>2. BucketsSpec => []OrderInv
  BY <1>1, OrderInit, OrderStep, PTL DEF BucketsSpec
<1>3. OrderInv => OwnDependenciesFirst
  BY DEF OrderInv
<1>. QED  BY <1>2, <1>3, PTL

-----------------------------------------------------------------------------
(* Device claims.                                                          *)

Pending == [device : Devices, claim : Claim \cup {NoClaim}]

\* What a process in the middle of a call is, whether or not it has the lock.
CallInv ==
    \A p \in Processes :
        /\ pc[p] # "idle" => alive[p] = "live" /\ job[p].kind # "none"
        /\ pc[p] = "writing" => pending[p] \in Pending /\ pending[p].device \in job[p].todo
        /\ job[p].kind = "release" => job[p].todo \cap drives[p] = {}
        /\ job[p].kind = "drop" => SessionOf[p] \in closing

\* A section runs under the lock, so at most one process is in one.
LockInv ==
    \A p \in Processes : pc[p] \in {"reading", "writing", "unlocking"} => locked[p] /\ lock = p

\* n may replace the claim c of a device in a call of p of the given kind: it
\* keeps the live holders of p's session, and overrides nobody else's.
Sound(p, kind, c, n) ==
    /\ kind = "claim" =>
          /\ n # NoClaim /\ n.session = SessionOf[p] /\ p \in n.holders
          /\ c # NoClaim => \A h \in c.holders : alive[h] = "live" => c.session = SessionOf[p] /\ h \in n.holders
    /\ kind = "release" =>
          /\ c # NoClaim /\ c.session = SessionOf[p]
          /\ \A h \in c.holders : alive[h] = "live" /\ h # p =>
                n # NoClaim /\ n.session = SessionOf[p] /\ h \in n.holders
          /\ n # NoClaim => n.session = SessionOf[p]
    /\ kind = "drop" => c # NoClaim /\ c.session = SessionOf[p] /\ n = NoClaim

\* What is about to be written was decided on the claim that is still there.
WriteInv ==
    \A p \in Processes : pc[p] = "writing" =>
        Sound(p, job[p].kind, claim[pending[p].device], pending[p].claim)

HolderInv ==
    \A p \in Processes : Protected(p) =>
        \A d \in drives[p] : claim[d] # NoClaim /\ claim[d].session = SessionOf[p] /\ p \in claim[d].holders

EnforcedInv == LockInv /\ WriteInv /\ HolderInv

IInv == TypeOK /\ CallInv /\ (enforced => EnforcedInv)

-----------------------------------------------------------------------------
(* Types and calls.                                                        *)

TypeInv == TypeOK /\ CallInv

\* At the start every process is idle and no device is claimed.
LEMMA InitInv == Init => IInv
BY ClaimsAssumption DEF Init, IInv, TypeOK, CallInv, EnforcedInv, LockInv, WriteInv, HolderInv, Protected, NoJob, Job, Claim

\* Starting a call keeps the types, whatever the call.
LEMMA StartType ==
    ASSUME TypeInv, NEW p \in Processes, NEW j \in Job, j.kind # "none", Start(p, j),
           drives' \in [Processes -> SUBSET Devices],
           \A q \in Processes : drives'[q] \subseteq drives[q],
           closing \subseteq closing', closing' \subseteq Sessions,
           j.kind = "release" => j.todo \cap drives'[p] = {},
           j.kind = "drop" => SessionOf[p] \in closing'
    PROVE  TypeInv'
<1>1. TypeOK'
  BY DEF TypeInv, TypeOK, Start
<1>2. CallInv'
  BY DEF TypeInv, TypeOK, CallInv, Start
<1> QED BY <1>1, <1>2 DEF TypeInv

LEMMA StartClaimType == ASSUME TypeInv, NEW p \in Processes, StartClaim(p) PROVE TypeInv'
<1>1. PICK candidates \in (SUBSET Devices) \ {{}}, wanted \in 1..MaxWanted :
         Start(p, [kind |-> "claim", todo |-> candidates, wanted |-> wanted])
  BY DEF StartClaim
<1>2. [kind |-> "claim", todo |-> candidates, wanted |-> wanted] \in Job
  BY ClaimsAssumption DEF Job
<1> QED BY <1>1, <1>2, StartType DEF StartClaim, TypeInv, TypeOK

LEMMA StartReleaseType == ASSUME TypeInv, NEW p \in Processes, StartRelease(p) PROVE TypeInv'
<1>1. PICK d \in drives[p] :
         /\ Start(p, [kind |-> "release", todo |-> {d}, wanted |-> 0])
         /\ drives' = [drives EXCEPT ![p] = @ \ {d}]
         /\ UNCHANGED closing
  BY DEF StartRelease
<1> DEFINE j == [kind |-> "release", todo |-> {d}, wanted |-> 0]
<1>2. d \in Devices
  BY DEF TypeInv, TypeOK
<1>3. j \in Job
  BY <1>2, ClaimsAssumption DEF Job
<1>4. drives' \in [Processes -> SUBSET Devices] /\ \A q \in Processes : drives'[q] \subseteq drives[q]
  BY <1>1 DEF TypeInv, TypeOK
<1>5. j.todo \cap drives'[p] = {}
  BY <1>1 DEF TypeInv, TypeOK
<1>6. closing \subseteq closing' /\ closing' \subseteq Sessions
  BY <1>1 DEF TypeInv, TypeOK
<1>7. j.kind = "release" /\ Start(p, j)
  BY <1>1
<1> HIDE DEF j
<1> QED BY <1>3, <1>4, <1>5, <1>6, <1>7, StartType

LEMMA StartExitType == ASSUME TypeInv, NEW p \in Processes, StartExit(p) PROVE TypeInv'
<1> DEFINE j == [kind |-> "drop", todo |-> {d \in Devices : claim[d] # NoClaim}, wanted |-> 0]
<1>1. j \in Job
  BY ClaimsAssumption DEF Job
<1>2. closing' \subseteq Sessions /\ closing \subseteq closing' /\ SessionOf[p] \in closing'
  <2>1. SessionOf[p] \in Sessions /\ closing \subseteq Sessions
    BY ClaimsAssumption DEF TypeInv, TypeOK
  <2>2. closing' = closing \cup {SessionOf[p]}
    BY DEF StartExit
  <2> QED BY <2>1, <2>2
<1>3. drives' \in [Processes -> SUBSET Devices] /\ \A q \in Processes : drives'[q] \subseteq drives[q]
  BY DEF StartExit, TypeInv, TypeOK
<1>4. Start(p, j)
  BY DEF StartExit
<1>5. j.kind = "drop"
  OBVIOUS
<1> HIDE DEF j
<1> QED BY <1>1, <1>2, <1>3, <1>4, <1>5, StartType

\* The lock: taken, done without, given back.
LEMMA LockType == ASSUME TypeInv, NEW p \in Processes, Lock(p) \/ GiveUp(p) PROVE TypeInv'
BY DEF TypeInv, TypeOK, CallInv, Lock, GiveUp

LEMMA UnlockType == ASSUME TypeInv, NEW p \in Processes, Unlock(p) PROVE TypeInv'
<1>1. NoJob \in Job
  BY ClaimsAssumption DEF NoJob, Job
<1>2. TypeOK'
  BY <1>1 DEF TypeInv, TypeOK, Unlock
<1>3. CallInv'
  BY DEF TypeInv, TypeOK, CallInv, Unlock, NoJob
<1> QED BY <1>2, <1>3 DEF TypeInv

\* Leaving a device alone, and deciding on a claim for it.
LEMMA SkipType ==
    ASSUME TypeInv, NEW p \in Processes, NEW d \in Devices, NEW kind, Section(p, kind, d), Skip(p, d),
           UNCHANGED <<alive, claim, lock, locked, drives, closing, enforced>>
    PROVE  TypeInv'
<1>1. job' \in [Processes -> Job]
  BY DEF TypeInv, TypeOK, Skip, Job
<1>2. TypeOK'
  BY <1>1 DEF TypeInv, TypeOK, Skip
<1>3. CallInv'
  BY DEF TypeInv, TypeOK, CallInv, Skip, Section, Job
<1> QED BY <1>2, <1>3 DEF TypeInv

LEMMA PrepareType ==
    ASSUME TypeInv, NEW p \in Processes, NEW d \in Devices, NEW kind, NEW c \in Claim \cup {NoClaim},
           Section(p, kind, d), Prepare(p, d, c),
           UNCHANGED <<alive, claim, lock, locked, drives, closing, enforced>>
    PROVE  TypeInv'
<1>1. [device |-> d, claim |-> c] \in Pending
  BY DEF Pending
<1>2. TypeOK'
  BY <1>1 DEF TypeInv, TypeOK, Prepare, Pending
<1>3. CallInv'
  BY <1>1 DEF TypeInv, TypeOK, CallInv, Prepare, Section
<1> QED BY <1>2, <1>3 DEF TypeInv

\* The three sections.
LEMMA ReadType ==
    ASSUME TypeInv, NEW p \in Processes, NEW d \in Devices,
           ReadToClaim(p, d) \/ ReadToRelease(p, d) \/ ReadToDrop(p, d)
    PROVE  TypeInv'
<1>1. UNCHANGED <<alive, claim, lock, locked, drives, closing, enforced>>
  BY DEF ReadToClaim, ReadToRelease, ReadToDrop
<1>2. \E kind : Section(p, kind, d)
  BY DEF ReadToClaim, ReadToRelease, ReadToDrop
<1>3. claim[d] # NoClaim => claim[d] \in Claim
  BY DEF TypeInv, TypeOK
<1>4. CASE Skip(p, d)
  BY <1>1, <1>2, <1>4, SkipType
<1>5. CASE Prepare(p, d, NoClaim)
  BY <1>1, <1>2, <1>5, PrepareType
<1>6. CASE ReadToClaim(p, d) /\ ~Skip(p, d)
  <2> DEFINE mine == claim[d] # NoClaim /\ claim[d].session = SessionOf[p]
             hs   == {p} \cup (IF mine THEN LiveHolders(p, claim[d]) ELSE {})
             c    == [session |-> SessionOf[p], holders |-> hs]
  <2>1. Prepare(p, d, c)
    BY <1>6 DEF ReadToClaim
  <2>2. hs \in (SUBSET Processes) \ {{}}
    BY <1>3 DEF Claim, LiveHolders
  <2>3. c \in Claim
    BY <2>2, ClaimsAssumption DEF Claim
  <2> HIDE DEF c
  <2> QED BY <1>1, <1>2, <2>1, <2>3, PrepareType
<1>7. CASE ReadToRelease(p, d) /\ ~Skip(p, d) /\ ~Prepare(p, d, NoClaim)
  <2> DEFINE c == [claim[d] EXCEPT !.holders = LiveHolders(p, claim[d])]
  <2>1. Prepare(p, d, c) /\ claim[d] # NoClaim /\ LiveHolders(p, claim[d]) # {}
    BY <1>7 DEF ReadToRelease
  <2>2. c \in Claim
    BY <1>3, <2>1 DEF Claim, LiveHolders
  <2> HIDE DEF c
  <2> QED BY <1>1, <1>2, <2>1, <2>2, PrepareType
<1>8. ReadToDrop(p, d) => Skip(p, d) \/ Prepare(p, d, NoClaim)
  BY DEF ReadToDrop
<1> QED BY <1>4, <1>5, <1>6, <1>7, <1>8

LEMMA NothingToDropType == ASSUME TypeInv, NEW p \in Processes, NothingToDrop(p) PROVE TypeInv'
BY DEF TypeInv, TypeOK, CallInv, NothingToDrop

\* What a write does to the job, whether it succeeds or not.
LEMMA WriteType == ASSUME TypeInv, NEW p \in Processes, Write(p) PROVE TypeInv'
<1> DEFINE d == pending[p].device
<1>1. d \in Devices /\ pending[p].claim \in Claim \cup {NoClaim} /\ d \in job[p].todo
  BY DEF TypeInv, CallInv, Write, Pending
<1>2. job[p].wanted \in 0..MaxWanted /\ (IF job[p].wanted = 0 THEN 0 ELSE job[p].wanted - 1) \in 0..MaxWanted
  <2>1. job[p] \in Job
    BY DEF TypeInv, TypeOK
  <2>2. job[p].wanted \in 0..MaxWanted
    BY <2>1 DEF Job
  <2> QED BY <2>2, ClaimsAssumption
<1>3. job' \in [Processes -> Job]
  <2> DEFINE w == IF job[p].wanted = 0 THEN 0 ELSE job[p].wanted - 1
             j == [job[p] EXCEPT !.todo = @ \ {d}, !.wanted = w]
  <2>1. job[p] \in Job /\ job \in [Processes -> Job]
    BY DEF TypeInv, TypeOK
  <2>2. w \in 0..MaxWanted
    BY <1>2
  <2>3. job' = [job EXCEPT ![p] = j]
    BY <2>1 DEF Write, Job
  <2> HIDE DEF w
  <2>4. j \in Job
    BY <2>1, <2>2 DEF Job
  <2> HIDE DEF j
  <2> QED BY <2>1, <2>3, <2>4
<1>4. claim' \in [Devices -> Claim \cup {NoClaim}] /\ drives' \in [Processes -> SUBSET Devices] /\ enforced' \in BOOLEAN
  BY <1>1 DEF TypeInv, TypeOK, Write
<1>5. TypeOK'
  BY <1>3, <1>4 DEF TypeInv, TypeOK, Write
<1>6. \A q \in Processes : q # p =>
         pc'[q] = pc[q] /\ job'[q] = job[q] /\ pending'[q] = pending[q] /\ drives'[q] = drives[q]
  BY DEF TypeInv, TypeOK, Write
<1>7. /\ job'[p].kind = job[p].kind /\ job'[p].todo = job[p].todo \ {d}
      /\ pc'[p] # "writing" /\ (job[p].kind # "claim" => drives'[p] = drives[p])
      /\ pc[p] # "idle"
  BY DEF TypeInv, TypeOK, Job, Write
<1>8. alive' = alive /\ closing' = closing
  BY DEF Write
<1>9. CallInv'
  BY <1>6, <1>7, <1>8 DEF TypeInv, CallInv
<1> QED BY <1>5, <1>9 DEF TypeInv

LEMMA DieType == ASSUME TypeInv, NEW p \in Processes, Die(p) PROVE TypeInv'
<1>1. NoJob \in Job /\ NoJob.kind = "none"
  BY ClaimsAssumption DEF NoJob, Job
<1>2. TypeOK'
  BY <1>1 DEF TypeInv, TypeOK, Die
<1>3. CallInv'
  BY <1>1 DEF TypeInv, TypeOK, CallInv, Die
<1> QED BY <1>2, <1>3 DEF TypeInv

LEMMA PidType == ASSUME TypeInv, NEW p \in Processes, Recycle(p) \/ Unmask(p) PROVE TypeInv'
BY DEF TypeInv, TypeOK, CallInv, Recycle, Unmask

\* Every step keeps the types and the shape of the calls.
LEMMA TypeStep == TypeInv /\ [Next]_vars => TypeInv'
<1> SUFFICES ASSUME TypeInv, [Next]_vars PROVE TypeInv'
  OBVIOUS
<1>1. CASE UNCHANGED vars
  BY <1>1 DEF vars, TypeInv, TypeOK, CallInv
<1>2. CASE Next
  <2>1. PICK p \in Processes :
           \/ StartClaim(p) \/ StartRelease(p) \/ StartExit(p) \/ Step(p)
           \/ Die(p) \/ Recycle(p) \/ Unmask(p)
    BY <1>2 DEF Next
  <2>2. CASE Step(p)
    BY <2>2, LockType, UnlockType, WriteType, NothingToDropType, ReadType DEF Step
  <2> QED BY <2>1, <2>2, StartClaimType, StartReleaseType, StartExitType, DieType, PidType
<1> QED BY <1>1, <1>2

-----------------------------------------------------------------------------
(* The lock and the registry, while every section ran under the lock.      *)

Enforced == TypeInv /\ EnforcedInv

\* The one process in a section.
LEMMA OneInSection ==
    ASSUME Enforced, NEW p \in Processes, NEW q \in Processes, p # q,
           pc[p] \in {"reading", "writing", "unlocking"}
    PROVE  pc[q] \notin {"reading", "writing", "unlocking"}
BY DEF Enforced, EnforcedInv, LockInv

\* A call starts outside the lock and takes no device into hand.
LEMMA StartEnforced ==
    ASSUME Enforced, NEW p \in Processes, NEW j, Start(p, j),
           \A q \in Processes : drives'[q] \subseteq drives[q],
           closing \subseteq closing'
    PROVE  EnforcedInv'
<1>1. /\ UNCHANGED <<alive, claim, lock, locked, pending>>
      /\ pc'[p] = "locking" /\ \A q \in Processes : q # p => pc'[q] = pc[q] /\ job'[q] = job[q]
  BY DEF Start, Enforced, TypeInv, TypeOK
<1>2. LockInv'
  BY <1>1 DEF Enforced, EnforcedInv, LockInv
<1>3. WriteInv'
  BY <1>1 DEF Enforced, EnforcedInv, WriteInv, Sound
<1>4. HolderInv'
  BY <1>1 DEF Enforced, EnforcedInv, HolderInv, Protected
<1> QED BY <1>2, <1>3, <1>4 DEF EnforcedInv

LEMMA CallEnforced ==
    ASSUME Enforced, NEW p \in Processes, StartClaim(p) \/ StartRelease(p) \/ StartExit(p)
    PROVE  EnforcedInv'
<1>1. \E j : Start(p, j)
  BY DEF StartClaim, StartRelease, StartExit
<1>2. \A q \in Processes : drives'[q] \subseteq drives[q]
  BY DEF StartClaim, StartRelease, StartExit, Enforced, TypeInv, TypeOK
<1>3. closing \subseteq closing'
  BY DEF StartClaim, StartRelease, StartExit
<1> QED BY <1>1, <1>2, <1>3, StartEnforced

\* Whoever the lock is taken from is dead, so in no section.
LEMMA LockEnforced == ASSUME Enforced, NEW p \in Processes, Lock(p) PROVE EnforcedInv'
<1>1. \A q \in Processes : pc[q] \notin {"reading", "writing", "unlocking"}
  BY ClaimsAssumption DEF Enforced, TypeInv, CallInv, EnforcedInv, LockInv, Lock
<1>2. /\ UNCHANGED <<alive, claim, job, pending, drives, closing>>
      /\ lock' = p /\ locked'[p] /\ pc'[p] = "reading"
      /\ \A q \in Processes : q # p => pc'[q] = pc[q]
  BY DEF Lock, Enforced, TypeInv, TypeOK
<1>3. LockInv'
  BY <1>1, <1>2 DEF LockInv
<1>4. WriteInv'
  BY <1>1, <1>2 DEF WriteInv
<1>5. HolderInv'
  BY <1>2 DEF Enforced, EnforcedInv, HolderInv, Protected
<1> QED BY <1>3, <1>4, <1>5 DEF EnforcedInv

LEMMA UnlockEnforced ==
    ASSUME Enforced, NEW p \in Processes, Unlock(p) \/ NothingToDrop(p)
    PROVE  EnforcedInv'
<1>1. \A q \in Processes : q # p => pc[q] \notin {"reading", "writing", "unlocking"}
  BY OneInSection DEF Unlock, NothingToDrop
<1>2. \A q \in Processes : q # p => pc'[q] \notin {"reading", "writing", "unlocking"}
  BY <1>1 DEF Unlock, NothingToDrop, Enforced, TypeInv, TypeOK
<1>3. pc'[p] \in {"reading", "writing", "unlocking"} => NothingToDrop(p) /\ pc'[p] = "unlocking"
  BY DEF Unlock, NothingToDrop, Enforced, TypeInv, TypeOK
<1>4. LockInv'
  BY <1>2, <1>3 DEF LockInv, NothingToDrop, Enforced, EnforcedInv
<1>5. WriteInv'
  BY <1>2, <1>3 DEF WriteInv
<1>6. HolderInv'
  BY DEF Enforced, EnforcedInv, HolderInv, Protected, Unlock, NothingToDrop
<1> QED BY <1>4, <1>5, <1>6 DEF EnforcedInv

\* A section decides on a claim nobody else can change before it is written.
LEMMA DecideEnforced ==
    ASSUME Enforced, NEW p \in Processes, NEW d \in Devices, pc[p] = "reading",
           UNCHANGED <<alive, claim, lock, locked, drives, closing, enforced>>,
           \/ Skip(p, d)
           \/ \E n : Prepare(p, d, n) /\ Sound(p, job[p].kind, claim[d], n)
    PROVE  EnforcedInv'
<1>1. \A q \in Processes : q # p => pc[q] \notin {"reading", "writing", "unlocking"} /\ pc'[q] = pc[q]
  BY OneInSection DEF Skip, Prepare, Enforced, TypeInv, TypeOK
<1>2. LockInv'
  BY <1>1 DEF LockInv, Enforced, EnforcedInv
<1>3. WriteInv'
  <2>1. CASE Skip(p, d)
    BY <1>1, <2>1 DEF WriteInv, Skip, Enforced, TypeInv, TypeOK
  <2>2. CASE \E n : Prepare(p, d, n) /\ Sound(p, job[p].kind, claim[d], n)
    <3>1. PICK n : Prepare(p, d, n) /\ Sound(p, job[p].kind, claim[d], n)
      BY <2>2
    <3>2. pending'[p] = [device |-> d, claim |-> n] /\ job' = job
      BY <3>1 DEF Prepare, Enforced, TypeInv, TypeOK
    <3>3. Sound(p, job[p].kind, claim[d], n)'
      BY <3>1, <3>2 DEF Sound
    <3> QED BY <1>1, <3>1, <3>2 DEF WriteInv, Sound
  <2> QED BY <2>1, <2>2
<1>4. HolderInv'
  BY DEF Enforced, EnforcedInv, HolderInv, Protected
<1> QED BY <1>2, <1>3, <1>4 DEF EnforcedInv

LEMMA ReadEnforced ==
    ASSUME Enforced, NEW p \in Processes, NEW d \in Devices,
           ReadToClaim(p, d) \/ ReadToRelease(p, d) \/ ReadToDrop(p, d)
    PROVE  EnforcedInv'
<1>1. UNCHANGED <<alive, claim, lock, locked, drives, closing, enforced>> /\ pc[p] = "reading"
  BY DEF ReadToClaim, ReadToRelease, ReadToDrop, Section
<1>2. claim[d] # NoClaim => claim[d] \in Claim
  BY DEF Enforced, TypeInv, TypeOK
<1>3. CASE Skip(p, d)
  BY <1>1, <1>3, DecideEnforced
<1>4. CASE ReadToClaim(p, d) /\ ~Skip(p, d)
  <2> DEFINE mine == claim[d] # NoClaim /\ claim[d].session = SessionOf[p]
             hs   == {p} \cup (IF mine THEN LiveHolders(p, claim[d]) ELSE {})
             n    == [session |-> SessionOf[p], holders |-> hs]
  <2>1. Prepare(p, d, n) /\ (claim[d] = NoClaim \/ mine \/ ~ClaimIsLive(claim[d])) /\ job[p].kind = "claim"
    BY <1>4 DEF ReadToClaim, Section
  <2>2. n.session = SessionOf[p] /\ n.holders = hs /\ p \in hs
    OBVIOUS
  <2>3. n # NoClaim
    <3>1. hs \in (SUBSET Processes) \ {{}}
      BY <1>2 DEF Claim, LiveHolders
    <3> QED BY <3>1, ClaimsAssumption
  <2>4. ASSUME claim[d] # NoClaim, NEW h \in claim[d].holders, alive[h] = "live"
        PROVE  claim[d].session = SessionOf[p] /\ h \in hs
    <3>1. ClaimIsLive(claim[d])
      BY <2>4 DEF ClaimIsLive, ProcessIsLive
    <3> QED BY <2>1, <2>4, <3>1 DEF LiveHolders, ProcessIsLive
  <2>5. Sound(p, job[p].kind, claim[d], n)
    BY <2>1, <2>2, <2>3, <2>4 DEF Sound
  <2> QED BY <1>1, <2>1, <2>5, DecideEnforced
<1>5. CASE ReadToRelease(p, d) /\ ~Skip(p, d)
  <2> DEFINE n == IF LiveHolders(p, claim[d]) = {} THEN NoClaim
                  ELSE [claim[d] EXCEPT !.holders = LiveHolders(p, claim[d])]
  <2>1. Prepare(p, d, n) /\ claim[d] # NoClaim /\ claim[d].session = SessionOf[p] /\ job[p].kind = "release"
    BY <1>5 DEF ReadToRelease, Section
  <2>2. CASE LiveHolders(p, claim[d]) = {}
    <3>1. \A h \in claim[d].holders : ~(alive[h] = "live" /\ h # p)
      BY <2>2 DEF LiveHolders, ProcessIsLive
    <3>2. Sound(p, job[p].kind, claim[d], n)
      BY <2>1, <2>2, <3>1 DEF Sound
    <3> QED BY <1>1, <2>1, <3>2, DecideEnforced
  <2>3. CASE LiveHolders(p, claim[d]) # {}
    <3>1. n \in Claim /\ n.session = claim[d].session /\ n.holders = LiveHolders(p, claim[d])
      BY <1>2, <2>1, <2>3 DEF Claim, LiveHolders
    <3>2. n # NoClaim
      BY <3>1, ClaimsAssumption DEF Claim
    <3>3. \A h \in claim[d].holders : alive[h] = "live" /\ h # p => h \in n.holders
      BY <3>1 DEF LiveHolders, ProcessIsLive
    <3>4. Sound(p, job[p].kind, claim[d], n)
      BY <2>1, <3>1, <3>2, <3>3 DEF Sound
    <3> QED BY <1>1, <2>1, <3>4, DecideEnforced
  <2> QED BY <2>2, <2>3
<1>6. CASE ReadToDrop(p, d) /\ ~Skip(p, d)
  <2>1. Prepare(p, d, NoClaim) /\ claim[d] # NoClaim /\ claim[d].session = SessionOf[p] /\ job[p].kind = "drop"
    BY <1>6 DEF ReadToDrop, Section
  <2>2. Sound(p, job[p].kind, claim[d], NoClaim)
    BY <2>1 DEF Sound
  <2> QED BY <1>1, <2>1, <2>2, DecideEnforced
<1> QED BY <1>3, <1>4, <1>5, <1>6

\* A write that is sound leaves every driver a holder of its device.
LEMMA WriteEnforced == ASSUME Enforced, NEW p \in Processes, Write(p), enforced, enforced' PROVE EnforcedInv'
<1> DEFINE d == pending[p].device
           n == pending[p].claim
<1>1. d \in Devices /\ d \in job[p].todo /\ Sound(p, job[p].kind, claim[d], n)
  BY DEF Enforced, TypeInv, CallInv, EnforcedInv, WriteInv, Write, Pending
<1>2. /\ claim' = [claim EXCEPT ![d] = n]
      /\ UNCHANGED <<alive, lock, locked, closing>>
  BY DEF Write
<1>3. claim'[d] = n /\ \A e \in Devices : e # d => claim'[e] = claim[e]
  BY <1>1, <1>2 DEF Enforced, TypeInv, TypeOK
<1>4. \A q \in Processes : q # p =>
         pc[q] \notin {"reading", "writing", "unlocking"} /\ pc'[q] = pc[q] /\ drives'[q] = drives[q]
  BY OneInSection DEF Write, Enforced, TypeInv, TypeOK
<1>5. /\ pc[p] = "writing" /\ pc'[p] # "writing"
      /\ drives'[p] = IF job[p].kind = "claim" THEN drives[p] \cup {d} ELSE drives[p]
  BY DEF Write, Enforced, TypeInv, TypeOK
<1>6. job[p].kind \in {"claim", "release", "drop"}
  BY <1>5 DEF Enforced, TypeInv, TypeOK, CallInv, Job
<1>7. LockInv'
  BY <1>2, <1>4, <1>5 DEF LockInv, Enforced, EnforcedInv
<1>8. WriteInv'
  BY <1>4, <1>5 DEF WriteInv
<1>9. HolderInv'
  <2> SUFFICES ASSUME NEW q \in Processes, Protected(q)', NEW e \in drives'[q]
               PROVE  claim'[e] # NoClaim /\ claim'[e].session = SessionOf[q] /\ q \in claim'[e].holders
    BY DEF HolderInv
  <2>1. Protected(q)
    BY <1>2 DEF Protected
  <2>2. e \in drives[q] => e \in Devices /\ claim[e] # NoClaim /\ claim[e].session = SessionOf[q] /\ q \in claim[e].holders
    BY <2>1 DEF Enforced, EnforcedInv, HolderInv, TypeInv, TypeOK
  <2>3. CASE e # d
    BY <1>3, <1>4, <1>5, <2>2, <2>3
  <2>4. CASE e = d /\ job[p].kind = "claim"
    BY <1>1, <1>3, <1>4, <1>5, <2>1, <2>2, <2>4 DEF Sound, Protected
  <2>5. CASE e = d /\ job[p].kind = "release"
    <3>1. d \notin drives[p]
      BY <1>1, <2>5 DEF Enforced, TypeInv, CallInv
    <3>2. q # p /\ e \in drives[q]
      BY <1>4, <1>5, <2>5, <3>1
    <3> QED BY <1>1, <1>3, <2>1, <2>2, <2>5, <3>2 DEF Sound, Protected
  <2>6. CASE e = d /\ job[p].kind = "drop"
    <3>1. SessionOf[p] \in closing /\ claim[d].session = SessionOf[p]
      BY <1>1, <2>6 DEF Enforced, TypeInv, CallInv, Sound
    <3>2. e \in drives[q]
      BY <1>4, <1>5, <2>6
    <3> QED BY <2>1, <2>2, <2>6, <3>1, <3>2 DEF Protected
  <2> QED BY <1>6, <2>3, <2>4, <2>5, <2>6
<1> QED BY <1>7, <1>8, <1>9 DEF EnforcedInv

\* A process that ends, or whose pid is reused, leaves its claims as they are.
LEMMA DieEnforced == ASSUME Enforced, NEW p \in Processes, Die(p) \/ Recycle(p) \/ Unmask(p) PROVE EnforcedInv'
<1>1. /\ UNCHANGED <<claim, lock, closing>>
      /\ pc[p] = pc'[p] \/ pc'[p] = "idle"
      /\ drives'[p] \subseteq drives[p] /\ alive'[p] # "live"
      /\ \A q \in Processes : q # p =>
            /\ pc'[q] = pc[q] /\ job'[q] = job[q] /\ pending'[q] = pending[q] /\ locked'[q] = locked[q]
            /\ drives'[q] = drives[q] /\ alive'[q] = alive[q]
  BY DEF Die, Recycle, Unmask, Enforced, TypeInv, TypeOK
<1>2. pc'[p] = "idle"
  BY <1>1 DEF Die, Recycle, Unmask, Enforced, TypeInv, TypeOK, CallInv
<1>3. LockInv'
  BY <1>1, <1>2 DEF LockInv, Enforced, EnforcedInv
<1>4. \A h \in Processes : alive'[h] = "live" => alive[h] = "live"
  BY <1>1
<1>5. WriteInv'
  <2> SUFFICES ASSUME NEW q \in Processes, pc'[q] = "writing"
               PROVE  Sound(q, job[q].kind, claim[pending[q].device], pending[q].claim)'
    BY DEF WriteInv
  <2> DEFINE c == claim[pending[q].device]
  <2>1. q # p /\ pc[q] = "writing" /\ Sound(q, job[q].kind, c, pending[q].claim)
    BY <1>1, <1>2 DEF WriteInv, Enforced, EnforcedInv
  <2>2. c # NoClaim => c.holders \subseteq Processes
    BY <2>1 DEF Enforced, TypeInv, TypeOK, CallInv, Pending, Claim
  <2>3. c # NoClaim => \A h \in c.holders : alive'[h] = "live" => alive[h] = "live"
    BY <1>4, <2>2
  <2>4. c' = c /\ pending'[q] = pending[q] /\ job'[q] = job[q]
    BY <1>1, <2>1
  <2> QED BY <2>1, <2>3, <2>4 DEF Sound
<1>6. HolderInv'
  BY <1>1 DEF HolderInv, Protected, Enforced, EnforcedInv
<1> QED BY <1>3, <1>5, <1>6 DEF EnforcedInv

-----------------------------------------------------------------------------
(* The theorems.                                                           *)

\* The whole invariant is inductive.
LEMMA IInvStep == IInv /\ [Next]_vars => IInv'
<1> SUFFICES ASSUME IInv, [Next]_vars PROVE IInv'
  OBVIOUS
<1>1. TypeOK' /\ CallInv'
  BY TypeStep DEF IInv, TypeInv
<1>2. CASE UNCHANGED vars
  BY <1>1, <1>2 DEF vars, IInv, EnforcedInv, LockInv, WriteInv, Sound, HolderInv, Protected
<1>3. CASE Next
  <2>1. PICK p \in Processes :
           \/ StartClaim(p) \/ StartRelease(p) \/ StartExit(p) \/ Step(p)
           \/ Die(p) \/ Recycle(p) \/ Unmask(p)
    BY <1>3 DEF Next
  <2>2. ASSUME enforced' PROVE enforced /\ ~GiveUp(p)
    BY <2>1, <2>2 DEF StartClaim, StartRelease, StartExit, Start, Step, Lock, GiveUp, Unlock, Write,
          NothingToDrop, ReadToClaim, ReadToRelease, ReadToDrop, Die, Recycle, Unmask
  <2>3. ASSUME enforced' PROVE EnforcedInv'
    <3>1. Enforced /\ enforced
      BY <2>2, <2>3 DEF Enforced, IInv, TypeInv
    <3>2. CASE Step(p)
      BY <2>2, <2>3, <3>1, <3>2, LockEnforced, UnlockEnforced, WriteEnforced, ReadEnforced DEF Step
    <3> QED BY <2>1, <3>1, <3>2, CallEnforced, DieEnforced
  <2> QED BY <1>1, <2>3 DEF IInv
<1> QED BY <1>2, <1>3

THEOREM Inductive == Spec => []IInv
BY InitInv, IInvStep, PTL DEF Spec

\* Types: in particular no claim file is ever written without a holder, so
\* claimIsLive never falls back on the root's pid, in any number of processes.
THEOREM ClaimsTyped == Spec => []TypeOK
<1>1. IInv => TypeOK
  BY DEF IInv
<1> QED BY <1>1, Inductive, PTL

\* While the lock could be had and the writes succeeded, a live process that was
\* granted a device and has not given it back is named in the device's claim:
\* no sibling's releaseDeviceClaim and no other session's exit hook removes it.
THEOREM DriversHold == Spec => []DriverIsHolder
<1>1. IInv => DriverIsHolder
  BY DEF IInv, EnforcedInv, HolderInv, DriverIsHolder
<1> QED BY <1>1, Inductive, PTL

\* Two sessions whose roots run never drive one device: a device has one claim
\* and the claim one session, whatever crashed inside the lock.
THEOREM SessionsApart == Spec => []OneSessionPerDevice
<1>1. IInv => OneSessionPerDevice
  BY DEF IInv, EnforcedInv, HolderInv, OneSessionPerDevice
<1> QED BY <1>1, Inductive, PTL

\* A live claim changes hands only by its own session: claimDevice takes over
\* the claims of the dead alone, and the other writes touch no other session.
THEOREM TakenFromTheDead == Spec => NotTakenFromTheLiving
<1> DEFINE A == enforced' => \A d \in Devices :
                   /\ claim[d] # NoClaim /\ claim[d].session \notin closing
                   /\ \E h \in claim[d].holders : alive[h] = "live"
                   => claim'[d] = NoClaim \/ claim'[d].session = claim[d].session
<1>1. ASSUME IInv, Next PROVE A
  <2> SUFFICES ASSUME enforced', NEW d \in Devices, claim[d] # NoClaim,
                      \E h \in claim[d].holders : alive[h] = "live"
               PROVE  claim'[d] = NoClaim \/ claim'[d].session = claim[d].session
    OBVIOUS
  <2>1. CASE claim' = claim
    BY <2>1
  <2>2. CASE claim' # claim
    <3>1. PICK p \in Processes : Write(p)
      <4>1. ASSUME NEW p \in Processes, StartClaim(p) \/ StartRelease(p) \/ StartExit(p)
            PROVE  claim' = claim
        BY <4>1 DEF StartClaim, StartRelease, StartExit, Start
      <4>2. ASSUME NEW p \in Processes, Lock(p) \/ GiveUp(p) \/ Unlock(p) \/ NothingToDrop(p)
            PROVE  claim' = claim
        BY <4>2 DEF Lock, GiveUp, Unlock, NothingToDrop
      <4>3. ASSUME NEW p \in Processes, NEW e \in Devices,
                   ReadToClaim(p, e) \/ ReadToRelease(p, e) \/ ReadToDrop(p, e)
            PROVE  claim' = claim
        BY <4>3 DEF ReadToClaim, ReadToRelease, ReadToDrop
      <4>4. ASSUME NEW p \in Processes, Die(p) \/ Recycle(p) \/ Unmask(p)
            PROVE  claim' = claim
        BY <4>4 DEF Die, Recycle, Unmask
      <4> QED BY <1>1, <2>2, <4>1, <4>2, <4>3, <4>4 DEF Next, Step
    <3>2. enforced /\ claim' = [claim EXCEPT ![pending[p].device] = pending[p].claim]
      BY <2>2, <3>1 DEF Write
    <3>3. /\ Sound(p, job[p].kind, claim[pending[p].device], pending[p].claim)
          /\ job[p].kind \in {"claim", "release", "drop"}
      BY <1>1, <3>1, <3>2 DEF IInv, TypeOK, Job, CallInv, EnforcedInv, WriteInv, Write
    <3>4. CASE d = pending[p].device
      BY <1>1, <3>2, <3>3, <3>4 DEF Sound, IInv, TypeOK
    <3>5. CASE d # pending[p].device
      BY <1>1, <3>2, <3>5 DEF IInv, TypeOK
    <3> QED BY <3>4, <3>5
  <2> QED BY <2>1, <2>2
<1>2. IInv /\ [Next]_vars => [A]_vars
  BY <1>1
<1> HIDE DEF A
<1>3. Spec => [][A]_vars
  BY <1>2, Inductive, PTL DEF Spec
<1> QED BY <1>3 DEF NotTakenFromTheLiving, A
=============================================================================
