-------------------------- MODULE WorkerAllocation --------------------------
(***************************************************************************)
(* How the `workers` budget is divided among the device buckets of a run   *)
(* (packages/tapsmith/src/project.ts, allocateBucketWorkers and            *)
(* scaleToBudget).  A bucket with no files gets nothing, one that pins a   *)
(* device gets one worker, one with an explicit `workers` gets that many,  *)
(* the others share what is left in proportion to their files; with an     *)
(* explicit --workers the whole is then scaled to that number.             *)
(***************************************************************************)
EXTENDS Integers, Sequences, FiniteSets, FiniteSetsExt

CONSTANTS
    NumBuckets,
    MaxFiles, MaxWorkers   \* bounds on the inputs that are tried

Buckets == 1..NumBuckets

VARIABLES
    totalBudget, capped,   \* config.workers, and whether it is also the budgetCap
    files, explicit, pinned,   \* per bucket: files, workers asked for (0: none), pinned
    pc,           \* "assigning", "sharing", "leftover", "scaling", "topping" or "done"
    result,       \* the allocation
    remaining,    \* workers of the loop at hand not given out yet
    turn,         \* position of the loop at hand in its ranking
    madeProgress, \* of one turn of allocateBucketWorkers' while loop
    natural       \* scaleToBudget: the allocation it started from

inputs == <<totalBudget, capped, files, explicit, pinned>>
vars == <<inputs, pc, result, remaining, turn, madeProgress, natural>>

Init ==
    /\ totalBudget \in 1..MaxWorkers
    /\ capped \in BOOLEAN
    /\ files \in [Buckets -> 0..MaxFiles]
    /\ explicit \in [Buckets -> {0, 1, 3}]
    /\ pinned \in SUBSET Buckets
    /\ pc = "assigning"
    /\ result = [b \in Buckets |-> 0]
    /\ remaining = 0 /\ turn = 1 /\ madeProgress = FALSE
    /\ natural = [b \in Buckets |-> 0]

Active == {b \in Buckets : files[b] > 0}
Scalable == Active \ pinned
Implicit == {b \in Scalable : explicit[b] = 0}
Budget == Max({0, totalBudget - Cardinality(pinned \cap Active)})
Cap == totalBudget - Cardinality(pinned \cap Active)   \* budgetCap less the pinned
SumOf(S, f) == MapThenSumSet(LAMBDA b : f[b], S)

\* b's place in S sorted by key, largest first; Array.sort is stable.
Rank(S, key, b) == 1 + Cardinality({c \in S : key[c] > key[b] \/ (key[c] = key[b] /\ c < b)})
At(S, key, n) == CHOOSE b \in S : Rank(S, key, b) = n

\* One worker more for each bucket of S in rank order, as long as there are any.
OneMoreEach(S, key) ==
    /\ result' = [b \in Buckets |->
          IF b \in S /\ Rank(S, key, b) <= remaining THEN result[b] + 1 ELSE result[b]]
    /\ remaining' = Max({0, remaining - Cardinality(S)})

AfterSharing == IF capped THEN "scaling" ELSE "done"

\* Up to the loop: what every bucket gets before the budget is shared.
Assign ==
    /\ pc = "assigning"
    /\ result' = [b \in Buckets |->
          IF b \notin Active THEN 0
          ELSE IF b \in pinned \/ b \in Implicit THEN 1 ELSE explicit[b]]
    /\ remaining' = Max({0, Budget - Cardinality(Implicit)})
    /\ pc' = IF Scalable = {} THEN "done"
             ELSE IF Implicit = {} \/ remaining' = 0 THEN AfterSharing ELSE "sharing"
    /\ turn' = 1
    /\ UNCHANGED <<inputs, madeProgress, natural>>

FairShare(b) == (Budget * files[b]) \div SumOf(Implicit, files)

\* One bucket of the ranking: one more worker while it is below its share.
Share ==
    /\ pc = "sharing" /\ turn <= Cardinality(Implicit) /\ remaining > 0
    /\ LET b == At(Implicit, files, turn)
       IN  IF result[b] < FairShare(b)
           THEN /\ result' = [result EXCEPT ![b] = @ + 1]
                /\ remaining' = remaining - 1
                /\ madeProgress' = TRUE
           ELSE UNCHANGED <<result, remaining, madeProgress>>
    /\ turn' = turn + 1
    /\ UNCHANGED <<inputs, pc, natural>>

\* The end of one turn of the while loop.
NextRound ==
    /\ pc = "sharing" /\ (turn > Cardinality(Implicit) \/ remaining = 0)
    /\ pc' = IF remaining = 0 THEN AfterSharing
             ELSE IF madeProgress THEN "sharing" ELSE "leftover"
    /\ turn' = 1
    /\ madeProgress' = FALSE
    /\ UNCHANGED <<inputs, result, remaining, natural>>

\* The rounding gap: the shares added up to less than the budget.
Leftover ==
    /\ pc = "leftover"
    /\ OneMoreEach(Implicit, files)
    /\ pc' = AfterSharing
    /\ UNCHANGED <<inputs, turn, madeProgress, natural>>

EffectiveCap == Max({Cap, Cardinality(Scalable)})

\* scaleToBudget: done if the total fits, else everybody starts from one again.
Scale ==
    /\ pc = "scaling"
    /\ natural' = result
    /\ turn' = 1
    /\ IF SumOf(Scalable, result) = Cap
       THEN pc' = "done" /\ UNCHANGED <<result, remaining>>
       ELSE /\ result' = [b \in Buckets |-> IF b \in Scalable THEN 1 ELSE result[b]]
            /\ remaining' = EffectiveCap - Cardinality(Scalable)
            /\ pc' = IF remaining' = 0 THEN "done" ELSE "topping"
    /\ UNCHANGED <<inputs, madeProgress>>

\* One bucket of the ranking: its proportion of the cap, as far as it goes.
TopUp ==
    /\ pc = "topping" /\ turn <= Cardinality(Scalable) /\ remaining > 0
    /\ LET b           == At(Scalable, natural, turn)
           targetShare == (EffectiveCap * natural[b]) \div SumOf(Scalable, natural)
           toAdd       == Min({remaining, Max({0, targetShare - 1})})
       IN  /\ result' = [result EXCEPT ![b] = 1 + toAdd]
           /\ remaining' = remaining - toAdd
    /\ turn' = turn + 1
    /\ UNCHANGED <<inputs, pc, madeProgress, natural>>

TopUpRest ==
    /\ pc = "topping" /\ (turn > Cardinality(Scalable) \/ remaining = 0)
    /\ OneMoreEach(Scalable, natural)
    /\ pc' = "done"
    /\ UNCHANGED <<inputs, turn, madeProgress, natural>>

Terminated == pc = "done" /\ UNCHANGED vars

Next == Assign \/ Share \/ NextRound \/ Leftover \/ Scale \/ TopUp \/ TopUpRest \/ Terminated

Spec == Init /\ [][Next]_vars

-----------------------------------------------------------------------------
(* Properties.                                                             *)

EveryTargetServed ==
    \A b \in Buckets : /\ b \in Active <=> result[b] > 0
                       /\ b \in Active \cap pinned => result[b] = 1

\* With an explicit --workers all the buckets together get that many, without it
\* the buckets that share the budget do; only when that would leave a bucket with
\* nothing are there more.
BudgetUsedExactly ==
    Scalable # {} =>
        IF capped THEN SumOf(Active, result) = Max({totalBudget, Cardinality(Active)})
        ELSE Implicit # {} => SumOf(Implicit, result) = Max({Budget, Cardinality(Implicit)})

MoreFilesMoreWorkers == \A a, b \in Implicit : files[a] > files[b] => result[a] >= result[b]

\* The budget is used up and not exceeded; no target with files is left without a
\* worker (its files would silently not run), none without files gets one, and a
\* pinned device hosts exactly one; and through both rounds of proportions and
\* their remainders no bucket has fewer workers than one with fewer files.
SharedOut == pc = "done" => EveryTargetServed /\ BudgetUsedExactly /\ MoreFilesMoreWorkers
=============================================================================
