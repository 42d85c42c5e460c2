----------------------------- MODULE BoundedRun -----------------------------
(***************************************************************************)
(* The budget of test bodies and hooks (packages/tapsmith/src/             *)
(* run-bounded.ts with action-progress.ts and attempt-fence.ts).  A run    *)
(* cannot be cancelled, only abandoned: its code goes on, and only the     *)
(* closed token of its attempt keeps it off the device.  Time inside device *)
(* actions does not count, up to a cap on the wall clock; runs learn of    *)
(* actions from one channel for the whole process.                         *)
(*                                                                         *)
(* Runs follow one another.  Time is in ticks and the code's in-flight     *)
(* times are kept as how long ago they were.                               *)
(***************************************************************************)
EXTENDS Integers

CONSTANTS
    NumRuns,
    Timeout,      \* timeoutMs
    WallCap,      \* timeoutMs * WALL_CAP_MULTIPLIER
    Poll,         \* the 1_000 ms a check is re-armed for at most
    Late,         \* bound on how late a timer fires
    MaxActions    \* bound on the actions one run has in flight

\* WALL_CAP_MULTIPLIER is at least 1.
ASSUME BudgetAssumption ==
    /\ NumRuns \in Nat \ {0} /\ Timeout \in Nat /\ Poll \in Nat \ {0}
    /\ WallCap \in Nat /\ Timeout <= WallCap
    /\ Late \in Nat /\ MaxActions \in Nat

Kinds == {"body", "before", "after"}   \* a test body; hooks before and after it
Runs == 1..NumRuns

VARIABLES
    kind,         \* per run: its kind
    run,          \* the run at hand
    outcome,      \* per run: "new", "running", how it ended
    abandoned,    \* of the run at hand
    token,        \* per run: token.closed
    inFlight,     \* per run: its actions on the device
    wall, total, depth, since,   \* since start; excluded.totalMs, .depth, since .inFlightSince
    timer,        \* ticks until the check; 0 or less: due
    aborted,      \* abortSignal.aborted
    spent, disturbed   \* time without an action of the run's own; an action of another ended meanwhile

clockVars == <<wall, total, depth, since, timer, spent, disturbed>>
boundedVars == <<kind, run, outcome, abandoned, token, inFlight, clockVars, aborted>>

Least(a, b) == IF a < b THEN a ELSE b
Most(a, b) == IF a > b THEN a ELSE b

BudgetInit ==
    /\ kind \in [Runs -> Kinds]
    /\ run = 1
    /\ outcome = [r \in Runs |-> "new"]
    /\ abandoned = FALSE
    /\ token = [r \in Runs |-> FALSE]
    /\ inFlight = [r \in Runs |-> 0]
    /\ wall = 0 /\ total = 0 /\ depth = 0 /\ since = 0 /\ timer = 0
    /\ aborted = FALSE
    /\ spent = 0 /\ disturbed = FALSE

Running == outcome[run] = "running"
Abortable(r) == kind[r] # "after"
StopDue == aborted /\ Abortable(run) /\ outcome[run] # "new" /\ ~abandoned

\* runBounded's start: it listens to the channel, then the function runs.
Start ==
    /\ outcome[run] = "new"
    /\ timer' = Least(Poll, Timeout)
    /\ outcome' = [outcome EXCEPT ![run] = "running"]
    /\ abandoned' = FALSE
    /\ UNCHANGED <<kind, run, token, inFlight, wall, total, depth, since, aborted, spent, disturbed>>

-----------------------------------------------------------------------------
(* Device actions, of the run at hand or of one that went on.              *)

\* An action on the device; a closed token rejects it.
ActionStarts(r) ==
    /\ outcome[r] # "new" /\ ~token[r] /\ inFlight[r] < MaxActions
    /\ inFlight' = [inFlight EXCEPT ![r] = @ + 1]
    /\ depth' = depth + (IF Running THEN 1 ELSE 0)
    /\ UNCHANGED <<kind, run, outcome, abandoned, token, wall, total, since, timer, aborted, spent, disturbed>>

\* It ends: the listener takes any end for one of the actions it saw start.
ActionEnds(r) ==
    /\ inFlight[r] > 0
    /\ inFlight' = [inFlight EXCEPT ![r] = @ - 1]
    /\ IF Running /\ depth > 0
       THEN /\ depth' = depth - 1
            /\ total' = IF depth = 1 THEN total + since ELSE total
            /\ since' = IF depth = 1 THEN 0 ELSE since
       ELSE UNCHANGED <<depth, total, since>>
    /\ disturbed' = (disturbed \/ (Running /\ r # run))
    /\ UNCHANGED <<kind, run, outcome, abandoned, token, wall, timer, aborted, spent>>

Tick ==
    /\ Running /\ ~StopDue /\ timer > -Late
    /\ wall' = wall + 1 /\ timer' = timer - 1
    /\ since' = IF depth > 0 THEN since + 1 ELSE since
    /\ spent' = IF inFlight[run] = 0 THEN spent + 1 ELSE spent
    /\ UNCHANGED <<kind, run, outcome, abandoned, token, inFlight, total, depth, aborted, disturbed>>

-----------------------------------------------------------------------------
(* The race: the function, the timer's check and a stop.                   *)

\* Mutant: an action still in flight counts.
CountedWithInFlight == wall - total

Counted == wall - total - (IF depth > 0 THEN since ELSE 0)

\* What is left of the budget; a check may come a tick early.
Rearm == Most(1, Least(Poll, Least(Timeout - Counted, WallCap - wall)))

Check ==
    /\ Running /\ timer <= 1
    /\ IF Counted >= Timeout \/ wall >= WallCap
       THEN /\ outcome' = [outcome EXCEPT ![run] = "timedOut"]
            /\ abandoned' = TRUE
            /\ UNCHANGED timer
       ELSE /\ timer' = Rearm
            /\ UNCHANGED <<outcome, abandoned>>
    /\ UNCHANGED <<kind, run, token, inFlight, wall, total, depth, since, aborted, spent, disturbed>>

FunctionEnds ==
    /\ Running
    /\ outcome' = [outcome EXCEPT ![run] = "ended"]
    /\ UNCHANGED <<kind, run, abandoned, token, inFlight, clockVars, aborted>>

\* A stop: it settles the run at hand, now or as soon as it starts; when the race
\* is settled already, it still counts the run as abandoned.
StopHeard ==
    /\ StopDue
    /\ abandoned' = TRUE
    /\ outcome' = IF Running THEN [outcome EXCEPT ![run] = "stopped"] ELSE outcome
    /\ UNCHANGED <<kind, run, token, inFlight, clockVars, aborted>>

Abort == ~aborted /\ aborted' = TRUE
         /\ UNCHANGED <<kind, run, outcome, abandoned, token, inFlight, clockVars>>

\* Mutant: only a timeout closes a hook's token.
SettleOnTimeout(r) == kind[r] = "body" \/ outcome[r] = "timedOut"

ClosesToken(r) == kind[r] = "body" \/ abandoned

\* The finally block, then the next run.
Settle ==
    /\ outcome[run] \notin {"new", "running"}
    /\ token' = [token EXCEPT ![run] = ClosesToken(run)]
    /\ run < NumRuns /\ run' = run + 1
    /\ wall' = 0 /\ total' = 0 /\ depth' = 0 /\ since' = 0 /\ timer' = 0
    /\ spent' = 0 /\ disturbed' = FALSE
    /\ UNCHANGED <<kind, outcome, abandoned, inFlight, aborted>>

Finished == run = NumRuns /\ outcome[run] \notin {"new", "running"} /\ UNCHANGED boundedVars

BudgetNext ==
    \/ Start \/ Tick \/ Check \/ FunctionEnds \/ Abort \/ StopHeard \/ Settle \/ Finished
    \/ \E r \in Runs : ActionStarts(r) \/ ActionEnds(r)

BudgetSpec == BudgetInit /\ [][BudgetNext]_boundedVars

-----------------------------------------------------------------------------
(* Properties.                                                             *)

\* A run is cut off when its time is up, no earlier and no later than the timer
\* is late: its time outside actions of its own is the budget, or its wall clock
\* the cap.  Unless an action that an earlier run left behind ended meanwhile.
CutWhenDue ==
    LET due == spent >= Timeout \/ wall >= WallCap
    IN  /\ outcome[run] = "timedOut" /\ ~disturbed => due
        /\ Running => wall <= WallCap + Late
        /\ Running /\ (\A r \in 1..run - 1 : inFlight[r] = 0 /\ token[r]) /\ ~disturbed =>
               spent <= Timeout + Late

\* Nothing a run left behind drives the device once the run was given up, or
\* once it was a test body: it is fenced before the next run starts.
GivenUpIsFenced ==
    [][\A r \in Runs : ActionStarts(r) /\ r < run => outcome[r] = "ended" /\ kind[r] # "body"]_boundedVars

=============================================================================
