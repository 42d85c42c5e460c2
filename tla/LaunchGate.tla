----------------------------- MODULE LaunchGate -----------------------------
(***************************************************************************)
(* A cold start of the iOS agent on a simulator: tapsmith-core/src/ios/    *)
(* launch_gate.rs and agent_launch.rs, with the runner of ios-agent.  While *)
(* xcodebuild starts, a task ends the app, wipes its data and creates the  *)
(* gate file; the runner waits for the file, deletes it and launches the   *)
(* app.  The start is vouched for as "fresh" when all of that is known.    *)
(*                                                                         *)
(* What a wipe cut off at its deadline still does afterwards is left out:  *)
(* no start with such a wipe is vouched for.                               *)
(***************************************************************************)
EXTENDS Integers

CONSTANT MaxRelaunches   \* LaunchAccessibilityCheck.maxRelaunches

ASSUME MaxRelaunchesAssumption == MaxRelaunches \in Nat

VARIABLES
    wanted,      \* clear_app_data_first
    waits,       \* the agent knows the gate; an older one launches at once
    task, prepared,   \* the task's next step; its Option<Prepared>
    gate,        \* the gate file exists
    runner,      \* where the XCUITest runner is
    app,         \* an instance of the app runs
    data,        \* "old", "clean", "first": of a clean one's first launch, "used" since
    relaunched, start,   \* the start's flag, and where its loop is
    retries,     \* relaunches of the app by the agent's accessibility check
    missed       \* a failure happened that the code takes no note of

taskVars == <<task, prepared, gate, missed>>
appVars == <<app, data, retries>>
loopVars == <<relaunched, start>>
gateVars == <<wanted, waits, taskVars, runner, appVars, loopVars>>

\* An app just installed has no data to wipe and does not run.
GateInit ==
    /\ wanted \in BOOLEAN /\ waits \in BOOLEAN
    /\ data = IF wanted THEN "old" ELSE "clean"
    /\ app \in BOOLEAN /\ (app => wanted)
    /\ task = "terminate" /\ prepared = "none" /\ gate = FALSE
    /\ runner = "starting" /\ relaunched = FALSE /\ start = "probing"
    /\ retries = 0 /\ missed = FALSE

-----------------------------------------------------------------------------
(* The task that prepares the launch.                                      *)

\* simctl terminate; that it failed is logged only.
Terminate ==
    /\ task = "terminate"
    /\ app' \in {FALSE, app}
    /\ missed' = (missed \/ app')
    /\ task' = IF wanted THEN "wipe" ELSE "open"
    /\ prepared' = IF wanted THEN "none" ELSE "unasked"
    /\ UNCHANGED <<wanted, waits, gate, runner, data, retries, loopVars>>

\* An instance that runs meanwhile writes again.  Files that could not be
\* removed do not count as a failed wipe.
Wipe ==
    /\ task = "wipe" /\ task' = "open"
    /\ \/ /\ prepared' = "wiped"
          /\ data' = IF app THEN "used" ELSE "clean"
          /\ UNCHANGED missed
       \/ prepared' = "wiped" /\ missed' = TRUE /\ UNCHANGED data
       \/ prepared' = "unwiped" /\ UNCHANGED <<data, missed>>
    /\ UNCHANGED <<wanted, waits, gate, runner, app, retries, loopVars>>

\* PREPARE_DEADLINE.
CutOff ==
    /\ task \in {"terminate", "wipe"}
    /\ task' = "open" /\ prepared' = "none"
    /\ UNCHANGED <<wanted, waits, gate, missed, runner, appVars, loopVars>>

\* open_at: a file that cannot be written looks like one that was consumed.
Open ==
    /\ task = "open" /\ task' = "done"
    /\ gate' \in BOOLEAN
    /\ missed' = (missed \/ (~gate' /\ ~waits))
    /\ UNCHANGED <<wanted, waits, prepared, runner, appVars, loopVars>>

-----------------------------------------------------------------------------
(* The runner.                                                             *)

RunnerUp ==
    /\ runner = "starting"
    /\ runner' = IF waits THEN "waiting" ELSE "launching"
    /\ UNCHANGED <<wanted, waits, taskVars, appVars, loopVars>>

\* LaunchGate.wait: the file is there and is deleted, if it can be; or the wait
\* is over, which is longer than the task's deadline and starts later.
WaitEnds ==
    /\ runner = "waiting" /\ runner' = "launching"
    /\ \/ gate /\ gate' \in BOOLEAN
       \/ ~gate /\ task = "done" /\ UNCHANGED gate
    /\ UNCHANGED <<wanted, waits, task, prepared, missed, appVars, loopVars>>

Launched ==
    /\ app' = TRUE
    /\ data' = IF data = "clean" THEN "first" ELSE IF data = "first" THEN "used" ELSE data

\* The app is ended and launched, or its launch refused or timed out.
Launch ==
    /\ runner = "launching"
    /\ \/ runner' = "checking" /\ Launched
       \/ runner' = "refused" /\ (Launched \/ (app' = FALSE /\ UNCHANGED data))
    /\ UNCHANGED <<wanted, waits, taskVars, retries, loopVars>>

\* ensureAccessibilityReachable: the app can be seen, or is launched again; when
\* neither helps the runner serves all the same.
CheckAccess ==
    /\ runner = "checking"
    /\ \/ runner' = "serving" /\ UNCHANGED appVars
       \/ /\ retries < MaxRelaunches /\ retries' = retries + 1
          /\ Launched /\ UNCHANGED runner
    /\ UNCHANGED <<wanted, waits, taskVars, loopVars>>

\* xcodebuild, or the runner under it, ends.
RunnerEnds ==
    /\ runner \in {"starting", "waiting", "launching", "checking"}
    /\ runner' = "gone"
    /\ UNCHANGED <<wanted, waits, taskVars, appVars, loopVars>>

-----------------------------------------------------------------------------
(* The loop of start_agent_impl.                                           *)

\* Kill what is left of xcodebuild, end the app; before_relaunch waits for the task.
Retry ==
    /\ start = "probing" /\ runner \in {"refused", "gone"} /\ ~relaunched
    /\ start' = "restarting" /\ runner' = "none"
    /\ app' \in {FALSE, app}
    /\ UNCHANGED <<wanted, waits, taskVars, data, retries, relaunched>>

\* It opens the gate again, and the start is no longer vouched for.
Restart ==
    /\ start = "restarting" /\ task = "done"
    /\ start' = "probing" /\ relaunched' = TRUE
    /\ runner' = "starting" /\ retries' = 0
    /\ gate' \in {TRUE, gate}
    /\ UNCHANGED <<wanted, waits, task, prepared, missed, app, data>>

\* The deadline, a shutdown, or nothing left to try.
GiveUp ==
    /\ start = "probing" /\ start' = "failed"
    /\ UNCHANGED <<wanted, waits, taskVars, runner, appVars, relaunched>>

PingAnswered ==
    /\ start = "probing" /\ runner = "serving"
    /\ start' = "settling"
    /\ UNCHANGED <<wanted, waits, taskVars, runner, appVars, relaunched>>

\* Mutant: a gate nobody deleted will do.
AnyGate == prepared \in {"wiped", "unasked"} /\ ~relaunched

\* app_launched_fresh
Vouched == prepared \in {"wiped", "unasked"} /\ ~gate /\ ~relaunched

Answer ==
    /\ start = "settling" /\ task = "done"
    /\ start' = IF Vouched THEN "fresh" ELSE "notFresh"
    /\ UNCHANGED <<wanted, waits, taskVars, runner, appVars, relaunched>>

Ended == start \in {"fresh", "notFresh", "failed"} /\ UNCHANGED gateVars

GateNext ==
    \/ /\ start \in {"probing", "restarting", "settling"}
       /\ \/ Terminate \/ Wipe \/ CutOff \/ Open
          \/ RunnerUp \/ WaitEnds \/ Launch \/ CheckAccess \/ RunnerEnds
          \/ Retry \/ Restart \/ GiveUp \/ PingAnswered \/ Answer
    \/ Ended

GateSpec == GateInit /\ [][GateNext]_gateVars

-----------------------------------------------------------------------------
(* Properties.                                                             *)

\* A start reported as fresh has the app running from the first launch of clean
\* data, so that the session need not clear and launch it again.  Unless a
\* failure was passed over in silence, or the agent's own check launched the app
\* a second time, which nobody tells the daemon.
FreshIsFirstLaunch ==
    start = "fresh" /\ ~missed /\ retries = 0 => app /\ data = "first"
=============================================================================
