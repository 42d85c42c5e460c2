----------------------------- MODULE HostProofs -----------------------------
(***************************************************************************)
(* What a daemon does to its host, proved in two parts.                    *)
(*                                                                         *)
(* LaunchGate: why a start vouched for as fresh launched the app once,     *)
(* from clean data, however often the agent's check may relaunch it.  The  *)
(* flag is computed from three values at the end of the start; what they   *)
(* say of the app holds because of the order in which the task and the     *)
(* runner went on.  The strengthening is that order: an agent that waits   *)
(* launches nothing before the task is done, and one that does not leaves  *)
(* the gate standing.                                                      *)
(*                                                                         *)
(* SystemProxy: why a capture keeps the system proxy of the Mac and why    *)
(* its user gets it back, for any number of daemons, services, captures,   *)
(* failing commands and changes by the user.                               *)
(***************************************************************************)
EXTENDS LaunchGate, SystemProxy, TLAPS

-----------------------------------------------------------------------------
(* LaunchGate: how the task, the runner and the loop are placed.           *)

\* The values the variables take.
FlagsOK ==
    /\ wanted \in BOOLEAN /\ waits \in BOOLEAN /\ gate \in BOOLEAN
    /\ app \in BOOLEAN /\ relaunched \in BOOLEAN /\ missed \in BOOLEAN

StepsOK ==
    /\ task \in {"terminate", "wipe", "open", "done"}
    /\ prepared \in {"none", "unasked", "wiped", "unwiped"}
    /\ runner \in {"none", "starting", "waiting", "launching", "checking", "serving",
                   "refused", "gone"}
    /\ data \in {"old", "clean", "first", "used"}
    /\ start \in {"probing", "restarting", "settling", "fresh", "notFresh", "failed"}
    /\ retries \in Nat

\* The data are as the code believes: the app was told to end, and wiped if asked for.
Prepared == prepared \in {"wiped", "unasked"}

\* This is the start's first runner.
FirstRunner == ~relaunched /\ start # "restarting"

\* What the answer rests on.
AnswerInv ==
    /\ start \in {"settling", "fresh"} => runner = "serving"
    /\ start = "fresh" => task = "done" /\ Vouched

\* An agent that does not know the gate never deletes it.
NoWaitInv ==
    ~waits => /\ runner # "waiting"
              /\ task = "done" /\ ~missed => gate

\* The first runner of an agent that waits launches after the task, and the task
\* prepares the launch while the app is down.
OrderInv ==
    waits /\ FirstRunner =>
        /\ runner \in {"launching", "checking", "serving", "refused"} => task = "done"
        /\ ~missed =>
              /\ task = "terminate" /\ ~wanted => data = "clean"
              /\ runner \in {"starting", "waiting", "launching"} =>
                    /\ task = "wipe" => ~app
                    /\ Prepared => ~app /\ data = "clean"
              /\ runner \in {"checking", "serving"} /\ retries = 0 /\ Prepared =>
                    app /\ data = "first"

\* Nothing is prepared, and the gate not open, before its time.
TaskInv ==
    /\ gate => task = "done"
    /\ task \in {"terminate", "wipe"} => ~Prepared

GateInv == FlagsOK /\ StepsOK /\ TaskInv /\ AnswerInv /\ NoWaitInv /\ OrderInv

-----------------------------------------------------------------------------
LEMMA GateInvInit == GateInit => GateInv
<1>. SUFFICES ASSUME GateInit PROVE GateInv
  OBVIOUS
<1>1. FlagsOK
  BY DEF GateInit, FlagsOK
<1>2. StepsOK
  BY DEF GateInit, StepsOK
<1>3. TaskInv /\ AnswerInv /\ NoWaitInv /\ OrderInv
  BY DEF GateInit, TaskInv, AnswerInv, NoWaitInv, OrderInv, FirstRunner, Prepared
<1>. QED  BY <1>1, <1>2, <1>3 DEF GateInv

LEMMA TaskStep ==
    ASSUME GateInv, start \in {"probing", "restarting", "settling"},
           Terminate \/ Wipe \/ CutOff \/ Open
    PROVE  GateInv'
<1>. SUFFICES ASSUME FlagsOK, StepsOK, TaskInv, AnswerInv, NoWaitInv, OrderInv
              PROVE  FlagsOK' /\ StepsOK' /\ TaskInv' /\ AnswerInv' /\ NoWaitInv' /\ OrderInv'
  BY DEF GateInv
<1>1. CASE Terminate
  <2>1. FlagsOK'
    BY <1>1 DEF FlagsOK, Terminate, taskVars, appVars, loopVars
  <2>2. StepsOK'
    BY <1>1 DEF FlagsOK, StepsOK, Terminate, taskVars, appVars, loopVars
  <2>3. TaskInv' /\ AnswerInv'
    BY <1>1 DEF FlagsOK, StepsOK, TaskInv, AnswerInv, Prepared, Vouched, Terminate, taskVars, appVars, loopVars
  <2>4. NoWaitInv'
    BY <1>1 DEF FlagsOK, StepsOK, TaskInv, NoWaitInv, Terminate, taskVars, appVars, loopVars
  <2>5. OrderInv'
    BY <1>1 DEF FlagsOK, StepsOK, TaskInv, OrderInv, FirstRunner, Prepared, Terminate, taskVars, appVars, loopVars
  <2>. QED  BY <2>1, <2>2, <2>3, <2>4, <2>5
<1>2. CASE Wipe
  <2>1. FlagsOK'
    BY <1>2 DEF FlagsOK, Wipe, taskVars, appVars, loopVars
  <2>2. StepsOK'
    BY <1>2 DEF FlagsOK, StepsOK, Wipe, taskVars, appVars, loopVars
  <2>3. TaskInv' /\ AnswerInv'
    BY <1>2 DEF FlagsOK, StepsOK, TaskInv, AnswerInv, Prepared, Vouched, Wipe, taskVars, appVars, loopVars
  <2>4. NoWaitInv'
    BY <1>2 DEF FlagsOK, StepsOK, TaskInv, NoWaitInv, Wipe, taskVars, appVars, loopVars
  <2>5. OrderInv'
    BY <1>2 DEF FlagsOK, StepsOK, TaskInv, OrderInv, FirstRunner, Prepared, Wipe, taskVars, appVars, loopVars
  <2>. QED  BY <2>1, <2>2, <2>3, <2>4, <2>5
<1>3. CASE CutOff
  <2>1. FlagsOK'
    BY <1>3 DEF FlagsOK, CutOff, taskVars, appVars, loopVars
  <2>2. StepsOK'
    BY <1>3 DEF FlagsOK, StepsOK, CutOff, taskVars, appVars, loopVars
  <2>3. TaskInv' /\ AnswerInv'
    BY <1>3 DEF FlagsOK, StepsOK, TaskInv, AnswerInv, Prepared, Vouched, CutOff, taskVars, appVars, loopVars
  <2>4. NoWaitInv'
    BY <1>3 DEF FlagsOK, StepsOK, TaskInv, NoWaitInv, CutOff, taskVars, appVars, loopVars
  <2>5. OrderInv'
    BY <1>3 DEF FlagsOK, StepsOK, TaskInv, OrderInv, FirstRunner, Prepared, CutOff, taskVars, appVars, loopVars
  <2>. QED  BY <2>1, <2>2, <2>3, <2>4, <2>5
<1>4. CASE Open
  <2>1. FlagsOK'
    BY <1>4 DEF FlagsOK, Open, taskVars, appVars, loopVars
  <2>2. StepsOK'
    BY <1>4 DEF FlagsOK, StepsOK, Open, taskVars, appVars, loopVars
  <2>3. TaskInv' /\ AnswerInv'
    BY <1>4 DEF FlagsOK, StepsOK, TaskInv, AnswerInv, Prepared, Vouched, Open, taskVars, appVars, loopVars
  <2>4. NoWaitInv'
    BY <1>4 DEF FlagsOK, StepsOK, TaskInv, NoWaitInv, Open, taskVars, appVars, loopVars
  <2>5. OrderInv'
    BY <1>4 DEF FlagsOK, StepsOK, TaskInv, OrderInv, FirstRunner, Prepared, Open, taskVars, appVars, loopVars
  <2>. QED  BY <2>1, <2>2, <2>3, <2>4, <2>5
<1>. QED  BY <1>1, <1>2, <1>3, <1>4

LEMMA RunnerStep ==
    ASSUME GateInv, start \in {"probing", "restarting", "settling"},
           RunnerUp \/ WaitEnds \/ Launch \/ CheckAccess \/ RunnerEnds
    PROVE  GateInv'
<1>. SUFFICES ASSUME FlagsOK, StepsOK, TaskInv, AnswerInv, NoWaitInv, OrderInv
              PROVE  FlagsOK' /\ StepsOK' /\ TaskInv' /\ AnswerInv' /\ NoWaitInv' /\ OrderInv'
  BY DEF GateInv
<1>1. CASE RunnerUp
  <2>1. FlagsOK'
    BY <1>1 DEF FlagsOK, RunnerUp, taskVars, appVars, loopVars
  <2>2. StepsOK'
    BY <1>1 DEF FlagsOK, StepsOK, RunnerUp, taskVars, appVars, loopVars
  <2>3. TaskInv' /\ AnswerInv'
    BY <1>1 DEF FlagsOK, StepsOK, TaskInv, AnswerInv, Prepared, Vouched, RunnerUp, taskVars, appVars, loopVars
  <2>4. NoWaitInv'
    BY <1>1 DEF FlagsOK, StepsOK, TaskInv, NoWaitInv, RunnerUp, taskVars, appVars, loopVars
  <2>5. OrderInv'
    BY <1>1 DEF FlagsOK, StepsOK, TaskInv, OrderInv, FirstRunner, Prepared, RunnerUp, taskVars, appVars, loopVars
  <2>. QED  BY <2>1, <2>2, <2>3, <2>4, <2>5
<1>2. CASE WaitEnds
  <2>1. FlagsOK'
    BY <1>2 DEF FlagsOK, WaitEnds, taskVars, appVars, loopVars
  <2>2. StepsOK'
    BY <1>2 DEF FlagsOK, StepsOK, WaitEnds, taskVars, appVars, loopVars
  <2>3. TaskInv' /\ AnswerInv'
    BY <1>2 DEF FlagsOK, StepsOK, TaskInv, AnswerInv, Prepared, Vouched, WaitEnds, taskVars, appVars, loopVars
  <2>4. NoWaitInv'
    BY <1>2 DEF FlagsOK, StepsOK, TaskInv, NoWaitInv, WaitEnds, taskVars, appVars, loopVars
  <2>5. OrderInv'
    BY <1>2 DEF FlagsOK, StepsOK, TaskInv, OrderInv, FirstRunner, Prepared, WaitEnds, taskVars, appVars, loopVars
  <2>. QED  BY <2>1, <2>2, <2>3, <2>4, <2>5
<1>3. CASE Launch
  <2>1. FlagsOK'
    BY <1>3 DEF FlagsOK, Launch, Launched, taskVars, appVars, loopVars
  <2>2. StepsOK'
    BY <1>3 DEF FlagsOK, StepsOK, Launch, Launched, taskVars, appVars, loopVars
  <2>3. TaskInv' /\ AnswerInv'
    BY <1>3 DEF FlagsOK, StepsOK, TaskInv, AnswerInv, Prepared, Vouched, Launch, Launched, taskVars, appVars, loopVars
  <2>4. NoWaitInv'
    BY <1>3 DEF FlagsOK, StepsOK, TaskInv, NoWaitInv, Launch, Launched, taskVars, appVars, loopVars
  <2>5. OrderInv'
    BY <1>3 DEF FlagsOK, StepsOK, TaskInv, OrderInv, FirstRunner, Prepared, Launch, Launched, taskVars, appVars, loopVars
  <2>. QED  BY <2>1, <2>2, <2>3, <2>4, <2>5
<1>4. CASE CheckAccess
  <2>1. FlagsOK'
    BY <1>4 DEF FlagsOK, CheckAccess, Launched, taskVars, appVars, loopVars
  <2>2. StepsOK'
    BY <1>4 DEF FlagsOK, StepsOK, CheckAccess, Launched, taskVars, appVars, loopVars
  <2>3. TaskInv' /\ AnswerInv'
    BY <1>4 DEF FlagsOK, StepsOK, TaskInv, AnswerInv, Prepared, Vouched, CheckAccess, Launched, taskVars, appVars, loopVars
  <2>4. NoWaitInv'
    BY <1>4 DEF FlagsOK, StepsOK, TaskInv, NoWaitInv, CheckAccess, Launched, taskVars, appVars, loopVars
  <2>5. OrderInv'
    BY <1>4 DEF FlagsOK, StepsOK, TaskInv, OrderInv, FirstRunner, Prepared, CheckAccess, Launched, taskVars, appVars, loopVars
  <2>. QED  BY <2>1, <2>2, <2>3, <2>4, <2>5
<1>5. CASE RunnerEnds
  <2>1. FlagsOK'
    BY <1>5 DEF FlagsOK, RunnerEnds, taskVars, appVars, loopVars
  <2>2. StepsOK'
    BY <1>5 DEF FlagsOK, StepsOK, RunnerEnds, taskVars, appVars, loopVars
  <2>3. TaskInv' /\ AnswerInv'
    BY <1>5 DEF FlagsOK, StepsOK, TaskInv, AnswerInv, Prepared, Vouched, RunnerEnds, taskVars, appVars, loopVars
  <2>4. NoWaitInv'
    BY <1>5 DEF FlagsOK, StepsOK, TaskInv, NoWaitInv, RunnerEnds, taskVars, appVars, loopVars
  <2>5. OrderInv'
    BY <1>5 DEF FlagsOK, StepsOK, TaskInv, OrderInv, FirstRunner, Prepared, RunnerEnds, taskVars, appVars, loopVars
  <2>. QED  BY <2>1, <2>2, <2>3, <2>4, <2>5
<1>. QED  BY <1>1, <1>2, <1>3, <1>4, <1>5

LEMMA LoopStep ==
    ASSUME GateInv, Retry \/ Restart \/ GiveUp \/ PingAnswered \/ Answer
    PROVE  GateInv'
<1>. SUFFICES ASSUME FlagsOK, StepsOK, TaskInv, AnswerInv, NoWaitInv, OrderInv
              PROVE  FlagsOK' /\ StepsOK' /\ TaskInv' /\ AnswerInv' /\ NoWaitInv' /\ OrderInv'
  BY DEF GateInv
<1>1. CASE Retry
  <2>1. FlagsOK'
    BY <1>1 DEF FlagsOK, Retry, taskVars, appVars, loopVars
  <2>2. StepsOK'
    BY <1>1 DEF FlagsOK, StepsOK, Retry, taskVars, appVars, loopVars
  <2>3. TaskInv' /\ AnswerInv'
    BY <1>1 DEF FlagsOK, StepsOK, TaskInv, AnswerInv, Prepared, Vouched, Retry, taskVars, appVars, loopVars
  <2>4. NoWaitInv'
    BY <1>1 DEF FlagsOK, StepsOK, TaskInv, NoWaitInv, Retry, taskVars, appVars, loopVars
  <2>5. OrderInv'
    BY <1>1 DEF FlagsOK, StepsOK, TaskInv, OrderInv, FirstRunner, Prepared, Retry, taskVars, appVars, loopVars
  <2>. QED  BY <2>1, <2>2, <2>3, <2>4, <2>5
<1>2. CASE Restart
  <2>1. FlagsOK'
    BY <1>2 DEF FlagsOK, Restart, taskVars, appVars, loopVars
  <2>2. StepsOK'
    BY <1>2 DEF FlagsOK, StepsOK, Restart, taskVars, appVars, loopVars
  <2>3. TaskInv' /\ AnswerInv'
    BY <1>2 DEF FlagsOK, StepsOK, TaskInv, AnswerInv, Prepared, Vouched, Restart, taskVars, appVars, loopVars
  <2>4. NoWaitInv'
    BY <1>2 DEF FlagsOK, StepsOK, TaskInv, NoWaitInv, Restart, taskVars, appVars, loopVars
  <2>5. OrderInv'
    BY <1>2 DEF FlagsOK, StepsOK, TaskInv, OrderInv, FirstRunner, Prepared, Restart, taskVars, appVars, loopVars
  <2>. QED  BY <2>1, <2>2, <2>3, <2>4, <2>5
<1>3. CASE GiveUp
  <2>1. FlagsOK'
    BY <1>3 DEF FlagsOK, GiveUp, taskVars, appVars, loopVars
  <2>2. StepsOK'
    BY <1>3 DEF FlagsOK, StepsOK, GiveUp, taskVars, appVars, loopVars
  <2>3. TaskInv' /\ AnswerInv'
    BY <1>3 DEF FlagsOK, StepsOK, TaskInv, AnswerInv, Prepared, Vouched, GiveUp, taskVars, appVars, loopVars
  <2>4. NoWaitInv'
    BY <1>3 DEF FlagsOK, StepsOK, TaskInv, NoWaitInv, GiveUp, taskVars, appVars, loopVars
  <2>5. OrderInv'
    BY <1>3 DEF FlagsOK, StepsOK, TaskInv, OrderInv, FirstRunner, Prepared, GiveUp, taskVars, appVars, loopVars
  <2>. QED  BY <2>1, <2>2, <2>3, <2>4, <2>5
<1>4. CASE PingAnswered
  <2>1. FlagsOK'
    BY <1>4 DEF FlagsOK, PingAnswered, taskVars, appVars, loopVars
  <2>2. StepsOK'
    BY <1>4 DEF FlagsOK, StepsOK, PingAnswered, taskVars, appVars, loopVars
  <2>3. TaskInv' /\ AnswerInv'
    BY <1>4 DEF FlagsOK, StepsOK, TaskInv, AnswerInv, Prepared, Vouched, PingAnswered, taskVars, appVars, loopVars
  <2>4. NoWaitInv'
    BY <1>4 DEF FlagsOK, StepsOK, TaskInv, NoWaitInv, PingAnswered, taskVars, appVars, loopVars
  <2>5. OrderInv'
    BY <1>4 DEF FlagsOK, StepsOK, TaskInv, OrderInv, FirstRunner, Prepared, PingAnswered, taskVars, appVars, loopVars
  <2>. QED  BY <2>1, <2>2, <2>3, <2>4, <2>5
<1>5. CASE Answer
  <2>1. FlagsOK'
    BY <1>5 DEF FlagsOK, Answer, taskVars, appVars, loopVars
  <2>2. StepsOK'
    BY <1>5 DEF FlagsOK, StepsOK, Answer, taskVars, appVars, loopVars
  <2>3. TaskInv' /\ AnswerInv'
    BY <1>5 DEF FlagsOK, StepsOK, TaskInv, AnswerInv, Prepared, Vouched, Answer, taskVars, appVars, loopVars
  <2>4. NoWaitInv'
    BY <1>5 DEF FlagsOK, StepsOK, TaskInv, NoWaitInv, Answer, taskVars, appVars, loopVars
  <2>5. OrderInv'
    BY <1>5 DEF FlagsOK, StepsOK, TaskInv, OrderInv, FirstRunner, Prepared, Answer, taskVars, appVars, loopVars
  <2>. QED  BY <2>1, <2>2, <2>3, <2>4, <2>5
<1>. QED  BY <1>1, <1>2, <1>3, <1>4, <1>5

LEMMA GateStep == GateInv /\ [GateNext]_gateVars => GateInv'
<1>. SUFFICES ASSUME GateInv, [GateNext]_gateVars PROVE GateInv'
  OBVIOUS
<1>1. CASE UNCHANGED gateVars
  BY <1>1 DEF gateVars, taskVars, appVars, loopVars, GateInv, FlagsOK, StepsOK, TaskInv, AnswerInv, NoWaitInv,
              OrderInv, FirstRunner, Prepared, Vouched
<1>2. CASE GateNext
  BY <1>1, <1>2, TaskStep, RunnerStep, LoopStep DEF GateNext, Ended
<1>. QED  BY <1>1, <1>2

\* What the three values of app_launched_fresh say of the app.
LEMMA FreshFromInv == GateInv => FreshIsFirstLaunch
BY DEF GateInv, FlagsOK, StepsOK, TaskInv, AnswerInv, NoWaitInv, OrderInv, FirstRunner, Prepared, Vouched,
       FreshIsFirstLaunch

\* A start reported as fresh (app_launched_fresh) has the app running from the first
\* launch of clean data, whichever of the task, the runner and the loop went first,
\* died, was cut off or was retried.
THEOREM FreshIsFirst == GateSpec => []FreshIsFirstLaunch
BY GateInvInit, GateStep, FreshFromInv, PTL DEF GateSpec

-----------------------------------------------------------------------------
(* SystemProxy: what the record, the setting and the works at hand say.    *)

\* What the variables may hold.
ProxyTypeOK ==
    /\ proc \in [Daemons -> {"new", "up", "dead"}] /\ active \in Services
    /\ setting \in [Services -> [Kinds -> Daemons \cup {"off", "userOn", "userOff"}]]
    /\ bypass \in [Services -> UserLists \cup {"ours"}]
    /\ record \in Records \cup {NoRecord}
    /\ jobs \subseteq Jobs /\ (\A j \in jobs : j.op # "failed") /\ work \in Works \cup {NoWork}
    /\ starting \in [Daemons -> Nat] /\ issued \in [Daemons -> Nat]
    /\ granted \in [Daemons -> Leases \cup {NoLease}]
    /\ pending \in [Daemons -> Leases \cup {NoLease}]
    /\ published \in [Daemons -> Leases \cup {NoLease}]
    /\ parting \in [Daemons -> Leases \cup {NoLease}]
    /\ lost \in [Daemons -> SUBSET Nat]
    /\ userList \in [Services -> UserLists] /\ userOn \in [Services -> SUBSET Kinds]

\* The work at hand still has this step to take.
Among(step, steps) == \E i \in 1..Len(steps) : steps[i] = step
Left(step) == work # NoWork /\ Among(step, work.todo)

\* The order of the steps: an undo ends by clearing the record, planning comes
\* last, and setting the proxy is not mixed with either.
Setting == {"set", "setBypass"}
Ordered(steps) == \A i, j \in 1..Len(steps) :
    /\ steps[i].do = "clear" /\ i < j => steps[j].do = "plan"
    /\ steps[i].do = "plan" => j <= i
    /\ steps[i].do \in Setting => steps[j].do \in Setting

\* What the steps are about: the record at hand, and what its acquire planned.
WorkInv ==
    work # NoWork =>
        /\ Ordered(work.todo)
        /\ \A step \in Steps : Left(step) =>
            /\ step.do = "plan" => work.job.op = "acquire"
            /\ step.do = "bypass" => record # NoRecord /\ step.of = record
            /\ step.do \in Setting => work.job.op = "acquire" /\ step.service = record.service
            /\ step.do \notin Setting /\ work.job.op = "acquire" => Left(Plan)
        /\ work.job.op = "acquire" => (IssuedFor(work.job) <=> ~Left(Plan))
        /\ work.job.op \in {"release", "failed"} /\ IssuedFor(work.job) => Left(Clear)

\* Who is alive, and who has been.
LifeInv ==
    /\ \A s \in Services, k \in Kinds : setting[s][k] \in Daemons => proc[setting[s][k]] # "new"
    /\ record # NoRecord => proc[record.owner] # "new"
    /\ \A j \in jobs : proc[j.by] = "up"
    /\ work # NoWork => proc[work.job.by] = "up" /\ (work.from # NoDaemon => proc[work.from] = "dead")
    /\ \A d \in Daemons :
          starting[d] # 0 \/ granted[d] # NoLease \/ pending[d] # NoLease
            \/ published[d] # NoLease \/ parting[d] # NoLease => proc[d] = "up"

\* A lease is one thing: an acquire on its way, the work at hand, a lease that is
\* held or its release.
Same(i, j) == i.op # "recover" /\ j.op # "recover" /\ i.by = j.by /\ i.lease = j.lease
Held(d, lease) == lease # NoLease /\ lease \in {granted[d], pending[d], published[d], parting[d]}
LeaseInv ==
    /\ record # NoRecord => record.lease \in 1..issued[record.owner]
    /\ \A j \in jobs : j.op # "recover" => j.lease \in 1..issued[j.by]
    /\ work # NoWork /\ work.job.op # "recover" => work.job.lease \in 1..issued[work.job.by]
    /\ \A i, j \in jobs : Same(i, j) => i = j
    /\ \A j \in jobs : work # NoWork => ~Same(work.job, j)
    /\ \A d \in Daemons :
          /\ starting[d] \in {0, issued[d]}
          /\ starting[d] # 0 => /\ granted[d] = NoLease /\ pending[d] = NoLease
                               /\ published[d] = NoLease /\ parting[d] = NoLease
          /\ granted[d] # NoLease => pending[d] = NoLease /\ published[d] = NoLease /\ parting[d] = NoLease
          /\ pending[d] # NoLease => published[d] = NoLease /\ parting[d] = NoLease
          /\ published[d] = NoLease \/ parting[d] = NoLease
    /\ \A d \in Daemons, lease \in Leases : Held(d, lease) =>
          /\ lease.id = issued[d] /\ lease.id # 0 /\ lease.service \in Services
          /\ \A j \in jobs : j.op # "recover" /\ j.by = d => j.lease # lease.id
          /\ work # NoWork /\ work.job.op # "recover" /\ work.job.by = d => work.job.lease # lease.id

\* The record and the lease it was written for.
RecordInv ==
    /\ \A j \in jobs : j.op = "acquire" => ~IssuedFor(j)
    /\ \A j \in jobs : j.op = "release" =>
          j.service \in Services /\ (IssuedFor(j) => record.service = j.service)
    /\ work # NoWork /\ work.job.op = "release" => work.job.service \in Services
    /\ \A d \in Daemons, lease \in Leases : Held(d, lease) /\ record # NoRecord
          /\ record.owner = d /\ record.lease = lease.id => record.service = lease.service

\* What a daemon has set is on record, or left to its successor, which is about to
\* replace it or to take it off.
PointedInv ==
    ~undoFailed => \A s \in Services, k \in Kinds, d \in Daemons :
        setting[s][k] = d /\ (proc[d] = "up" \/ ~cut) =>
            /\ record # NoRecord /\ record.service = s
            /\ Left(Clear) => Left(Off(s, d, k))
            /\ \/ record.owner = d
               \/ work # NoWork /\ work.from = d /\ (Left(Set(s, k)) \/ Left(Off(s, d, k)))

\* And somebody will take it off: whoever has the lease of the record.  Unless the
\* lease was lost.
OwedInv ==
    ~undoFailed /\ record # NoRecord /\ proc[record.owner] = "up"
      /\ (\E k \in Kinds : setting[record.service][k] = record.owner) =>
        \/ \E lease \in Leases : Held(record.owner, lease) /\ lease.id = record.lease
        \/ \E j \in jobs : j.op = "release" /\ IssuedFor(j)
        \/ work # NoWork /\ work.job.op # "recover" /\ IssuedFor(work.job)
        \/ record.lease \in lost[record.owner]

\* A capture that holds its lease has the record and the setting, and nobody who
\* gets the lock does anything to them.
HeldInv ==
    /\ ~overtaken => \A d \in Daemons, lease \in Leases : Held(d, lease) =>
          /\ record # NoRecord /\ record.owner = d /\ record.lease = lease.id
          /\ \A k \in Kinds : setting[lease.service][k] \in {d, "userOn", "userOff"}
          /\ \A step \in Steps : Left(step) => step.do = "plan" /\ work.job.by # d
    /\ work # NoWork /\ work.job.op = "acquire" /\ ~Left(Plan)
         /\ starting[work.job.by] = work.job.lease =>
          \A k \in Kinds : \/ Left(Set(record.service, k))
                           \/ setting[record.service][k] = work.job.by

\* The user's own proxy is never overwritten.
UserOnInv ==
    \A s \in Services, k \in Kinds :
        /\ k \in userOn[s] => setting[s][k] = "userOn"
        /\ Left(Set(s, k)) => setting[s][k] # "userOn"

\* Where the bypass list is not the user's, the record has the user's; and the
\* record has it too where the list only looks like the daemon's.
BypassInv ==
    ~undoFailed /\ ~unread =>
        /\ \A s \in Services : bypass[s] # userList[s] =>
              /\ bypass[s] = "ours" /\ record # NoRecord /\ record.service = s
              /\ Left(Clear) => Left(RestoreBypass(record))
        /\ record # NoRecord /\ (StillOurs(record) \/ \E s \in Services : Left(SetBypass(s))) =>
              record.original = userList[record.service]

ProxyInv ==
    /\ ProxyTypeOK /\ WorkInv /\ LifeInv /\ LeaseInv /\ RecordInv
    /\ PointedInv /\ OwedInv /\ HeldInv /\ UserOnInv /\ BypassInv
-----------------------------------------------------------------------------
(* Lists of steps.                                                         *)

LEMMA FieldsOfSteps ==
    \A s, d, k, r :
        /\ Off(s, d, k).do = "off" /\ Off(s, d, k).service = s
        /\ Off(s, d, k).port = d /\ Off(s, d, k).kind = k
        /\ RestoreBypass(r).do = "bypass" /\ RestoreBypass(r).of = r
        /\ Clear.do = "clear" /\ Plan.do = "plan"
        /\ Set(s, k).do = "set" /\ Set(s, k).service = s /\ Set(s, k).kind = k
        /\ SetBypass(s).do = "setBypass" /\ SetBypass(s).service = s
BY DEF Off, RestoreBypass, Clear, Plan, Set, SetBypass

LEMMA StepsAreSteps ==
    /\ \A s \in Services, d \in Daemons, k \in Kinds : Off(s, d, k) \in Steps
    /\ \A r \in Records : RestoreBypass(r) \in Steps
    /\ Clear \in Steps /\ Plan \in Steps
    /\ \A s \in Services, k \in Kinds : Set(s, k) \in Steps
    /\ \A s \in Services : SetBypass(s) \in Steps
BY DEF Off, RestoreBypass, Clear, Plan, Set, SetBypass, Steps

LEMMA KindsOfSteps ==
    ASSUME NEW x \in Steps
    PROVE  /\ x.do = "off" => x.service \in Services /\ x.port \in Daemons /\ x.kind \in Kinds
                              /\ x = Off(x.service, x.port, x.kind)
           /\ x.do = "bypass" => x.of \in Records /\ x = RestoreBypass(x.of)
           /\ x.do = "clear" => x = Clear
           /\ x.do = "plan" => x = Plan
           /\ x.do = "set" => x.service \in Services /\ x.kind \in Kinds /\ x = Set(x.service, x.kind)
           /\ x.do = "setBypass" => x.service \in Services /\ x = SetBypass(x.service)
           /\ x.do \in {"off", "bypass", "clear", "plan", "set", "setBypass"}
BY DEF Steps, Off, RestoreBypass, Clear, Plan, Set, SetBypass

LEMMA KindsAre == Kinds = {"http", "https"} BY DEF Kinds

LEMMA PlanSteps ==
    /\ <<Plan>> \in Seq(Steps) /\ Ordered(<<Plan>>)
    /\ \A x : Among(x, <<Plan>>) <=> x = Plan
BY StepsAreSteps, FieldsOfSteps DEF Ordered, Among, Setting

LEMMA NoSteps ==
    <<>> \in Seq(Steps) /\ Ordered(<<>>) /\ \A x : ~Among(x, <<>>)
BY DEF Ordered, Among

LEMMA OffSteps ==
    ASSUME NEW s \in Services, NEW d \in Daemons
    PROVE  /\ DisableIfOurs(s, d) \in Seq(Steps) /\ Ordered(DisableIfOurs(s, d))
           /\ \A x : Among(x, DisableIfOurs(s, d)) <=> \E k \in Kinds : x = Off(s, d, k)
BY StepsAreSteps, FieldsOfSteps, KindsAre DEF DisableIfOurs, Ordered, Among, Setting

LEMMA JoinedSteps ==
    ASSUME NEW T \in Seq(Steps), NEW U \in Seq(Steps)
    PROVE  /\ T \o U \in Seq(Steps)
           /\ \A x : Among(x, T \o U) <=> Among(x, T) \/ Among(x, U)
<1>1. /\ T \o U \in Seq(Steps) /\ Len(T \o U) = Len(T) + Len(U)
      /\ Len(T) \in Nat /\ Len(U) \in Nat
      /\ \A i \in 1..Len(T) : (T \o U)[i] = T[i]
      /\ \A i \in 1..Len(U) : (T \o U)[Len(T) + i] = U[i]
  OBVIOUS
<1>2. \A i \in 1..Len(T \o U) : \/ i \in 1..Len(T)
                                \/ i - Len(T) \in 1..Len(U) /\ i = Len(T) + (i - Len(T))
  BY <1>1
<1>3. \A i \in 1..Len(T) : i \in 1..Len(T \o U) BY <1>1
<1>4. \A i \in 1..Len(U) : Len(T) + i \in 1..Len(T \o U) BY <1>1
<1>. HIDE DEF Among
<1>5. ASSUME NEW x, Among(x, T \o U) PROVE Among(x, T) \/ Among(x, U)
  <2>1. PICK i \in 1..Len(T \o U) : (T \o U)[i] = x BY <1>5 DEF Among
  <2>2. CASE i \in 1..Len(T) BY <1>1, <2>1, <2>2 DEF Among
  <2>3. CASE i - Len(T) \in 1..Len(U) /\ i = Len(T) + (i - Len(T)) BY <1>1, <2>1, <2>3 DEF Among
  <2>. QED BY <1>2, <2>2, <2>3
<1>6. ASSUME NEW x, Among(x, T) PROVE Among(x, T \o U) BY <1>1, <1>3, <1>6 DEF Among
<1>7. ASSUME NEW x, Among(x, U) PROVE Among(x, T \o U) BY <1>1, <1>4, <1>7 DEF Among
<1>. QED BY <1>1, <1>5, <1>6, <1>7

\* What puts things back comes before what ends an undo.
LEMMA OrderedSteps ==
    ASSUME NEW T \in Seq(Steps), NEW U \in Seq(Steps), Ordered(U),
           \A x : Among(x, T) => x.do \in {"off", "bypass"},
           \A x : Among(x, U) => x.do \notin Setting
    PROVE  Ordered(T \o U)
<1>1. /\ Len(T \o U) = Len(T) + Len(U) /\ Len(T) \in Nat /\ Len(U) \in Nat
      /\ \A i \in 1..Len(T) : (T \o U)[i] = T[i]
      /\ \A i \in 1..Len(U) : (T \o U)[Len(T) + i] = U[i]
  OBVIOUS
<1>2. \A i \in 1..Len(T) : (T \o U)[i].do \in {"off", "bypass"} BY <1>1 DEF Among
<1>3. \A i \in 1..Len(T \o U) : i \notin 1..Len(T) =>
          i - Len(T) \in 1..Len(U) /\ (T \o U)[i] = U[i - Len(T)]
  <2>. TAKE i \in 1..Len(T \o U)
  <2>. HAVE i \notin 1..Len(T)
  <2>1. i - Len(T) \in 1..Len(U) /\ i = Len(T) + (i - Len(T)) BY <1>1
  <2>. QED BY <1>1, <2>1
<1>4. \A i \in 1..Len(U) : U[i].do \notin Setting BY DEF Among
<1>. SUFFICES ASSUME NEW i \in 1..Len(T \o U), NEW j \in 1..Len(T \o U)
              PROVE  /\ (T \o U)[i].do = "clear" /\ i < j => (T \o U)[j].do = "plan"
                     /\ (T \o U)[i].do = "plan" => j <= i
                     /\ (T \o U)[i].do \in Setting => (T \o U)[j].do \in Setting
  BY DEF Ordered
<1>5. CASE i \in 1..Len(T) BY <1>2, <1>5 DEF Setting
<1>6. CASE i \notin 1..Len(T)
  <2>1. i - Len(T) \in 1..Len(U) /\ (T \o U)[i] = U[i - Len(T)] BY <1>3, <1>6
  <2>2. CASE j \in 1..Len(T)
    <3>1. j < i BY <1>1, <1>6, <2>2
    <3>. QED BY <1>1, <1>4, <2>1, <3>1
  <2>3. CASE j \notin 1..Len(T)
    <3>1. j - Len(T) \in 1..Len(U) /\ (T \o U)[j] = U[j - Len(T)] BY <1>3, <2>3
    <3>2. (i < j <=> i - Len(T) < j - Len(T)) /\ (j <= i <=> j - Len(T) <= i - Len(T)) BY <1>1
    <3>. QED BY <1>4, <2>1, <3>1, <3>2 DEF Ordered
  <2>. QED BY <2>2, <2>3
<1>. QED BY <1>5, <1>6

LEMMA UndoneSteps ==
    ASSUME NEW r \in Records
    PROVE  /\ Undo(r) \in Seq(Steps)
           /\ \A x : Among(x, Undo(r)) <=> \/ \E k \in Kinds : x = Off(r.service, r.owner, k)
                                           \/ x = RestoreBypass(r)
<1>. DEFINE D == DisableIfOurs(r.service, r.owner)
<1>1. r.service \in Services /\ r.owner \in Daemons BY DEF Records
<1>2. D \in Seq(Steps) /\ \A x : Among(x, D) <=> \E k \in Kinds : x = Off(r.service, r.owner, k)
  BY <1>1, OffSteps
<1>3. RestoreBypass(r) \in Steps BY StepsAreSteps
<1>. HIDE DEF D
<1>4. Append(D, RestoreBypass(r)) = D \o <<RestoreBypass(r)>> BY <1>2, <1>3
<1>5. <<RestoreBypass(r)>> \in Seq(Steps) /\ \A x : Among(x, <<RestoreBypass(r)>>) <=> x = RestoreBypass(r)
  BY <1>3 DEF Among
<1>6. Undo(r) = D \o <<RestoreBypass(r)>> BY <1>4 DEF Undo, D
<1>7. /\ D \o <<RestoreBypass(r)>> \in Seq(Steps)
      /\ \A x : Among(x, D \o <<RestoreBypass(r)>>) <=> Among(x, D) \/ Among(x, <<RestoreBypass(r)>>)
  BY <1>2, <1>5, JoinedSteps
<1>8. \A x : Among(x, Undo(r)) <=> Among(x, D) \/ Among(x, <<RestoreBypass(r)>>) BY <1>6, <1>7
<1>9. Undo(r) \in Seq(Steps) BY <1>6, <1>7
<1>. QED BY <1>2, <1>5, <1>8, <1>9

LEMMA ElsewhereSteps ==
    ASSUME NEW r \in Records, NEW T, T = Undo(r) \o <<Clear, Plan>>
    PROVE  /\ T \in Seq(Steps) /\ Ordered(T)
           /\ \A x : Among(x, T) <=> \/ \E k \in Kinds : x = Off(r.service, r.owner, k)
                                     \/ x = RestoreBypass(r) \/ x = Clear \/ x = Plan
<1>1. /\ <<Clear, Plan>> \in Seq(Steps) /\ Ordered(<<Clear, Plan>>)
      /\ \A x : Among(x, <<Clear, Plan>>) <=> x = Clear \/ x = Plan
  BY StepsAreSteps, FieldsOfSteps DEF Ordered, Among, Setting
<1>2. \A x : Among(x, Undo(r)) => x.do \in {"off", "bypass"} BY UndoneSteps, FieldsOfSteps
<1>3. \A x : Among(x, <<Clear, Plan>>) => x.do \notin Setting BY <1>1, FieldsOfSteps DEF Setting
<1>4. Ordered(T) BY <1>1, <1>2, <1>3, UndoneSteps, OrderedSteps
<1>. QED BY <1>1, <1>4, UndoneSteps, JoinedSteps

LEMMA UndoSteps ==
    ASSUME NEW r \in Records, NEW T, T = Append(Undo(r), Clear)
    PROVE  /\ T \in Seq(Steps) /\ Ordered(T)
           /\ \A x : Among(x, T) <=> \/ \E k \in Kinds : x = Off(r.service, r.owner, k)
                                     \/ x = RestoreBypass(r) \/ x = Clear
<1>1. /\ <<Clear>> \in Seq(Steps) /\ Ordered(<<Clear>>) /\ \A x : Among(x, <<Clear>>) <=> x = Clear
  BY StepsAreSteps, FieldsOfSteps DEF Ordered, Among, Setting
<1>2. Append(Undo(r), Clear) = Undo(r) \o <<Clear>> BY UndoneSteps, StepsAreSteps
<1>3. \A x : Among(x, Undo(r)) => x.do \in {"off", "bypass"} BY UndoneSteps, FieldsOfSteps
<1>4. \A x : Among(x, <<Clear>>) => x.do \notin Setting BY <1>1, FieldsOfSteps DEF Setting
<1>5. Ordered(T) BY <1>1, <1>2, <1>3, <1>4, UndoneSteps, OrderedSteps
<1>6. /\ Undo(r) \o <<Clear>> \in Seq(Steps)
      /\ \A x : Among(x, Undo(r) \o <<Clear>>) <=> Among(x, Undo(r)) \/ Among(x, <<Clear>>)
  BY <1>1, UndoneSteps, JoinedSteps
<1>7. T \in Seq(Steps) /\ \A x : Among(x, T) <=> Among(x, Undo(r)) \/ Among(x, <<Clear>>)
  BY <1>2, <1>6
<1>. QED BY <1>1, <1>5, <1>7, UndoneSteps

LEMMA FailedSteps ==
    ASSUME NEW r \in Records, NEW d \in Daemons
    PROVE  LET T == DisableIfOurs(r.service, d) \o Append(Undo(r), Clear) IN
           /\ T \in Seq(Steps) /\ Ordered(T)
           /\ \A x : Among(x, T) <=> \/ \E k \in Kinds : x = Off(r.service, d, k)
                                     \/ \E k \in Kinds : x = Off(r.service, r.owner, k)
                                     \/ x = RestoreBypass(r) \/ x = Clear
<1>. DEFINE T == DisableIfOurs(r.service, d) \o Append(Undo(r), Clear)
<1>. DEFINE U == Append(Undo(r), Clear)
            D == DisableIfOurs(r.service, d)
<1>1. r.service \in Services BY DEF Records
<1>2. D \in Seq(Steps) /\ \A x : Among(x, D) <=> \E k \in Kinds : x = Off(r.service, d, k)
  BY <1>1, OffSteps
<1>3. /\ U \in Seq(Steps) /\ Ordered(U)
      /\ \A x : Among(x, U) <=> \/ \E k \in Kinds : x = Off(r.service, r.owner, k)
                                \/ x = RestoreBypass(r) \/ x = Clear
  BY UndoSteps
<1>4. T = D \o U OBVIOUS
<1>. HIDE DEF U, D, T
<1>5. \A x : Among(x, D) => x.do \in {"off", "bypass"} BY <1>2, FieldsOfSteps
<1>6. \A x : Among(x, U) => x.do \notin Setting BY <1>3, FieldsOfSteps DEF Setting
<1>7. Ordered(T) BY <1>2, <1>3, <1>4, <1>5, <1>6, OrderedSteps
<1>8. \A x : Among(x, T) <=> Among(x, D) \/ Among(x, U) BY <1>2, <1>3, <1>4, JoinedSteps
<1>9. T \in Seq(Steps) BY <1>2, <1>3, <1>4, JoinedSteps
<1>. QED BY <1>2, <1>3, <1>7, <1>8, <1>9 DEF T

LEMMA SetSteps ==
    ASSUME NEW s \in Services, NEW T, T = <<Set(s, "http"), Set(s, "https"), SetBypass(s)>>
    PROVE  /\ T \in Seq(Steps) /\ Ordered(T)
           /\ \A x : Among(x, T) <=> (\E k \in Kinds : x = Set(s, k)) \/ x = SetBypass(s)
<1>1. T \in Seq(Steps) /\ Len(T) = 3 BY StepsAreSteps, KindsAre
<1>2. T[1] = Set(s, "http") /\ T[2] = Set(s, "https") /\ T[3] = SetBypass(s) OBVIOUS
<1>3. Ordered(T) BY <1>1, <1>2, FieldsOfSteps DEF Ordered, Setting
<1>. QED BY <1>1, <1>2, <1>3, KindsAre DEF Among

\* What is left once the first step is taken.
LEMMA RestOfSteps ==
    ASSUME NEW T \in Seq(Steps), T # <<>>, Ordered(T)
    PROVE  /\ Tail(T) \in Seq(Steps) /\ Ordered(Tail(T))
           /\ Head(T) \in Steps /\ Among(Head(T), T)
           /\ \A x : Among(x, Tail(T)) => Among(x, T)
           /\ \A x : Among(x, T) /\ x # Head(T) => Among(x, Tail(T))
           /\ Head(T).do = "clear" => \A x : Among(x, Tail(T)) => x.do = "plan"
           /\ Head(T).do = "plan" => \A x : Among(x, T) => x = Head(T)
           /\ Head(T).do \in Setting => \A x : Among(x, T) => x.do \in Setting
<1>1. /\ Tail(T) \in Seq(Steps) /\ Len(T) \in Nat \ {0} /\ Len(Tail(T)) = Len(T) - 1
      /\ Head(T) = T[1] /\ \A i \in 1..Len(T) : T[i] \in Steps
  OBVIOUS
<1>2. \A i \in 1..Len(Tail(T)) : Tail(T)[i] = T[i + 1] /\ i + 1 \in 1..Len(T) BY <1>1
<1>3. \A i \in 1..Len(T) : i = 1 \/ (i - 1 \in 1..Len(Tail(T)) /\ T[i] = Tail(T)[i - 1]) BY <1>1, <1>2
<1>4. Ordered(Tail(T))
  <2>. SUFFICES ASSUME NEW i \in 1..Len(Tail(T)), NEW j \in 1..Len(Tail(T))
                PROVE  /\ Tail(T)[i].do = "clear" /\ i < j => Tail(T)[j].do = "plan"
                       /\ Tail(T)[i].do = "plan" => j <= i
                       /\ Tail(T)[i].do \in Setting => Tail(T)[j].do \in Setting
    BY DEF Ordered
  <2>1. i + 1 \in 1..Len(T) /\ j + 1 \in 1..Len(T) /\ (i < j <=> i + 1 < j + 1) /\ (j <= i <=> j + 1 <= i + 1)
        /\ Tail(T)[i] = T[i + 1] /\ Tail(T)[j] = T[j + 1] BY <1>1, <1>2
  <2>. QED BY <2>1 DEF Ordered
<1>5. \A x : Among(x, Tail(T)) => Among(x, T) BY <1>1, <1>2 DEF Among
<1>6. \A x : Among(x, T) /\ x # Head(T) => Among(x, Tail(T)) BY <1>1, <1>3 DEF Among
<1>7. Among(Head(T), T) BY <1>1 DEF Among
<1>8. Head(T).do = "clear" => \A x : Among(x, Tail(T)) => x.do = "plan"
  BY <1>1, <1>2 DEF Among, Ordered
<1>9. Head(T).do = "plan" => \A x : Among(x, T) => x = Head(T) BY <1>1 DEF Among, Ordered
<1>10. Head(T).do \in Setting => \A x : Among(x, T) => x.do \in Setting BY <1>1 DEF Among, Ordered
<1>. QED BY <1>1, <1>4, <1>5, <1>6, <1>7, <1>8, <1>9, <1>10

-----------------------------------------------------------------------------
(* The work at hand.                                                       *)

\* A daemon is no answer of networksetup, and a sentinel is none of the things it
\* stands for.
LEMMA Sentinels ==
    /\ "ours" \notin UserLists /\ "off" \notin Daemons /\ "userOn" \notin Daemons
    /\ "userOff" \notin Daemons /\ NoDaemon \notin Daemons /\ NoRecord \notin Records
    /\ NoLease \notin Leases /\ NoWork \notin Works
BY ProxyAssumption

LEMMA WorkGoesOn ==
    ASSUME ProxyTypeOK, WorkInv, work # NoWork, work.todo # <<>>, Done
    PROVE  /\ work' \in Works /\ work' # NoWork /\ work'.job = work.job /\ work'.from = work.from
           /\ Ordered(work'.todo)
           /\ NextStep \in Steps /\ Left(NextStep)
           /\ \A x : Left(x)' => Left(x)
           /\ \A x : Left(x) /\ x # NextStep => Left(x)'
           /\ NextStep.do = "clear" => \A x : Left(x)' => x.do = "plan"
           /\ NextStep.do = "plan" => \A x : Left(x) => x = NextStep
           /\ NextStep.do \in Setting => \A x : Left(x) => x.do \in Setting
<1>1. work \in Works /\ work.todo \in Seq(Steps) /\ Ordered(work.todo)
  BY DEF ProxyTypeOK, WorkInv, Works
<1>2. Tail(work.todo) \in Seq(Steps) BY <1>1, RestOfSteps
<1>3. /\ work' \in Works /\ work'.todo = Tail(work.todo) /\ work'.job = work.job
      /\ work'.from = work.from
  BY <1>1, <1>2 DEF Done, Then, Works
<1>4. work' # NoWork BY <1>3, Sentinels
<1>. QED BY <1>1, <1>3, <1>4, RestOfSteps DEF Left, NextStep

LEMMA WorkPlanned ==
    ASSUME ProxyTypeOK, WorkInv, Step("plan")
    PROVE  /\ work \in Works /\ work # NoWork /\ work.job.op = "acquire" /\ ~IssuedFor(work.job)
           /\ work.job.by \in Daemons /\ \A x : Left(x) <=> x = Plan
<1>1. work \in Works /\ work # NoWork /\ work.todo \in Seq(Steps) /\ work.todo # <<>>
      /\ Ordered(work.todo) /\ work.job.by \in Daemons
  BY DEF ProxyTypeOK, WorkInv, Works, Step, Jobs
<1>2. /\ Head(work.todo) \in Steps /\ Among(Head(work.todo), work.todo)
      /\ \A x : Among(x, work.todo) => x = Head(work.todo)
  BY <1>1, RestOfSteps DEF Step
<1>3. Head(work.todo) = Plan BY <1>2, KindsOfSteps DEF Step
<1>4. \A x : Left(x) <=> x = Plan BY <1>1, <1>2, <1>3 DEF Left
<1>. QED BY <1>1, <1>4, StepsAreSteps, FieldsOfSteps DEF WorkInv

-----------------------------------------------------------------------------
(* What each action keeps.                                                 *)

LEMMA StartDaemonKeeps == ASSUME ProxyInv, NEW d \in Daemons, StartDaemon(d) PROVE ProxyInv'
<1>. USE Sentinels DEF ProxyInv, StartDaemon, Job, Lease, diskVars, leaseVars, boundVars, ghostVars
<1>1. ProxyTypeOK' BY DEF ProxyTypeOK, Jobs
<1>2. WorkInv' BY DEF WorkInv, Left, IssuedFor
<1>3. LifeInv' BY DEF LifeInv, ProxyTypeOK, Records, Works, Jobs
<1>4. LeaseInv' BY DEF LeaseInv, Same, Held
<1>5. RecordInv' BY DEF RecordInv, IssuedFor, Held
<1>6. PointedInv' BY DEF PointedInv, LifeInv, Left, ProxyTypeOK
<1>7. OwedInv' BY DEF OwedInv, LifeInv, Left, IssuedFor, Held, ProxyTypeOK, Records
<1>8. HeldInv' BY DEF HeldInv, Left, Held
<1>9. UserOnInv' BY DEF UserOnInv, Left
<1>10. BypassInv' BY DEF BypassInv, StillOurs, Left
<1>. QED BY <1>1, <1>2, <1>3, <1>4, <1>5, <1>6, <1>7, <1>8, <1>9, <1>10 DEF ProxyInv

LEMMA DieKeeps == ASSUME ProxyInv, NEW d \in Daemons, Die(d) PROVE ProxyInv'
<1>. USE Sentinels DEF ProxyInv, Die, diskVars, leaseVars, boundVars, ghostVars
<1>1. ProxyTypeOK' BY DEF ProxyTypeOK
<1>2. WorkInv' BY DEF WorkInv, Left, IssuedFor
<1>3. LifeInv' BY DEF LifeInv, ProxyTypeOK, Records, Works, Jobs
<1>4. LeaseInv' BY DEF LeaseInv, Same, Held, ProxyTypeOK
<1>5. RecordInv' BY DEF RecordInv, IssuedFor, Held, ProxyTypeOK
<1>6. PointedInv'
  <2>. SUFFICES ASSUME NEW s \in Services, NEW k \in Kinds, NEW e \in Daemons, ~undoFailed,
                       setting[s][k] = e, proc'[e] = "up" \/ ~cut'
                PROVE  /\ record # NoRecord /\ record.service = s
                       /\ Left(Clear)' => Left(Off(s, e, k))'
                       /\ \/ record.owner = e
                          \/ /\ work' # NoWork /\ work'.from = e
                             /\ Left(Set(s, k))' \/ Left(Off(s, e, k))'
    BY DEF PointedInv
  <2>1. proc[e] = "up" \/ ~cut BY DEF ProxyTypeOK
  <2>2. /\ record # NoRecord /\ record.service = s
        /\ Left(Clear) => Left(Off(s, e, k))
        /\ \/ record.owner = e
           \/ work # NoWork /\ work.from = e /\ (Left(Set(s, k)) \/ Left(Off(s, e, k)))
    BY <2>1 DEF PointedInv
  <2>3. CASE work # NoWork /\ work.job.by = d
    <3>1. cut' = (cut \/ work.from # NoDaemon) /\ ~Left(Clear)' BY <2>3 DEF Left
    <3>2. work.from = e => proc[e] = "dead" BY <2>3 DEF LifeInv
    <3>3. work.from # e BY <3>1, <3>2 DEF ProxyTypeOK
    <3>. QED BY <2>2, <3>1, <3>3
  <2>4. CASE ~(work # NoWork /\ work.job.by = d)
    BY <2>2, <2>4 DEF Left
  <2>. QED BY <2>3, <2>4
<1>7. OwedInv' BY DEF OwedInv, LifeInv, Left, IssuedFor, Held, ProxyTypeOK, Records
<1>8. HeldInv' BY DEF HeldInv, Left, Held, ProxyTypeOK
<1>9. UserOnInv' BY DEF UserOnInv, Left
<1>10. BypassInv' BY DEF BypassInv, StillOurs, Left
<1>. QED BY <1>1, <1>2, <1>3, <1>4, <1>5, <1>6, <1>7, <1>8, <1>9, <1>10 DEF ProxyInv

LEMMA StartCaptureKeeps == ASSUME ProxyInv, NEW d \in Daemons, StartCapture(d) PROVE ProxyInv'
<1>. USE Sentinels DEF ProxyInv, StartCapture, Guarded, Job, Lease, diskVars, leaseVars, boundVars, ghostVars
<1>1. ProxyTypeOK' BY DEF ProxyTypeOK, Jobs, Leases
<1>2. WorkInv' BY DEF WorkInv, Left, IssuedFor
<1>3. LifeInv' BY DEF LifeInv, ProxyTypeOK, Records, Works, Jobs
<1>4. LeaseInv' BY DEF LeaseInv, Same, Held, ProxyTypeOK, Leases, Jobs, Records, Works
<1>5. RecordInv' BY DEF RecordInv, LeaseInv, IssuedFor, Held, ProxyTypeOK, Leases, Records
<1>6. PointedInv' BY DEF PointedInv, Left
<1>7. OwedInv' BY DEF OwedInv, Left, IssuedFor, Held, ProxyTypeOK, Records, Leases
<1>8. HeldInv' BY DEF HeldInv, LeaseInv, Left, Held, ProxyTypeOK, Works, Jobs
<1>9. UserOnInv' BY DEF UserOnInv, Left
<1>10. BypassInv' BY DEF BypassInv, StillOurs, Left
<1>. QED BY <1>1, <1>2, <1>3, <1>4, <1>5, <1>6, <1>7, <1>8, <1>9, <1>10 DEF ProxyInv

LEMMA ReceiveKeeps == ASSUME ProxyInv, NEW d \in Daemons, Receive(d) PROVE ProxyInv'
<1>. USE Sentinels DEF ProxyInv, Receive, diskVars, leaseVars, boundVars, ghostVars
<1>a. \A e \in Daemons, lease \in Leases : Held(e, lease)' <=> Held(e, lease)
  BY DEF Held, ProxyTypeOK, LeaseInv
<1>1. ProxyTypeOK' BY DEF ProxyTypeOK, Jobs, Leases
<1>2. WorkInv' BY DEF WorkInv, Left, IssuedFor
<1>3. LifeInv' BY DEF LifeInv, ProxyTypeOK, Records, Works, Jobs
<1>4. LeaseInv' BY DEF LeaseInv, Same, Held, ProxyTypeOK, Leases, Jobs, Records, Works
<1>5. RecordInv' BY DEF RecordInv, LeaseInv, IssuedFor, Held, ProxyTypeOK, Leases, Records
<1>6. PointedInv' BY DEF PointedInv, Left
<1>7. OwedInv' BY <1>a DEF OwedInv, Left, IssuedFor, ProxyTypeOK, Records
<1>8. HeldInv' BY DEF HeldInv, LeaseInv, Left, Held, ProxyTypeOK, Works, Jobs
<1>9. UserOnInv' BY DEF UserOnInv, Left
<1>10. BypassInv' BY DEF BypassInv, StillOurs, Left
<1>. QED BY <1>1, <1>2, <1>3, <1>4, <1>5, <1>6, <1>7, <1>8, <1>9, <1>10 DEF ProxyInv

LEMMA PublishKeeps == ASSUME ProxyInv, NEW d \in Daemons, Publish(d) PROVE ProxyInv'
<1>. USE Sentinels DEF ProxyInv, Publish, diskVars, leaseVars, boundVars, ghostVars
<1>a. \A e \in Daemons, lease \in Leases : Held(e, lease)' <=> Held(e, lease)
  BY DEF Held, ProxyTypeOK, LeaseInv
<1>1. ProxyTypeOK' BY DEF ProxyTypeOK, Jobs, Leases
<1>2. WorkInv' BY DEF WorkInv, Left, IssuedFor
<1>3. LifeInv' BY DEF LifeInv, ProxyTypeOK, Records, Works, Jobs
<1>4. LeaseInv' BY DEF LeaseInv, Same, Held, ProxyTypeOK, Leases, Jobs, Records, Works
<1>5. RecordInv' BY DEF RecordInv, LeaseInv, IssuedFor, Held, ProxyTypeOK, Leases, Records
<1>6. PointedInv' BY DEF PointedInv, Left
<1>7. OwedInv' BY <1>a DEF OwedInv, Left, IssuedFor, ProxyTypeOK, Records
<1>8. HeldInv' BY DEF HeldInv, LeaseInv, Left, Held, ProxyTypeOK, Works, Jobs
<1>9. UserOnInv' BY DEF UserOnInv, Left
<1>10. BypassInv' BY DEF BypassInv, StillOurs, Left
<1>. QED BY <1>1, <1>2, <1>3, <1>4, <1>5, <1>6, <1>7, <1>8, <1>9, <1>10 DEF ProxyInv

LEMMA CleanUpKeeps == ASSUME ProxyInv, NEW d \in Daemons, CleanUp(d) PROVE ProxyInv'
<1>. USE Sentinels DEF ProxyInv, CleanUp, diskVars, leaseVars, boundVars, ghostVars
<1>a. \A e \in Daemons, lease \in Leases : Held(e, lease)' <=> Held(e, lease)
  BY DEF Held, ProxyTypeOK, LeaseInv
<1>1. ProxyTypeOK' BY DEF ProxyTypeOK, Jobs, Leases
<1>2. WorkInv' BY DEF WorkInv, Left, IssuedFor
<1>3. LifeInv' BY DEF LifeInv, ProxyTypeOK, Records, Works, Jobs
<1>4. LeaseInv' BY DEF LeaseInv, Same, Held, ProxyTypeOK, Leases, Jobs, Records, Works
<1>5. RecordInv' BY DEF RecordInv, LeaseInv, IssuedFor, Held, ProxyTypeOK, Leases, Records
<1>6. PointedInv' BY DEF PointedInv, Left
<1>7. OwedInv' BY <1>a DEF OwedInv, Left, IssuedFor, ProxyTypeOK, Records
<1>8. HeldInv' BY DEF HeldInv, LeaseInv, Left, Held, ProxyTypeOK, Works, Jobs
<1>9. UserOnInv' BY DEF UserOnInv, Left
<1>10. BypassInv' BY DEF BypassInv, StillOurs, Left
<1>. QED BY <1>1, <1>2, <1>3, <1>4, <1>5, <1>6, <1>7, <1>8, <1>9, <1>10 DEF ProxyInv

LEMMA CancelWaitingKeeps == ASSUME ProxyInv, NEW d \in Daemons, CancelWaiting(d) PROVE ProxyInv'
<1>. USE Sentinels DEF ProxyInv, CancelWaiting, diskVars, leaseVars, boundVars, ghostVars
<1>1. ProxyTypeOK' BY DEF ProxyTypeOK, Jobs, Leases
<1>2. WorkInv' BY DEF WorkInv, Left, IssuedFor
<1>3. LifeInv' BY DEF LifeInv, ProxyTypeOK, Records, Works, Jobs
<1>4. LeaseInv' BY DEF LeaseInv, Same, Held, ProxyTypeOK, Leases, Jobs, Records, Works
<1>5. RecordInv' BY DEF RecordInv, LeaseInv, IssuedFor, Held, ProxyTypeOK, Leases, Records
<1>6. PointedInv' BY DEF PointedInv, Left
<1>7. OwedInv' BY DEF OwedInv, Left, IssuedFor, Held, ProxyTypeOK, Records, Leases
<1>8. HeldInv' BY DEF HeldInv, LeaseInv, Left, Held, ProxyTypeOK, Works, Jobs
<1>9. UserOnInv' BY DEF UserOnInv, Left
<1>10. BypassInv' BY DEF BypassInv, StillOurs, Left
<1>. QED BY <1>1, <1>2, <1>3, <1>4, <1>5, <1>6, <1>7, <1>8, <1>9, <1>10 DEF ProxyInv

\* A lease that nobody holds any more is released, or lost.
LetGo(d) ==
    /\ {granted', pending', published', parting'} \subseteq [Daemons -> Leases \cup {NoLease}]
    /\ granted'[d] = NoLease /\ pending'[d] = NoLease /\ published'[d] = NoLease /\ parting'[d] = NoLease
    /\ \A e \in Daemons : e # d =>
          /\ granted'[e] = granted[e] /\ pending'[e] = pending[e]
          /\ published'[e] = published[e] /\ parting'[e] = parting[e]

LEMMA LeaseReleased ==
    ASSUME ProxyInv, NEW d \in Daemons, NEW lease \in Leases, Held(d, lease),
           jobs' = jobs \cup {Job("release", d, lease)},
           LetGo(d),
           UNCHANGED <<proc, active, diskVars, work, starting, issued, boundVars, ghostVars>>
    PROVE  ProxyInv'
<1>. USE Sentinels DEF ProxyInv, LetGo, diskVars, boundVars, ghostVars
<1>. DEFINE job == Job("release", d, lease)
<1>a. /\ job \in Jobs /\ job.op = "release" /\ job.by = d /\ job.lease = lease.id
      /\ job.service = lease.service /\ job.service \in Services
  BY DEF Job, Jobs, Leases, LeaseInv
<1>b. /\ job.lease \in 1..issued[d] /\ \A j \in jobs : ~Same(job, j) /\ ~Same(j, job)
      /\ work # NoWork => ~Same(work.job, job)
  BY <1>a DEF LeaseInv, Same, ProxyTypeOK
<1>c. \A e \in Daemons, l \in Leases : Held(e, l)' <=> Held(e, l) /\ e # d
  BY DEF Held, ProxyTypeOK
<1>d. jobs' = jobs \cup {job} OBVIOUS
<1>. HIDE DEF job
<1>1. ProxyTypeOK' BY <1>a, <1>d DEF ProxyTypeOK
<1>2. WorkInv' BY DEF WorkInv, Left, IssuedFor
<1>3. LifeInv' BY <1>a, <1>d DEF LifeInv, ProxyTypeOK, Records, Works, Jobs, Held
<1>4. LeaseInv'
  <2>1. \A i, j \in jobs' : Same(i, j) => i = j BY <1>b, <1>d DEF LeaseInv
  <2>2. \A j \in jobs' : work' # NoWork => ~Same(work'.job, j) BY <1>b, <1>d DEF LeaseInv
  <2>. QED BY <1>a, <1>b, <1>c, <1>d, <2>1, <2>2 DEF LeaseInv, ProxyTypeOK, Same
<1>5. RecordInv' BY <1>a, <1>c, <1>d DEF RecordInv, IssuedFor, Held
<1>6. PointedInv' BY DEF PointedInv, Left
<1>7. OwedInv'
  <2>. SUFFICES ASSUME ~undoFailed, record # NoRecord, proc[record.owner] = "up",
                       \E k \in Kinds : setting[record.service][k] = record.owner
                PROVE  \/ \E l \in Leases : Held(record.owner, l)' /\ l.id = record.lease
                       \/ \E j \in jobs' : j.op = "release" /\ IssuedFor(j)'
                       \/ work # NoWork /\ work.job.op # "recover" /\ IssuedFor(work.job)'
                       \/ record.lease \in lost[record.owner]
    BY DEF OwedInv, IssuedFor
  <2>1. CASE \E l \in Leases : Held(record.owner, l) /\ l.id = record.lease
    <3>1. PICK l \in Leases : Held(record.owner, l) /\ l.id = record.lease BY <2>1
    <3>2. CASE record.owner = d
      <4>1. l.id = lease.id BY <3>1, <3>2 DEF LeaseInv
      <4>. QED BY <1>a, <1>d, <3>1, <3>2, <4>1 DEF IssuedFor
    <3>3. CASE record.owner # d BY <1>c, <3>1, <3>3 DEF ProxyTypeOK, Records
    <3>. QED BY <3>2, <3>3
  <2>2. CASE \E j \in jobs : j.op = "release" /\ IssuedFor(j) BY <1>d, <2>2 DEF IssuedFor
  <2>3. CASE work # NoWork /\ work.job.op # "recover" /\ IssuedFor(work.job) BY <2>3 DEF IssuedFor
  <2>4. CASE record.lease \in lost[record.owner] BY <2>4
  <2>. QED BY <2>1, <2>2, <2>3, <2>4 DEF OwedInv
<1>8. HeldInv' BY <1>c DEF HeldInv, Left
<1>9. UserOnInv' BY DEF UserOnInv, Left
<1>10. BypassInv' BY DEF BypassInv, StillOurs, Left
<1>. QED BY <1>1, <1>2, <1>3, <1>4, <1>5, <1>6, <1>7, <1>8, <1>9, <1>10 DEF ProxyInv

LEMMA LeaseLost ==
    ASSUME ProxyInv, NEW d \in Daemons, NEW lease \in Leases, Held(d, lease), Lose(d, lease),
           LetGo(d),
           UNCHANGED <<proc, active, diskVars, jobs, work, starting, issued, boundVars,
                       userList, userOn, undoFailed, cut, overtaken, unread>>
    PROVE  ProxyInv'
<1>. USE Sentinels DEF ProxyInv, LetGo, diskVars, boundVars
<1>a. \A e \in Daemons, l \in Leases : Held(e, l)' <=> Held(e, l) /\ e # d
  BY DEF Held, ProxyTypeOK
<1>b. /\ lost' \in [Daemons -> SUBSET Nat] /\ lease.id \in lost'[d]
      /\ \A e \in Daemons : lost[e] \subseteq lost'[e]
  BY DEF Lose, ProxyTypeOK, Leases
<1>1. ProxyTypeOK' BY <1>b DEF ProxyTypeOK
<1>2. WorkInv' BY DEF WorkInv, Left, IssuedFor
<1>3. LifeInv' BY DEF LifeInv
<1>4. LeaseInv' BY <1>a DEF LeaseInv, Same
<1>5. RecordInv' BY <1>a DEF RecordInv, IssuedFor
<1>6. PointedInv' BY DEF PointedInv, Left
<1>7. OwedInv'
  <2>. SUFFICES ASSUME ~undoFailed, record # NoRecord, proc[record.owner] = "up",
                       \E k \in Kinds : setting[record.service][k] = record.owner
                PROVE  \/ \E l \in Leases : Held(record.owner, l)' /\ l.id = record.lease
                       \/ \E j \in jobs : j.op = "release" /\ IssuedFor(j)
                       \/ work # NoWork /\ work.job.op # "recover" /\ IssuedFor(work.job)
                       \/ record.lease \in lost'[record.owner]
    BY DEF OwedInv, IssuedFor
  <2>1. record.owner \in Daemons BY DEF ProxyTypeOK, Records
  <2>2. CASE \E l \in Leases : Held(record.owner, l) /\ l.id = record.lease
    <3>1. PICK l \in Leases : Held(record.owner, l) /\ l.id = record.lease BY <2>2
    <3>2. record.owner = d => l.id = lease.id BY <3>1 DEF LeaseInv
    <3>. QED BY <1>a, <1>b, <2>1, <3>1, <3>2
  <2>3. CASE ~\E l \in Leases : Held(record.owner, l) /\ l.id = record.lease
    BY <1>b, <2>1, <2>3 DEF OwedInv
  <2>. QED BY <2>2, <2>3
<1>8. HeldInv' BY <1>a DEF HeldInv, Left
<1>9. UserOnInv' BY DEF UserOnInv, Left
<1>10. BypassInv' BY DEF BypassInv, StillOurs, Left
<1>. QED BY <1>1, <1>2, <1>3, <1>4, <1>5, <1>6, <1>7, <1>8, <1>9, <1>10 DEF ProxyInv

LEMMA CancelPendingKeeps == ASSUME ProxyInv, NEW d \in Daemons, CancelPending(d) PROVE ProxyInv'
<1>1. pending[d] \in Leases /\ Held(d, pending[d]) BY Sentinels DEF ProxyInv, ProxyTypeOK, Held, CancelPending
<1>2. LetGo(d) BY Sentinels DEF ProxyInv, ProxyTypeOK, LeaseInv, LetGo, CancelPending
<1>. QED BY <1>1, <1>2, LeaseReleased DEF CancelPending, Abandon, diskVars, boundVars, ghostVars

LEMMA ReleaseKeeps == ASSUME ProxyInv, NEW d \in Daemons, Release(d) PROVE ProxyInv'
<1>1. parting[d] \in Leases /\ Held(d, parting[d]) BY Sentinels DEF ProxyInv, ProxyTypeOK, Held, Release
<1>2. LetGo(d) BY Sentinels DEF ProxyInv, ProxyTypeOK, LeaseInv, LetGo, Release
<1>. QED BY <1>1, <1>2, LeaseReleased DEF Release, diskVars, boundVars, ghostVars

LEMMA CancelReceivingKeeps == ASSUME ProxyInv, NEW d \in Daemons, CancelReceiving(d) PROVE ProxyInv'
<1>1. granted[d] \in Leases /\ Held(d, granted[d]) BY Sentinels DEF ProxyInv, ProxyTypeOK, Held, CancelReceiving
<1>2. LetGo(d) BY Sentinels DEF ProxyInv, ProxyTypeOK, LeaseInv, LetGo, CancelReceiving
<1>. QED BY <1>1, <1>2, LeaseLost DEF CancelReceiving, diskVars, boundVars, ghostVars

LEMMA CancelCleanUpKeeps == ASSUME ProxyInv, NEW d \in Daemons, CancelCleanUp(d) PROVE ProxyInv'
<1>1. parting[d] \in Leases /\ Held(d, parting[d]) BY Sentinels DEF ProxyInv, ProxyTypeOK, Held, CancelCleanUp
<1>2. LetGo(d) BY Sentinels DEF ProxyInv, ProxyTypeOK, LeaseInv, LetGo, CancelCleanUp
<1>. QED BY <1>1, <1>2, LeaseLost DEF CancelCleanUp, diskVars, boundVars, ghostVars

\* What the one that gets the lock has to do: plan, undo what the record says, take
\* its own port off where nothing is recorded, or nothing.
LEMMA StepsOfJob ==
    ASSUME ProxyInv, NEW j \in jobs
    PROVE  /\ Todo(j) \in Seq(Steps) /\ Ordered(Todo(j))
           /\ \/ j.op = "acquire" /\ \A x : Among(x, Todo(j)) <=> x = Plan
              \/ /\ j.op # "acquire" /\ record # NoRecord
                 /\ \/ j.op = "release" /\ IssuedFor(j)
                    \/ j.op = "recover" /\ LeftByDead(j)
                 /\ \A x : Among(x, Todo(j)) <=> \/ \E k \in Kinds : x = Off(record.service, record.owner, k)
                                                 \/ x = RestoreBypass(record) \/ x = Clear
              \/ /\ j.op = "release" /\ record = NoRecord
                 /\ \A x : Among(x, Todo(j)) <=> \E k \in Kinds : x = Off(j.service, j.by, k)
              \/ /\ j.op # "acquire" /\ (j.op = "release" => ~IssuedFor(j)) /\ \A x : ~Among(x, Todo(j))
<1>1. /\ j.op \in {"acquire", "release", "recover"} /\ j.by \in Daemons
      /\ record \in Records \cup {NoRecord}
  BY DEF ProxyInv, ProxyTypeOK, Jobs
<1>2. CASE j.op = "acquire" BY <1>2, PlanSteps DEF Todo
<1>3. CASE j.op = "recover" /\ LeftByDead(j)
  <2>1. Todo(j) = Append(Undo(record), Clear) /\ record \in Records BY <1>1, <1>3 DEF Todo, LeftByDead
  <2>. QED BY <1>3, <2>1, UndoSteps, Sentinels
<1>4. CASE j.op = "release" /\ IssuedFor(j)
  <2>1. Todo(j) = Append(Undo(record), Clear) /\ record \in Records BY <1>1, <1>4 DEF Todo, IssuedFor
  <2>. QED BY <1>4, <2>1, UndoSteps, Sentinels
<1>5. CASE j.op = "release" /\ record = NoRecord
  <2>1. Todo(j) = DisableIfOurs(j.service, j.by) /\ j.service \in Services
    BY <1>5 DEF Todo, IssuedFor, ProxyInv, RecordInv
  <2>. QED BY <1>1, <1>5, <2>1, OffSteps
<1>6. CASE \/ j.op = "recover" /\ ~LeftByDead(j)
           \/ j.op = "release" /\ ~IssuedFor(j) /\ record # NoRecord
  <2>1. Todo(j) = <<>> BY <1>6 DEF Todo
  <2>. QED BY <1>6, <2>1, NoSteps
<1>. QED BY <1>1, <1>2, <1>3, <1>4, <1>5, <1>6

LEMMA TakeLockKeeps == ASSUME ProxyInv, NEW j \in jobs, TakeLock(j) PROVE ProxyInv'
<1>. USE Sentinels DEF ProxyInv, TakeLock, diskVars, leaseVars, boundVars, ghostVars
<1>a. j \in Jobs /\ j.by \in Daemons /\ j.op \in {"acquire", "release", "recover"}
  BY DEF ProxyTypeOK, Jobs
<1>b. /\ work = NoWork /\ work' \in Works /\ work' # NoWork /\ work'.job = j /\ work'.from = NoDaemon
      /\ work'.todo = Todo(j) /\ Ordered(work'.todo)
  BY <1>a, StepsOfJob DEF Works
<1>c. \A x : ~Left(x) /\ (Left(x)' <=> Among(x, Todo(j))) BY <1>b DEF Left
<1>d. /\ jobs' = jobs \ {j}
      /\ UNCHANGED <<proc, active, setting, bypass, record, starting, granted, pending,
                     published, parting, issued, userList, userOn, lost, undoFailed, cut, unread>>
      /\ overtaken' = (overtaken \/ (j.op = "acquire" /\ record # NoRecord
                                       /\ record.owner = j.by /\ record.lease > j.lease))
  OBVIOUS
<1>1. ProxyTypeOK' BY <1>b, <1>d DEF ProxyTypeOK
<1>2. WorkInv' BY <1>a, <1>b, <1>c, <1>d, StepsOfJob, FieldsOfSteps DEF WorkInv, IssuedFor, RecordInv, Setting
<1>3. LifeInv' BY <1>b, <1>d DEF LifeInv
<1>4. LeaseInv' BY <1>a, <1>b, <1>d DEF LeaseInv, Same, Held, ProxyTypeOK
<1>5. RecordInv' BY <1>b, <1>d DEF RecordInv, IssuedFor, Held
<1>6. PointedInv' BY <1>b, <1>c, <1>d, StepsOfJob, FieldsOfSteps, KindsAre DEF PointedInv
<1>7. OwedInv' BY <1>b, <1>d DEF OwedInv, IssuedFor, Held
<1>8. HeldInv'
  <2>0. ~overtaken' => ~overtaken BY <1>d
  <2>1. ASSUME NEW d \in Daemons, NEW lease \in Leases, ~overtaken', Held(d, lease),
               NEW x \in Steps, Left(x)'
        PROVE  x.do = "plan" /\ j.by # d
    <3>1. /\ record # NoRecord /\ record.owner = d /\ record.lease = lease.id
          /\ lease.id = issued[d] /\ (j.op # "recover" /\ j.by = d => j.lease # lease.id)
      BY <2>0, <2>1 DEF HeldInv, LeaseInv
    <3>2. proc[d] = "up" BY <2>1 DEF LifeInv, Held
    <3>3. j.op = "acquire" /\ x = Plan
      BY <1>c, <2>1, <3>1, <3>2, StepsOfJob DEF LeftByDead, OwnerAlive, IssuedFor
    <3>4. j.by # d
      <4>. SUFFICES ASSUME j.by = d PROVE FALSE OBVIOUS
      <4>1. j.lease \in 1..issued[d] /\ j.lease # issued[d] BY <3>1, <3>3 DEF LeaseInv
      <4>2. issued[d] \in Nat /\ record.lease = issued[d] BY <3>1 DEF ProxyTypeOK
      <4>3. record.lease > j.lease BY <4>1, <4>2
      <4>. QED BY <1>d, <2>1, <3>1, <3>3, <4>3
    <3>. QED BY <3>3, <3>4, FieldsOfSteps
  <2>2. \A d \in Daemons, lease \in Leases : Held(d, lease)' <=> Held(d, lease) BY <1>d DEF Held
  <2>3. j.op = "acquire" => Left(Plan)' BY <1>c, StepsOfJob
  <2>. QED BY <1>b, <1>d, <2>0, <2>1, <2>2, <2>3 DEF HeldInv
<1>9. UserOnInv' BY <1>c, <1>d, StepsOfJob, FieldsOfSteps DEF UserOnInv
<1>10. BypassInv' BY <1>c, <1>d, StepsOfJob, FieldsOfSteps DEF BypassInv, StillOurs
<1>. QED BY <1>1, <1>2, <1>3, <1>4, <1>5, <1>6, <1>7, <1>8, <1>9, <1>10 DEF ProxyInv

LEMMA LockTimesOutKeeps == ASSUME ProxyInv, NEW j \in jobs, LockTimesOut(j) PROVE ProxyInv'
<1>. USE Sentinels DEF ProxyInv, LockTimesOut, diskVars, leaseVars, boundVars, ghostVars
<1>a. j \in Jobs /\ j.by \in Daemons /\ j.op \in {"acquire", "release", "recover"}
      /\ (j.op = "release" => j.service \in Services)
  BY DEF ProxyTypeOK, Jobs, RecordInv
<1>b. \A x : Left(x)' <=> Left(x) BY DEF Left
<1>c. /\ setting' \in [Services -> [Kinds -> Daemons \cup {"off", "userOn", "userOff"}]]
      /\ \A s \in Services, k \in Kinds :
            \/ setting'[s][k] = setting[s][k]
            \/ /\ j.op = "release" /\ issued[j.by] = j.lease /\ s = j.service
               /\ setting[s][k] = j.by /\ setting'[s][k] = "off"
      /\ j.op = "release" => \A k \in Kinds : setting'[j.service][k] # j.by
  BY <1>a DEF ProxyTypeOK
<1>d. /\ starting' \in [Daemons -> Nat]
      /\ \A d \in Daemons : \/ starting'[d] = starting[d]
                            \/ j.op = "acquire" /\ d = j.by /\ starting[d] = j.lease /\ starting'[d] = 0
  BY <1>a DEF ProxyTypeOK
<1>e. /\ jobs' = jobs \ {j}
      /\ UNCHANGED <<proc, active, bypass, record, work, granted, pending,
                     published, parting, issued, userList, userOn, lost, undoFailed, cut, overtaken, unread>>
  OBVIOUS
<1>1. ProxyTypeOK' BY <1>c, <1>d, <1>e DEF ProxyTypeOK
<1>2. WorkInv' BY <1>b, <1>e DEF WorkInv, IssuedFor
<1>3. LifeInv' BY <1>c, <1>d, <1>e DEF LifeInv
<1>4. LeaseInv' BY <1>d, <1>e DEF LeaseInv, Held
<1>5. RecordInv' BY <1>e DEF RecordInv, IssuedFor, Held
<1>6. PointedInv' BY <1>b, <1>c, <1>e DEF PointedInv
<1>7. OwedInv' BY <1>b, <1>c, <1>e DEF OwedInv, IssuedFor, Held, RecordInv, ProxyTypeOK, Records
<1>8. HeldInv'
  <2>1. \A d \in Daemons, lease \in Leases : Held(d, lease) /\ d = j.by => (j.op = "release" => issued[d] # j.lease)
    BY DEF LeaseInv
  <2>2. work # NoWork /\ work.job.op = "acquire" /\ j.op = "release" /\ issued[j.by] = j.lease
          /\ work.job.by = j.by => starting[j.by] # work.job.lease
    BY <1>a DEF LeaseInv, Same
  <2>3. ASSUME NEW d \in Daemons, NEW lease \in Leases, ~overtaken, Held(d, lease), NEW k \in Kinds
        PROVE  setting'[lease.service][k] \in {d, "userOn", "userOff"}
    <3>1. setting[lease.service][k] \in {d, "userOn", "userOff"} BY <2>3 DEF HeldInv
    <3>2. setting'[lease.service][k] = setting[lease.service][k]
      BY <1>a, <1>c, <2>1, <2>3, <3>1 DEF LeaseInv
    <3>. QED BY <3>1, <3>2
  <2>4. ASSUME work # NoWork, work.job.op = "acquire", ~Left(Plan), starting'[work.job.by] = work.job.lease,
               NEW k \in Kinds
        PROVE  Left(Set(record.service, k)) \/ setting'[record.service][k] = work.job.by
    <3>1. work.job.by \in Daemons /\ work.job.lease # 0 BY <2>4 DEF ProxyTypeOK, Works, Jobs, LeaseInv
    <3>2. starting[work.job.by] = work.job.lease BY <1>d, <2>4, <3>1
    <3>3. Left(Set(record.service, k)) \/ setting[record.service][k] = work.job.by BY <2>4, <3>2 DEF HeldInv
    <3>4. record.service \in Services BY <2>4 DEF WorkInv, IssuedFor, ProxyTypeOK, Records
    <3>. QED BY <1>c, <2>2, <2>4, <3>2, <3>3, <3>4
  <2>5. \A d \in Daemons, lease \in Leases : Held(d, lease)' <=> Held(d, lease) BY <1>e DEF Held
  <2>. QED BY <1>b, <1>e, <2>3, <2>4, <2>5 DEF HeldInv
<1>9. UserOnInv' BY <1>a, <1>b, <1>c, <1>e DEF UserOnInv
<1>10. BypassInv' BY <1>b, <1>e DEF BypassInv, StillOurs
<1>. QED BY <1>1, <1>2, <1>3, <1>4, <1>5, <1>6, <1>7, <1>8, <1>9, <1>10 DEF ProxyInv

LEMMA PlanElsewhereKeeps == ASSUME ProxyInv, PlanElsewhere PROVE ProxyInv'
<1>. USE Sentinels DEF ProxyInv, PlanElsewhere, diskVars, leaseVars, boundVars, ghostVars
<1>a. /\ work \in Works /\ work # NoWork /\ work.job.op = "acquire" /\ ~IssuedFor(work.job)
      /\ work.job.by \in Daemons /\ \A x : Left(x) <=> x = Plan
  BY WorkPlanned
<1>b. record \in Records /\ record # NoRecord BY DEF ProxyTypeOK
<1>. DEFINE T == Undo(record) \o <<Clear, Plan>>
<1>c. /\ T \in Seq(Steps) /\ Ordered(T)
      /\ \A x : Among(x, T) <=> \/ \E k \in Kinds : x = Off(record.service, record.owner, k)
                                \/ x = RestoreBypass(record) \/ x = Clear \/ x = Plan
  BY <1>b, ElsewhereSteps
<1>. HIDE DEF T
<1>d. work' = [work EXCEPT !.todo = T] BY DEF Then, T
<1>e. /\ work' \in Works /\ work' # NoWork /\ work'.job = work.job /\ work'.from = work.from
      /\ work'.todo = T
  BY <1>a, <1>c, <1>d DEF Works
<1>f. \A x : Left(x)' <=> Among(x, T) BY <1>e DEF Left
<1>g. UNCHANGED <<proc, active, setting, bypass, record, jobs, starting, granted, pending,
                  published, parting, issued, userList, userOn, lost, undoFailed, cut, overtaken, unread>>
  OBVIOUS
<1>1. ProxyTypeOK' BY <1>e, <1>g DEF ProxyTypeOK
<1>2. WorkInv' BY <1>a, <1>b, <1>c, <1>e, <1>f, <1>g, FieldsOfSteps DEF WorkInv, IssuedFor, Setting
<1>3. LifeInv' BY <1>a, <1>e, <1>g DEF LifeInv
<1>4. LeaseInv' BY <1>a, <1>e, <1>g DEF LeaseInv, Held
<1>5. RecordInv' BY <1>a, <1>e, <1>g DEF RecordInv, IssuedFor, Held
<1>6. PointedInv' BY <1>a, <1>c, <1>e, <1>f, <1>g, FieldsOfSteps DEF PointedInv
<1>7. OwedInv' BY <1>a, <1>e, <1>g DEF OwedInv, IssuedFor, Held
<1>8. HeldInv'
  <2>1. \A d \in Daemons, lease \in Leases : ~overtaken => ~Held(d, lease)
    <3>. SUFFICES ASSUME NEW d \in Daemons, NEW lease \in Leases, ~overtaken, Held(d, lease) PROVE FALSE
      OBVIOUS
    <3>1. record.owner = d /\ work.job.by # d BY <1>a, StepsAreSteps DEF HeldInv
    <3>2. proc[d] = "up" BY DEF LifeInv, Held
    <3>. QED BY <1>b, <3>1, <3>2 DEF OwnerAlive
  <2>. QED BY <1>a, <1>c, <1>e, <1>f, <1>g, <2>1 DEF HeldInv, Held
<1>9. UserOnInv' BY <1>c, <1>f, <1>g, FieldsOfSteps DEF UserOnInv
<1>10. BypassInv' BY <1>a, <1>c, <1>f, <1>g, FieldsOfSteps DEF BypassInv, StillOurs
<1>. QED BY <1>1, <1>2, <1>3, <1>4, <1>5, <1>6, <1>7, <1>8, <1>9, <1>10 DEF ProxyInv

LEMMA PlanRefusedKeeps == ASSUME ProxyInv, PlanRefused PROVE ProxyInv'
<1>. USE Sentinels DEF ProxyInv, PlanRefused, diskVars, boundVars, ghostVars
<1>a. /\ work \in Works /\ work # NoWork /\ work.job.op = "acquire" /\ ~IssuedFor(work.job)
      /\ work.job.by \in Daemons /\ \A x : Left(x) <=> x = Plan
  BY WorkPlanned
<1>b. \A x : ~Left(x)' BY DEF Left, Fail
<1>d. /\ starting' \in [Daemons -> Nat]
      /\ \A d \in Daemons : starting'[d] = starting[d] \/ starting'[d] = 0
  BY <1>a DEF Fail, ProxyTypeOK
<1>e. /\ work' = NoWork
      /\ UNCHANGED <<proc, active, setting, bypass, record, jobs, granted, pending,
                     published, parting, issued, userList, userOn, lost, undoFailed, cut, overtaken, unread>>
  BY DEF Fail
<1>1. ProxyTypeOK' BY <1>d, <1>e DEF ProxyTypeOK
<1>2. WorkInv' BY <1>e DEF WorkInv
<1>3. LifeInv' BY <1>d, <1>e DEF LifeInv
<1>4. LeaseInv' BY <1>d, <1>e DEF LeaseInv, Held
<1>5. RecordInv' BY <1>e DEF RecordInv, IssuedFor, Held
<1>6. PointedInv' BY <1>a, <1>b, <1>e, FieldsOfSteps DEF PointedInv
<1>7. OwedInv' BY <1>a, <1>e DEF OwedInv, IssuedFor, Held
<1>8. HeldInv' BY <1>b, <1>e DEF HeldInv, Held
<1>9. UserOnInv' BY <1>b, <1>e DEF UserOnInv
<1>10. BypassInv' BY <1>a, <1>b, <1>e, FieldsOfSteps DEF BypassInv, StillOurs
<1>. QED BY <1>1, <1>2, <1>3, <1>4, <1>5, <1>6, <1>7, <1>8, <1>9, <1>10 DEF ProxyInv

LEMMA PlanAcceptedKeeps == ASSUME ProxyInv, PlanAccepted PROVE ProxyInv'
<1>. USE Sentinels DEF ProxyInv, diskVars, leaseVars, boundVars, ghostVars
<1>. DEFINE d == work.job.by
            T == <<Set(active, "http"), Set(active, "https"), SetBypass(active)>>
            f == IF record = NoRecord \/ record.owner = d THEN NoDaemon ELSE record.owner
<1>a. /\ work \in Works /\ work # NoWork /\ work.job.op = "acquire" /\ ~IssuedFor(work.job)
      /\ work.job.by \in Daemons /\ \A x : Left(x) <=> x = Plan
  BY WorkPlanned DEF PlanAccepted
<1>b. /\ record \in Records \cup {NoRecord} /\ active \in Services /\ d \in Daemons
      /\ work.job.lease \in 1..issued[d] /\ issued[d] \in Nat /\ proc[d] = "up"
      /\ record # NoRecord => record.service = active /\ record.owner \in Daemons
  BY <1>a DEF PlanAccepted, ProxyTypeOK, LeaseInv, LifeInv, Records
<1>c. /\ T \in Seq(Steps) /\ Ordered(T)
      /\ \A x : Among(x, T) <=> (\E k \in Kinds : x = Set(active, k)) \/ x = SetBypass(active)
  BY <1>b, SetSteps
<1>d. /\ work' = [work EXCEPT !.todo = T, !.from = f] /\ ~Foreign
      /\ record # NoRecord => ~(OwnerAlive /\ record.owner # d)
      /\ UNCHANGED <<proc, active, setting, bypass, jobs, starting, granted, pending,
                     published, parting, issued, userList, userOn, lost, undoFailed, cut, overtaken, unread>>
  BY DEF PlanAccepted
<1>e. /\ record'.owner = d /\ record'.service = active /\ record'.lease = work.job.lease
      /\ record'.original = Original
      /\ record'.readBack = (record # NoRecord /\ StillOurs(record) /\ record.readBack)
  BY DEF PlanAccepted
<1>f. Original \in UserLists \cup {"ours"} BY <1>b DEF Original, Records, ProxyTypeOK
<1>g. record' \in Records /\ record' # NoRecord
  <2>. DEFINE back == record # NoRecord /\ StillOurs(record) /\ record.readBack
  <2>1. back \in BOOLEAN OBVIOUS
  <2>2. /\ record' = [owner |-> d, service |-> active, lease |-> work.job.lease, original |-> Original,
                      readBack |-> back]
        /\ work.job.lease \in Nat
    BY <1>b DEF PlanAccepted
  <2>. HIDE DEF back
  <2>3. record' \in Records BY <1>b, <1>f, <2>1, <2>2 DEF Records
  <2>. QED BY <2>3
<1>h. f \in Daemons \cup {NoDaemon} /\ (f # NoDaemon => proc[f] = "dead")
  <2>1. CASE record = NoRecord \/ record.owner = d BY <2>1
  <2>2. CASE record # NoRecord /\ record.owner # d
    <3>1. proc[record.owner] \in {"new", "up", "dead"} /\ proc[record.owner] # "new"
      BY <1>b, <2>2 DEF LifeInv, ProxyTypeOK
    <3>2. proc[record.owner] = "dead" BY <1>d, <2>2, <3>1 DEF OwnerAlive
    <3>. QED BY <1>b, <2>2, <3>2
  <2>. QED BY <2>1, <2>2
<1>. HIDE DEF T, f
<1>i. /\ work' \in Works /\ work' # NoWork /\ work'.job = work.job /\ work'.from = f
      /\ work'.todo = T
  BY <1>a, <1>c, <1>d, <1>h DEF Works
<1>j. \A x : Left(x)' <=> (\E k \in Kinds : x = Set(active, k)) \/ x = SetBypass(active)
  BY <1>c, <1>i DEF Left
<1>k. \A k \in Kinds : setting[active][k] \in Daemons \cup {"userOn"} =>
          record # NoRecord /\ setting[active][k] = record.owner
  BY <1>d DEF Foreign
<1>l. IssuedFor(work.job)' BY <1>e, <1>g, <1>i DEF IssuedFor
<1>1. ProxyTypeOK' BY <1>d, <1>g, <1>i DEF ProxyTypeOK
<1>2. WorkInv' BY <1>a, <1>c, <1>e, <1>g, <1>i, <1>j, <1>l, FieldsOfSteps DEF WorkInv, Setting
<1>3. LifeInv' BY <1>b, <1>d, <1>e, <1>h, <1>i DEF LifeInv
<1>4. LeaseInv' BY <1>a, <1>b, <1>d, <1>e, <1>g, <1>i DEF LeaseInv, Held
<1>5. RecordInv'
  <2>1. \A j \in jobs : j.op # "recover" => ~IssuedFor(j)'
    BY <1>a, <1>d, <1>e DEF LeaseInv, Same, IssuedFor
  <2>2. \A e \in Daemons, lease \in Leases : Held(e, lease)' <=> Held(e, lease) BY <1>d DEF Held
  <2>3. \A e \in Daemons, lease \in Leases : Held(e, lease) /\ e = d => lease.id # work.job.lease
    BY <1>a DEF LeaseInv
  <2>. QED BY <1>a, <1>d, <1>e, <1>i, <2>1, <2>2, <2>3 DEF RecordInv
<1>6. PointedInv'
  <2>. SUFFICES ASSUME ~undoFailed, NEW s \in Services, NEW k \in Kinds, NEW e \in Daemons,
                       setting[s][k] = e, proc[e] = "up" \/ ~cut
                PROVE  s = active /\ (e = d \/ (f = e /\ Left(Set(s, k))'))
    BY <1>d, <1>e, <1>g, <1>i, <1>j, FieldsOfSteps DEF PointedInv
  <2>1. record # NoRecord /\ record.service = s /\ record.owner = e
    BY <1>a, FieldsOfSteps DEF PointedInv
  <2>. QED BY <1>b, <1>j, <2>1 DEF f
<1>7. OwedInv' BY <1>a, <1>i, <1>l DEF OwedInv
<1>8. HeldInv'
  <2>1. \A e \in Daemons, lease \in Leases : ~overtaken => ~Held(e, lease)
    <3>. SUFFICES ASSUME NEW e \in Daemons, NEW lease \in Leases, ~overtaken, Held(e, lease) PROVE FALSE
      OBVIOUS
    <3>1. record # NoRecord /\ record.owner = e /\ work.job.by # e BY <1>a, StepsAreSteps, FieldsOfSteps DEF HeldInv
    <3>2. proc[e] = "up" BY DEF LifeInv, Held
    <3>. QED BY <1>d, <3>1, <3>2 DEF OwnerAlive
  <2>2. \A k \in Kinds : Left(Set(record.service, k))' BY <1>e, <1>j
  <2>. QED BY <1>d, <1>i, <2>1, <2>2 DEF HeldInv, Held
<1>9. UserOnInv'
  <2>1. \A k \in Kinds : setting[active][k] # "userOn" BY <1>b, <1>k
  <2>. QED BY <1>d, <1>j, <2>1, FieldsOfSteps DEF UserOnInv
<1>10. BypassInv'
  <2>. SUFFICES ASSUME ~undoFailed, ~unread
                PROVE  /\ \A s \in Services : bypass[s] # userList[s] => bypass[s] = "ours" /\ s = active
                       /\ Original = userList[active]
    BY <1>d, <1>e, <1>g, <1>j, FieldsOfSteps DEF BypassInv
  <2>1. \A s \in Services : bypass[s] # userList[s] =>
            bypass[s] = "ours" /\ record # NoRecord /\ record.service = s
    BY DEF BypassInv
  <2>2. record # NoRecord /\ StillOurs(record) => record.original = userList[active]
    BY <1>b DEF BypassInv
  <2>3. record # NoRecord /\ bypass[active] = "ours" => StillOurs(record) BY <1>b DEF StillOurs
  <2>. QED BY <1>b, <2>1, <2>2, <2>3 DEF Original
<1>. QED BY <1>1, <1>2, <1>3, <1>4, <1>5, <1>6, <1>7, <1>8, <1>9, <1>10 DEF ProxyInv

\* While an acquire sets the proxy, the record is its own and it has planned all.
LEMMA WorkSets ==
    ASSUME ProxyInv, NEW kind \in Setting, Step(kind)
    PROVE  /\ work \in Works /\ work # NoWork /\ work.todo # <<>> /\ NextStep \in Steps /\ Left(NextStep)
           /\ NextStep.do = kind /\ NextStep.service = record.service /\ work.job.op = "acquire"
           /\ work.job.by \in Daemons /\ record \in Records /\ record # NoRecord
           /\ record.service \in Services /\ record.owner = work.job.by /\ IssuedFor(work.job)
           /\ \A x : Left(x) => x.do \in Setting
<1>1. work \in Works /\ work # NoWork /\ work.todo \in Seq(Steps) /\ work.todo # <<>>
      /\ Ordered(work.todo) /\ work.job.by \in Daemons /\ NextStep.do = kind
  BY DEF ProxyInv, ProxyTypeOK, WorkInv, Works, Step, Jobs, NextStep
<1>2. /\ NextStep \in Steps /\ Left(NextStep) /\ \A x : Left(x) => x.do \in Setting
  BY <1>1, RestOfSteps DEF NextStep, Left
<1>3. work.job.op = "acquire" /\ NextStep.service = record.service
  BY <1>1, <1>2 DEF ProxyInv, WorkInv
<1>4. ~Left(Plan) BY <1>2, FieldsOfSteps DEF Setting
<1>5. IssuedFor(work.job) BY <1>1, <1>3, <1>4 DEF ProxyInv, WorkInv
<1>. QED BY <1>1, <1>2, <1>3, <1>5, Sentinels DEF IssuedFor, ProxyInv, ProxyTypeOK, Records

LEMMA SetProxyKeeps == ASSUME ProxyInv, SetProxy PROVE ProxyInv'
<1>. USE Sentinels DEF ProxyInv, diskVars, leaseVars, boundVars, ghostVars
<1>. DEFINE s == NextStep.service
            k == NextStep.kind
            d == work.job.by
<1>a. /\ work \in Works /\ work # NoWork /\ work.todo # <<>> /\ NextStep \in Steps /\ Left(NextStep)
      /\ NextStep.do = "set" /\ s = record.service /\ work.job.op = "acquire" /\ d \in Daemons
      /\ record \in Records /\ record # NoRecord /\ s \in Services /\ record.owner = d
      /\ IssuedFor(work.job) /\ \A x : Left(x) => x.do \in Setting
  BY WorkSets DEF SetProxy, Setting
<1>b. k \in Kinds /\ NextStep = Set(s, k) BY <1>a, KindsOfSteps
<1>c. /\ work' \in Works /\ work' # NoWork /\ work'.job = work.job /\ work'.from = work.from
      /\ Ordered(work'.todo)
      /\ \A x : Left(x)' => Left(x)
      /\ \A x : Left(x) /\ x # NextStep => Left(x)'
  BY <1>a, WorkGoesOn DEF SetProxy
<1>d. /\ setting' = [setting EXCEPT ![s][k] = d]
      /\ UNCHANGED <<proc, active, bypass, record, jobs, starting, granted, pending,
                     published, parting, issued, userList, userOn, lost, undoFailed, cut, overtaken, unread>>
  BY DEF SetProxy
<1>e. /\ setting' \in [Services -> [Kinds -> Daemons \cup {"off", "userOn", "userOff"}]]
      /\ \A t \in Services, l \in Kinds :
            setting'[t][l] = IF t = s /\ l = k THEN d ELSE setting[t][l]
  BY <1>a, <1>b, <1>d DEF ProxyTypeOK
<1>f. ~Left(Clear) /\ ~Left(Plan) /\ \A x : Left(x)' => x.do \in Setting
  BY <1>a, <1>c, FieldsOfSteps DEF Setting
<1>g. ~Left(Clear)' /\ ~Left(Plan)' BY <1>c, <1>f
<1>h. \A t, l : Left(Set(t, l)) /\ ~(t = s /\ l = k) => Left(Set(t, l))'
  BY <1>b, <1>c, FieldsOfSteps
<1>. HIDE DEF s, k, d
<1>1. ProxyTypeOK' BY <1>c, <1>d, <1>e DEF ProxyTypeOK
<1>2. WorkInv' BY <1>a, <1>c, <1>d, <1>g DEF WorkInv, IssuedFor
<1>3. LifeInv' BY <1>a, <1>c, <1>d, <1>e DEF LifeInv, d
<1>4. LeaseInv' BY <1>a, <1>c, <1>d DEF LeaseInv, Held
<1>5. RecordInv' BY <1>a, <1>c, <1>d DEF RecordInv, IssuedFor, Held
<1>6. PointedInv'
  <2>. SUFFICES ASSUME ~undoFailed, NEW t \in Services, NEW l \in Kinds, NEW e \in Daemons,
                       setting'[t][l] = e, proc[e] = "up" \/ ~cut
                PROVE  record.service = t /\ (record.owner = e \/ (work.from = e /\ Left(Set(t, l))'))
    BY <1>a, <1>c, <1>d, <1>g DEF PointedInv
  <2>1. CASE t = s /\ l = k BY <1>a, <1>e, <2>1
  <2>2. CASE ~(t = s /\ l = k)
    <3>1. setting[t][l] = e BY <1>e, <2>2
    <3>2. record.service = t /\ (record.owner = e \/ (work.from = e /\ (Left(Set(t, l)) \/ Left(Off(t, e, l)))))
      BY <3>1 DEF PointedInv
    <3>3. ~Left(Off(t, e, l)) BY <1>a, FieldsOfSteps DEF Setting
    <3>. QED BY <1>h, <2>2, <3>2, <3>3
  <2>. QED BY <2>1, <2>2
<1>7. OwedInv' BY <1>a, <1>c, <1>d DEF OwedInv, IssuedFor
<1>8. HeldInv'
  <2>1. \A e \in Daemons, lease \in Leases : ~overtaken => ~Held(e, lease)
    BY <1>a DEF HeldInv
  <2>2. ASSUME starting[d] = work.job.lease, NEW l \in Kinds
        PROVE  Left(Set(record.service, l))' \/ setting'[record.service][l] = d
    <3>1. Left(Set(s, l)) \/ setting[s][l] = d BY <1>a, <1>f, <2>2 DEF HeldInv, d
    <3>. QED BY <1>a, <1>b, <1>d, <1>e, <1>h, <2>2, <3>1
  <2>. QED BY <1>c, <1>d, <2>1, <2>2 DEF HeldInv, Held, d
<1>9. UserOnInv'
  <2>1. setting[s][k] # "userOn" BY <1>a, <1>b DEF UserOnInv
  <2>. QED BY <1>a, <1>b, <1>c, <1>d, <1>e, <2>1 DEF UserOnInv
<1>10. BypassInv' BY <1>c, <1>d, <1>g DEF BypassInv, StillOurs
<1>. QED BY <1>1, <1>2, <1>3, <1>4, <1>5, <1>6, <1>7, <1>8, <1>9, <1>10 DEF ProxyInv

LEMMA SetBypassListKeeps == ASSUME ProxyInv, SetBypassList PROVE ProxyInv'
<1>. USE Sentinels DEF ProxyInv, diskVars, leaseVars, boundVars, ghostVars
<1>. DEFINE s == record.service
<1>a. /\ work \in Works /\ work # NoWork /\ work.todo # <<>> /\ NextStep \in Steps /\ Left(NextStep)
      /\ NextStep.do = "setBypass" /\ NextStep.service = s /\ work.job.op = "acquire"
      /\ record \in Records /\ record # NoRecord /\ s \in Services /\ record.owner = work.job.by
      /\ IssuedFor(work.job) /\ \A x : Left(x) => x.do \in Setting
  BY WorkSets DEF SetBypassList, Setting
<1>b. NextStep = SetBypass(s) BY <1>a, KindsOfSteps
<1>c. /\ work' \in Works /\ work' # NoWork /\ work'.job = work.job /\ work'.from = work.from
      /\ Ordered(work'.todo)
      /\ \A x : Left(x)' => Left(x)
      /\ \A x : Left(x) /\ x # NextStep => Left(x)'
  BY <1>a, WorkGoesOn DEF SetBypassList
<1>d. /\ bypass' \in {bypass, [bypass EXCEPT ![s] = "ours"]}
      /\ record' \in {record, [record EXCEPT !.readBack = TRUE]}
      /\ record' # record => bypass' = [bypass EXCEPT ![s] = "ours"]
      /\ UNCHANGED <<proc, active, setting, jobs, starting, granted, pending,
                     published, parting, issued, userList, userOn, lost, undoFailed, cut, overtaken, unread>>
  BY <1>a DEF SetBypassList
<1>e. /\ record' \in Records /\ record' # NoRecord /\ record'.owner = record.owner
      /\ record'.service = s /\ record'.lease = record.lease /\ record'.original = record.original
  <2>1. CASE record' = record BY <1>a, <2>1
  <2>2. CASE record' = [record EXCEPT !.readBack = TRUE]
    <3>1. record' \in Records BY <1>a, <2>2 DEF Records
    <3>. QED BY <1>a, <2>2, <3>1 DEF Records
  <2>. QED BY <1>d, <2>1, <2>2
<1>f. /\ bypass' \in [Services -> UserLists \cup {"ours"}]
      /\ \A t \in Services : bypass'[t] = bypass[t] \/ (t = s /\ bypass'[t] = "ours")
  BY <1>a, <1>d DEF ProxyTypeOK
<1>g. /\ ~Left(Clear) /\ ~Left(Plan) /\ ~Left(Clear)' /\ ~Left(Plan)'
      /\ \A x : Left(x)' => x.do \in Setting
  BY <1>a, <1>c, FieldsOfSteps DEF Setting
<1>h. \A t, l : Left(Set(t, l)) <=> Left(Set(t, l))'
  BY <1>b, <1>c, FieldsOfSteps
<1>i. \A j : IssuedFor(j)' <=> IssuedFor(j) BY <1>a, <1>e DEF IssuedFor
<1>. HIDE DEF s
<1>1. ProxyTypeOK' BY <1>c, <1>d, <1>e, <1>f DEF ProxyTypeOK
<1>2. WorkInv' BY <1>a, <1>c, <1>e, <1>g, <1>i DEF WorkInv, s, Setting
<1>3. LifeInv' BY <1>a, <1>c, <1>d, <1>e DEF LifeInv
<1>4. LeaseInv' BY <1>a, <1>c, <1>d, <1>e DEF LeaseInv, Held
<1>5. RecordInv' BY <1>a, <1>c, <1>d, <1>e, <1>i DEF RecordInv, Held, s
<1>6. PointedInv'
  <2>1. \A t, e, l : ~Left(Off(t, e, l)) BY <1>a, FieldsOfSteps DEF Setting
  <2>. QED BY <1>a, <1>c, <1>d, <1>e, <1>g, <1>h, <2>1 DEF PointedInv, s
<1>7. OwedInv' BY <1>a, <1>c, <1>d, <1>e, <1>i DEF OwedInv
<1>8. HeldInv'
  <2>1. \A e \in Daemons, lease \in Leases : ~overtaken => ~Held(e, lease)
    BY <1>a DEF HeldInv
  <2>2. starting[work.job.by] = work.job.lease =>
            \A k \in Kinds : Left(Set(s, k)) \/ setting[s][k] = work.job.by
    BY <1>a, <1>g DEF HeldInv, s
  <2>3. \A k \in Kinds : Left(Set(s, k)) => Left(Set(record.service, k))' BY <1>e, <1>h
  <2>. QED BY <1>c, <1>d, <1>e, <2>1, <2>2, <2>3 DEF HeldInv, Held
<1>9. UserOnInv' BY <1>c, <1>d DEF UserOnInv
<1>10. BypassInv'
  <2>1. ~undoFailed /\ ~unread => record.original = userList[s] BY <1>a, <1>b DEF BypassInv, s
  <2>. QED BY <1>a, <1>d, <1>e, <1>f, <1>g, <2>1 DEF BypassInv, s
<1>. QED BY <1>1, <1>2, <1>3, <1>4, <1>5, <1>6, <1>7, <1>8, <1>9, <1>10 DEF ProxyInv

LEMMA SetFailsKeeps == ASSUME ProxyInv, SetFails PROVE ProxyInv'
<1>. USE Sentinels DEF ProxyInv, diskVars, leaseVars, boundVars, ghostVars
<1>. DEFINE s == record.service
            k == NextStep.kind
            d == work.job.by
            T == (IF work.from = NoDaemon THEN <<>> ELSE DisableIfOurs(record.service, work.from))
                     \o Append(Undo(record), Clear)
<1>a. /\ work \in Works /\ work # NoWork /\ work.todo # <<>> /\ NextStep \in Steps /\ Left(NextStep)
      /\ NextStep.do = "set" /\ NextStep.service = s /\ work.job.op = "acquire" /\ d \in Daemons
      /\ record \in Records /\ record # NoRecord /\ s \in Services /\ record.owner = d
      /\ IssuedFor(work.job) /\ \A x : Left(x) => x.do \in Setting
  BY WorkSets DEF SetFails, Setting
<1>b. k \in Kinds /\ NextStep = Set(s, k) /\ work.from \in Daemons \cup {NoDaemon}
  BY <1>a, KindsOfSteps DEF Works
<1>c. /\ T \in Seq(Steps) /\ Ordered(T)
      /\ \A x : Among(x, T) <=> \/ work.from # NoDaemon /\ \E l \in Kinds : x = Off(s, work.from, l)
                                \/ \E l \in Kinds : x = Off(s, record.owner, l)
                                \/ x = RestoreBypass(record) \/ x = Clear
  <2>1. CASE work.from = NoDaemon
    <3>1. /\ Append(Undo(record), Clear) \in Seq(Steps) /\ Ordered(Append(Undo(record), Clear))
          /\ \A x : Among(x, Append(Undo(record), Clear)) <=>
                 \/ \E l \in Kinds : x = Off(s, record.owner, l)
                 \/ x = RestoreBypass(record) \/ x = Clear
      BY <1>a, UndoSteps
    <3>2. T = Append(Undo(record), Clear) BY <2>1, <3>1
    <3>. HIDE DEF T
    <3>. QED BY <2>1, <3>1, <3>2
  <2>2. CASE work.from # NoDaemon
    <3>1. T = DisableIfOurs(record.service, work.from) \o Append(Undo(record), Clear) BY <2>2
    <3>2. work.from \in Daemons BY <1>b, <2>2
    <3>. HIDE DEF T
    <3>3. /\ T \in Seq(Steps) /\ Ordered(T)
          /\ \A x : Among(x, T) <=> \/ \E l \in Kinds : x = Off(record.service, work.from, l)
                                    \/ \E l \in Kinds : x = Off(record.service, record.owner, l)
                                    \/ x = RestoreBypass(record) \/ x = Clear
      BY ONLY <1>a, <3>1, <3>2, FailedSteps
    <3>. QED BY <2>2, <3>3
  <2>. QED BY <2>1, <2>2
<1>d. /\ setting' \in {setting, [setting EXCEPT ![s][k] = d]}
      /\ work' = [work EXCEPT !.job.op = "failed", !.todo = T]
      /\ UNCHANGED <<proc, active, bypass, record, jobs, starting, granted, pending,
                     published, parting, issued, userList, userOn, lost, undoFailed, cut, overtaken, unread>>
  BY <1>a DEF SetFails
<1>. HIDE DEF T
<1>e. /\ work' \in Works /\ work'.job.op = "failed" /\ work'.job.by = d
      /\ work'.job.lease = work.job.lease /\ work'.from = work.from /\ work'.todo = T
  BY <1>a, <1>c, <1>d DEF Works, Jobs
<1>f. work' # NoWork BY <1>e
<1>g. \A x : Left(x)' <=> \/ work.from # NoDaemon /\ \E l \in Kinds : x = Off(s, work.from, l)
                          \/ \E l \in Kinds : x = Off(s, d, l)
                          \/ x = RestoreBypass(record) \/ x = Clear
  BY <1>a, <1>c, <1>e, <1>f DEF Left
<1>h. /\ setting' \in [Services -> [Kinds -> Daemons \cup {"off", "userOn", "userOff"}]]
      /\ \A t \in Services, l \in Kinds :
            setting'[t][l] = setting[t][l] \/ (t = s /\ l = k /\ setting'[t][l] = d)
  <2>1. CASE setting' = setting BY <2>1 DEF ProxyTypeOK
  <2>2. CASE setting' = [setting EXCEPT ![s][k] = d] BY <1>a, <1>b, <2>2 DEF ProxyTypeOK
  <2>. QED BY <1>d, <2>1, <2>2
<1>i. /\ Left(Clear)' /\ \A x : Left(x)' => x.do \in {"off", "bypass", "clear"}
      /\ \A x : Left(x)' /\ x.do = "bypass" => x.of = record
  BY <1>g, FieldsOfSteps
<1>. HIDE DEF s, k, d
<1>1. ProxyTypeOK' BY <1>d, <1>e, <1>h DEF ProxyTypeOK
<1>2. WorkInv' BY <1>a, <1>c, <1>d, <1>e, <1>i DEF WorkInv, Setting
<1>3. LifeInv' BY <1>a, <1>d, <1>e, <1>h DEF LifeInv, d
<1>4. LeaseInv' BY <1>a, <1>d, <1>e DEF LeaseInv, Held, Same, d
<1>5. RecordInv' BY <1>a, <1>d, <1>e DEF RecordInv, IssuedFor, Held
<1>6. PointedInv'
  <2>. SUFFICES ASSUME ~undoFailed, NEW t \in Services, NEW l \in Kinds, NEW e \in Daemons,
                       setting'[t][l] = e, proc[e] = "up" \/ ~cut
                PROVE  s = t /\ (d = e \/ work.from = e)
    BY <1>a, <1>b, <1>d, <1>e, <1>f, <1>g DEF PointedInv, s
  <2>1. CASE t = s /\ l = k /\ e = d BY <2>1
  <2>2. CASE setting[t][l] = e BY <1>a, <2>2 DEF PointedInv, s
  <2>. QED BY <1>h, <2>1, <2>2
<1>7. OwedInv' BY <1>a, <1>d, <1>e, <1>f DEF OwedInv, IssuedFor, d
<1>8. HeldInv'
  <2>1. \A e \in Daemons, lease \in Leases : ~overtaken => ~Held(e, lease)
    BY <1>a DEF HeldInv, d
  <2>. QED BY <1>d, <1>e, <2>1 DEF HeldInv, Held
<1>9. UserOnInv'
  <2>1. setting[s][k] # "userOn" BY <1>a, <1>b DEF UserOnInv
  <2>2. \A t, l : ~Left(Set(t, l))' BY <1>i, FieldsOfSteps
  <2>. QED BY <1>a, <1>b, <1>d, <1>h, <2>1, <2>2 DEF UserOnInv
<1>10. BypassInv'
  <2>1. Left(RestoreBypass(record))' /\ \A t : ~Left(SetBypass(t))' BY <1>d, <1>g, <1>i, FieldsOfSteps
  <2>. QED BY <1>a, <1>d, <2>1 DEF BypassInv, StillOurs
<1>. QED BY <1>1, <1>2, <1>3, <1>4, <1>5, <1>6, <1>7, <1>8, <1>9, <1>10 DEF ProxyInv

\* While something is put back, no capture that follows its lease holds one, and an
\* acquire still has to plan.
LEMMA WorkUndoes ==
    ASSUME ProxyInv, NEW kind \in {"off", "bypass", "clear"}, Step(kind), Done
    PROVE  /\ work \in Works /\ work # NoWork /\ NextStep \in Steps /\ Left(NextStep)
           /\ NextStep.do = kind
           /\ work' \in Works /\ work' # NoWork /\ work'.job = work.job /\ work'.from = work.from
           /\ Ordered(work'.todo)
           /\ \A x : Left(x)' => Left(x)
           /\ \A x : Left(x) /\ x # NextStep => Left(x)'
           /\ work.job.op = "acquire" => Left(Plan)'
           /\ \A d \in Daemons, lease \in Leases : ~overtaken => ~Held(d, lease)
<1>1. work # NoWork /\ work.todo # <<>> /\ NextStep.do = kind /\ work \in Works
  BY DEF Step, NextStep, ProxyInv, ProxyTypeOK
<1>2. /\ NextStep \in Steps /\ Left(NextStep)
      /\ work' \in Works /\ work' # NoWork /\ work'.job = work.job /\ work'.from = work.from
      /\ Ordered(work'.todo)
      /\ \A x : Left(x)' => Left(x)
      /\ \A x : Left(x) /\ x # NextStep => Left(x)'
  BY <1>1, WorkGoesOn DEF ProxyInv
<1>3. work.job.op = "acquire" => Left(Plan) BY <1>1, <1>2 DEF ProxyInv, WorkInv, Setting
<1>4. Plan # NextStep BY <1>1, FieldsOfSteps
<1>5. \A d \in Daemons, lease \in Leases : ~overtaken => ~Held(d, lease)
  BY <1>1, <1>2 DEF ProxyInv, HeldInv
<1>. QED BY <1>1, <1>2, <1>3, <1>4, <1>5

LEMMA TurnOffKeeps == ASSUME ProxyInv, TurnOff PROVE ProxyInv'
<1>. USE Sentinels DEF ProxyInv, diskVars, leaseVars, boundVars, ghostVars
<1>. DEFINE s == NextStep.service
            k == NextStep.kind
            d == NextStep.port
<1>a. /\ work \in Works /\ work # NoWork /\ NextStep \in Steps /\ Left(NextStep) /\ NextStep.do = "off"
      /\ work' \in Works /\ work' # NoWork /\ work'.job = work.job /\ work'.from = work.from
      /\ Ordered(work'.todo)
      /\ \A x : Left(x)' => Left(x)
      /\ \A x : Left(x) /\ x # NextStep => Left(x)'
      /\ work.job.op = "acquire" => Left(Plan)'
      /\ \A e \in Daemons, lease \in Leases : ~overtaken => ~Held(e, lease)
  BY WorkUndoes DEF TurnOff
<1>b. s \in Services /\ k \in Kinds /\ d \in Daemons /\ NextStep = Off(s, d, k)
  BY <1>a, KindsOfSteps
<1>c. /\ setting' = [setting EXCEPT ![s][k] = IF @ = d THEN "off" ELSE @]
      /\ UNCHANGED <<proc, active, bypass, record, jobs, starting, granted, pending,
                     published, parting, issued, userList, userOn, lost, undoFailed, cut, overtaken, unread>>
  BY DEF TurnOff
<1>d. /\ setting' \in [Services -> [Kinds -> Daemons \cup {"off", "userOn", "userOff"}]]
      /\ \A t \in Services, l \in Kinds :
            \/ setting'[t][l] = setting[t][l] /\ ~(t = s /\ l = k /\ setting[t][l] = d)
            \/ t = s /\ l = k /\ setting[t][l] = d /\ setting'[t][l] = "off"
  BY <1>b, <1>c DEF ProxyTypeOK
<1>e. /\ \A x : x.do # "off" /\ Left(x) => Left(x)'
      /\ \A t, l, e : Left(Off(t, e, l)) /\ ~(t = s /\ l = k /\ e = d) => Left(Off(t, e, l))'
  BY <1>a, <1>b, FieldsOfSteps
<1>f. /\ Left(Clear)' <=> Left(Clear)
      /\ Left(Plan)' <=> Left(Plan)
      /\ \A t, l : Left(Set(t, l))' <=> Left(Set(t, l))
      /\ \A t : Left(SetBypass(t))' <=> Left(SetBypass(t))
      /\ \A r : Left(RestoreBypass(r))' <=> Left(RestoreBypass(r))
  BY <1>a, <1>e, FieldsOfSteps
<1>. HIDE DEF s, k, d
<1>1. ProxyTypeOK' BY <1>a, <1>c, <1>d DEF ProxyTypeOK
<1>2. WorkInv' BY <1>a, <1>c, <1>f DEF WorkInv, IssuedFor
<1>3. LifeInv' BY <1>a, <1>c, <1>d DEF LifeInv
<1>4. LeaseInv' BY <1>a, <1>c DEF LeaseInv, Held
<1>5. RecordInv' BY <1>a, <1>c DEF RecordInv, IssuedFor, Held
<1>6. PointedInv'
  <2>. SUFFICES ASSUME ~undoFailed, NEW t \in Services, NEW l \in Kinds, NEW e \in Daemons,
                       setting'[t][l] = e, proc[e] = "up" \/ ~cut
                PROVE  /\ record # NoRecord /\ record.service = t
                       /\ Left(Clear) => Left(Off(t, e, l))'
                       /\ record.owner = e \/ (work.from = e /\ (Left(Set(t, l)) \/ Left(Off(t, e, l))'))
    BY <1>a, <1>c, <1>f DEF PointedInv
  <2>1. setting[t][l] = e /\ ~(t = s /\ l = k /\ e = d) BY <1>d
  <2>. QED BY <1>e, <2>1 DEF PointedInv
<1>7. OwedInv'
  <2>1. record # NoRecord => record.service \in Services /\ record.owner \in Daemons
    BY DEF ProxyTypeOK, Records
  <2>. QED BY <1>a, <1>c, <1>d, <2>1 DEF OwedInv, IssuedFor, Held
<1>8. HeldInv' BY <1>a, <1>c DEF HeldInv, Held
<1>9. UserOnInv' BY <1>b, <1>c, <1>d, <1>f DEF UserOnInv
<1>10. BypassInv' BY <1>c, <1>f DEF BypassInv, StillOurs
<1>. QED BY <1>1, <1>2, <1>3, <1>4, <1>5, <1>6, <1>7, <1>8, <1>9, <1>10 DEF ProxyInv

LEMMA RestoreListKeeps == ASSUME ProxyInv, RestoreList PROVE ProxyInv'
<1>. USE Sentinels DEF ProxyInv, diskVars, leaseVars, boundVars, ghostVars
<1>a. /\ work \in Works /\ work # NoWork /\ NextStep \in Steps /\ Left(NextStep) /\ NextStep.do = "bypass"
      /\ work' \in Works /\ work' # NoWork /\ work'.job = work.job /\ work'.from = work.from
      /\ Ordered(work'.todo)
      /\ \A x : Left(x)' => Left(x)
      /\ \A x : Left(x) /\ x # NextStep => Left(x)'
      /\ work.job.op = "acquire" => Left(Plan)'
      /\ \A e \in Daemons, lease \in Leases : ~overtaken => ~Held(e, lease)
  BY WorkUndoes DEF RestoreList
<1>b. record \in Records /\ record # NoRecord /\ NextStep.of = record /\ record.service \in Services
  BY <1>a DEF WorkInv, ProxyTypeOK, Records
<1>c. /\ bypass' = IF StillOurs(record) THEN [bypass EXCEPT ![record.service] = record.original]
                   ELSE bypass
      /\ UNCHANGED <<proc, active, setting, record, jobs, starting, granted, pending,
                     published, parting, issued, userList, userOn, lost, undoFailed, cut, overtaken, unread>>
  BY <1>b DEF RestoreList
<1>d. /\ bypass' \in [Services -> UserLists \cup {"ours"}]
      /\ \A t \in Services : bypass'[t] = IF StillOurs(record) /\ t = record.service
                                          THEN record.original ELSE bypass[t]
  BY <1>b, <1>c DEF ProxyTypeOK, Records
<1>f. /\ Left(Clear)' <=> Left(Clear)
      /\ Left(Plan)' <=> Left(Plan)
      /\ \A t, l : Left(Set(t, l))' <=> Left(Set(t, l))
      /\ \A t : Left(SetBypass(t))' <=> Left(SetBypass(t))
      /\ \A t, l, e : Left(Off(t, e, l))' <=> Left(Off(t, e, l))
  BY <1>a, FieldsOfSteps
<1>1. ProxyTypeOK' BY <1>a, <1>c, <1>d DEF ProxyTypeOK
<1>2. WorkInv' BY <1>a, <1>c, <1>f DEF WorkInv, IssuedFor
<1>3. LifeInv' BY <1>a, <1>c DEF LifeInv
<1>4. LeaseInv' BY <1>a, <1>c DEF LeaseInv, Held
<1>5. RecordInv' BY <1>a, <1>c DEF RecordInv, IssuedFor, Held
<1>6. PointedInv' BY <1>a, <1>c, <1>f DEF PointedInv
<1>7. OwedInv' BY <1>a, <1>c DEF OwedInv, IssuedFor, Held
<1>8. HeldInv' BY <1>a, <1>c DEF HeldInv, Held
<1>9. UserOnInv' BY <1>c, <1>f DEF UserOnInv
<1>10. BypassInv'
  <2>. SUFFICES ASSUME ~undoFailed, ~unread
                PROVE  /\ \A t \in Services : bypass'[t] = userList[t]
                       /\ StillOurs(record)' \/ (\E t \in Services : Left(SetBypass(t))) =>
                              record.original = userList[record.service]
    BY <1>b, <1>c, <1>f DEF BypassInv
  <2>1. StillOurs(record) => record.original = userList[record.service] BY <1>b DEF BypassInv
  <2>2. \A t \in Services : bypass[t] # userList[t] => t = record.service /\ bypass[t] = "ours"
    BY DEF BypassInv
  <2>3. bypass[record.service] = "ours" => StillOurs(record) BY DEF StillOurs
  <2>4. \A t \in Services : bypass'[t] = userList[t] BY <1>b, <1>d, <2>1, <2>2, <2>3
  <2>5. (\E t \in Services : Left(SetBypass(t))) => record.original = userList[record.service]
    BY <1>b DEF BypassInv
  <2>6. ~StillOurs(record) => ~StillOurs(record)' BY <1>c DEF StillOurs
  <2>. QED BY <2>1, <2>4, <2>5, <2>6
<1>. QED BY <1>1, <1>2, <1>3, <1>4, <1>5, <1>6, <1>7, <1>8, <1>9, <1>10 DEF ProxyInv

LEMMA UndoStepFailsKeeps == ASSUME ProxyInv, UndoStepFails PROVE ProxyInv'
<1>. USE Sentinels DEF ProxyInv, diskVars, leaseVars, boundVars, ghostVars
<1>a. /\ work \in Works /\ work # NoWork /\ NextStep \in Steps /\ Left(NextStep)
      /\ NextStep.do \in {"off", "bypass"}
      /\ work' \in Works /\ work' # NoWork /\ work'.job = work.job /\ work'.from = work.from
      /\ Ordered(work'.todo)
      /\ \A x : Left(x)' => Left(x)
      /\ \A x : Left(x) /\ x # NextStep => Left(x)'
      /\ work.job.op = "acquire" => Left(Plan)'
      /\ \A e \in Daemons, lease \in Leases : ~overtaken => ~Held(e, lease)
  BY WorkUndoes DEF UndoStepFails
<1>c. /\ undoFailed'
      /\ UNCHANGED <<proc, active, setting, bypass, record, jobs, starting, granted, pending,
                     published, parting, issued, userList, userOn, lost, cut, overtaken, unread>>
  BY DEF UndoStepFails
<1>f. /\ Left(Clear)' <=> Left(Clear)
      /\ Left(Plan)' <=> Left(Plan)
  BY <1>a, FieldsOfSteps
<1>1. ProxyTypeOK' BY <1>a, <1>c DEF ProxyTypeOK
<1>2. WorkInv' BY <1>a, <1>c, <1>f DEF WorkInv, IssuedFor
<1>3. LifeInv' BY <1>a, <1>c DEF LifeInv
<1>4. LeaseInv' BY <1>a, <1>c DEF LeaseInv, Held
<1>5. RecordInv' BY <1>a, <1>c DEF RecordInv, IssuedFor, Held
<1>6. PointedInv' BY <1>c DEF PointedInv
<1>7. OwedInv' BY <1>c DEF OwedInv
<1>8. HeldInv' BY <1>a, <1>c DEF HeldInv, Held
<1>9. UserOnInv' BY <1>a, <1>c DEF UserOnInv
<1>10. BypassInv' BY <1>c DEF BypassInv
<1>. QED BY <1>1, <1>2, <1>3, <1>4, <1>5, <1>6, <1>7, <1>8, <1>9, <1>10 DEF ProxyInv

LEMMA ClearRecordKeeps == ASSUME ProxyInv, ClearRecord PROVE ProxyInv'
<1>. USE Sentinels DEF ProxyInv, diskVars, leaseVars, boundVars, ghostVars
<1>a. /\ work \in Works /\ work # NoWork /\ NextStep \in Steps /\ Left(NextStep)
      /\ NextStep.do = "clear" /\ NextStep = Clear
      /\ work' \in Works /\ work' # NoWork /\ work'.job = work.job /\ work'.from = work.from
      /\ Ordered(work'.todo)
      /\ \A x : Left(x)' => Left(x)
      /\ work.job.op = "acquire" => Left(Plan)'
      /\ \A e \in Daemons, lease \in Leases : ~overtaken => ~Held(e, lease)
  BY WorkUndoes, KindsOfSteps DEF ClearRecord
<1>b. \A x : Left(x)' => x.do = "plan"
  BY <1>a, WorkGoesOn DEF ClearRecord, Step
<1>d. \A x : Left(x) /\ x # NextStep => Left(x)' BY WorkUndoes DEF ClearRecord
<1>c. /\ record' = NoRecord
      /\ UNCHANGED <<proc, active, setting, bypass, jobs, starting, granted, pending,
                     published, parting, issued, userList, userOn, lost, undoFailed, cut, overtaken, unread>>
  BY DEF ClearRecord
<1>1. ProxyTypeOK' BY <1>a, <1>c DEF ProxyTypeOK
<1>2. WorkInv' BY <1>a, <1>b, <1>c DEF WorkInv, IssuedFor, Setting
<1>3. LifeInv' BY <1>a, <1>c DEF LifeInv
<1>4. LeaseInv' BY <1>a, <1>c DEF LeaseInv, Held
<1>5. RecordInv' BY <1>a, <1>c DEF RecordInv, IssuedFor, Held
<1>6. PointedInv'
  <2>. SUFFICES ASSUME ~undoFailed, NEW t \in Services, NEW l \in Kinds, NEW e \in Daemons,
                       setting[t][l] = e, proc[e] = "up" \/ ~cut
                PROVE  FALSE
    BY <1>c DEF PointedInv
  <2>1. Left(Off(t, e, l)) /\ record # NoRecord BY <1>a DEF PointedInv
  <2>2. ~Left(Off(t, e, l))' BY <1>b, FieldsOfSteps
  <2>. QED BY <1>a, <1>d, <2>1, <2>2, FieldsOfSteps
<1>7. OwedInv' BY <1>c DEF OwedInv
<1>8. HeldInv' BY <1>a, <1>c DEF HeldInv, Held
<1>9. UserOnInv' BY <1>a, <1>c DEF UserOnInv
<1>10. BypassInv'
  <2>. SUFFICES ASSUME ~undoFailed, ~unread, NEW t \in Services, bypass[t] # userList[t] PROVE FALSE
    BY <1>c DEF BypassInv
  <2>1. Left(RestoreBypass(record)) BY <1>a DEF BypassInv
  <2>. QED BY <1>a, <1>b, <1>d, <2>1, FieldsOfSteps
<1>. QED BY <1>1, <1>2, <1>3, <1>4, <1>5, <1>6, <1>7, <1>8, <1>9, <1>10 DEF ProxyInv

LEMMA FinishKeeps == ASSUME ProxyInv, Finish PROVE ProxyInv'
<1>. USE Sentinels DEF ProxyInv, diskVars, boundVars, ghostVars
<1>. DEFINE j == work.job
            d == work.job.by
            given == Lease(j.lease, record.service)
            release == Job("release", d, given)
<1>a. /\ work \in Works /\ work # NoWork /\ work' = NoWork /\ work.todo = <<>>
      /\ j \in Jobs /\ d \in Daemons /\ j.op \in {"acquire", "release", "recover", "failed"}
      /\ UNCHANGED <<proc, active, setting, bypass, record, pending, published, parting, issued,
                     userList, userOn, lost, undoFailed, cut, overtaken, unread>>
  BY DEF Finish, Fail, ProxyTypeOK, Works, Jobs
<1>b. \A x : ~Left(x) /\ ~Left(x)' BY <1>a, NoSteps DEF Left
<1>c. /\ j.op = "acquire" => IssuedFor(j)
      /\ j.op \in {"release", "failed"} => ~IssuedFor(j)
  BY <1>a, <1>b DEF WorkInv
<1>d. j.op = "acquire" =>
          /\ record \in Records /\ record # NoRecord /\ record.service \in Services
          /\ record.owner = d /\ record.lease = j.lease
          /\ j.lease \in 1..issued[d] /\ issued[d] \in Nat /\ proc[d] = "up"
          /\ given \in Leases /\ given.id = j.lease /\ given.service = record.service
          /\ release \in Jobs /\ release.op = "release" /\ release.by = d /\ release.lease = j.lease
          /\ release.service = record.service
  BY <1>a, <1>c DEF IssuedFor, ProxyTypeOK, Records, LeaseInv, LifeInv, Lease, Leases, Job, Jobs
<1>e. j.op = "acquire" =>
          /\ \A i \in jobs : i.op # "recover" /\ i.by = d => i.lease # j.lease
          /\ \A lease \in Leases : Held(d, lease) => lease.id # j.lease
  BY <1>a DEF LeaseInv, Same
<1>1. ASSUME j.op = "acquire", starting[d] = j.lease PROVE ProxyInv'
  <2>a. /\ starting' = [starting EXCEPT ![d] = 0] /\ granted' = [granted EXCEPT ![d] = given]
        /\ jobs' = jobs
    BY <1>1 DEF Finish
  <2>. HIDE DEF given, release, j, d
  <2>b. /\ starting' \in [Daemons -> Nat] /\ granted' \in [Daemons -> Leases \cup {NoLease}]
        /\ starting'[d] = 0 /\ granted'[d] = given
        /\ \A e \in Daemons : e # d => starting'[e] = starting[e] /\ granted'[e] = granted[e]
    BY <1>1, <1>a, <1>d, <2>a DEF ProxyTypeOK
  <2>c. /\ granted[d] = NoLease /\ pending[d] = NoLease /\ published[d] = NoLease
        /\ parting[d] = NoLease /\ j.lease = issued[d]
        /\ given # NoLease
    BY <1>1, <1>a, <1>d DEF LeaseInv
  <2>d. \A e \in Daemons, lease \in Leases : Held(e, lease)' <=> Held(e, lease) \/ (e = d /\ lease = given)
    BY <1>a, <1>1, <1>d, <2>b, <2>c DEF Held
  <2>1. ProxyTypeOK' BY <1>a, <2>a, <2>b DEF ProxyTypeOK
  <2>2. WorkInv' BY <1>a DEF WorkInv
  <2>3. LifeInv' BY <1>1, <1>a, <1>d, <2>a, <2>b DEF LifeInv
  <2>4. LeaseInv'
    <3>1. \A e \in Daemons :
             /\ starting'[e] \in {0, issued[e]}
             /\ starting'[e] # 0 => /\ granted'[e] = NoLease /\ pending[e] = NoLease
                                   /\ published[e] = NoLease /\ parting[e] = NoLease
             /\ granted'[e] # NoLease => pending[e] = NoLease /\ published[e] = NoLease /\ parting[e] = NoLease
             /\ pending[e] # NoLease => published[e] = NoLease /\ parting[e] = NoLease
             /\ published[e] = NoLease \/ parting[e] = NoLease
      BY <2>b, <2>c DEF LeaseInv
    <3>2. \A e \in Daemons, lease \in Leases : Held(e, lease)' =>
            /\ lease.id = issued[e] /\ lease.id # 0 /\ lease.service \in Services
            /\ \A i \in jobs : i.op # "recover" /\ i.by = e => i.lease # lease.id
      BY <1>1, <1>d, <1>e, <2>c, <2>d DEF LeaseInv
    <3>3. /\ record # NoRecord => record.lease \in 1..issued[record.owner]
          /\ \A i \in jobs : i.op # "recover" => i.lease \in 1..issued[i.by]
          /\ \A i, m \in jobs : Same(i, m) => i = m
      BY DEF LeaseInv
    <3>. QED BY <1>a, <2>a, <3>1, <3>2, <3>3 DEF LeaseInv
  <2>5. RecordInv' BY <1>1, <1>a, <1>d, <2>a, <2>d DEF RecordInv, IssuedFor
  <2>6. PointedInv' BY <1>a, <1>b DEF PointedInv
  <2>7. OwedInv' BY <1>1, <1>a, <1>d, <2>d DEF OwedInv
  <2>8. HeldInv'
    <3>1. \A k \in Kinds : setting[record.service][k] = d BY <1>1, <1>a, <1>b DEF HeldInv, j, d
    <3>. QED BY <1>1, <1>a, <1>b, <1>d, <2>d, <3>1 DEF HeldInv
  <2>9. UserOnInv' BY <1>a, <1>b DEF UserOnInv
  <2>10. BypassInv' BY <1>a, <1>b DEF BypassInv, StillOurs
  <2>. QED BY <2>1, <2>2, <2>3, <2>4, <2>5, <2>6, <2>7, <2>8, <2>9, <2>10 DEF ProxyInv
<1>2. ASSUME ~(j.op = "acquire" /\ starting[d] = j.lease) PROVE ProxyInv'
  <2>a. /\ granted' = granted
        /\ \/ j.op = "acquire" /\ jobs' = jobs \cup {release}
           \/ j.op # "acquire" /\ jobs' = jobs
        /\ starting' \in {starting, [starting EXCEPT ![d] = 0]}
    BY <1>2 DEF Finish, Fail
  <2>. HIDE DEF given, release, j, d
  <2>s. /\ starting' \in [Daemons -> Nat]
        /\ \A e \in Daemons : starting'[e] = starting[e] \/ starting'[e] = 0
    <3>1. starting \in [Daemons -> Nat] /\ d \in Daemons BY <1>a DEF ProxyTypeOK
    <3>. QED BY <2>a, <3>1
  <2>b. /\ \A e, lease : Held(e, lease)' <=> Held(e, lease)
        /\ \A i : IssuedFor(i)' <=> IssuedFor(i)
    BY <1>a, <2>a DEF Held, IssuedFor
  <2>c. j.op = "acquire" => \A i \in jobs : ~Same(release, i) /\ ~Same(i, release)
    BY <1>d, <1>e DEF Same
  <2>1. ProxyTypeOK' BY <1>a, <1>d, <2>a, <2>s DEF ProxyTypeOK
  <2>2. WorkInv' BY <1>a DEF WorkInv
  <2>3. LifeInv' BY <1>a, <1>d, <2>a, <2>s DEF LifeInv
  <2>4. LeaseInv'
    <3>1. \A e \in Daemons :
             /\ starting'[e] \in {0, issued[e]}
             /\ starting'[e] # 0 => /\ granted[e] = NoLease /\ pending[e] = NoLease
                                   /\ published[e] = NoLease /\ parting[e] = NoLease
             /\ granted[e] # NoLease => pending[e] = NoLease /\ published[e] = NoLease /\ parting[e] = NoLease
             /\ pending[e] # NoLease => published[e] = NoLease /\ parting[e] = NoLease
             /\ published[e] = NoLease \/ parting[e] = NoLease
      BY <2>s DEF LeaseInv
    <3>2. \A e \in Daemons, lease \in Leases : Held(e, lease) =>
            /\ lease.id = issued[e] /\ lease.id # 0 /\ lease.service \in Services
            /\ \A i \in jobs' : i.op # "recover" /\ i.by = e => i.lease # lease.id
      BY <1>d, <1>e, <2>a DEF LeaseInv
    <3>3. \A i, m \in jobs' : Same(i, m) => i = m BY <2>a, <2>c DEF LeaseInv
    <3>4. \A i \in jobs' : i.op # "recover" => i.lease \in 1..issued[i.by] BY <1>d, <2>a DEF LeaseInv
    <3>5. record # NoRecord => record.lease \in 1..issued[record.owner] BY DEF LeaseInv
    <3>. QED BY <1>a, <2>a, <2>b, <3>1, <3>2, <3>3, <3>4, <3>5 DEF LeaseInv
  <2>5. RecordInv'
    <3>1. \A i \in jobs' : i.op = "acquire" => i \in jobs BY <1>d, <2>a
    <3>2. \A i \in jobs' : i.op = "release" =>
              i.service \in Services /\ (IssuedFor(i) => record.service = i.service)
      BY <1>d, <2>a DEF RecordInv
    <3>. QED BY <1>a, <2>b, <3>1, <3>2 DEF RecordInv
  <2>6. PointedInv' BY <1>a, <1>b DEF PointedInv
  <2>7. OwedInv'
    <3>1. work # NoWork /\ work.job.op # "recover" /\ IssuedFor(work.job) =>
              \E i \in jobs' : i.op = "release" /\ IssuedFor(i)
      BY <1>a, <1>c, <1>d, <2>a DEF IssuedFor, j
    <3>2. jobs \subseteq jobs' BY <2>a
    <3>. QED BY <1>a, <2>b, <3>1, <3>2 DEF OwedInv
  <2>8. HeldInv' BY <1>a, <1>b, <2>b DEF HeldInv
  <2>9. UserOnInv' BY <1>a, <1>b DEF UserOnInv
  <2>10. BypassInv' BY <1>a, <1>b DEF BypassInv, StillOurs
  <2>. QED BY <2>1, <2>2, <2>3, <2>4, <2>5, <2>6, <2>7, <2>8, <2>9, <2>10 DEF ProxyInv
<1>. QED BY <1>1, <1>2

LEMMA UserChangesKeeps == ASSUME ProxyInv, UserChanges PROVE ProxyInv'
<1>. USE Sentinels DEF ProxyInv, diskVars, leaseVars, boundVars, ghostVars
<1>a. /\ work = NoWork
      /\ UNCHANGED <<proc, record, jobs, work, starting, granted, pending,
                     published, parting, issued, lost, undoFailed, cut, overtaken>>
  BY DEF UserChanges
<1>b. \A x : ~Left(x) /\ ~Left(x)' BY <1>a DEF Left
<1>c. /\ \A d, lease : Held(d, lease)' <=> Held(d, lease)
      /\ \A j : IssuedFor(j)' <=> IssuedFor(j)
  BY <1>a DEF Held, IssuedFor
<1>1. ASSUME NEW s \in Services, NEW k \in Kinds, NEW v \in {"userOn", "userOff"},
             setting' = [setting EXCEPT ![s][k] = v],
             userOn' = [userOn EXCEPT ![s] = IF v = "userOn" THEN @ \cup {k} ELSE @ \ {k}],
             UNCHANGED <<active, bypass, userList, unread>>
      PROVE  ProxyInv'
  <2>a. /\ setting' \in [Services -> [Kinds -> Daemons \cup {"off", "userOn", "userOff"}]]
        /\ \A t \in Services, l \in Kinds : setting'[t][l] = IF t = s /\ l = k THEN v ELSE setting[t][l]
    BY <1>1 DEF ProxyTypeOK
  <2>b. /\ userOn' \in [Services -> SUBSET Kinds]
        /\ \A t \in Services : userOn'[t] = IF t # s THEN userOn[t] ELSE
                                            IF v = "userOn" THEN userOn[s] \cup {k} ELSE userOn[s] \ {k}
    BY <1>1 DEF ProxyTypeOK
  <2>1. ProxyTypeOK' BY <1>1, <1>a, <2>a, <2>b DEF ProxyTypeOK
  <2>2. WorkInv' BY <1>a DEF WorkInv
  <2>3. LifeInv' BY <1>a, <2>a DEF LifeInv
  <2>4. LeaseInv' BY <1>a, <1>c DEF LeaseInv
  <2>5. RecordInv' BY <1>a, <1>c DEF RecordInv
  <2>6. PointedInv' BY <1>a, <1>b, <2>a DEF PointedInv
  <2>7. OwedInv' BY <1>a, <1>c, <2>a DEF OwedInv, ProxyTypeOK, Records
  <2>8. HeldInv' BY <1>a, <1>b, <1>c, <2>a DEF HeldInv, LeaseInv
  <2>9. UserOnInv' BY <1>b, <2>a, <2>b DEF UserOnInv
  <2>10. BypassInv' BY <1>1, <1>a, <1>b DEF BypassInv, StillOurs
  <2>. QED BY <2>1, <2>2, <2>3, <2>4, <2>5, <2>6, <2>7, <2>8, <2>9, <2>10 DEF ProxyInv
<1>2. ASSUME NEW s \in Services, NEW list \in UserLists,
             bypass' = [bypass EXCEPT ![s] = list],
             userList' = [userList EXCEPT ![s] = list],
             unread' = (unread \/ (list \in OwnLists /\ record # NoRecord
                                     /\ record.service = s /\ ~record.readBack)),
             UNCHANGED <<active, setting, userOn>>
      PROVE  ProxyInv'
  <2>1. ProxyTypeOK' BY <1>2, <1>a DEF ProxyTypeOK
  <2>2. WorkInv' BY <1>a DEF WorkInv
  <2>3. LifeInv' BY <1>2, <1>a DEF LifeInv
  <2>4. LeaseInv' BY <1>a, <1>c DEF LeaseInv
  <2>5. RecordInv' BY <1>a, <1>c DEF RecordInv
  <2>6. PointedInv' BY <1>2, <1>a, <1>b DEF PointedInv
  <2>7. OwedInv' BY <1>2, <1>a, <1>c DEF OwedInv
  <2>8. HeldInv' BY <1>2, <1>a, <1>b, <1>c DEF HeldInv
  <2>9. UserOnInv' BY <1>2, <1>b DEF UserOnInv
  <2>10. BypassInv'
    <3>1. ~unread' => ~unread /\ ~(list \in OwnLists /\ record # NoRecord
                                     /\ record.service = s /\ ~record.readBack)
      BY <1>2
    <3>2. \A t \in Services : /\ bypass'[t] = IF t = s THEN list ELSE bypass[t]
                              /\ userList'[t] = IF t = s THEN list ELSE userList[t]
      BY <1>2 DEF ProxyTypeOK
    <3>. SUFFICES ASSUME ~undoFailed, ~unread'
                  PROVE  /\ \A t \in Services : bypass'[t] # userList'[t] =>
                                bypass'[t] = "ours" /\ record # NoRecord /\ record.service = t
                         /\ record # NoRecord /\ StillOurs(record)' =>
                                record.original = userList'[record.service]
      BY <1>a, <1>b DEF BypassInv
    <3>3. \A t \in Services : bypass'[t] # userList'[t] =>
              bypass'[t] = "ours" /\ record # NoRecord /\ record.service = t
      BY <3>1, <3>2 DEF BypassInv
    <3>4. ASSUME record # NoRecord, StillOurs(record)' PROVE record.original = userList'[record.service]
      <4>1. record.service \in Services BY <3>4 DEF ProxyTypeOK, Records
      <4>2. CASE record.service = s
        <5>1. bypass'[record.service] = list BY <3>2, <4>1, <4>2
        <5>. QED BY <1>a, <3>1, <3>4, <4>2, <5>1 DEF StillOurs
      <4>3. CASE record.service # s
        <5>1. StillOurs(record) BY <1>a, <3>2, <3>4, <4>1, <4>3 DEF StillOurs
        <5>. QED BY <3>1, <3>2, <3>4, <4>1, <4>3, <5>1 DEF BypassInv
      <4>. QED BY <4>2, <4>3
    <3>. QED BY <3>3, <3>4
  <2>. QED BY <2>1, <2>2, <2>3, <2>4, <2>5, <2>6, <2>7, <2>8, <2>9, <2>10 DEF ProxyInv
<1>3. ASSUME active' \in Services, UNCHANGED <<setting, bypass, userList, userOn, unread>>
      PROVE  ProxyInv'
  <2>1. ProxyTypeOK' BY <1>3, <1>a DEF ProxyTypeOK
  <2>2. WorkInv' BY <1>a DEF WorkInv
  <2>3. LifeInv' BY <1>3, <1>a DEF LifeInv
  <2>4. LeaseInv' BY <1>a, <1>c DEF LeaseInv
  <2>5. RecordInv' BY <1>a, <1>c DEF RecordInv
  <2>6. PointedInv' BY <1>3, <1>a, <1>b DEF PointedInv
  <2>7. OwedInv' BY <1>3, <1>a, <1>c DEF OwedInv
  <2>8. HeldInv' BY <1>3, <1>a, <1>b, <1>c DEF HeldInv
  <2>9. UserOnInv' BY <1>3, <1>b DEF UserOnInv
  <2>10. BypassInv' BY <1>3, <1>a, <1>b DEF BypassInv, StillOurs
  <2>. QED BY <2>1, <2>2, <2>3, <2>4, <2>5, <2>6, <2>7, <2>8, <2>9, <2>10 DEF ProxyInv
<1>. QED BY <1>1, <1>2, <1>3 DEF UserChanges

LEMMA NothingKeeps == ASSUME ProxyInv, UNCHANGED proxyVars PROVE ProxyInv'
<1>. USE DEF ProxyInv, proxyVars, diskVars, leaseVars, boundVars, ghostVars
<1>1. ProxyTypeOK' BY DEF ProxyTypeOK
<1>2. WorkInv' BY DEF WorkInv, Left, IssuedFor
<1>3. LifeInv' BY DEF LifeInv
<1>4. LeaseInv' BY DEF LeaseInv, Held
<1>5. RecordInv' BY DEF RecordInv, IssuedFor, Held
<1>6. PointedInv' BY DEF PointedInv, Left
<1>7. OwedInv' BY DEF OwedInv, IssuedFor, Held
<1>8. HeldInv' BY DEF HeldInv, Held, Left
<1>9. UserOnInv' BY DEF UserOnInv, Left
<1>10. BypassInv' BY DEF BypassInv, StillOurs, Left
<1>. QED BY <1>1, <1>2, <1>3, <1>4, <1>5, <1>6, <1>7, <1>8, <1>9, <1>10 DEF ProxyInv

-----------------------------------------------------------------------------
(* The invariant, and what follows from it.                                *)

LEMMA ProxyInit == Init => ProxyInv
<1>. SUFFICES ASSUME Init PROVE ProxyInv OBVIOUS
<1>. USE Sentinels DEF Init
<1>1. ProxyTypeOK BY DEF ProxyTypeOK, Jobs
<1>2. \A x : ~Left(x) BY DEF Left
<1>3. \A d \in Daemons, lease \in Leases : ~Held(d, lease) BY DEF Held
<1>4. WorkInv /\ LifeInv /\ RecordInv BY <1>3 DEF WorkInv, LifeInv, RecordInv
<1>5. LeaseInv BY <1>3 DEF LeaseInv
<1>6. PointedInv /\ OwedInv BY DEF PointedInv, OwedInv
<1>7. HeldInv /\ UserOnInv /\ BypassInv BY <1>2, <1>3 DEF HeldInv, UserOnInv, BypassInv
<1>. QED BY <1>1, <1>4, <1>5, <1>6, <1>7 DEF ProxyInv

LEMMA ProxyStep == ProxyInv /\ [Next]_proxyVars => ProxyInv'
<1>. SUFFICES ASSUME ProxyInv, [Next]_proxyVars PROVE ProxyInv' OBVIOUS
<1>1. ASSUME NEW d \in Daemons,
             \/ StartDaemon(d) \/ Die(d) \/ StartCapture(d) \/ Receive(d) \/ Publish(d)
             \/ CancelWaiting(d) \/ CancelReceiving(d) \/ CancelPending(d)
             \/ CleanUp(d) \/ Release(d) \/ CancelCleanUp(d)
      PROVE  ProxyInv'
  BY <1>1, StartDaemonKeeps, DieKeeps, StartCaptureKeeps, ReceiveKeeps, PublishKeeps,
     CancelWaitingKeeps, CancelReceivingKeeps, CancelPendingKeeps, CleanUpKeeps, ReleaseKeeps,
     CancelCleanUpKeeps
<1>2. ASSUME NEW j \in jobs, TakeLock(j) \/ LockTimesOut(j) PROVE ProxyInv'
  BY <1>2, TakeLockKeeps, LockTimesOutKeeps
<1>3. ASSUME PlanElsewhere \/ PlanRefused \/ PlanAccepted \/ SetProxy \/ SetFails \/ SetBypassList
      PROVE ProxyInv'
  BY <1>3, PlanElsewhereKeeps, PlanRefusedKeeps, PlanAcceptedKeeps, SetProxyKeeps, SetFailsKeeps,
     SetBypassListKeeps
<1>4. ASSUME TurnOff \/ RestoreList \/ UndoStepFails \/ ClearRecord \/ Finish \/ UserChanges
      PROVE ProxyInv'
  BY <1>4, TurnOffKeeps, RestoreListKeeps, UndoStepFailsKeeps, ClearRecordKeeps, FinishKeeps,
     UserChangesKeeps
<1>5. ASSUME Quiet \/ UNCHANGED proxyVars PROVE ProxyInv' BY <1>5, NothingKeeps DEF Quiet
<1>. QED BY <1>1, <1>2, <1>3, <1>4, <1>5 DEF Next

LEMMA ProxyFollows == ProxyInv => ProxyLent
<1>. SUFFICES ASSUME ProxyInv PROVE ProxyLent OBVIOUS
<1>. USE Sentinels DEF ProxyInv
<1>1. ~overtaken => \A d \in Daemons : published[d] # NoLease =>
          \A k \in Kinds : setting[published[d].service][k] \in {d, "userOn", "userOff"}
  BY DEF HeldInv, Held, ProxyTypeOK
<1>2. ASSUME ~undoFailed, NEW s \in Services, NEW k \in Kinds, NEW d \in Daemons,
             setting[s][k] = d, proc[d] = "up"
      PROVE  \/ published[d] # NoLease \/ Guarded(d)
             \/ work # NoWork /\ work.job.by = d
             \/ \E j \in jobs : j.by = d /\ j.op # "recover"
             \/ record # NoRecord /\ record.owner = d /\ record.lease \in lost[d]
  <2>1. record # NoRecord /\ record.service = s /\ (record.owner = d \/ (work # NoWork /\ work.from = d))
    BY <1>2 DEF PointedInv
  <2>2. record.owner = d BY <1>2, <2>1 DEF LifeInv
  <2>. QED BY <1>2, <2>1, <2>2 DEF OwedInv, Held, IssuedFor, Guarded
<1>3. ASSUME record = NoRecord, work = NoWork, ~undoFailed, ~cut, NEW s \in Services
      PROVE  /\ ~unread => bypass[s] = userList[s]
             /\ \A k \in Kinds : setting[s][k] \notin Daemons
                                 /\ (k \in userOn[s] => setting[s][k] = "userOn")
  BY <1>3 DEF PointedInv, UserOnInv, BypassInv
<1>. QED BY <1>1, <1>2, <1>3 DEF ProxyLent, ProxyFollowsCapture, LeftAsFound

\* A published capture keeps the Mac's proxy, the Mac never points at a live daemon
\* that neither captures nor is about to be taken off, and when nobody owns the proxy
\* any more its user has back what was theirs (acquire, release and recover of
\* ios/system_proxy.rs).
THEOREM ProxyIsLent == Spec => []ProxyLent
<1>1. Init => ProxyInv BY ProxyInit
<1>2. ProxyInv /\ [Next]_proxyVars => ProxyInv' BY ProxyStep
<1>3. ProxyInv => ProxyLent BY ProxyFollows
<1>. QED BY <1>1, <1>2, <1>3, PTL DEF Spec
=============================================================================
