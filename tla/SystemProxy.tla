---------------------------- MODULE SystemProxy ----------------------------
(***************************************************************************)
(* The macOS system proxy as the daemons of one Mac share it               *)
(* (packages/tapsmith-core/src/ios/system_proxy.rs and its callers in      *)
(* grpc_server.rs): one setting, an owner record on disk and a lock.  A    *)
(* daemon borrows the setting for a capture and gives it back; a daemon    *)
(* may die at any point, a capture start or a clean-up be cancelled        *)
(* wherever it awaits, a networksetup command fail, and the user change    *)
(* the setting.                                                            *)
(*                                                                         *)
(* A daemon is one process, its captures listen on one port.  Work under   *)
(* the lock is a list of steps (todo), each one networksetup call or one   *)
(* write of the record.  The user acts while nobody is at work.            *)
(***************************************************************************)
EXTENDS DaemonProcesses, Integers, Sequences, FiniteSets

CONSTANTS
    Services,
    UserLists,              \* the user's proxy bypass lists
    OwnLists,               \* those with entries of BYPASS_DOMAINS only, as the empty list
    NoDaemon, NoService, NoRecord, NoLease, NoWork,
    MaxLeases               \* per daemon: bound on the captures it starts

Kinds == {"http", "https"}

VARIABLES
    active,       \* the network service with an address
    setting,      \* per service and kind: the daemon it points at, "off", "userOn", "userOff"
    bypass,       \* per service: a user's list, or "ours"
    record,       \* ios-system-proxy.json
    jobs,         \* acquires, releases and recoveries that want the lock
    work,         \* the one that has it, and what is left to do
    starting,     \* per daemon: the lease its capture start waits for, or 0
    granted,      \* per daemon: the lease sent to the start that waits, not yet received
    pending,      \* per daemon: PendingLease, received and not yet published
    published,    \* per daemon: ios_system_proxy
    parting,      \* per daemon: taken out of ios_system_proxy, not yet being released
    issued,       \* per daemon: its leases so far
    userList, userOn, \* per service: the list the user set last; the kinds the user's proxy is on for
    lost,         \* per daemon: leases dropped where nobody releases them
    undoFailed,   \* a command that puts something back failed
    cut,          \* a takeover from a dead owner was cut short
    overtaken,    \* an acquire replaced a later one of its own daemon
    unread        \* the user set an own-looking list over one not read back

diskVars == <<setting, bypass, record>>
leaseVars == <<starting, granted, pending, published, parting, issued>>
boundVars == <<changes, fails>>
ghostVars == <<userList, userOn, lost, undoFailed, cut, overtaken, unread>>
proxyVars == <<proc, active, diskVars, jobs, work, leaseVars, boundVars, ghostVars>>

Leases == [id : Nat, service : Services \cup {NoService}]
Jobs == [op : {"acquire", "recover", "release", "failed"}, by : Daemons,
         lease : Nat, service : Services \cup {NoService}]
Records == [owner : Daemons, service : Services, lease : Nat,
            original : UserLists \cup {"ours"}, readBack : BOOLEAN]
Steps == [do : {"off"}, service : Services, port : Daemons, kind : Kinds]
         \cup [do : {"bypass"}, of : Records] \cup [do : {"clear", "plan"}]
         \cup [do : {"set"}, service : Services, kind : Kinds]
         \cup [do : {"setBypass"}, service : Services]
Works == [job : Jobs, todo : Seq(Steps), from : Daemons \cup {NoDaemon}]

ASSUME ProxyAssumption ==
    /\ OwnLists \subseteq UserLists /\ "ours" \notin UserLists
    /\ {"off", "userOn", "userOff"} \cap Daemons = {} /\ NoDaemon \notin Daemons
    /\ NoRecord \notin Records /\ NoLease \notin Leases /\ NoWork \notin Works
    /\ NoService \notin Services

Init ==
    /\ proc = [d \in Daemons |-> "new"]
    /\ active \in Services
    /\ setting = [s \in Services |-> [k \in Kinds |-> "userOff"]]
    /\ userList \in [Services -> UserLists]
    /\ bypass = userList
    /\ userOn = [s \in Services |-> {}]
    /\ record = NoRecord
    /\ jobs = {} /\ work = NoWork
    /\ starting = [d \in Daemons |-> 0]
    /\ granted = [d \in Daemons |-> NoLease]
    /\ pending = [d \in Daemons |-> NoLease]
    /\ published = [d \in Daemons |-> NoLease]
    /\ parting = [d \in Daemons |-> NoLease]
    /\ lost = [d \in Daemons |-> {}]
    /\ issued = [d \in Daemons |-> 0]
    /\ changes = 0 /\ fails = 0
    /\ undoFailed = FALSE /\ cut = FALSE /\ overtaken = FALSE /\ unread = FALSE

\* A job: an acquire, a recovery, or the release of a lease.
Job(op, d, lease) == [op |-> op, by |-> d, lease |-> lease.id, service |-> lease.service]
Lease(n, s) == [id |-> n, service |-> s]

-----------------------------------------------------------------------------
(* Daemons come, capture, and go.                                          *)

\* A daemon starts: it recovers in the background what a dead one left.
StartDaemon(d) ==
    /\ proc[d] = "new"
    /\ proc' = [proc EXCEPT ![d] = "up"]
    /\ jobs' = jobs \cup {Job("recover", d, Lease(0, NoService))}
    /\ UNCHANGED <<active, diskVars, work, leaseVars, boundVars, ghostVars>>

\* It is killed; the lock goes with it.
Die(d) ==
    /\ proc[d] = "up"
    /\ proc' = [proc EXCEPT ![d] = "dead"]
    /\ jobs' = {j \in jobs : j.by # d}
    /\ IF work # NoWork /\ work.job.by = d
       THEN work' = NoWork /\ cut' = (cut \/ work.from # NoDaemon)
       ELSE UNCHANGED <<work, cut>>
    /\ starting' = [starting EXCEPT ![d] = 0]
    /\ granted' = [granted EXCEPT ![d] = NoLease]
    /\ pending' = [pending EXCEPT ![d] = NoLease]
    /\ published' = [published EXCEPT ![d] = NoLease]
    /\ parting' = [parting EXCEPT ![d] = NoLease]
    /\ UNCHANGED <<active, diskVars, issued, boundVars, userList, userOn, lost, undoFailed,
                   overtaken, unread>>

\* The guard of network_proxy: a start has it until it has published, a clean-up
\* until it has taken all it cleans up.
Guarded(d) == starting[d] # 0 \/ granted[d] # NoLease \/ pending[d] # NoLease \/ parting[d] # NoLease

\* start_network_capture, which holds that guard, asks for the proxy.
StartCapture(d) ==
    /\ proc[d] = "up" /\ ~Guarded(d) /\ published[d] = NoLease
    /\ issued[d] < MaxLeases[d]
    /\ issued' = [issued EXCEPT ![d] = @ + 1]
    /\ starting' = [starting EXCEPT ![d] = issued[d] + 1]
    /\ jobs' = jobs \cup {Job("acquire", d, Lease(issued[d] + 1, NoService))}
    /\ UNCHANGED <<proc, active, diskVars, work, granted, pending, published, parting,
                   boundVars, ghostVars>>

\* The start that waits comes to the lease sent to it.
Receive(d) ==
    /\ granted[d] # NoLease
    /\ pending' = [pending EXCEPT ![d] = granted[d]]
    /\ granted' = [granted EXCEPT ![d] = NoLease]
    /\ UNCHANGED <<proc, active, diskVars, jobs, work, starting, published, parting, issued,
                   boundVars, ghostVars>>

\* The lease and the capture are published together.
Publish(d) ==
    /\ pending[d] # NoLease
    /\ published' = [published EXCEPT ![d] = pending[d]]
    /\ pending' = [pending EXCEPT ![d] = NoLease]
    /\ UNCHANGED <<proc, active, diskVars, jobs, work, starting, granted, parting, issued,
                   boundVars, ghostVars>>

\* The start is cancelled while it waits: the acquire goes on without it.
CancelWaiting(d) ==
    /\ starting[d] # 0
    /\ starting' = [starting EXCEPT ![d] = 0]
    /\ UNCHANGED <<proc, active, diskVars, jobs, work, granted, pending, published, parting, issued,
                   boundVars, ghostVars>>

Lose(d, lease) == lost' = [lost EXCEPT ![d] = @ \cup {lease.id}]

\* Or when the lease was sent to it and it has not come to it: the send went well,
\* the lease goes with the channel.
CancelReceiving(d) ==
    /\ granted[d] # NoLease
    /\ granted' = [granted EXCEPT ![d] = NoLease]
    /\ Lose(d, granted[d])
    /\ UNCHANGED <<proc, active, diskVars, jobs, work, starting, pending, published, parting, issued,
                   boundVars, userList, userOn, undoFailed, cut, overtaken, unread>>

\* release_abandoned
Abandon(d) == {Job("release", d, pending[d])}

\* Or before it published: the dropped PendingLease is released.
CancelPending(d) ==
    /\ pending[d] # NoLease
    /\ pending' = [pending EXCEPT ![d] = NoLease]
    /\ jobs' = jobs \cup Abandon(d)
    /\ UNCHANGED <<proc, active, diskVars, work, starting, granted, published, parting, issued,
                   boundVars, ghostVars>>

\* cleanup_network_proxy, at shutdown, for another device or for an isolated capture:
\* it takes the lease and waits for what else it takes.
CleanUp(d) ==
    /\ published[d] # NoLease
    /\ published' = [published EXCEPT ![d] = NoLease]
    /\ parting' = [parting EXCEPT ![d] = published[d]]
    /\ UNCHANGED <<proc, active, diskVars, jobs, work, starting, granted, pending, issued,
                   boundVars, ghostVars>>

\* Only then it has the lease released.
Release(d) ==
    /\ parting[d] # NoLease
    /\ parting' = [parting EXCEPT ![d] = NoLease]
    /\ jobs' = jobs \cup {Job("release", d, parting[d])}
    /\ UNCHANGED <<proc, active, diskVars, work, starting, granted, pending, published, issued,
                   boundVars, ghostVars>>

\* The request it cleans up for is cancelled while it waits: the lease, which is no
\* PendingLease, is dropped.
CancelCleanUp(d) ==
    /\ parting[d] # NoLease
    /\ parting' = [parting EXCEPT ![d] = NoLease]
    /\ Lose(d, parting[d])
    /\ UNCHANGED <<proc, active, diskVars, jobs, work, starting, granted, pending, published, issued,
                   boundVars, userList, userOn, undoFailed, cut, overtaken, unread>>

-----------------------------------------------------------------------------
(* Steps under the lock.                                                   *)

Off(s, port, k) == [do |-> "off", service |-> s, port |-> port, kind |-> k]
RestoreBypass(r) == [do |-> "bypass", of |-> r]
Clear == [do |-> "clear"]
Plan == [do |-> "plan"]
Set(s, k) == [do |-> "set", service |-> s, kind |-> k]
SetBypass(s) == [do |-> "setBypass", service |-> s]

DisableIfOurs(s, port) == <<Off(s, port, "http"), Off(s, port, "https")>>
Undo(r) == Append(DisableIfOurs(r.service, r.owner), RestoreBypass(r))

\* bypass_still_ours
StillOurs(r) ==
    IF r.readBack THEN bypass[r.service] = "ours" ELSE bypass[r.service] \in OwnLists \cup {"ours"}

OwnerAlive == record # NoRecord /\ proc[record.owner] = "up"

\* Mutant: a release takes any record of its daemon for the one it was issued for.
IssuedForAny(j) == record # NoRecord /\ record.owner = j.by

IssuedFor(j) == record # NoRecord /\ record.owner = j.by /\ record.lease = j.lease

LeftByDead(j) == record # NoRecord /\ record.owner # j.by /\ ~OwnerAlive

Todo(j) ==
    CASE j.op = "acquire" -> <<Plan>>
      [] j.op = "recover" -> IF LeftByDead(j) THEN Append(Undo(record), Clear) ELSE <<>>
      [] j.op = "release" ->
            IF IssuedFor(j) THEN Append(Undo(record), Clear)
            ELSE IF record # NoRecord THEN <<>>
            ELSE DisableIfOurs(j.service, j.by)

TakeLock(j) ==
    /\ work = NoWork
    /\ work' = [job |-> j, todo |-> Todo(j), from |-> NoDaemon]
    /\ jobs' = jobs \ {j}
    /\ overtaken' = (overtaken \/ (j.op = "acquire" /\ record # NoRecord
                                     /\ record.owner = j.by /\ record.lease > j.lease))
    /\ UNCHANGED <<proc, active, diskVars, leaseVars, boundVars, userList, userOn, lost, undoFailed,
                   cut, unread>>

\* Nobody waits for the lock longer than LOCK_TIMEOUT.  A release then does
\* without it (and no later capture of its daemon has the port by then).
LockTimesOut(j) ==
    /\ work # NoWork
    /\ j.op = "release" => issued[j.by] = j.lease
    /\ jobs' = jobs \ {j}
    /\ setting' = IF j.op # "release" THEN setting
                  ELSE [setting EXCEPT ![j.service] =
                           [k \in Kinds |-> IF @[k] = j.by THEN "off" ELSE @[k]]]
    /\ starting' = IF j.op = "acquire" /\ starting[j.by] = j.lease
                   THEN [starting EXCEPT ![j.by] = 0] ELSE starting
    /\ UNCHANGED <<proc, active, bypass, record, work, granted, pending, published, parting, issued,
                   boundVars, ghostVars>>

Step(kind) == work # NoWork /\ work.todo # <<>> /\ Head(work.todo).do = kind
NextStep == Head(work.todo)
Then(steps) == work' = [work EXCEPT !.todo = steps]
Done == Then(Tail(work.todo))

\* The result of an acquire that failed: the waiting start fails.
Fail(j) ==
    /\ work' = NoWork
    /\ starting' = IF starting[j.by] = j.lease THEN [starting EXCEPT ![j.by] = 0] ELSE starting


\* plan_acquire: an enabled setting the record at hand does not explain.
Foreign ==
    \E k \in Kinds : setting[active][k] \in Daemons \cup {"userOn"}
        /\ (record # NoRecord => record.owner # setting[active][k])

\* On a takeover the dead owner's snapshot of the user's list is the one to keep.
Original == IF record # NoRecord /\ StillOurs(record) THEN record.original ELSE bypass[active]

\* A stale record of another service is undone first.
PlanElsewhere ==
    /\ Step("plan") /\ record # NoRecord /\ ~(OwnerAlive /\ record.owner # work.job.by)
    /\ record.service # active
    /\ Then(Undo(record) \o <<Clear, Plan>>)
    /\ UNCHANGED <<proc, active, diskVars, jobs, leaseVars, boundVars, ghostVars>>

PlanRefused ==
    /\ Step("plan")
    /\ \/ OwnerAlive /\ record.owner # work.job.by
       \/ (record # NoRecord => record.service = active) /\ Foreign
    /\ Fail(work.job)
    /\ UNCHANGED <<proc, active, diskVars, jobs, granted, pending, published, parting, issued,
                   boundVars, ghostVars>>

\* The record is written before anything is touched.
PlanAccepted ==
    LET d == work.job.by IN
    /\ Step("plan")
    /\ record # NoRecord => record.service = active /\ ~(OwnerAlive /\ record.owner # d)
    /\ ~Foreign
    /\ record' = [owner |-> d, service |-> active, lease |-> work.job.lease, original |-> Original,
                  readBack |-> record # NoRecord /\ StillOurs(record) /\ record.readBack]
    /\ work' = [work EXCEPT !.todo = <<Set(active, "http"), Set(active, "https"), SetBypass(active)>>,
                            !.from = IF record = NoRecord \/ record.owner = d THEN NoDaemon ELSE record.owner]
    /\ UNCHANGED <<proc, active, setting, bypass, jobs, leaseVars, boundVars, ghostVars>>

SetProxy ==
    /\ Step("set")
    /\ setting' = [setting EXCEPT ![NextStep.service][NextStep.kind] = work.job.by]
    /\ Done
    /\ UNCHANGED <<proc, active, bypass, record, jobs, leaseVars, boundVars, ghostVars>>

\* A failed set, which may have landed: both what it half-applied and what the
\* dead owner left are undone.
SetFails ==
    /\ Step("set") /\ fails < MaxFails
    /\ fails' = fails + 1
    /\ setting' \in {setting, [setting EXCEPT ![NextStep.service][NextStep.kind] = work.job.by]}
    /\ work' = [work EXCEPT !.job.op = "failed",
                            !.todo = (IF work.from = NoDaemon THEN <<>>
                                      ELSE DisableIfOurs(record.service, work.from))
                                     \o Append(Undo(record), Clear)]
    /\ UNCHANGED <<proc, active, bypass, record, jobs, leaseVars, changes, ghostVars>>

\* The bypass list; reading it back may fail, setting it too.
SetBypassList ==
    /\ Step("setBypass")
    /\ \/ /\ bypass' = [bypass EXCEPT ![NextStep.service] = "ours"]
          /\ record' = [record EXCEPT !.readBack = TRUE]
          /\ UNCHANGED fails
       \/ /\ fails < MaxFails /\ fails' = fails + 1
          /\ bypass' \in {bypass, [bypass EXCEPT ![NextStep.service] = "ours"]}
          /\ UNCHANGED record
    /\ Done
    /\ UNCHANGED <<proc, active, setting, jobs, leaseVars, changes, ghostVars>>

TurnOff ==
    /\ Step("off")
    /\ setting' = [setting EXCEPT ![NextStep.service][NextStep.kind] = IF @ = NextStep.port THEN "off" ELSE @]
    /\ Done
    /\ UNCHANGED <<proc, active, bypass, record, jobs, leaseVars, boundVars, ghostVars>>

RestoreList ==
    /\ Step("bypass")
    /\ bypass' = IF StillOurs(NextStep.of)
                 THEN [bypass EXCEPT ![NextStep.of.service] = NextStep.of.original] ELSE bypass
    /\ Done
    /\ UNCHANGED <<proc, active, setting, record, jobs, leaseVars, boundVars, ghostVars>>

\* A command that puts something back fails; the rest goes on.
UndoStepFails ==
    /\ Step("off") \/ Step("bypass")
    /\ fails < MaxFails /\ fails' = fails + 1
    /\ undoFailed' = TRUE
    /\ Done
    /\ UNCHANGED <<proc, active, diskVars, jobs, leaseVars, changes, userList, userOn, lost, cut,
                   overtaken, unread>>

ClearRecord ==
    /\ Step("clear")
    /\ record' = NoRecord
    /\ Done
    /\ UNCHANGED <<proc, active, setting, bypass, jobs, leaseVars, boundVars, ghostVars>>

\* All done: the lock is released.  An acquire sends its lease to the start that
\* waits for it, or releases it when that was cancelled.
Finish ==
    LET j == work.job
        waited == starting[j.by] = j.lease IN
    /\ work # NoWork /\ work.todo = <<>>
    /\ IF j.op = "failed" THEN Fail(j) ELSE work' = NoWork
    /\ IF j.op = "acquire" /\ waited
       THEN /\ starting' = [starting EXCEPT ![j.by] = 0]
            /\ granted' = [granted EXCEPT ![j.by] = Lease(j.lease, record.service)]
       ELSE UNCHANGED granted /\ (j.op # "failed" => UNCHANGED starting)
    /\ jobs' = IF j.op = "acquire" /\ ~waited
               THEN jobs \cup {Job("release", j.by, Lease(j.lease, record.service))} ELSE jobs
    /\ UNCHANGED <<proc, active, diskVars, pending, published, parting, issued, boundVars, ghostVars>>

-----------------------------------------------------------------------------
(* The user and the network.                                               *)

UserChanges ==
    /\ work = NoWork /\ changes < MaxChanges
    /\ changes' = changes + 1
    /\ \/ \E s \in Services, k \in Kinds, v \in {"userOn", "userOff"} :
              /\ setting' = [setting EXCEPT ![s][k] = v]
              /\ userOn' = [userOn EXCEPT ![s] = IF v = "userOn" THEN @ \cup {k} ELSE @ \ {k}]
              /\ UNCHANGED <<active, bypass, userList, unread>>
       \/ \E s \in Services, list \in UserLists :
              /\ bypass' = [bypass EXCEPT ![s] = list]
              /\ userList' = [userList EXCEPT ![s] = list]
              /\ unread' = (unread \/ (list \in OwnLists /\ record # NoRecord
                                          /\ record.service = s /\ ~record.readBack))
              /\ UNCHANGED <<active, setting, userOn>>
       \/ active' \in Services \ {active} /\ UNCHANGED <<setting, bypass, userList, userOn, unread>>
    /\ UNCHANGED <<proc, record, jobs, work, leaseVars, fails, lost, undoFailed, cut, overtaken>>

Quiet ==
    /\ \A d \in Daemons : proc[d] = "dead" \/ (proc[d] = "up" /\ issued[d] = MaxLeases[d])
    /\ work = NoWork /\ jobs = {}
    /\ UNCHANGED proxyVars

Next ==
    \/ \E d \in Daemons :
           \/ StartDaemon(d) \/ Die(d) \/ StartCapture(d) \/ Receive(d) \/ Publish(d)
           \/ CancelWaiting(d) \/ CancelReceiving(d) \/ CancelPending(d)
           \/ CleanUp(d) \/ Release(d) \/ CancelCleanUp(d)
    \/ \E j \in jobs : TakeLock(j) \/ LockTimesOut(j)
    \/ PlanElsewhere \/ PlanRefused \/ PlanAccepted \/ SetProxy \/ SetFails \/ SetBypassList
    \/ TurnOff \/ RestoreList \/ UndoStepFails \/ ClearRecord \/ Finish
    \/ UserChanges \/ Quiet

Spec == Init /\ [][Next]_proxyVars

-----------------------------------------------------------------------------
(* Properties.                                                             *)

\* The Mac's proxy follows the captures.  One that was published keeps the proxy
\* until its daemon cleans up, whatever other daemons and late releases do (a
\* cancelled start of its own that gets the lock after it aside); only the user
\* may take it away.  And the Mac never points at a live daemon that does not
\* capture, unless somebody is about to take it off: a start, a clean-up, a job or
\* the work at hand.  Or unless the lease on record was lost: a start was cancelled
\* with the lease in its channel, or a clean-up with the lease in its hand.  Until its
\* daemon captures again, or dies, the Mac then points at a listener nobody holds.
ProxyFollowsCapture ==
    /\ ~overtaken => \A d \in Daemons : published[d] # NoLease =>
          \A k \in Kinds : setting[published[d].service][k] \in {d, "userOn", "userOff"}
    /\ ~undoFailed => \A s \in Services, k \in Kinds, d \in Daemons :
          setting[s][k] = d /\ proc[d] = "up" =>
              \/ published[d] # NoLease \/ Guarded(d)
              \/ work # NoWork /\ work.job.by = d
              \/ \E j \in jobs : j.by = d /\ j.op # "recover"
              \/ record # NoRecord /\ record.owner = d /\ record.lease \in lost[d]

\* Once nobody owns the proxy the Mac is as the user had it: nothing points at a
\* daemon, the user's own proxy is on where it was, and the bypass list is the
\* one the user set last.  A failed undo aside, a takeover that died half-way, and a
\* list with nothing of the user's own set over one that was never read back.
LeftAsFound ==
    record = NoRecord /\ work = NoWork /\ ~undoFailed /\ ~cut =>
        \A s \in Services :
            /\ ~unread => bypass[s] = userList[s]
            /\ \A k \in Kinds : setting[s][k] \notin Daemons
                                /\ (k \in userOn[s] => setting[s][k] = "userOn")

\* The proxy of the Mac is lent and returned: a published capture keeps it, and in
\* the end it is as its user had it.
ProxyLent == ProxyFollowsCapture /\ LeftAsFound

\* What a dead daemon left behind is on record while nobody is at work, for the
\* next daemon to undo.
DeadOwnerRecorded ==
    work = NoWork /\ ~undoFailed => \A s \in Services, k \in Kinds, d \in Daemons :
        setting[s][k] = d /\ proc[d] = "dead" =>
            record # NoRecord /\ record.owner = d /\ record.service = s
=============================================================================
