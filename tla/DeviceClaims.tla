---------------------------- MODULE DeviceClaims ----------------------------
(***************************************************************************)
(* The machine-wide registry of device claims                              *)
(* (packages/tapsmith/src/device-claims.ts over file-lock.ts).  Sessions   *)
(* are trees of processes that share an identity; every process claims the *)
(* devices it drives in one file per device, checking and writing under a  *)
(* lock directory.  Processes crash at any point, also inside the lock; a  *)
(* lock that cannot be had is done without; a pid may be recycled.         *)
(*                                                                         *)
(* A claim is kept as its session and its holders.  Daemon addresses,      *)
(* times and commands, which only label it, are left out.                  *)
(***************************************************************************)
EXTENDS Integers, Sequences, FiniteSets

CONSTANTS
    Processes, Sessions, Devices,
    SessionOf,    \* the session a process inherited through its environment
    Root,         \* per session: the process whose exit ends it
    MaxWanted,    \* bound on the devices one claimUpTo asks for
    NoClaim, NoProcess

ASSUME ClaimsAssumption ==
    /\ SessionOf \in [Processes -> Sessions]
    /\ Root \in [Sessions -> Processes]
    /\ \A s \in Sessions : SessionOf[Root[s]] = s
    /\ MaxWanted \in Nat \ {0}
    /\ NoProcess \notin Processes
    /\ NoClaim \notin [session : Sessions, holders : (SUBSET Processes) \ {{}}]

VARIABLES
    alive,     \* "live", "dead", or "recycled": dead, but its pid answers
    claim,     \* the registry: per device its claim file, or NoClaim
    lock,      \* whose lock directory stands, or NoProcess
    pc,        \* per process: "idle", "locking", "reading", "writing", "unlocking"
    job,       \* what it is doing: the kind, the devices left to try, how many wanted
    locked,    \* it took the lock; FALSE while it runs the section without
    pending,   \* what it is about to write
    drives,    \* devices it was granted and has not given back
    closing,   \* sessions whose root ran (or is running) its exit hook
    enforced   \* every section so far ran under the lock and every write succeeded

vars == <<alive, claim, lock, pc, job, locked, pending, drives, closing, enforced>>

\* "A claim without holders (none is written so today)".
Claim == [session : Sessions, holders : (SUBSET Processes) \ {{}}]
NoJob == [kind |-> "none", todo |-> {}, wanted |-> 0]
Job == [kind : {"none", "claim", "release", "drop"}, todo : SUBSET Devices, wanted : 0..MaxWanted]

Init ==
    /\ alive = [p \in Processes |-> "live"]
    /\ claim = [d \in Devices |-> NoClaim]
    /\ lock = NoProcess
    /\ pc = [p \in Processes |-> "idle"]
    /\ job = [p \in Processes |-> NoJob]
    /\ locked = [p \in Processes |-> FALSE]
    /\ pending = [p \in Processes |-> NoClaim]
    /\ drives = [p \in Processes |-> {}]
    /\ closing = {}
    /\ enforced = TRUE

-----------------------------------------------------------------------------
(* Liveness of a recorded process.                                         *)

\* processIsLive: the pid answers and nothing says it is another process.
ProcessIsLive(p) == alive[p] \in {"live", "recycled"}

\* Mutant: a claim stands while the process that made it first is the session's root.
RootIsLive(c) == ProcessIsLive(Root[c.session])

ClaimIsLive(c) == \E h \in c.holders : ProcessIsLive(h)

-----------------------------------------------------------------------------
(* Calls.  A process does one at a time: they are synchronous.             *)

Start(p, j) ==
    /\ alive[p] = "live" /\ pc[p] = "idle"
    /\ SessionOf[p] \in closing => j.kind = "drop"
    /\ job' = [job EXCEPT ![p] = j]
    /\ pc' = [pc EXCEPT ![p] = "locking"]
    /\ UNCHANGED <<alive, claim, lock, locked, pending, enforced>>

\* claimDevice, claimFirstFree and claimUpTo: up to wanted of the candidates.
StartClaim(p) ==
    /\ \E candidates \in (SUBSET Devices) \ {{}}, wanted \in 1..MaxWanted :
          Start(p, [kind |-> "claim", todo |-> candidates, wanted |-> wanted])
    /\ UNCHANGED <<drives, closing>>

\* releaseDeviceClaim, by a process that stopped driving the device.
StartRelease(p) ==
    \E d \in drives[p] :
        /\ Start(p, [kind |-> "release", todo |-> {d}, wanted |-> 0])
        /\ drives' = [drives EXCEPT ![p] = @ \ {d}]
        /\ UNCHANGED closing

\* The root's exit hook: releaseSessionClaims over the files there are now.
StartExit(p) ==
    /\ p = Root[SessionOf[p]] /\ SessionOf[p] \notin closing
    /\ closing' = closing \cup {SessionOf[p]}
    /\ Start(p, [kind |-> "drop", todo |-> {d \in Devices : claim[d] # NoClaim}, wanted |-> 0])
    /\ drives' = [drives EXCEPT ![p] = {}]

-----------------------------------------------------------------------------
(* withRegistryLock and withFileLockSync.                                  *)

\* Mutant: the lock is taken whoever has it.
LockAnyway(p) ==
    /\ alive[p] = "live" /\ pc[p] = "locking"
    /\ lock' = p
    /\ locked' = [locked EXCEPT ![p] = TRUE]
    /\ pc' = [pc EXCEPT ![p] = "reading"]
    /\ UNCHANGED <<alive, claim, job, pending, drives, closing, enforced>>

\* lockSync succeeds: nobody has the lock, or its dead holder's is stale.
Lock(p) ==
    /\ alive[p] = "live" /\ pc[p] = "locking"
    /\ lock \in {NoProcess} \cup {q \in Processes : alive[q] # "live"}
    /\ lock' = p
    /\ locked' = [locked EXCEPT ![p] = TRUE]
    /\ pc' = [pc EXCEPT ![p] = "reading"]
    /\ UNCHANGED <<alive, claim, job, pending, drives, closing, enforced>>

\* Mutant: a process waits for a lock as long as it takes.
NeverGiveUp(p) == FALSE /\ UNCHANGED vars

\* 80 attempts failed, or there is no directory to lock: the section runs all
\* the same.
GiveUp(p) ==
    /\ alive[p] = "live" /\ pc[p] = "locking"
    /\ locked' = [locked EXCEPT ![p] = FALSE]
    /\ enforced' = FALSE
    /\ pc' = [pc EXCEPT ![p] = "reading"]
    /\ UNCHANGED <<alive, claim, lock, job, pending, drives, closing>>

\* The end of a section: claimUpTo goes on to the next candidate.
Unlock(p) ==
    /\ alive[p] = "live" /\ pc[p] = "unlocking"
    /\ lock' = IF locked[p] THEN NoProcess ELSE lock
    /\ locked' = [locked EXCEPT ![p] = FALSE]
    /\ LET more == job[p].kind = "claim" /\ job[p].todo # {} /\ job[p].wanted > 0
       IN  /\ pc' = [pc EXCEPT ![p] = IF more THEN "locking" ELSE "idle"]
           /\ job' = [job EXCEPT ![p] = IF more THEN @ ELSE NoJob]
    /\ UNCHANGED <<alive, claim, pending, drives, closing, enforced>>

-----------------------------------------------------------------------------
(* The sections: read the device's file, decide, write.                    *)

\* The section at hand is about device d of the job, and leaves the rest of it.
Section(p, kind, d) ==
    /\ alive[p] = "live" /\ pc[p] = "reading" /\ job[p].kind = kind
    /\ d \in job[p].todo

\* Nothing to write for d: leave the section, or go on to the next file.
Skip(p, d) ==
    /\ job' = [job EXCEPT ![p].todo = @ \ {d}]
    /\ pc' = [pc EXCEPT ![p] = IF job[p].kind = "drop" /\ job[p].todo # {d} THEN "reading" ELSE "unlocking"]
    /\ UNCHANGED pending

Prepare(p, d, c) ==
    /\ pending' = [pending EXCEPT ![p] = [device |-> d, claim |-> c]]
    /\ pc' = [pc EXCEPT ![p] = "writing"]
    /\ UNCHANGED job

LiveHolders(p, c) == {h \in c.holders : h # p /\ ProcessIsLive(h)}

\* claimDevice: refused while another session's claim is live, else the claim is
\* this session's, held by its live holders and this process.
ReadToClaim(p, d) ==
    /\ Section(p, "claim", d)
    /\ LET existing == claim[d]
           mine     == existing # NoClaim /\ existing.session = SessionOf[p]
       IN  IF existing # NoClaim /\ ~mine /\ ClaimIsLive(existing)
           THEN Skip(p, d)
           ELSE Prepare(p, d, [session |-> SessionOf[p],
                               holders |-> {p} \cup (IF mine THEN LiveHolders(p, existing) ELSE {})])
    /\ UNCHANGED <<alive, claim, lock, locked, drives, closing, enforced>>

\* Mutant: giving a device back ends the session's claim on it.
ReadToReleaseAll(p, d) ==
    /\ Section(p, "release", d)
    /\ IF claim[d] = NoClaim \/ claim[d].session # SessionOf[p] THEN Skip(p, d)
       ELSE Prepare(p, d, NoClaim)
    /\ UNCHANGED <<alive, claim, lock, locked, drives, closing, enforced>>

\* releaseDeviceClaim: the claim ends when no live process of the session is left.
ReadToRelease(p, d) ==
    /\ Section(p, "release", d)
    /\ LET existing == claim[d]
       IN  IF existing = NoClaim \/ existing.session # SessionOf[p] THEN Skip(p, d)
           ELSE Prepare(p, d, IF LiveHolders(p, existing) = {} THEN NoClaim
                              ELSE [existing EXCEPT !.holders = LiveHolders(p, existing)])
    /\ UNCHANGED <<alive, claim, lock, locked, drives, closing, enforced>>

\* releaseSessionClaims: every listed file that is still this session's goes.
ReadToDrop(p, d) ==
    /\ Section(p, "drop", d)
    /\ IF claim[d] = NoClaim \/ claim[d].session # SessionOf[p] THEN Skip(p, d)
       ELSE Prepare(p, d, NoClaim)
    /\ UNCHANGED <<alive, claim, lock, locked, drives, closing, enforced>>

\* Nothing is listed: the exit hook returns.
NothingToDrop(p) ==
    /\ alive[p] = "live" /\ pc[p] = "reading" /\ job[p].todo = {}
    /\ pc' = [pc EXCEPT ![p] = "unlocking"]
    /\ UNCHANGED <<alive, claim, lock, job, locked, pending, drives, closing, enforced>>

\* writeClaim (a rename) or rmSync.  A failure is swallowed: the caller goes on
\* as if the claim were recorded.
Write(p) ==
    /\ alive[p] = "live" /\ pc[p] = "writing"
    /\ LET d == pending[p].device
       IN  /\ \/ /\ claim' = [claim EXCEPT ![d] = pending[p].claim]
                 /\ UNCHANGED enforced
              \/ /\ enforced' = FALSE
                 /\ UNCHANGED claim
           /\ job' = [job EXCEPT ![p].todo = @ \ {d}, ![p].wanted = IF @ = 0 THEN 0 ELSE @ - 1]
           /\ drives' = [drives EXCEPT ![p] = IF job[p].kind = "claim" THEN @ \cup {d} ELSE @]
           /\ pc' = [pc EXCEPT ![p] = IF job[p].kind = "drop" /\ job[p].todo # {d}
                                      THEN "reading" ELSE "unlocking"]
    /\ pending' = [pending EXCEPT ![p] = NoClaim]
    /\ UNCHANGED <<alive, lock, locked, closing>>

-----------------------------------------------------------------------------
(* Processes.                                                              *)

\* A process ends without a word: SIGKILL, a crash, or a plain exit of a child.
Die(p) ==
    /\ alive[p] = "live"
    /\ alive' = [alive EXCEPT ![p] = "dead"]
    /\ pc' = [pc EXCEPT ![p] = "idle"]
    /\ job' = [job EXCEPT ![p] = NoJob]
    /\ pending' = [pending EXCEPT ![p] = NoClaim]
    /\ locked' = [locked EXCEPT ![p] = FALSE]
    /\ drives' = [drives EXCEPT ![p] = {}]
    /\ UNCHANGED <<claim, lock, closing, enforced>>

\* An unrelated process gets the pid, and the start token does not give it away
\* (none recorded, unreadable, or read within the cache's 5 s).
Recycle(p) ==
    /\ alive[p] = "dead"
    /\ alive' = [alive EXCEPT ![p] = "recycled"]
    /\ UNCHANGED <<claim, lock, pc, job, locked, pending, drives, closing, enforced>>

\* That process ends or its token is read again.
Unmask(p) ==
    /\ alive[p] = "recycled"
    /\ alive' = [alive EXCEPT ![p] = "dead"]
    /\ UNCHANGED <<claim, lock, pc, job, locked, pending, drives, closing, enforced>>

Step(p) ==
    \/ Lock(p) \/ GiveUp(p) \/ Unlock(p) \/ Write(p) \/ NothingToDrop(p)
    \/ \E d \in Devices : ReadToClaim(p, d) \/ ReadToRelease(p, d) \/ ReadToDrop(p, d)

Next ==
    \E p \in Processes :
        \/ StartClaim(p) \/ StartRelease(p) \/ StartExit(p) \/ Step(p)
        \/ Die(p) \/ Recycle(p) \/ Unmask(p)

Spec == Init /\ [][Next]_vars

-----------------------------------------------------------------------------
(* Properties.                                                             *)

\* Every variable stays in its domain; in particular no claim file is ever left
\* without a holder, for which claimIsLive would fall back to the session's root.
TypeOK ==
    /\ alive \in [Processes -> {"live", "dead", "recycled"}]
    /\ claim \in [Devices -> Claim \cup {NoClaim}]
    /\ lock \in Processes \cup {NoProcess}
    /\ pc \in [Processes -> {"idle", "locking", "reading", "writing", "unlocking"}]
    /\ job \in [Processes -> Job]
    /\ locked \in [Processes -> BOOLEAN]
    /\ pending \in [Processes -> [device : Devices, claim : Claim \cup {NoClaim}] \cup {NoClaim}]
    /\ drives \in [Processes -> SUBSET Devices]
    /\ closing \subseteq Sessions
    /\ enforced \in BOOLEAN

\* Sessions whose claims the registry still answers for.
Protected(p) == alive[p] = "live" /\ SessionOf[p] \notin closing

\* Two sessions never drive one device: as long as the lock could be had and the
\* files be written, no device is granted to live processes of two sessions
\* whose roots are running, through crashes inside the lock, takeovers of dead
\* claims and processes that come and go.
OneSessionPerDevice ==
    enforced => \A p, q \in Processes :
        Protected(p) /\ Protected(q) /\ SessionOf[p] # SessionOf[q] => drives[p] \cap drives[q] = {}

\* A process that drives a device is named by its claim: a sibling that gives the
\* device back, or fails on it, never takes it away from the others.
DriverIsHolder ==
    enforced => \A p \in Processes : Protected(p) =>
        \A d \in drives[p] : claim[d] # NoClaim /\ claim[d].session = SessionOf[p] /\ p \in claim[d].holders

\* The registry changes hands only over the dead: a claim with a live holder
\* whose session's root is running passes to no other session.
NotTakenFromTheLiving ==
    [][enforced' => \A d \in Devices :
          /\ claim[d] # NoClaim /\ claim[d].session \notin closing
          /\ \E h \in claim[d].holders : alive[h] = "live"
          => claim'[d] = NoClaim \/ claim'[d].session = claim[d].session]_vars

\* A call of process p comes to its end.
CallReturns(p) == pc[p] # "idle" ~> pc[p] = "idle"
=============================================================================
