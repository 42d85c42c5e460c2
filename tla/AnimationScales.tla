-------------------------- MODULE AnimationScales --------------------------
(***************************************************************************)
(* The animation scales of Android devices while sessions want them off    *)
(* (packages/tapsmith-core/src/android_animation_scales.rs and its callers *)
(* in grpc_server.rs).  A daemon that selects a device records the         *)
(* device's own values, then turns the scales off; the restore at the end  *)
(* of the session, or the next daemon, puts them back.  Daemons die at any *)
(* point, shell commands fail half-way or time out and land later, an      *)
(* emulator's serial goes to another AVD, and users change scales.         *)
(*                                                                         *)
(* A daemon does one selection or restore at a time (animation_scales is   *)
(* locked); op is the one at hand and how far it is, next the selection    *)
(* that follows the restore of another device.                             *)
(***************************************************************************)
EXTENDS DaemonProcesses, Integers, FiniteSets

CONSTANTS
    Serials, Avds,
    Keys,         \* the scales, put one after the other: a prefix of 1..n lands
    Rough         \* situations to let in: two daemons at work on one device ("together"), a
                  \* serial that changes hands under a session ("replaced"), a command that
                  \* lands after the next one was sent or the user set a scale ("late")

VARIABLES
    running,      \* per serial: the AVD it runs
    scale,        \* per AVD and key: "off" (0) or another value
    own,          \* the values that count as its user's: the last one set, one recorded
                  \* before it when a session turned the newer one off, and those of
                  \* records under a serial the AVD has left
    records,      \* per serial and AVD: the owner record
    applied,      \* per daemon: animation_scales, what it holds: a serial and a record's AVD
    op, next,     \* per daemon
    late          \* a timed-out command that may still land

scaleVars == <<proc, running, scale, own, records, applied, op, next, late, fails, changes>>

Values == {"off", "one", "half"}
Wants == {"on", "off", "unsaid"}
Idle == [do |-> "idle"]
None == [is |-> "none"]

OwnerRecords == [owner : Daemons, original : [Keys -> Values]]
Holdings == [serial : Serials, avd : Avds]
Ops == {Idle} \cup [do : {"read"}, serial : Serials, want : Wants]
       \cup [do : {"decide"}, serial : Serials, want : Wants, avd : Avds, seen : [Keys -> Values]]
       \cup [do : {"turnOff"}, serial : Serials, avd : Avds]
       \cup [do : {"putBack", "remove"}, serial : Serials, avd : Avds, seen : [Keys -> Values],
             original : [Keys -> Values]]
       \cup [do : {"restore"}, serial : Serials]
Moves == [serial : Serials, want : Wants]
Commands == [serial : Serials, avd : Avds, values : [Keys -> Values], keys : SUBSET Keys]

ScalesInit ==
    /\ proc = [d \in Daemons |-> "new"]
    /\ running \in {f \in [Serials -> Avds] : \A s, t \in Serials : s # t => f[s] # f[t]}
    /\ scale \in [Avds -> [Keys -> {"off", "one"}]]
    /\ own = [v \in Avds |-> [k \in Keys |-> {scale[v][k]}]]
    /\ records = [s \in Serials |-> [v \in Avds |-> None]]
    /\ applied = [d \in Daemons |-> None]
    /\ op = [d \in Daemons |-> Idle]
    /\ next = [d \in Daemons |-> None]
    /\ late = None
    /\ fails = 0 /\ changes = 0

At(d, step) == proc[d] = "up" /\ op[d].do = step
Busy(s) ==
    \E d \in Daemons :
        \/ op[d] # Idle /\ op[d].serial = s
        \/ next[d] # None /\ next[d].serial = s
Alone(s) == "together" \in Rough \/ ~Busy(s)
Goes(d, o) == op' = [op EXCEPT ![d] = o]
Fails == fails < MaxFails /\ fails' = fails + 1
Ours(d, r) == r # None /\ r.owner = d
HasRecords(s) == \E v \in Avds : records[s][v] # None
OursHere(d, s) == applied[d] # None /\ applied[d].serial = s

-----------------------------------------------------------------------------
(* Selecting a device: SetDevice.                                          *)

\* A daemon that moves restores the device it leaves first.
Select(d, s, want) ==
    LET moves == applied[d] # None /\ applied[d].serial # s IN
    /\ proc[d] # "dead" /\ op[d] = Idle /\ Alone(s)
    /\ proc' = [proc EXCEPT ![d] = "up"]
    /\ \/ moves
       \/ want = "on"
       \/ want = "off" /\ (OursHere(d, s) \/ HasRecords(s))
       \/ want = "unsaid" /\ ~OursHere(d, s) /\ HasRecords(s)
    /\ IF moves
       THEN /\ Alone(applied[d].serial)
            /\ Goes(d, [do |-> "restore", serial |-> applied[d].serial])
            /\ next' = [next EXCEPT ![d] = [serial |-> s, want |-> want]]
       ELSE Goes(d, [do |-> "read", serial |-> s, want |-> want]) /\ UNCHANGED next
    /\ UNCHANGED <<running, scale, own, records, applied, late, fails, changes>>

\* The device is read, or cannot be: then the daemon keeps what it holds.
Read(d) ==
    LET s == op[d].serial IN
    /\ At(d, "read")
    /\ \/ /\ Goes(d, [do |-> "decide", serial |-> s, want |-> op[d].want, avd |-> running[s],
                      seen |-> scale[running[s]]])
          /\ UNCHANGED <<applied, fails>>
       \/ /\ Fails /\ Goes(d, Idle)
          /\ applied' = [applied EXCEPT ![d] = IF OursHere(d, s) THEN @ ELSE None]
    /\ UNCHANGED <<proc, running, scale, own, records, next, late, changes>>

\* Mutant: a takeover takes what the device reads now for its own values.
ReadBack(r, seen) == seen

\* The values to put back later: the dead daemon's, or what the device reads now.
Originals(r, seen) == IF r = None THEN seen ELSE r.original

\* Mutant: a daemon is alive only while it holds the device.
OthersHolding(d, r) == r # None /\ r.owner # d /\ op[r.owner] # Idle

\* A record of a live daemon that is not this one.
OthersAlive(d, r) == r # None /\ r.owner # d /\ proc[r.owner] = "up"

Decide(d) ==
    LET o == op[d]
        r == records[o.serial][o.avd] IN
    /\ At(d, "decide")
    /\ IF OthersAlive(d, r) \/ (r = None /\ o.want # "on")
       THEN /\ Goes(d, Idle) /\ applied' = [applied EXCEPT ![d] = None]
            /\ UNCHANGED <<records, fails>>
       ELSE IF o.want # "on"
       THEN /\ Goes(d, [do |-> "putBack", serial |-> o.serial, avd |-> o.avd, seen |-> o.seen,
                        original |-> r.original])
            /\ applied' = [applied EXCEPT ![d] = None]
            /\ UNCHANGED <<records, fails>>
       ELSE \* The record is written before anything changes.
            \/ /\ records' = [records EXCEPT ![o.serial][o.avd] =
                                 [owner |-> d, original |-> Originals(r, o.seen)]]
               /\ Goes(d, [do |-> "turnOff", serial |-> o.serial, avd |-> o.avd])
               /\ UNCHANGED <<applied, fails>>
            \/ /\ ~Ours(d, r) /\ Fails
               /\ Goes(d, Idle) /\ applied' = [applied EXCEPT ![d] = None]
               /\ UNCHANGED records
    /\ UNCHANGED <<proc, running, scale, own, next, late, changes>>

-----------------------------------------------------------------------------
(* Shell commands: each puts several scales, in order.                     *)

Put(v, values, keys) == [scale EXCEPT ![v] = [k \in Keys |-> IF k \in keys THEN values[k] ELSE @[k]]]

\* A command on the AVD that runs now: all of it lands, or it fails, with some of
\* it done and the rest lost or still to come.
Shell(s, values, keys, ok) ==
    IF ok THEN scale' = Put(running[s], values, keys) /\ UNCHANGED <<late, fails>>
    ELSE /\ Fails
         /\ \E n \in 0..Cardinality(Keys) :
                /\ scale' = Put(running[s], values, {k \in keys : k <= n})
                /\ late' \in {None, [serial |-> s, avd |-> running[s], values |-> values,
                                       keys |-> {k \in keys : k > n}]}

AllOff == [k \in Keys |-> "off"]

\* Whatever becomes of the command, the scales count as applied.
TurnScalesOff(d) ==
    LET v == op[d].avd
        r == records[op[d].serial][v] IN
    /\ At(d, "turnOff")
    /\ own' = [own EXCEPT ![v] = [k \in Keys |-> IF scale[v][k] = "off" THEN @[k] ELSE @[k] \cup {r.original[k]}]]
    /\ \E ok \in BOOLEAN : Shell(op[d].serial, AllOff, Keys, ok)
    /\ applied' = [applied EXCEPT ![d] = [serial |-> op[d].serial, avd |-> op[d].avd]]
    /\ Goes(d, Idle)
    /\ UNCHANGED <<proc, running, records, next, changes>>

\* Only what still reads off is put back.
StillOff(seen) == {k \in Keys : seen[k] = "off"}

\* After a restore for a move, the device the daemon moves to.
Onward(d) ==
    /\ Goes(d, IF next[d] = None THEN Idle
               ELSE [do |-> "read", serial |-> next[d].serial, want |-> next[d].want])
    /\ next' = [next EXCEPT ![d] = None]

\* put_back: when it fails the record stays.
PutBack(d) ==
    LET o == op[d]
        keys == StillOff(o.seen) IN
    /\ At(d, "putBack")
    /\ \/ /\ IF keys = {} THEN UNCHANGED <<scale, late, fails>> ELSE Shell(o.serial, o.original, keys, TRUE)
          /\ Goes(d, [o EXCEPT !.do = "remove"]) /\ UNCHANGED next
       \/ keys # {} /\ Shell(o.serial, o.original, keys, FALSE) /\ Onward(d)
    /\ UNCHANGED <<proc, running, own, records, applied, changes>>

Remove(d) ==
    /\ At(d, "remove")
    /\ records' = [records EXCEPT ![op[d].serial][op[d].avd] = None]
    /\ Onward(d)
    /\ UNCHANGED <<proc, running, scale, own, applied, late, fails, changes>>

-----------------------------------------------------------------------------
(* The end of a session.                                                   *)

\* A graceful shutdown.
Shutdown(d) ==
    /\ proc[d] = "up" /\ op[d] = Idle /\ applied[d] # None
    /\ Alone(applied[d].serial)
    /\ Goes(d, [do |-> "restore", serial |-> applied[d].serial])
    /\ UNCHANGED <<proc, running, scale, own, records, applied, next, late, fails, changes>>

\* restore: the record is still this daemon's, and the device can be read.
Restore(d) ==
    LET s == op[d].serial
        v == applied[d].avd
        r == records[s][v]
        avd == running[s] IN
    /\ At(d, "restore")
    /\ applied' = [applied EXCEPT ![d] = None]
    /\ \/ /\ Ours(d, r)
          /\ Goes(d, [do |-> "putBack", serial |-> s, avd |-> v, seen |-> scale[avd],
                      original |-> r.original])
          /\ UNCHANGED <<next, fails>>
       \/ Ours(d, r) /\ Fails /\ Onward(d)
       \/ ~Ours(d, r) /\ Onward(d) /\ UNCHANGED fails
    /\ UNCHANGED <<proc, running, scale, own, records, late, changes>>

\* It is killed; a daemon that is shut down ends so too.
Killed(d) ==
    /\ proc[d] = "up"
    /\ proc' = [proc EXCEPT ![d] = "dead"]
    /\ Goes(d, Idle)
    /\ applied' = [applied EXCEPT ![d] = None]
    /\ next' = [next EXCEPT ![d] = None]
    /\ UNCHANGED <<running, scale, own, records, late, fails, changes>>

-----------------------------------------------------------------------------
(* Devices and users.                                                      *)

\* What a timed-out command left to do lands, or is lost with the emulator.
LateLands ==
    /\ late # None
    /\ \/ /\ running[late.serial] = late.avd
          /\ "late" \notin Rough => records[late.serial][late.avd] # None /\ ~Busy(late.serial)
          /\ scale' = Put(late.avd, late.values, late.keys)
       \/ UNCHANGED scale
    /\ late' = None
    /\ UNCHANGED <<proc, running, own, records, applied, op, next, fails, changes>>

\* What the records of an AVD under these serials say.
Recorded(v, k, serials) == {records[s][v].original[k] : s \in {t \in serials : records[t][v] # None}}

\* Emulators are restarted under other serials.
Swap ==
    /\ changes < MaxChanges
    /\ \E s, t \in Serials :
           /\ s # t /\ ~Busy(s) /\ ~Busy(t)
           /\ "replaced" \notin Rough => \A d \in Daemons : ~OursHere(d, s) /\ ~OursHere(d, t)
           /\ running' = [running EXCEPT ![s] = running[t], ![t] = running[s]]
           /\ own' = [v \in Avds |-> [k \in Keys |->
                         own[v][k] \cup Recorded(v, k, {u \in {s, t} : running[u] = v})]]
    /\ changes' = changes + 1
    /\ UNCHANGED <<proc, scale, records, applied, op, next, late, fails>>

UserSets ==
    /\ changes < MaxChanges
    /\ \E s \in Serials, k \in Keys :
           /\ ~Busy(s) /\ ("late" \notin Rough => late = None)
           /\ scale' = [scale EXCEPT ![running[s]][k] = "half"]
           /\ own' = [own EXCEPT ![running[s]][k] =
                         {"half"} \cup Recorded(running[s], k, Serials \ {s})]
    /\ changes' = changes + 1
    /\ UNCHANGED <<proc, running, records, applied, op, next, late, fails>>

Over == (\A d \in Daemons : proc[d] = "dead") /\ UNCHANGED scaleVars

ScalesNext ==
    \/ \E d \in Daemons :
           \/ \E s \in Serials, want \in Wants : Select(d, s, want)
           \/ Read(d) \/ Decide(d) \/ TurnScalesOff(d) \/ PutBack(d) \/ Remove(d)
           \/ Shutdown(d) \/ Restore(d) \/ Killed(d)
    \/ LateLands \/ Swap \/ UserSets \/ Over

ScalesSpec == ScalesInit /\ [][ScalesNext]_scaleVars

-----------------------------------------------------------------------------
(* Properties.                                                             *)

\* A scale reads what its user gave it, or off with a record that says what to
\* put back: no crash, failed command or takeover loses a device's own values.
OwnValuesKept ==
    \A v \in Avds, k \in Keys :
        \/ scale[v][k] \in own[v][k]
        \/ /\ scale[v][k] = "off"
           /\ \E s \in Serials : records[s][v] # None /\ records[s][v].original[k] \in own[v][k]

\* The session of a live daemon is left to it: nobody else replaces or removes its
\* record.
LiveSessionKept ==
    [][\A d \in Daemons, s \in Serials, v \in Avds :
           Ours(d, records[s][v]) /\ proc[d] = "up" /\ op'[d] = op[d] =>
               records'[s][v] = records[s][v]]_scaleVars
=============================================================================
