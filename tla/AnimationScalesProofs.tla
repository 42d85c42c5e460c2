----------------------- MODULE AnimationScalesProofs -----------------------
(***************************************************************************)
(* Why a device's own animation scales are never lost, for any number of   *)
(* daemons, devices, scales, failing commands and changes by the users,    *)
(* as long as nothing happens that the code does not defend against        *)
(* (Rough).                                                                *)
(*                                                                         *)
(* OwnValuesKept is not inductive: what a daemon is about to put back has  *)
(* to be what it still is when the command lands.  The strengthening says  *)
(* that a daemon at work has its device for itself, and which recorded     *)
(* values may be stale: those of scales that do not read off.              *)
(***************************************************************************)
EXTENDS AnimationScales, TLAPS

\* What the variables may hold.
ScalesTypeOK ==
    /\ proc \in [Daemons -> {"new", "up", "dead"}]
    /\ running \in [Serials -> Avds] /\ (\A s, t \in Serials : running[s] = running[t] => s = t)
    /\ scale \in [Avds -> [Keys -> Values]] /\ own \in [Avds -> [Keys -> SUBSET Values]]
    /\ records \in [Serials -> [Avds -> OwnerRecords \cup {None}]]
    /\ applied \in [Daemons -> Holdings \cup {None}]
    /\ op \in [Daemons -> Ops] /\ next \in [Daemons -> Moves \cup {None}]
    /\ late \in Commands \cup {None}

\* One daemon at a time is at work on a device.
Working(d, s) == (op[d] # Idle /\ op[d].serial = s) \/ (next[d] # None /\ next[d].serial = s)
AloneInv == \A d, e \in Daemons, s \in Serials : Working(d, s) /\ Working(e, s) => d = e

\* Who is alive, and what a daemon that moves is doing.
LifeInv ==
    /\ \A d \in Daemons : op[d] # Idle => proc[d] = "up"
    /\ \A d \in Daemons : next[d] # None => op[d].do \in {"restore", "putBack", "remove"}
    /\ \A s \in Serials, v \in Avds : records[s][v] # None => proc[records[s][v].owner] # "new"

\* A daemon at work knows its device, which nobody else touches: the AVD that runs,
\* what the scales read, and the record, which is its own or a dead daemon's.
Knows(d) ==
    LET o == op[d]
        r == records[o.serial][o.avd] IN
    /\ o.do = "restore" => applied[d] # None /\ applied[d].serial = o.serial
    /\ o.do \in {"decide", "turnOff", "putBack", "remove"} => running[o.serial] = o.avd
    /\ o.do \in {"decide", "putBack"} => o.seen = scale[o.avd]
    /\ o.do = "turnOff" => Ours(d, r)
    /\ o.do \in {"putBack", "remove"} => r # None /\ (r.owner = d \/ proc[r.owner] = "dead")
    /\ o.do = "putBack" => o.original = r.original
OpInv ==
    \A d \in Daemons :
        Knows(d) /\ (applied[d] # None => running[applied[d].serial] = applied[d].avd)

\* The values of a scale that lose nothing when they are put: its user's, and off
\* while a record the AVD left under another serial has the user's.
Elsewhere(v) == \E s \in Serials : running[s] # v /\ records[s][v] # None
Sound(v, k, x) == x \in own[v][k] \/ (x = "off" /\ Elsewhere(v))

\* The late command has that scale still to put.
Pending(s, v, k) == late # None /\ late.serial = s /\ late.avd = v /\ k \in late.keys

\* What is recorded is sound where it may be put back.  It may be stale where the
\* scale is not off: the user has set it since, and nobody puts anything back.
RecordedInv ==
    /\ \A s \in Serials, v \in Avds, k \in Keys : records[s][v] # None =>
          /\ running[s] # v => records[s][v].original[k] \in own[v][k]
          /\ scale[v][k] = "off" \/ Pending(s, v, k) => Sound(v, k, records[s][v].original[k])
    /\ \A s \in Serials, v \in Avds, k \in Keys :
          Pending(s, v, k) => late.values[k] = "off" \/ late.values[k] \in own[v][k]

\* A scale reads what its user gave it, or off with a record.
ReadsInv ==
    \A v \in Avds, k \in Keys :
        scale[v][k] \in own[v][k] \/ (scale[v][k] = "off" /\ \E s \in Serials : records[s][v] # None)

\* A record about to be removed is not needed any more.
SpareInv ==
    \A d \in Daemons : op[d].do = "remove" => \A k \in Keys : Sound(op[d].avd, k, scale[op[d].avd][k])

ScalesInv ==
    /\ ScalesTypeOK /\ AloneInv /\ LifeInv /\ OpInv
    /\ RecordedInv /\ ReadsInv /\ SpareInv

-----------------------------------------------------------------------------
(* Shapes of the values.                                                   *)

LEMMA Nothing ==
    /\ None \notin OwnerRecords /\ None \notin Holdings /\ None \notin Moves /\ None \notin Commands
BY DEF None, OwnerRecords, Holdings, Moves, Commands

\* What an operation has depends on how far it is.
LEMMA Fields ==
    ASSUME NEW o \in Ops
    PROVE  /\ o.do \in {"idle", "read", "decide", "turnOff", "putBack", "remove", "restore"}
           /\ o = Idle <=> o.do = "idle"
           /\ o # Idle => o.serial \in Serials
           /\ o.do \in {"read", "decide"} => o.want \in Wants
           /\ o.do \in {"decide", "turnOff", "putBack", "remove"} => o.avd \in Avds
           /\ o.do \in {"decide", "putBack", "remove"} => o.seen \in [Keys -> Values]
           /\ o.do \in {"putBack", "remove"} => o.original \in [Keys -> Values]
BY DEF Ops, Idle

LEMMA Steps ==
    /\ Idle \in Ops /\ Idle.do = "idle"
    /\ \A s \in Serials, w \in Wants :
          LET o == [do |-> "read", serial |-> s, want |-> w] IN
          o \in Ops /\ o # Idle /\ o.do = "read" /\ o.serial = s
    /\ \A s \in Serials :
          LET o == [do |-> "restore", serial |-> s] IN
          o \in Ops /\ o # Idle /\ o.do = "restore" /\ o.serial = s
    /\ \A s \in Serials, v \in Avds :
          LET o == [do |-> "turnOff", serial |-> s, avd |-> v] IN
          o \in Ops /\ o # Idle /\ o.do = "turnOff" /\ o.serial = s /\ o.avd = v
    /\ \A s \in Serials, v \in Avds, w \in Wants, x \in [Keys -> Values] :
          LET o == [do |-> "decide", serial |-> s, want |-> w, avd |-> v, seen |-> x] IN
          o \in Ops /\ o # Idle /\ o.do = "decide" /\ o.serial = s /\ o.avd = v /\ o.seen = x
    /\ \A s \in Serials, v \in Avds, x, y \in [Keys -> Values] :
          LET o == [do |-> "putBack", serial |-> s, avd |-> v, seen |-> x, original |-> y] IN
          /\ o \in Ops /\ o # Idle /\ o.do = "putBack" /\ o.serial = s /\ o.avd = v
          /\ o.seen = x /\ o.original = y
BY DEF Ops, Idle

\* The shapes, at what is recorded and under way.
LEMMA Types ==
    ASSUME ScalesTypeOK
    PROVE  /\ \A d \in Daemons : op[d] \in Ops /\ next[d] \in Moves \cup {None}
                                 /\ applied[d] \in Holdings \cup {None}
           /\ \A d \in Daemons : applied[d] # None => applied[d].serial \in Serials /\ applied[d].avd \in Avds
           /\ \A d \in Daemons : next[d] # None => next[d].serial \in Serials /\ next[d].want \in Wants
           /\ \A s \in Serials, v \in Avds : records[s][v] # None =>
                 records[s][v].owner \in Daemons /\ records[s][v].original \in [Keys -> Values]
           /\ \A s \in Serials : running[s] \in Avds
           /\ late # None => late.serial \in Serials /\ late.avd \in Avds /\ late.keys \subseteq Keys
                             /\ late.values \in [Keys -> Values]
BY DEF ScalesTypeOK, OwnerRecords, Holdings, Moves, Commands

-----------------------------------------------------------------------------
(* What steps that change little leave alone.                              *)

\* A daemon that is the only one at work on what it works on next stays alone.
LEMMA StaysAlone ==
    ASSUME AloneInv, NEW d \in Daemons,
           \A e \in Daemons \ {d} : op'[e] = op[e] /\ next'[e] = next[e],
           \A s \in Serials : Working(d, s)' => Working(d, s) \/ ~Busy(s)
    PROVE  AloneInv'
BY DEF AloneInv, Working, Busy

\* The scales and the records are as they were.
LEMMA StaySound ==
    ASSUME UNCHANGED <<running, scale, own, records, late>>, RecordedInv, ReadsInv
    PROVE  RecordedInv' /\ ReadsInv' /\ (\A v, k, x : Sound(v, k, x)' <=> Sound(v, k, x))
BY DEF RecordedInv, ReadsInv, Sound, Elsewhere, Pending

\* The step of a daemon that only plans its next: to do o, then n, holding h.
Plans(d, o, n, h, p) ==
    /\ UNCHANGED <<running, scale, own, records, late>>
    /\ op' = [op EXCEPT ![d] = o] /\ next' = [next EXCEPT ![d] = n]
    /\ applied' = [applied EXCEPT ![d] = h] /\ proc' = [proc EXCEPT ![d] = p]

\* What it plans is about devices that are free or its own, and fits them.
Fits(d, o, n, h, p) ==
    /\ o \in Ops /\ n \in Moves \cup {None} /\ h \in {applied[d], None} /\ p \in {"up", "dead"}
    /\ (proc[d] = "dead" => p = "dead") /\ (o # Idle => p = "up")
    /\ o # Idle => Working(d, o.serial) \/ ~Busy(o.serial)
    /\ n # None => Working(d, n.serial) \/ ~Busy(n.serial)
    /\ n # None => o.do \in {"restore", "putBack"}
    /\ o.do \in {"idle", "read", "restore", "decide", "putBack"}
    /\ o.do = "restore" => h # None /\ h.serial = o.serial
    /\ o.do \in {"decide", "putBack"} => running[o.serial] = o.avd /\ o.seen = scale[o.avd]
    /\ o.do = "putBack" =>
          LET r == records[o.serial][o.avd] IN
          r # None /\ (r.owner = d \/ proc[r.owner] = "dead") /\ o.original = r.original

LEMMA Planned ==
    ASSUME ScalesInv, NEW d \in Daemons, NEW o, NEW n, NEW h, NEW p,
           Plans(d, o, n, h, p), Fits(d, o, n, h, p)
    PROVE  ScalesInv'
<1>. USE DEF ScalesInv, Plans, Fits
<1>1. /\ op'[d] = o /\ next'[d] = n /\ applied'[d] = h /\ proc'[d] = p
      /\ \A e \in Daemons \ {d} : /\ op'[e] = op[e] /\ next'[e] = next[e]
                                  /\ applied'[e] = applied[e] /\ proc'[e] = proc[e]
  BY DEF ScalesTypeOK
<1>2. ScalesTypeOK'
  BY DEF ScalesTypeOK
<1>3. AloneInv'
  <2>1. \A s \in Serials : Working(d, s)' => Working(d, s) \/ ~Busy(s)
    BY <1>1 DEF Working
  <2>. QED  BY <1>1, <2>1, StaysAlone
<1>4. LifeInv'
  BY <1>1, Types DEF LifeInv
<1>5. OpInv'
  <2>1. \A e \in Daemons : applied'[e] # None => running'[applied'[e].serial] = applied'[e].avd
    BY <1>1 DEF OpInv
  <2>2. \A e \in Daemons : proc[e] = "dead" => proc'[e] = "dead"
    BY <1>1
  <2>3. ASSUME NEW e \in Daemons, e # d PROVE Knows(e)'
    <3>1. op[e].do \in {"putBack", "remove"} => records[op[e].serial][op[e].avd] # None
             /\ records[op[e].serial][op[e].avd].owner \in Daemons
      BY Types, Fields DEF OpInv, Knows
    <3>2. Knows(e) /\ op'[e] = op[e] /\ applied'[e] = applied[e] /\ UNCHANGED <<running, scale, records>>
      BY <1>1, <2>3 DEF OpInv
    <3>. HIDE DEF ScalesInv, Plans, Fits
    <3>. QED  BY <2>2, <3>1, <3>2 DEF Knows, Ours
  <2>4. Knows(d)'
    <3>1. o.do = "putBack" => records[o.serial][o.avd].owner \in Daemons
      BY Types, Fields
    <3>. QED  BY <1>1, <2>2, <3>1 DEF Knows, Ours
  <2>. QED  BY <2>1, <2>3, <2>4 DEF OpInv
<1>6. RecordedInv' /\ ReadsInv' /\ (\A v, k, x : Sound(v, k, x)' <=> Sound(v, k, x))
  BY StaySound
<1>7. SpareInv'
  BY <1>1, <1>6 DEF SpareInv
<1>. QED  BY <1>2, <1>3, <1>4, <1>5, <1>6, <1>7

LEMMA SelectKeeps ==
    ASSUME ScalesInv, NEW d \in Daemons, NEW s \in Serials, NEW w \in Wants, Rough = {}, Select(d, s, w)
    PROVE  ScalesInv'
<1>. USE DEF ScalesInv
<1>1. /\ op[d] = Idle /\ next[d] = None /\ proc[d] # "dead" /\ ~Busy(s)
      /\ op[d].do = "idle"
  BY Steps DEF Select, Alone, LifeInv
<1>2. /\ proc' = [proc EXCEPT ![d] = "up"]
      /\ applied' = [applied EXCEPT ![d] = applied[d]]
      /\ UNCHANGED <<running, scale, own, records, late>>
  BY DEF Select, ScalesTypeOK
<1>3. CASE applied[d] # None /\ applied[d].serial # s
  <2>. DEFINE o == [do |-> "restore", serial |-> applied[d].serial]
              n == [serial |-> s, want |-> w]
  <2>1. applied[d].serial \in Serials /\ ~Busy(applied[d].serial)
    BY <1>3, Types DEF Select, Alone
  <2>2. op' = [op EXCEPT ![d] = o] /\ next' = [next EXCEPT ![d] = n]
    BY <1>3 DEF Select, Goes
  <2>3. o \in Ops /\ o # Idle /\ o.do = "restore" /\ o.serial = applied[d].serial
    BY <2>1, Steps
  <2>4. n \in Moves /\ n.serial = s
    BY DEF Moves
  <2>. HIDE DEF o, n
  <2>5. Plans(d, o, n, applied[d], "up") /\ Fits(d, o, n, applied[d], "up")
    BY <1>1, <1>2, <1>3, <2>1, <2>2, <2>3, <2>4 DEF Plans, Fits
  <2>. QED  BY <2>5, Planned
<1>4. CASE ~(applied[d] # None /\ applied[d].serial # s)
  <2>. DEFINE o == [do |-> "read", serial |-> s, want |-> w]
  <2>1. op' = [op EXCEPT ![d] = o] /\ next' = [next EXCEPT ![d] = None]
    BY <1>1, <1>4 DEF Select, Goes, ScalesTypeOK
  <2>2. o \in Ops /\ o # Idle /\ o.do = "read" /\ o.serial = s
    BY Steps
  <2>. HIDE DEF o
  <2>3. Plans(d, o, None, applied[d], "up") /\ Fits(d, o, None, applied[d], "up")
    BY <1>1, <1>2, <2>1, <2>2 DEF Plans, Fits
  <2>. QED  BY <2>3, Planned
<1>. QED  BY <1>3, <1>4

LEMMA ReadKeeps ==
    ASSUME ScalesInv, NEW d \in Daemons, Read(d)
    PROVE  ScalesInv'
<1>. USE DEF ScalesInv
<1>. DEFINE s == op[d].serial
            o == [do |-> "decide", serial |-> s, want |-> op[d].want, avd |-> running[s],
                  seen |-> scale[running[s]]]
<1>1. /\ op[d] # Idle /\ proc[d] = "up" /\ next[d] = None /\ Working(d, s)
      /\ s \in Serials /\ op[d].want \in Wants
  BY Types, Fields DEF Read, At, LifeInv, Working
<1>2. /\ proc' = [proc EXCEPT ![d] = "up"] /\ next' = [next EXCEPT ![d] = None]
      /\ UNCHANGED <<running, scale, own, records, late>>
  BY <1>1 DEF Read, ScalesTypeOK
<1>3. CASE Goes(d, o) /\ UNCHANGED applied
  <2>1. running[s] \in Avds /\ scale[running[s]] \in [Keys -> Values]
    BY <1>1, Types DEF ScalesTypeOK
  <2>2. o \in Ops /\ o # Idle /\ o.do = "decide" /\ o.serial = s /\ o.avd = running[s] /\ o.seen = scale[running[s]]
    BY <1>1, <2>1, Steps
  <2>3. op' = [op EXCEPT ![d] = o] /\ applied' = [applied EXCEPT ![d] = applied[d]]
    BY <1>3 DEF Goes, ScalesTypeOK
  <2>. HIDE DEF o, s
  <2>4. Plans(d, o, None, applied[d], "up") /\ Fits(d, o, None, applied[d], "up")
    BY <1>1, <1>2, <2>2, <2>3 DEF Plans, Fits
  <2>. QED  BY <2>4, Planned
<1>4. CASE Goes(d, Idle) /\ \E h \in {applied[d], None} : applied' = [applied EXCEPT ![d] = h]
  <2>1. PICK h \in {applied[d], None} : applied' = [applied EXCEPT ![d] = h]
    BY <1>4
  <2>2. Plans(d, Idle, None, h, "up") /\ Fits(d, Idle, None, h, "up")
    BY <1>1, <1>2, <1>4, <2>1, Steps DEF Plans, Fits, Goes
  <2>. QED  BY <2>2, Planned
<1>. QED  BY <1>3, <1>4 DEF Read

LEMMA ShutdownKeeps ==
    ASSUME ScalesInv, NEW d \in Daemons, Rough = {}, Shutdown(d)
    PROVE  ScalesInv'
<1>. USE DEF ScalesInv
<1>. DEFINE o == [do |-> "restore", serial |-> applied[d].serial]
<1>1. /\ op[d] = Idle /\ proc[d] = "up" /\ next[d] = None /\ applied[d] # None
      /\ applied[d].serial \in Serials /\ ~Busy(applied[d].serial)
  BY Types, Steps DEF Shutdown, LifeInv, Alone
<1>2. o \in Ops /\ o # Idle /\ o.do = "restore" /\ o.serial = applied[d].serial
  BY <1>1, Steps
<1>3. /\ proc' = [proc EXCEPT ![d] = "up"] /\ next' = [next EXCEPT ![d] = None]
      /\ op' = [op EXCEPT ![d] = o] /\ applied' = [applied EXCEPT ![d] = applied[d]]
      /\ UNCHANGED <<running, scale, own, records, late>>
  BY <1>1 DEF Shutdown, Goes, ScalesTypeOK
<1>. HIDE DEF o
<1>4. Plans(d, o, None, applied[d], "up") /\ Fits(d, o, None, applied[d], "up")
  BY <1>1, <1>2, <1>3 DEF Plans, Fits
<1>. QED  BY <1>4, Planned

LEMMA DieKeeps ==
    ASSUME ScalesInv, NEW d \in Daemons, Killed(d)
    PROVE  ScalesInv'
<1>1. Plans(d, Idle, None, None, "dead") /\ Fits(d, Idle, None, None, "dead")
  BY Steps DEF Killed, Goes, Plans, Fits
<1>. QED  BY <1>1, Planned

\* Where a daemon goes on to after a restore.
LEMMA GoesOn ==
    ASSUME ScalesInv, NEW d \in Daemons, Onward(d)
    PROVE  \E o \in Ops :
               /\ op' = [op EXCEPT ![d] = o] /\ next' = [next EXCEPT ![d] = None]
               /\ o.do \in {"idle", "read"} /\ (o # Idle => Working(d, o.serial))
<1>. USE DEF ScalesInv
<1>. DEFINE o == [do |-> "read", serial |-> next[d].serial, want |-> next[d].want]
<1>1. CASE next[d] = None
  BY <1>1, Steps DEF Onward, Goes
<1>2. CASE next[d] # None
  <2>1. o \in Ops /\ o # Idle /\ o.do = "read" /\ o.serial = next[d].serial
    BY <1>2, Types, Steps
  <2>2. op' = [op EXCEPT ![d] = o]
    BY <1>2 DEF Onward, Goes
  <2>. HIDE DEF o
  <2>. QED  BY <1>2, <2>1, <2>2 DEF Onward, Working
<1>. QED  BY <1>1, <1>2

LEMMA RestoreKeeps ==
    ASSUME ScalesInv, NEW d \in Daemons, Restore(d)
    PROVE  ScalesInv'
<1>. USE DEF ScalesInv
<1>. DEFINE s == op[d].serial
            v == applied[d].avd
            r == records[s][v]
            o == [do |-> "putBack", serial |-> s, avd |-> v, seen |-> scale[running[s]],
                  original |-> r.original]
<1>1. /\ op[d] # Idle /\ proc[d] = "up" /\ Working(d, s) /\ s \in Serials
      /\ applied[d] # None /\ v \in Avds /\ running[s] = v
  BY Types, Fields DEF Restore, At, Working, OpInv, Knows
<1>2. /\ proc' = [proc EXCEPT ![d] = "up"] /\ applied' = [applied EXCEPT ![d] = None]
      /\ UNCHANGED <<running, scale, own, records, late>>
  BY <1>1 DEF Restore, ScalesTypeOK
<1>3. CASE Ours(d, r) /\ Goes(d, o) /\ UNCHANGED next
  <2>1. r # None /\ r.owner = d /\ r.original \in [Keys -> Values] /\ scale[running[s]] \in [Keys -> Values]
    BY <1>1, <1>3, Types DEF ScalesTypeOK, Ours
  <2>2. /\ o \in Ops /\ o # Idle /\ o.do = "putBack" /\ o.serial = s /\ o.avd = v
        /\ o.seen = scale[running[s]] /\ o.original = r.original
    <3>. HIDE DEF ScalesInv, s, v, r
    <3>. QED  BY <1>1, <2>1, Steps
  <2>3. op' = [op EXCEPT ![d] = o] /\ next' = [next EXCEPT ![d] = next[d]]
    BY <1>3 DEF Goes, ScalesTypeOK
  <2>4. next[d] \in Moves \cup {None} /\ (next[d] # None => Working(d, next[d].serial))
    BY Types DEF Working
  <2>. HIDE DEF o
  <2>5. Plans(d, o, next[d], None, "up") /\ Fits(d, o, next[d], None, "up")
    BY <1>1, <1>2, <2>1, <2>2, <2>3, <2>4 DEF Plans, Fits
  <2>. QED  BY <2>5, Planned
<1>4. CASE Onward(d)
  <2>1. PICK q \in Ops : /\ op' = [op EXCEPT ![d] = q] /\ next' = [next EXCEPT ![d] = None]
                         /\ q.do \in {"idle", "read"} /\ (q # Idle => Working(d, q.serial))
    BY <1>4, GoesOn
  <2>2. Plans(d, q, None, None, "up") /\ Fits(d, q, None, None, "up")
    BY <1>1, <1>2, <2>1 DEF Plans, Fits
  <2>. QED  BY <2>2, Planned
<1>. QED  BY <1>3, <1>4 DEF Restore

-----------------------------------------------------------------------------
(* Steps that change a device.                                             *)

\* A step on a device that a daemon does not work on changes nothing it knows.
LEMMA OthersKnow ==
    ASSUME ScalesInv, UNCHANGED <<running, proc>>, NEW s \in Serials,
           NEW e \in Daemons, ~Working(e, s), op'[e] = op[e], applied'[e] = applied[e],
           \A u \in Avds : u # running[s] => scale'[u] = scale[u] /\ own'[u] = own[u],
           \A t \in Serials, u \in Avds : t # s \/ u # running[s] => records'[t][u] = records[t][u]
    PROVE  /\ Knows(e)' /\ (applied'[e] # None => running'[applied'[e].serial] = applied'[e].avd)
           /\ op'[e].do = "remove" => \A k \in Keys : Sound(op[e].avd, k, scale[op[e].avd][k])'
<1>. USE DEF ScalesInv
<1>1. CASE op[e] = Idle
  BY <1>1, Fields, Types DEF OpInv, Knows
<1>2. CASE op[e] # Idle
  <2>1. op[e].serial # s /\ op[e].serial \in Serials
    BY <1>2, Fields, Types DEF Working
  <2>2. op[e].do \in {"decide", "turnOff", "putBack", "remove"} =>
           op[e].avd \in Avds /\ op[e].avd # running[s]
    BY <2>1, Fields, Types DEF OpInv, Knows, ScalesTypeOK
  <2>3. Knows(e)
    BY DEF OpInv
  <2>4. \A u \in Avds : u # running[s] => (Elsewhere(u)' <=> Elsewhere(u))
    BY DEF Elsewhere
  <2>5. op[e].do \in {"decide", "turnOff", "putBack", "remove"} =>
           /\ records'[op[e].serial][op[e].avd] = records[op[e].serial][op[e].avd]
           /\ scale'[op[e].avd] = scale[op[e].avd] /\ own'[op[e].avd] = own[op[e].avd]
    BY <2>1, <2>2
  <2>6. Knows(e)'
    BY <2>3, <2>5 DEF Knows, Ours
  <2>7. op[e].do = "remove" => \A k \in Keys : Sound(op[e].avd, k, scale[op[e].avd][k])'
    BY <2>2, <2>4, <2>5 DEF SpareInv, Sound
  <2>. QED  BY <2>6, <2>7 DEF OpInv
<1>. QED  BY <1>1, <1>2

\* Nobody works on a device that another daemon works on.
LEMMA NobodyElse ==
    ASSUME ScalesInv, NEW d \in Daemons, op[d] # Idle
    PROVE  \A e \in Daemons \ {d} : ~Working(e, op[d].serial)
BY Types, Fields DEF ScalesInv, AloneInv, Working

LEMMA DecideKeeps ==
    ASSUME ScalesInv, NEW d \in Daemons, Decide(d)
    PROVE  ScalesInv'
<1>. USE DEF ScalesInv
<1>. DEFINE s == op[d].serial
            v == op[d].avd
            r == records[s][v]
            q == [do |-> "putBack", serial |-> s, avd |-> v, seen |-> op[d].seen,
                  original |-> r.original]
            o == [do |-> "turnOff", serial |-> s, avd |-> v]
            x == [owner |-> d, original |-> Originals(r, op[d].seen)]
<1>1. /\ op[d] # Idle /\ op[d].do = "decide" /\ proc[d] = "up" /\ next[d] = None
      /\ s \in Serials /\ v \in Avds /\ op[d].seen \in [Keys -> Values]
      /\ Working(d, s) /\ running[s] = v /\ op[d].seen = scale[v]
  BY Types, Fields DEF Decide, At, LifeInv, Working, OpInv, Knows
<1>2. /\ UNCHANGED <<proc, running, scale, own, next, late>>
      /\ proc' = [proc EXCEPT ![d] = "up"] /\ next' = [next EXCEPT ![d] = None]
  BY <1>1 DEF Decide, ScalesTypeOK
<1>3. CASE Goes(d, Idle) /\ applied' = [applied EXCEPT ![d] = None] /\ UNCHANGED records
  <2>1. Plans(d, Idle, None, None, "up") /\ Fits(d, Idle, None, None, "up")
    BY <1>1, <1>2, <1>3, Steps DEF Plans, Fits, Goes
  <2>. QED  BY <2>1, Planned
<1>4. CASE ~OthersAlive(d, r) /\ r # None /\ Goes(d, q) /\ applied' = [applied EXCEPT ![d] = None] /\ UNCHANGED records
  <2>1. r.original \in [Keys -> Values] /\ (r.owner = d \/ proc[r.owner] = "dead")
    BY <1>1, <1>4, Types DEF OthersAlive, LifeInv, ScalesTypeOK
  <2>2. /\ q \in Ops /\ q # Idle /\ q.do = "putBack" /\ q.serial = s /\ q.avd = v
        /\ q.seen = op[d].seen /\ q.original = r.original
    <3>. HIDE DEF ScalesInv, s, v, r
    <3>. QED  BY <1>1, <2>1, Steps
  <2>3. op' = [op EXCEPT ![d] = q]
    BY <1>4 DEF Goes
  <2>. HIDE DEF q
  <2>4. Plans(d, q, None, None, "up") /\ Fits(d, q, None, None, "up")
    BY <1>1, <1>2, <1>4, <2>1, <2>2, <2>3 DEF Plans, Fits
  <2>. QED  BY <2>4, Planned
<1>5. CASE Goes(d, o) /\ records' = [records EXCEPT ![s][v] = x] /\ UNCHANGED applied
  <2>1. x \in OwnerRecords /\ x # None /\ x.owner = d /\ x.original = Originals(r, op[d].seen)
    BY <1>1, Types, Nothing DEF OwnerRecords, Originals
  <2>2. o \in Ops /\ o # Idle /\ o.do = "turnOff" /\ o.serial = s /\ o.avd = v
    BY <1>1, Steps
  <2>3. op' = [op EXCEPT ![d] = o]
    BY <1>5 DEF Goes
  <2>. HIDE DEF o, x
  <2>4. /\ op'[d] = o /\ \A e \in Daemons \ {d} : op'[e] = op[e]
        /\ records'[s][v] = x
        /\ \A t \in Serials, u \in Avds : t # s \/ u # v => records'[t][u] = records[t][u]
    BY <1>1, <1>5, <2>3 DEF ScalesTypeOK
  <2>5. ScalesTypeOK'
    <3>1. records' \in [Serials -> [Avds -> OwnerRecords \cup {None}]]
      BY <1>1, <1>5, <2>1 DEF ScalesTypeOK
    <3>. QED  BY <1>2, <1>5, <2>2, <2>3, <3>1 DEF ScalesTypeOK
  <2>6. AloneInv'
    <3>1. \A t \in Serials : Working(d, t)' => Working(d, t)
      BY <1>1, <1>2, <2>2, <2>4 DEF Working
    <3>. QED  BY <1>2, <2>4, <3>1, StaysAlone
  <2>7. LifeInv'
    BY <1>1, <1>2, <2>1, <2>4 DEF LifeInv
  <2>8. \A e \in Daemons \ {d} :
           /\ Knows(e)' /\ (applied'[e] # None => running'[applied'[e].serial] = applied'[e].avd)
           /\ op'[e].do = "remove" => \A k \in Keys : Sound(op[e].avd, k, scale[op[e].avd][k])'
    BY <1>1, <1>2, <1>5, <2>4, OthersKnow, NobodyElse
  <2>9. OpInv'
    <3>1. Knows(d)'
      BY <1>1, <1>2, <2>1, <2>2, <2>4 DEF Knows, Ours
    <3>. QED  BY <1>2, <1>5, <2>8, <3>1 DEF OpInv
  <2>10. SpareInv'
    BY <2>2, <2>4, <2>8 DEF SpareInv
  <2>11. \A u \in Avds : Elsewhere(u)' <=> Elsewhere(u)
    BY <1>1, <1>2, <2>4 DEF Elsewhere
  <2>12. \A u \in Avds : \A k, y : Sound(u, k, y)' <=> Sound(u, k, y)
    BY <1>2, <2>11 DEF Sound
  <2>13. \A k \in Keys : r = None => Sound(v, k, scale[v][k])
    BY <1>1 DEF ReadsInv, Sound, Elsewhere, ScalesTypeOK
  <2>14. \A t \in Serials, u \in Avds, k \in Keys : Pending(t, u, k)' <=> Pending(t, u, k)
    BY <1>2 DEF Pending
  <2>15. RecordedInv'
    <3>1. ASSUME NEW k \in Keys, scale[v][k] = "off" \/ Pending(s, v, k)
          PROVE  Sound(v, k, x.original[k])
      <4>1. CASE r = None
        BY <1>1, <2>1, <2>13, <4>1 DEF Originals
      <4>2. CASE r # None
        BY <1>1, <2>1, <3>1, <4>2 DEF Originals, RecordedInv
      <4>. QED  BY <4>1, <4>2
    <3>2. \A t \in Serials, u \in Avds, k \in Keys : records'[t][u] # None =>
            /\ running[t] # u => records'[t][u].original[k] \in own[u][k]
            /\ scale[u][k] = "off" \/ Pending(t, u, k) => Sound(u, k, records'[t][u].original[k])
      BY <1>1, <2>4, <3>1 DEF RecordedInv
    <3>. QED  BY <1>2, <2>12, <2>14, <3>2 DEF RecordedInv
  <2>16. ReadsInv'
    <3>1. \A t \in Serials, u \in Avds : records[t][u] # None => records'[t][u] # None
      BY <2>1, <2>4
    <3>. QED  BY <1>2, <3>1 DEF ReadsInv
  <2>. QED  BY <2>5, <2>6, <2>7, <2>9, <2>10, <2>15, <2>16
<1>. QED
  <2>1. \/ Goes(d, Idle) /\ applied' = [applied EXCEPT ![d] = None] /\ UNCHANGED records
        \/ ~OthersAlive(d, r) /\ r # None /\ Goes(d, q) /\ applied' = [applied EXCEPT ![d] = None]
             /\ UNCHANGED records
        \/ Goes(d, o) /\ records' = [records EXCEPT ![s][v] = x] /\ UNCHANGED applied
    BY <1>1 DEF Decide, Wants
  <2>. QED  BY <1>3, <1>4, <1>5, <2>1

\* A command to put the values of these scales was sent, and has done that part.
Sent(s, v, values, keys, done) ==
    /\ scale' = Put(v, values, done)
    /\ \/ late' = late \/ late' = None
       \/ /\ late' \in Commands /\ late'.serial = s /\ late'.avd = v
          /\ late'.values = values /\ late'.keys \subseteq keys

\* What a command does: it puts a part of its scales, and may leave the rest to come.
LEMMA ShellDoes ==
    ASSUME NEW s \in Serials, NEW values, NEW keys \in SUBSET Keys, NEW ok \in BOOLEAN,
           Shell(s, values, keys, ok), values \in [Keys -> Values], running[s] \in Avds
    PROVE  \E done \in SUBSET keys : Sent(s, running[s], values, keys, done) /\ (ok => done = keys)
<1>1. CASE ok
  BY <1>1 DEF Shell, Sent
<1>2. CASE ~ok
  <2>1. PICK n \in 0..Cardinality(Keys) :
            /\ scale' = Put(running[s], values, {k \in keys : k <= n})
            /\ late' \in {None, [serial |-> s, avd |-> running[s], values |-> values,
                                 keys |-> {k \in keys : k > n}]}
    BY <1>2 DEF Shell
  <2>. DEFINE done == {k \in keys : k <= n}
              rest == {k \in keys : k > n}
  <2>2. done \subseteq keys /\ rest \subseteq keys
    OBVIOUS
  <2>. HIDE DEF done, rest
  <2>3. scale' = Put(running[s], values, done)
    BY <2>1 DEF done
  <2>4. \/ late' = None
        \/ late' = [serial |-> s, avd |-> running[s], values |-> values, keys |-> rest]
    BY <2>1 DEF rest
  <2>5. \/ late' = late \/ late' = None
        \/ /\ late' \in Commands /\ late'.serial = s /\ late'.avd = running[s]
           /\ late'.values = values /\ late'.keys \subseteq keys
    BY <2>2, <2>4 DEF Commands
  <2>. QED  BY <1>2, <2>2, <2>3, <2>5 DEF Sent
<1>. QED  BY <1>1, <1>2

LEMMA PutPuts ==
    ASSUME ScalesTypeOK, NEW v \in Avds, NEW values \in [Keys -> Values], NEW keys \in SUBSET Keys
    PROVE  /\ Put(v, values, keys) \in [Avds -> [Keys -> Values]]
           /\ \A k \in Keys : Put(v, values, keys)[v][k] = IF k \in keys THEN values[k] ELSE scale[v][k]
           /\ \A u \in Avds : u # v => Put(v, values, keys)[u] = scale[u]
BY DEF Put, ScalesTypeOK

\* A command whose values, and the record under it, are sound leaves all sound.
Harmless(s, v, values, keys) ==
    /\ records[s][v] # None
    /\ \A k \in keys : /\ Sound(v, k, records[s][v].original[k])'
                       /\ values[k] = "off" \/ values[k] \in own'[v][k]

LEMMA CommandSound ==
    ASSUME ScalesInv, UNCHANGED <<running, records>>, NEW s \in Serials, NEW values \in [Keys -> Values],
           NEW keys \in SUBSET Keys, NEW done \in SUBSET keys,
           Sent(s, running[s], values, keys, done), Harmless(s, running[s], values, keys),
           \A u \in Avds, k \in Keys : own[u][k] \subseteq own'[u][k]
    PROVE  RecordedInv' /\ ReadsInv'
<1>. USE DEF ScalesInv, Sent, Harmless
<1>. DEFINE v == running[s]
<1>1. /\ v \in Avds
      /\ \A k \in Keys : scale'[v][k] = IF k \in done THEN values[k] ELSE scale[v][k]
      /\ \A u \in Avds : u # v => scale'[u] = scale[u]
  BY PutPuts, Types
<1>2. \A u \in Avds, k \in Keys : \A x : Sound(u, k, x) => Sound(u, k, x)'
  BY DEF Sound, Elsewhere
<1>3. \A t \in Serials, u \in Avds : \A k \in Keys :
         Pending(t, u, k)' => Pending(t, u, k) \/ (t = s /\ u = v /\ k \in keys /\ late'.values = values)
  BY DEF Pending
<1>4. ASSUME NEW t \in Serials, NEW u \in Avds, NEW k \in Keys, records[t][u] # None
      PROVE  /\ running[t] # u => records[t][u].original[k] \in own'[u][k]
             /\ scale'[u][k] = "off" \/ Pending(t, u, k)' => Sound(u, k, records[t][u].original[k])'
  <2>1. running[t] # u => records[t][u].original[k] \in own'[u][k]
    BY <1>4 DEF RecordedInv
  <2>2. CASE running[t] # u
    BY <2>1, <2>2 DEF Sound
  <2>3. CASE running[t] = u /\ u # v
    <3>1. scale'[u][k] = "off" \/ Pending(t, u, k)' => scale[u][k] = "off" \/ Pending(t, u, k)
      BY <1>1, <1>3, <2>3
    <3>. QED  BY <1>2, <1>4, <2>1, <3>1 DEF RecordedInv
  <2>4. CASE running[t] = u /\ u = v
    <3>1. t = s
      BY <2>4 DEF ScalesTypeOK
    <3>2. CASE k \in keys
      BY <2>4, <3>1, <3>2
    <3>3. CASE k \notin keys
      <4>1. scale'[u][k] = "off" \/ Pending(t, u, k)' => scale[u][k] = "off" \/ Pending(t, u, k)
        BY <1>1, <1>3, <2>4, <3>3
      <4>. QED  BY <1>2, <1>4, <2>1, <4>1 DEF RecordedInv
    <3>. QED  BY <2>1, <3>2, <3>3
  <2>. QED  BY <2>1, <2>2, <2>3, <2>4
<1>5. ASSUME NEW t \in Serials, NEW u \in Avds, NEW k \in Keys, Pending(t, u, k)'
      PROVE  late'.values[k] = "off" \/ late'.values[k] \in own'[u][k]
  <2>1. CASE late' = late
    <3>1. Pending(t, u, k)
      BY <1>5, <2>1 DEF Pending
    <3>. QED  BY <2>1, <3>1 DEF RecordedInv
  <2>2. CASE late'.serial = s /\ late'.avd = v /\ late'.values = values /\ late'.keys \subseteq keys
    BY <1>5, <2>2 DEF Pending
  <2>. QED  BY <1>5, <2>1, <2>2 DEF Pending
<1>6. RecordedInv'
  BY <1>4, <1>5 DEF RecordedInv
<1>7. ASSUME NEW u \in Avds, NEW k \in Keys
      PROVE  scale'[u][k] \in own'[u][k] \/ (scale'[u][k] = "off" /\ \E t \in Serials : records[t][u] # None)
  <2>1. CASE u = v /\ k \in done
    BY <1>1, <2>1
  <2>2. CASE ~(u = v /\ k \in done)
    <3>1. scale'[u][k] = scale[u][k]
      BY <1>1, <2>2
    <3>. QED  BY <3>1 DEF ReadsInv
  <2>. QED  BY <2>1, <2>2
<1>8. ReadsInv'
  BY <1>7 DEF ReadsInv
<1>. QED  BY <1>6, <1>8

\* The device of a daemon that is to send a command.
LEMMA AtWork ==
    ASSUME ScalesInv, NEW d \in Daemons, At(d, "turnOff") \/ At(d, "putBack") \/ At(d, "remove")
    PROVE  LET o == op[d] IN
           /\ o # Idle /\ proc[d] = "up" /\ o.serial \in Serials /\ o.avd \in Avds
           /\ running[o.serial] = o.avd /\ records[o.serial][o.avd] # None
           /\ records[o.serial][o.avd] \in OwnerRecords /\ Working(d, o.serial)
<1>1. op[d] # Idle /\ proc[d] = "up" /\ op[d].serial \in Serials /\ op[d].avd \in Avds
  BY Types, Fields DEF ScalesInv, At
<1>2. running[op[d].serial] = op[d].avd /\ records[op[d].serial][op[d].avd] # None
  BY DEF ScalesInv, At, OpInv, Knows, Ours
<1>3. records[op[d].serial][op[d].avd] \in OwnerRecords
  BY <1>1, <1>2 DEF ScalesInv, ScalesTypeOK
<1>. QED  BY <1>1, <1>2, <1>3 DEF Working

LEMMA TurnOffKeeps ==
    ASSUME ScalesInv, NEW d \in Daemons, TurnScalesOff(d)
    PROVE  ScalesInv'
<1>. USE DEF ScalesInv
<1>0. PICK s \in Serials, v \in Avds : s = op[d].serial /\ v = op[d].avd
  BY AtWork DEF TurnScalesOff
<1>. DEFINE r == records[s][v]
            h == [serial |-> s, avd |-> v]
<1>1. /\ op[d] # Idle /\ op[d].do = "turnOff" /\ s \in Serials /\ v \in Avds /\ running[s] = v
      /\ r # None /\ r.original \in [Keys -> Values] /\ Working(d, s) /\ next[d] = None
      /\ ~Working(d, s)' /\ UNCHANGED <<proc, running, records, next>>
  <2>1. op'[d] = Idle
    BY DEF TurnScalesOff, Goes, ScalesTypeOK
  <2>2. op[d].do = "turnOff" /\ next[d] = None
    BY DEF TurnScalesOff, At, LifeInv
  <2>. QED  BY <1>0, <2>1, <2>2, AtWork, Types DEF TurnScalesOff, Working
<1>2. /\ op'[d] = Idle /\ applied'[d] = h
      /\ \A e \in Daemons \ {d} : op'[e] = op[e] /\ applied'[e] = applied[e]
  BY <1>0 DEF TurnScalesOff, Goes, ScalesTypeOK
<1>3. AllOff \in [Keys -> Values] /\ \A k \in Keys : AllOff[k] = "off"
  BY DEF AllOff, Values
<1>4. PICK ok \in BOOLEAN : Shell(s, AllOff, Keys, ok)
  BY <1>0 DEF TurnScalesOff
<1>5. PICK done \in SUBSET Keys : Sent(s, v, AllOff, Keys, done)
  BY <1>1, <1>3, <1>4, ShellDoes
<1>6. /\ own' \in [Avds -> [Keys -> SUBSET Values]]
      /\ \A u \in Avds : u # v => own'[u] = own[u]
      /\ \A k \in Keys : own'[v][k] = IF scale[v][k] = "off" THEN own[v][k]
                                      ELSE own[v][k] \cup {r.original[k]}
  <2>. DEFINE f == [k \in Keys |-> IF scale[v][k] = "off" THEN own[v][k] ELSE own[v][k] \cup {r.original[k]}]
  <2>1. own' = [own EXCEPT ![v] = f]
    BY <1>0 DEF TurnScalesOff
  <2>2. f \in [Keys -> SUBSET Values]
    BY <1>1 DEF ScalesTypeOK
  <2>3. \A k \in Keys : f[k] = IF scale[v][k] = "off" THEN own[v][k] ELSE own[v][k] \cup {r.original[k]}
    OBVIOUS
  <2>. HIDE DEF f
  <2>. QED  BY <2>1, <2>2, <2>3 DEF ScalesTypeOK
<1>7. ScalesTypeOK'
  <2>1. h \in Holdings
    BY <1>1 DEF Holdings
  <2>2. applied' \in [Daemons -> Holdings \cup {None}] /\ op' \in [Daemons -> Ops]
    BY <1>0, <2>1, Steps DEF TurnScalesOff, Goes, ScalesTypeOK
  <2>3. scale' \in [Avds -> [Keys -> Values]]
    BY <1>1, <1>3, <1>5, PutPuts DEF Sent
  <2>4. late' \in Commands \cup {None}
    BY <1>5 DEF ScalesTypeOK, Sent
  <2>. QED  BY <1>1, <1>6, <2>2, <2>3, <2>4 DEF ScalesTypeOK
<1>8. AloneInv'
  <2>1. \A t \in Serials : Working(d, t)' => Working(d, t)
    BY <1>1, <1>2 DEF Working
  <2>. QED  BY <1>1, <1>2, <2>1, StaysAlone
<1>9. LifeInv'
  BY <1>1, <1>2 DEF LifeInv
<1>10. \A e \in Daemons \ {d} :
         /\ Knows(e)' /\ (applied'[e] # None => running'[applied'[e].serial] = applied'[e].avd)
         /\ op'[e].do = "remove" => \A k \in Keys : Sound(op[e].avd, k, scale[op[e].avd][k])'
  <2>1. \A u \in Avds : u # v => scale'[u] = scale[u] /\ own'[u] = own[u]
    BY <1>1, <1>3, <1>5, <1>6, PutPuts DEF Sent
  <2>. QED  BY <1>0, <1>1, <1>2, <2>1, OthersKnow, NobodyElse
<1>11. OpInv'
  <2>1. Knows(d)'
    BY <1>2, Steps DEF Knows
  <2>. QED  BY <1>1, <1>2, <1>10, <2>1 DEF OpInv
<1>12. SpareInv'
  BY <1>2, <1>10, Steps DEF SpareInv
<1>13. RecordedInv' /\ ReadsInv'
  <2>1. \A k \in Keys : Sound(v, k, r.original[k])'
    <3>1. ASSUME NEW k \in Keys, scale[v][k] = "off" PROVE Sound(v, k, r.original[k])
      BY <1>1, <3>1 DEF RecordedInv
    <3>2. Elsewhere(v)' <=> Elsewhere(v)
      BY <1>1 DEF Elsewhere
    <3>. QED  BY <1>1, <1>6, <3>1, <3>2 DEF Sound
  <2>2. \A u \in Avds, k \in Keys : own[u][k] \subseteq own'[u][k]
    BY <1>6
  <2>3. Harmless(s, v, AllOff, Keys)
    BY <1>1, <1>3, <2>1 DEF Harmless
  <2>. QED  BY <1>1, <1>3, <1>5, <2>2, <2>3, CommandSound
<1>. QED  BY <1>7, <1>8, <1>9, <1>11, <1>12, <1>13

LEMMA PutBackKeeps ==
    ASSUME ScalesInv, NEW d \in Daemons, PutBack(d)
    PROVE  ScalesInv'
<1>. USE DEF ScalesInv
<1>0. PICK s \in Serials, v \in Avds : s = op[d].serial /\ v = op[d].avd
  BY AtWork DEF PutBack
<1>. DEFINE r == records[s][v]
            keys == StillOff(op[d].seen)
            q == [op[d] EXCEPT !.do = "remove"]
<1>1. /\ op[d] # Idle /\ op[d].do = "putBack" /\ proc[d] = "up" /\ s \in Serials /\ v \in Avds
      /\ running[s] = v /\ r # None /\ r.original \in [Keys -> Values] /\ Working(d, s)
      /\ op[d].seen = scale[v] /\ op[d].original = r.original
      /\ (r.owner = d \/ proc[r.owner] = "dead")
      /\ UNCHANGED <<proc, running, own, records, applied>>
  BY <1>0, AtWork, Types DEF PutBack, At, OpInv, Knows
<1>2. keys \in SUBSET Keys /\ \A k \in Keys : k \in keys <=> scale[v][k] = "off"
  BY <1>0, <1>1 DEF StillOff
<1>3. \A k \in keys : Sound(v, k, r.original[k])
  BY <1>1, <1>2 DEF RecordedInv
<1>4. /\ q \in Ops /\ q # Idle /\ q.do = "remove" /\ q.serial = s /\ q.avd = v
  <2>1. op[d] \in [do : {"putBack", "remove"}, serial : Serials, avd : Avds, seen : [Keys -> Values],
                   original : [Keys -> Values]]
    BY <1>1, Types DEF Ops, Idle
  <2>2. q \in [do : {"putBack", "remove"}, serial : Serials, avd : Avds, seen : [Keys -> Values],
               original : [Keys -> Values]] /\ q.do = "remove" /\ q.serial = s /\ q.avd = v
    BY <1>0, <2>1
  <2>. QED  BY <2>2 DEF Ops, Idle
<1>5. \E done \in SUBSET keys : Sent(s, v, r.original, keys, done) /\ (done = keys \/ Onward(d))
  <2>1. CASE keys = {} /\ UNCHANGED <<scale, late>>
    <3>1. scale = Put(v, r.original, {})
      BY <1>1, PutPuts DEF Put, ScalesTypeOK
    <3>. QED  BY <2>1, <3>1 DEF Sent
  <2>2. CASE Shell(s, r.original, keys, TRUE)
    BY <1>1, <1>2, <2>2 DEF Shell, Sent
  <2>3. CASE Shell(s, r.original, keys, FALSE) /\ Onward(d)
    <3>1. /\ Shell(s, r.original, keys, FALSE) /\ r.original \in [Keys -> Values]
          /\ running[s] = v /\ running[s] \in Avds /\ keys \in SUBSET Keys /\ FALSE \in BOOLEAN
      BY <1>1, <1>2, <2>3
    <3>. HIDE DEF keys, r, ScalesInv
    <3>2. \E done \in SUBSET keys : Sent(s, running[s], r.original, keys, done)
      BY <3>1, ShellDoes
    <3>. QED  BY <2>3, <3>1, <3>2
  <2>. QED  BY <1>0, <1>1, <2>1, <2>2, <2>3 DEF PutBack
<1>6. PICK done \in SUBSET keys : Sent(s, v, r.original, keys, done) /\ (done = keys \/ Onward(d))
  BY <1>5
<1>7. \/ op' = [op EXCEPT ![d] = q] /\ UNCHANGED next /\ done = keys
      \/ Onward(d)
  BY <1>0, <1>6 DEF PutBack, Goes
<1>8. PICK o \in Ops :
         /\ op' = [op EXCEPT ![d] = o]
         /\ \/ o = q /\ UNCHANGED next /\ done = keys
            \/ /\ next' = [next EXCEPT ![d] = None]
               /\ o.do \in {"idle", "read"} /\ (o # Idle => Working(d, o.serial))
  <2>. HIDE DEF q
  <2>. QED  BY <1>4, <1>7, GoesOn
<1>. HIDE DEF q, keys
<1>9. /\ op'[d] = o /\ \A e \in Daemons \ {d} : op'[e] = op[e] /\ next'[e] = next[e]
      /\ next' \in [Daemons -> Moves \cup {None}]
      /\ next'[d] = next[d] \/ next'[d] = None
  BY <1>8 DEF ScalesTypeOK
<1>10. ScalesTypeOK'
  <2>1. scale' \in [Avds -> [Keys -> Values]]
    BY <1>1, <1>2, <1>6, PutPuts DEF Sent
  <2>2. /\ op' \in [Daemons -> Ops] /\ late' \in Commands \cup {None}
    BY <1>1, <1>6, <1>8 DEF ScalesTypeOK, Sent
  <2>. QED  BY <1>1, <1>9, <2>1, <2>2 DEF ScalesTypeOK
<1>11. AloneInv'
  <2>1. /\ \A t \in Serials : op'[d] # Idle /\ op'[d].serial = t => Working(d, t)
        /\ next'[d] # None => next'[d] = next[d]
    BY <1>1, <1>4, <1>8, <1>9
  <2>2. \A t \in Serials : Working(d, t)' => Working(d, t)
    BY <2>1 DEF Working
  <2>. QED  BY <1>9, <2>2, StaysAlone
<1>12. LifeInv'
  <2>1. next'[d] # None => op'[d].do = "remove"
    BY <1>4, <1>8, <1>9 DEF ScalesTypeOK
  <2>. QED  BY <1>1, <1>9, <2>1 DEF LifeInv
<1>13. \A e \in Daemons \ {d} :
         /\ Knows(e)' /\ (applied'[e] # None => running'[applied'[e].serial] = applied'[e].avd)
         /\ op'[e].do = "remove" => \A k \in Keys : Sound(op[e].avd, k, scale[op[e].avd][k])'
  <2>1. \A u \in Avds : u # v => scale'[u] = scale[u] /\ own'[u] = own[u]
    BY <1>1, <1>2, <1>6, PutPuts DEF Sent
  <2>2. ASSUME NEW e \in Daemons \ {d}
        PROVE  /\ e \in Daemons /\ ~Working(e, s) /\ op'[e] = op[e] /\ applied'[e] = applied[e]
    BY <1>0, <1>1, <1>9, NobodyElse
  <2>3. /\ UNCHANGED <<running, proc>> /\ running[s] = v
        /\ \A t \in Serials, u \in Avds : t # s \/ u # running[s] => records'[t][u] = records[t][u]
    BY <1>1
  <2>4. ScalesInv
    OBVIOUS
  <2>. HIDE DEF ScalesInv
  <2>. QED  BY <1>1, <2>1, <2>2, <2>3, <2>4, OthersKnow
<1>14. OpInv'
  <2>1. ASSUME o = q PROVE Knows(d)'
    <3>1. op'[d].do = "remove" /\ op'[d].serial = s /\ op'[d].avd = v
      BY <1>4, <1>9, <2>1
    <3>. HIDE DEF ScalesInv
    <3>. QED  BY <1>1, <3>1 DEF Knows
  <2>2. ASSUME o.do \in {"idle", "read"} PROVE Knows(d)'
    BY <1>9, <2>2 DEF Knows
  <2>3. Knows(d)'
    BY <1>8, <2>1, <2>2
  <2>. QED  BY <1>1, <1>9, <1>13, <2>3 DEF OpInv
<1>15. SpareInv'
  <2>1. ASSUME op'[d].do = "remove", NEW k \in Keys PROVE Sound(v, k, scale[v][k])'
    <3>1. done = keys
      BY <1>8, <1>9, <2>1
    <3>2. scale'[v][k] = IF k \in keys THEN r.original[k] ELSE scale[v][k]
      BY <1>1, <1>2, <1>6, <3>1, PutPuts DEF Sent
    <3>3. Sound(v, k, scale'[v][k])
      BY <1>1, <1>2, <1>3, <3>2 DEF ReadsInv, Sound
    <3>. QED  BY <1>1, <3>3 DEF Sound, Elsewhere
  <2>2. op'[d].do = "remove" => op'[d].avd = v
    BY <1>4, <1>8, <1>9
  <2>. QED  BY <1>9, <1>13, <2>1, <2>2 DEF SpareInv
<1>16. RecordedInv' /\ ReadsInv'
  <2>1. Harmless(s, v, r.original, keys)
    BY <1>1, <1>3 DEF Harmless, Sound, Elsewhere
  <2>2. \A u \in Avds, k \in Keys : own[u][k] \subseteq own'[u][k]
    BY <1>1
  <2>. QED  BY <1>1, <1>2, <1>6, <2>1, <2>2, CommandSound
<1>. QED  BY <1>10, <1>11, <1>12, <1>14, <1>15, <1>16

LEMMA RemoveKeeps ==
    ASSUME ScalesInv, NEW d \in Daemons, Remove(d)
    PROVE  ScalesInv'
<1>. USE DEF ScalesInv
<1>0. PICK s \in Serials, v \in Avds : s = op[d].serial /\ v = op[d].avd
  BY AtWork DEF Remove
<1>1. /\ op[d] # Idle /\ op[d].do = "remove" /\ proc[d] = "up" /\ running[s] = v /\ Working(d, s)
      /\ UNCHANGED <<proc, running, scale, own, applied, late>>
      /\ records' = [records EXCEPT ![s][v] = None]
  BY <1>0, AtWork DEF Remove, At
<1>2. PICK o \in Ops :
         /\ op' = [op EXCEPT ![d] = o] /\ next' = [next EXCEPT ![d] = None]
         /\ o.do \in {"idle", "read"} /\ (o # Idle => Working(d, o.serial))
  BY GoesOn DEF Remove
<1>3. /\ op'[d] = o /\ next'[d] = None /\ records'[s][v] = None
      /\ \A e \in Daemons \ {d} : op'[e] = op[e] /\ next'[e] = next[e]
      /\ \A t \in Serials, u \in Avds : t # s \/ u # v => records'[t][u] = records[t][u]
  BY <1>1, <1>2 DEF ScalesTypeOK
<1>4. ScalesTypeOK'
  BY <1>1, <1>2 DEF ScalesTypeOK
<1>5. AloneInv'
  <2>1. \A t \in Serials : Working(d, t)' => Working(d, t)
    BY <1>2, <1>3 DEF Working
  <2>. QED  BY <1>3, <2>1, StaysAlone
<1>6. LifeInv'
  BY <1>1, <1>3 DEF LifeInv
<1>7. \A e \in Daemons \ {d} :
         /\ Knows(e)' /\ (applied'[e] # None => running'[applied'[e].serial] = applied'[e].avd)
         /\ op'[e].do = "remove" => \A k \in Keys : Sound(op[e].avd, k, scale[op[e].avd][k])'
  BY <1>0, <1>1, <1>3, OthersKnow, NobodyElse
<1>8. OpInv'
  <2>1. Knows(d)'
    BY <1>2, <1>3 DEF Knows
  <2>. QED  BY <1>1, <1>7, <2>1 DEF OpInv
<1>9. SpareInv'
  BY <1>2, <1>3, <1>7 DEF SpareInv
<1>10. \A u \in Avds : Elsewhere(u)' <=> Elsewhere(u)
  BY <1>1, <1>3 DEF Elsewhere
<1>11. RecordedInv'
  BY <1>1, <1>3, <1>10 DEF RecordedInv, Sound, Pending
<1>12. ReadsInv'
  <2>1. \A k \in Keys : Sound(v, k, scale[v][k])
    BY <1>0, <1>1 DEF SpareInv
  <2>2. \A k \in Keys : scale[v][k] \in own[v][k]
           \/ (scale[v][k] = "off" /\ \E t \in Serials : records'[t][v] # None)
    BY <1>1, <1>3, <2>1 DEF Sound, Elsewhere
  <2>3. ASSUME NEW u \in Avds, u # v, NEW k \in Keys
        PROVE  scale[u][k] \in own[u][k] \/ (scale[u][k] = "off" /\ \E t \in Serials : records'[t][u] # None)
    BY <1>3, <2>3 DEF ReadsInv
  <2>. QED  BY <1>1, <2>2, <2>3 DEF ReadsInv
<1>. QED  BY <1>4, <1>5, <1>6, <1>8, <1>9, <1>11, <1>12

LEMMA LateLandsKeeps ==
    ASSUME ScalesInv, Rough = {}, LateLands
    PROVE  ScalesInv'
<1>. USE DEF ScalesInv
<1>1. /\ late # None /\ late' = None /\ UNCHANGED <<proc, running, own, records, applied, op, next>>
      /\ late.serial \in Serials /\ late.avd \in Avds /\ late.keys \in SUBSET Keys
      /\ late.values \in [Keys -> Values]
  BY Types DEF LateLands
<1>2. AloneInv' /\ LifeInv'
  BY <1>1 DEF AloneInv, LifeInv, Working
<1>3. CASE UNCHANGED scale
  <2>1. ScalesTypeOK' /\ ReadsInv'
    BY <1>1, <1>3 DEF ScalesTypeOK, ReadsInv
  <2>2. OpInv'
    BY <1>1, <1>3 DEF OpInv, Knows, Ours
  <2>3. SpareInv'
    BY <1>1, <1>3 DEF SpareInv, Sound, Elsewhere
  <2>4. RecordedInv'
    BY <1>1, <1>3 DEF RecordedInv, Sound, Elsewhere, Pending
  <2>. QED  BY <1>2, <2>1, <2>2, <2>3, <2>4
<1>4. CASE /\ running[late.serial] = late.avd
           /\ records[late.serial][late.avd] # None /\ ~Busy(late.serial)
           /\ scale' = Put(late.avd, late.values, late.keys)
  <2>1. PICK s \in Serials, v \in Avds, values \in [Keys -> Values], keys \in SUBSET Keys :
           s = late.serial /\ v = late.avd /\ values = late.values /\ keys = late.keys
    BY <1>1
  <2>2. /\ running[s] = v /\ records[s][v] # None /\ ~Busy(s) /\ scale' = Put(v, values, keys)
        /\ \A k \in keys : Pending(s, v, k)
    BY <1>1, <1>4, <2>1 DEF Pending
  <2>3. Sent(s, v, values, keys, keys) /\ Harmless(s, v, values, keys)
    <3>1. \A k \in keys : Sound(v, k, records[s][v].original[k])
      BY <2>2 DEF RecordedInv
    <3>2. \A k \in keys : values[k] = "off" \/ values[k] \in own[v][k]
      BY <2>1, <2>2 DEF RecordedInv
    <3>. QED  BY <1>1, <2>2, <3>1, <3>2 DEF Sent, Harmless, Sound, Elsewhere
  <2>4. RecordedInv' /\ ReadsInv'
    BY <1>1, <2>2, <2>3, CommandSound
  <2>5. \A u \in Avds : u # v => scale'[u] = scale[u]
    BY <2>2, PutPuts
  <2>6. \A e \in Daemons :
           /\ Knows(e)' /\ (applied'[e] # None => running'[applied'[e].serial] = applied'[e].avd)
           /\ op'[e].do = "remove" => \A k \in Keys : Sound(op[e].avd, k, scale[op[e].avd][k])'
    <3>1. \A e \in Daemons : ~Working(e, s)
      BY <2>2 DEF Working, Busy
    <3>. QED  BY <1>1, <2>2, <2>5, <3>1, OthersKnow
  <2>7. OpInv' /\ SpareInv'
    BY <1>1, <2>6 DEF OpInv, SpareInv
  <2>8. ScalesTypeOK'
    <3>1. scale' \in [Avds -> [Keys -> Values]]
      BY <2>2, PutPuts
    <3>. QED  BY <1>1, <3>1 DEF ScalesTypeOK
  <2>. QED  BY <1>2, <2>4, <2>7, <2>8
<1>. QED  BY <1>3, <1>4 DEF LateLands

LEMMA UserSetsKeeps ==
    ASSUME ScalesInv, Rough = {}, UserSets
    PROVE  ScalesInv'
<1>. USE DEF ScalesInv
<1>1. PICK s \in Serials, key \in Keys :
         /\ ~Busy(s) /\ late = None
         /\ scale' = [scale EXCEPT ![running[s]][key] = "half"]
         /\ own' = [own EXCEPT ![running[s]][key] = {"half"} \cup Recorded(running[s], key, Serials \ {s})]
  BY DEF UserSets
<1>2. UNCHANGED <<proc, running, records, applied, op, next, late>>
  BY DEF UserSets
<1>. DEFINE v == running[s]
<1>3. /\ v \in Avds /\ Recorded(v, key, Serials \ {s}) \subseteq Values
  BY Types DEF Recorded
<1>. DEFINE new == {"half"} \cup Recorded(v, key, Serials \ {s})
<1>4. new \subseteq Values /\ "half" \in new
  BY <1>3 DEF Values
<1>5. \A t \in Serials : t # s /\ records[t][v] # None => records[t][v].original[key] \in new
  BY DEF Recorded
<1>6. scale' = [scale EXCEPT ![v][key] = "half"] /\ own' = [own EXCEPT ![v][key] = new]
  BY <1>1
<1>. HIDE DEF new
<1>7. /\ scale' \in [Avds -> [Keys -> Values]] /\ own' \in [Avds -> [Keys -> SUBSET Values]]
      /\ scale'[v][key] = "half" /\ own'[v][key] = new
      /\ \A u \in Avds, k \in Keys : u # v \/ k # key => scale'[u][k] = scale[u][k] /\ own'[u][k] = own[u][k]
      /\ \A u \in Avds : u # v => scale'[u] = scale[u] /\ own'[u] = own[u]
  BY <1>3, <1>4, <1>6 DEF ScalesTypeOK, Values
<1>8. ScalesTypeOK'
  BY <1>2, <1>7 DEF ScalesTypeOK
<1>9. AloneInv' /\ LifeInv'
  BY <1>2 DEF AloneInv, LifeInv, Working
<1>10. \A e \in Daemons :
         /\ Knows(e)' /\ (applied'[e] # None => running'[applied'[e].serial] = applied'[e].avd)
         /\ op'[e].do = "remove" => \A k \in Keys : Sound(op[e].avd, k, scale[op[e].avd][k])'
  <2>1. \A e \in Daemons : ~Working(e, s)
    BY <1>1 DEF Working, Busy
  <2>. QED  BY <1>2, <1>7, <2>1, OthersKnow
<1>11. OpInv' /\ SpareInv'
  BY <1>2, <1>10 DEF OpInv, SpareInv
<1>12. RecordedInv'
  <2>1. \A t \in Serials, u \in Avds, k \in Keys : ~Pending(t, u, k)'
    BY <1>1, <1>2 DEF Pending
  <2>2. ASSUME NEW t \in Serials, NEW u \in Avds, NEW k \in Keys, records[t][u] # None
        PROVE  /\ running[t] # u => records[t][u].original[k] \in own'[u][k]
               /\ scale'[u][k] = "off" => Sound(u, k, records[t][u].original[k])'
    <3>1. CASE u = v /\ k = key
      BY <1>5, <1>7, <2>2, <3>1
    <3>2. CASE ~(u = v /\ k = key)
      <4>1. own'[u][k] = own[u][k] /\ scale'[u][k] = scale[u][k]
        BY <1>7, <3>2
      <4>. QED  BY <1>2, <2>2, <4>1 DEF RecordedInv, Sound, Elsewhere
    <3>. QED  BY <3>1, <3>2
  <2>. QED  BY <1>2, <2>1, <2>2 DEF RecordedInv
<1>13. ReadsInv'
  <2>1. ASSUME NEW u \in Avds, NEW k \in Keys
        PROVE  scale'[u][k] \in own'[u][k] \/ (scale'[u][k] = "off" /\ \E t \in Serials : records'[t][u] # None)
    <3>1. CASE u = v /\ k = key
      BY <1>4, <1>7, <3>1
    <3>2. CASE ~(u = v /\ k = key)
      BY <1>2, <1>7, <3>2 DEF ReadsInv
    <3>. QED  BY <3>1, <3>2
  <2>. QED  BY <2>1 DEF ReadsInv
<1>. QED  BY <1>8, <1>9, <1>11, <1>12, <1>13

LEMMA SwapKeeps ==
    ASSUME ScalesInv, Rough = {}, Swap
    PROVE  ScalesInv'
<1>. USE DEF ScalesInv
<1>1. PICK s \in Serials, t \in Serials :
         /\ s # t /\ ~Busy(s) /\ ~Busy(t)
         /\ \A d \in Daemons : ~OursHere(d, s) /\ ~OursHere(d, t)
         /\ running' = [running EXCEPT ![s] = running[t], ![t] = running[s]]
         /\ own' = [v \in Avds |-> [k \in Keys |->
                      own[v][k] \cup Recorded(v, k, {u \in {s, t} : running[u] = v})]]
  BY DEF Swap
<1>2. UNCHANGED <<proc, scale, records, applied, op, next, late>>
  BY DEF Swap
<1>3. /\ running' \in [Serials -> Avds]
      /\ \A x \in Serials : x \notin {s, t} => running'[x] = running[x]
      /\ running'[s] = running[t] /\ running'[t] = running[s]
      /\ \A x, y \in Serials : running'[x] = running'[y] => x = y
  BY <1>1 DEF ScalesTypeOK
<1>4. /\ \A v \in Avds, k \in Keys : own[v][k] \subseteq own'[v][k]
      /\ \A v \in Avds, k \in Keys, x \in {s, t} :
            running[x] = v /\ records[x][v] # None => records[x][v].original[k] \in own'[v][k]
      /\ own' \in [Avds -> [Keys -> SUBSET Values]]
  <2>1. ASSUME NEW v \in Avds, NEW k \in Keys
        PROVE  Recorded(v, k, {u \in {s, t} : running[u] = v}) \in SUBSET Values
    BY Types DEF Recorded
  <2>2. \A v \in Avds, k \in Keys, x \in {s, t} : running[x] = v /\ records[x][v] # None =>
           records[x][v].original[k] \in Recorded(v, k, {u \in {s, t} : running[u] = v})
    BY DEF Recorded
  <2>. QED  BY <1>1, <2>1, <2>2 DEF ScalesTypeOK
<1>5. ScalesTypeOK'
  BY <1>2, <1>3, <1>4 DEF ScalesTypeOK
<1>6. AloneInv' /\ LifeInv'
  BY <1>2 DEF AloneInv, LifeInv, Working
<1>7. \A d \in Daemons : op[d] # Idle => op[d].serial \notin {s, t} /\ op[d].serial \in Serials
  BY <1>1, Types, Fields DEF Busy
<1>8. OpInv'
  <2>1. ASSUME NEW d \in Daemons PROVE Knows(d)'
    <3>1. CASE op[d] = Idle
      BY <1>2, <3>1, Fields, Types DEF Knows
    <3>2. CASE op[d] # Idle
      <4>1. running'[op[d].serial] = running[op[d].serial]
        BY <1>3, <1>7, <3>2
      <4>. QED  BY <1>2, <4>1 DEF OpInv, Knows, Ours
    <3>. QED  BY <3>1, <3>2
  <2>2. \A d \in Daemons : applied[d] # None => running'[applied[d].serial] = applied[d].avd
    BY <1>1, <1>3, Types DEF OpInv, OursHere
  <2>. QED  BY <1>2, <2>1, <2>2 DEF OpInv
\* An AVD that stays has what is elsewhere still elsewhere.
<1>9. \A x \in Serials, v \in Avds : running[x] = v /\ running'[x] = v /\ Elsewhere(v) => Elsewhere(v)'
  BY <1>2, <1>3 DEF Elsewhere, ScalesTypeOK
<1>10. SpareInv'
  <2>1. ASSUME NEW d \in Daemons, op[d].do = "remove", NEW k \in Keys
        PROVE  Sound(op[d].avd, k, scale[op[d].avd][k])'
    <3>1. /\ op[d].serial \in Serials /\ op[d].avd \in Avds /\ running[op[d].serial] = op[d].avd
          /\ running'[op[d].serial] = op[d].avd
      BY <1>3, <1>7, <2>1, Fields, Types DEF OpInv, Knows
    <3>2. Sound(op[d].avd, k, scale[op[d].avd][k])
      BY <2>1 DEF SpareInv
    <3>. QED  BY <1>2, <1>4, <1>9, <3>1, <3>2 DEF Sound
  <2>. QED  BY <1>2, <2>1 DEF SpareInv
<1>11. RecordedInv'
  <2>1. \A x \in Serials, v \in Avds, k \in Keys : Pending(x, v, k)' <=> Pending(x, v, k)
    BY <1>2 DEF Pending
  <2>2. ASSUME NEW x \in Serials, NEW v \in Avds, NEW k \in Keys, records[x][v] # None
        PROVE  /\ running'[x] # v => records[x][v].original[k] \in own'[v][k]
               /\ scale[v][k] = "off" \/ Pending(x, v, k) => Sound(v, k, records[x][v].original[k])'
    <3>1. CASE running[x] # v
      BY <1>2, <1>4, <2>2, <3>1 DEF RecordedInv, Sound
    <3>2. CASE running[x] = v /\ x \in {s, t}
      BY <1>2, <1>4, <2>2, <3>2 DEF Sound
    <3>3. CASE running[x] = v /\ x \notin {s, t}
      <4>1. running'[x] = v
        BY <1>3, <3>3
      <4>2. Sound(v, k, records[x][v].original[k]) => Sound(v, k, records[x][v].original[k])'
        BY <1>2, <1>4, <1>9, <3>3, <4>1 DEF Sound
      <4>. QED  BY <2>2, <4>1, <4>2 DEF RecordedInv
    <3>. QED  BY <3>1, <3>2, <3>3
  <2>. QED  BY <1>2, <1>4, <2>1, <2>2 DEF RecordedInv
<1>12. ReadsInv'
  BY <1>2, <1>4 DEF ReadsInv
<1>. QED  BY <1>5, <1>6, <1>8, <1>10, <1>11, <1>12

-----------------------------------------------------------------------------
(* All steps together.                                                     *)

LEMMA ScalesInvInit == ScalesInit => ScalesInv
<1>. SUFFICES ASSUME ScalesInit PROVE ScalesInv
  OBVIOUS
<1>1. /\ \A d \in Daemons : op[d] = Idle /\ next[d] = None /\ applied[d] = None
      /\ \A s \in Serials, v \in Avds : records[s][v] = None
      /\ late = None
      /\ \A v \in Avds, k \in Keys : scale[v][k] \in own[v][k]
  BY DEF ScalesInit
<1>2. ScalesTypeOK
  BY Steps DEF ScalesInit, ScalesTypeOK, Values
<1>3. AloneInv /\ LifeInv /\ SpareInv
  BY <1>1, Steps DEF AloneInv, Working, LifeInv, SpareInv
<1>4. OpInv
  BY <1>1, Steps DEF OpInv, Knows
<1>5. RecordedInv /\ ReadsInv
  BY <1>1 DEF RecordedInv, ReadsInv, Pending
<1>. QED  BY <1>2, <1>3, <1>4, <1>5 DEF ScalesInv

LEMMA ScalesStill == ScalesInv /\ UNCHANGED scaleVars => ScalesInv'
<1>. SUFFICES ASSUME ScalesInv, UNCHANGED scaleVars PROVE ScalesInv'
  OBVIOUS
<1>. USE DEF scaleVars, ScalesInv
<1>1. ScalesTypeOK' /\ LifeInv'
  BY DEF ScalesTypeOK, LifeInv
<1>2. AloneInv'
  BY DEF AloneInv, Working
<1>3. OpInv'
  BY DEF OpInv, Knows, Ours
<1>4. RecordedInv'
  BY DEF RecordedInv, Sound, Elsewhere, Pending
<1>5. ReadsInv' /\ SpareInv'
  BY DEF ReadsInv, SpareInv, Sound, Elsewhere
<1>. QED  BY <1>1, <1>2, <1>3, <1>4, <1>5

LEMMA ScalesStep ==
    ASSUME Rough = {}
    PROVE  ScalesInv /\ [ScalesNext]_scaleVars => ScalesInv'
<1>. SUFFICES ASSUME ScalesInv, [ScalesNext]_scaleVars PROVE ScalesInv'
  OBVIOUS
<1>1. CASE UNCHANGED scaleVars \/ Over
  BY <1>1, ScalesStill DEF Over
<1>2. CASE \E d \in Daemons, s \in Serials, want \in Wants : Select(d, s, want)
  BY <1>2, SelectKeeps
<1>3. CASE \E d \in Daemons : Read(d) \/ Decide(d) \/ TurnScalesOff(d) \/ PutBack(d) \/ Remove(d)
  BY <1>3, ReadKeeps, DecideKeeps, TurnOffKeeps, PutBackKeeps, RemoveKeeps
<1>4. CASE \E d \in Daemons : Shutdown(d) \/ Restore(d) \/ Killed(d)
  BY <1>4, ShutdownKeeps, RestoreKeeps, DieKeeps
<1>5. CASE LateLands \/ Swap \/ UserSets
  BY <1>5, LateLandsKeeps, SwapKeeps, UserSetsKeeps
<1>. QED  BY <1>1, <1>2, <1>3, <1>4, <1>5 DEF ScalesNext

\* Off, a scale has a record whose value is sound; and where that is off too, or none
\* is sound of this serial, a record the AVD left has the user's value.
LEMMA KeptFromInv == ScalesInv => OwnValuesKept
<1>. SUFFICES ASSUME ScalesInv, NEW v \in Avds, NEW k \in Keys, scale[v][k] \notin own[v][k]
              PROVE  /\ scale[v][k] = "off"
                     /\ \E s \in Serials : records[s][v] # None /\ records[s][v].original[k] \in own[v][k]
  BY DEF OwnValuesKept
<1>1. scale[v][k] = "off" /\ \E s \in Serials : records[s][v] # None
  BY DEF ScalesInv, ReadsInv
<1>. QED  BY <1>1 DEF ScalesInv, RecordedInv, Sound, Elsewhere

\* Whatever crashes, fails half-way or is taken over, a scale that a user's value
\* has left reads off and has a record with a value of that user to put back
\* (android_animation_scales.rs).  Nothing of Rough happens: one daemon at a time
\* works on a device, no emulator changes under a session, and no command outlives
\* the next one.
THEOREM OwnValuesAreKept == ASSUME Rough = {} PROVE ScalesSpec => []OwnValuesKept
<1>1. ScalesInv /\ [ScalesNext]_scaleVars => ScalesInv'
  BY ScalesStep
<1>. QED  BY <1>1, ScalesInvInit, KeptFromInv, PTL DEF ScalesSpec

LEMMA SessionsStep ==
    ASSUME ScalesInv, [ScalesNext]_scaleVars, NEW d \in Daemons, NEW s \in Serials, NEW v \in Avds,
           Ours(d, records[s][v]), proc[d] = "up", op'[d] = op[d]
    PROVE  records'[s][v] = records[s][v]
<1>1. CASE UNCHANGED records
  BY <1>1
<1>2. ASSUME NEW e \in Daemons, Decide(e), ~UNCHANGED records PROVE records'[s][v] = records[s][v]
  <2>. DEFINE o == [do |-> "turnOff", serial |-> op[e].serial, avd |-> op[e].avd]
  <2>1. /\ op[e] # Idle /\ op[e].do = "decide" /\ op[e].serial \in Serials /\ op[e].avd \in Avds
    BY <1>2, Types, Fields DEF ScalesInv, Decide, At
  <2>2. /\ op' = [op EXCEPT ![e] = o]
        /\ ~OthersAlive(e, records[op[e].serial][op[e].avd])
        /\ records' = [records EXCEPT ![op[e].serial][op[e].avd] =
                          [owner |-> e, original |-> Originals(records[op[e].serial][op[e].avd], op[e].seen)]]
    BY <1>2 DEF Decide, Goes
  <2>3. e # d
    <3>1. o.do = "turnOff"
      OBVIOUS
    <3>. HIDE DEF o
    <3>. QED  BY <2>1, <2>2, <3>1 DEF ScalesInv, ScalesTypeOK
  <2>4. s # op[e].serial \/ v # op[e].avd
    BY <2>2, <2>3 DEF OthersAlive, Ours
  <2>. QED  BY <2>1, <2>2, <2>4 DEF ScalesInv, ScalesTypeOK
<1>3. ASSUME NEW e \in Daemons, Remove(e) PROVE records'[s][v] = records[s][v]
  <2>1. /\ op[e].do = "remove" /\ op[e].serial \in Serials /\ op[e].avd \in Avds
        /\ records' = [records EXCEPT ![op[e].serial][op[e].avd] = None]
    BY <1>3, AtWork DEF Remove, At
  <2>2. Onward(e)
    BY <1>3 DEF Remove
  <2>3. e # d
    <3>1. PICK o \in Ops : op' = [op EXCEPT ![e] = o] /\ o.do \in {"idle", "read"}
      BY <2>2, GoesOn
    <3>2. op'[e] = o
      BY <3>1 DEF ScalesInv, ScalesTypeOK
    <3>. QED  BY <2>1, <3>1, <3>2
  <2>4. s # op[e].serial \/ v # op[e].avd
    BY <2>1, <2>3 DEF ScalesInv, OpInv, Knows, Ours
  <2>. QED  BY <2>1, <2>4 DEF ScalesInv, ScalesTypeOK
<1>4. UNCHANGED records \/ \E e \in Daemons : Decide(e) \/ Remove(e)
  <2>1. ASSUME NEW e \in Daemons PROVE
          /\ \A x \in Serials, want \in Wants : Select(e, x, want) => UNCHANGED records
          /\ Read(e) \/ TurnScalesOff(e) \/ PutBack(e) => UNCHANGED records
          /\ Shutdown(e) \/ Restore(e) \/ Killed(e) => UNCHANGED records
    BY DEF Select, Read, TurnScalesOff, PutBack, Shutdown, Restore, Killed
  <2>2. LateLands \/ Swap \/ UserSets \/ Over \/ UNCHANGED scaleVars => UNCHANGED records
    BY DEF LateLands, Swap, UserSets, Over, scaleVars
  <2>. QED  BY <2>1, <2>2 DEF ScalesNext
<1>. QED  BY <1>1, <1>2, <1>3, <1>4

\* The record of a live daemon's session is replaced and removed by that daemon
\* alone (on_select, restore), however many daemons come, go and take over.
THEOREM LiveSessionsLeft == ASSUME Rough = {} PROVE ScalesSpec => LiveSessionKept
<1>1. ScalesInv /\ [ScalesNext]_scaleVars => ScalesInv'
  BY ScalesStep
<1>2. ScalesInv /\ [ScalesNext]_scaleVars =>
          [\A d \in Daemons, s \in Serials, v \in Avds :
               Ours(d, records[s][v]) /\ proc[d] = "up" /\ op'[d] = op[d] =>
                   records'[s][v] = records[s][v]]_scaleVars
  BY SessionsStep
<1>. QED  BY <1>1, <1>2, ScalesInvInit, PTL DEF ScalesSpec, LiveSessionKept

=============================================================================
