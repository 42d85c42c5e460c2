--------------------------- MODULE McpRunsProofs ---------------------------
(***************************************************************************)
(* Why an MCP session keeps its promises (McpRuns), for any number of      *)
(* calls, processes, devices and files, and any scenes.                    *)
(***************************************************************************)
EXTENDS McpRuns, TLAPS, FiniteSetTheorems, SequenceTheorems, WellFoundedInduction

-----------------------------------------------------------------------------
(* The invariant.                                                          *)

Outcomes == DOMAIN Zero
Words == Outcomes \cup {"done", "error"}

Process ==
    [state : {"gone", "forked", "running", "closing", "exited"}, file : TestFiles \cup {NoTestFile},
     on : Devices \cup {NoDevice}, said : Seq(Outcomes), mail : Seq(Words), abort : BOOLEAN,
     asked : BOOLEAN]

Steps ==
    {"none", "first", "again", "listing", "queued", "listed", "choosing", "attaching", "settling",
     "resolving", "resolved", "retrying", "running"}

ListTyped ==
    /\ listed \in {"no", "first", "yes"} /\ sync \in {"idle", "looking", "discovering"}
    /\ queued \in BOOLEAN /\ debounce \in BOOLEAN
    /\ disk \in Nat /\ looked \in Nat /\ known \in Nat

TargetTyped ==
    /\ ready \in BOOLEAN /\ preparing \in {"no", "session", "resolving"}
    /\ pending \in Calls \cup {Nobody} /\ applied \in Calls \cup {Nobody}
    /\ target \in {"none", "failed", "up", "dead"}
    /\ device \in Devices \cup {NoDevice} /\ pin \in Devices \cup {NoDevice}
    /\ retry \in Calls \cup {Nobody} /\ retried \in BOOLEAN

CallsTyped ==
    /\ want \in [Calls -> Devices \cup {NoDevice}] /\ ask \in [Calls -> Seq(TestFiles)]
    /\ tried \in [Calls -> BOOLEAN] /\ since \in [Calls -> Nat] /\ loose \in SUBSET Calls
    /\ asks \in SUBSET Calls

\* What the course of a run changes.
RunTyped ==
    /\ runner \in Calls \cup {Nobody} /\ stopRequested \in BOOLEAN
    /\ stage \in {"none", "devices", "await", "probe", "resolving", "child"}
    /\ todo \in Seq(TestFiles) /\ tally \in [Outcomes -> Nat]
    /\ verdict \in [status : {"none", "stopped", "failed", "passed"}, tally : [Outcomes -> Nat]]
    /\ step \in [Calls -> Steps] /\ late \in Nat /\ tries \in Nat
    /\ corner \in SUBSET {"unasked", "disarmed"} /\ timer \in Kids \cup {NoKid}

KidsTyped ==
    /\ kid \in [Kids -> Process] /\ awaited \in Kids \cup {NoKid} /\ active \in Kids \cup {NoKid}
    /\ unrun \in BOOLEAN

ResultsTyped ==
    results \in [TestFiles -> Seq(Outcomes)] /\ broken \in SUBSET TestFiles
    /\ meant \in SUBSET TestFiles /\ aim \in Devices \cup {NoDevice}

McpTypeOK ==
    /\ scene \in DOMAIN Scenes /\ spent \in [Occasions -> Nat]
    /\ ListTyped /\ TargetTyped /\ CallsTyped /\ RunTyped /\ KidsTyped /\ ResultsTyped

\* The run: whose it is, where it is, and the process it waits for, which is the
\* one a Stop asks.
StageInv ==
    /\ runner = Nobody <=> stage = "none"
    /\ \A c \in Calls : step[c] = "running" <=> c = runner
    /\ stage \in {"await", "probe", "resolving", "child"} => todo # <<>>
    /\ awaited # NoKid <=> stage = "child"
    /\ awaited # NoKid => active = awaited /\ kid[awaited].state # "gone"
    /\ \A k \in Kids : kid[k].state # "gone" \/ kid[k].mail # <<>> => kid[k].file \in TestFiles

\* The files of a call: a device tool has none, and is not waiting for a list of them.
AskedFor ==
    \A c \in Calls :
        /\ IsInjective(ask[c])
        /\ step[c] \notin {"none", "attaching", "retrying"} => ask[c] # <<>>

\* The target: who may resolve it, and the run's budget for it.
TargetInv ==
    /\ preparing # "no" => ~ready
    /\ target # "none" => ready
    /\ retry # Nobody => target = "failed" /\ stage # "resolving"
    /\ stage \in {"await", "probe", "resolving", "child"} => ready
    /\ stage = "devices" => ready \/ preparing # "no"
    /\ stage = "probe" => HasTarget
    /\ stage = "resolving" => ~HasTarget /\ retried
    /\ tries <= 1
    /\ ~retried \/ stage \in {"none", "devices"} => tries = 0

\* A Stop: the process to come after it is the last, and the one at hand is asked.
StopInv ==
    /\ late <= 1
    /\ late = 1 => stage = "child" /\ stopRequested
    /\ stopRequested /\ stage \in {"await", "probe", "resolving"} => corner # {}
    /\ stopRequested /\ awaited # NoKid /\ corner = {} =>
           timer = awaited \/ kid[awaited].state = "exited"

\* The list of files: a call waits for a look at the disk that comes after it.
ListInv ==
    /\ known <= looked /\ looked <= disk
    /\ queued => sync # "idle"
    /\ \A c \in Calls :
          /\ since[c] <= disk
          /\ step[c] = "queued" => queued
          /\ step[c] = "listing" => sync # "idle" /\ (sync = "discovering" => since[c] <= looked)
          /\ step[c] = "listed" => since[c] <= known

\* Tools that may forget the target's pin when it is prepared.
Attaching == {c \in Calls : step[c] = "attaching"}

\* The target is on the device that call c names, and pinned to it.
Confirmed(c) == HasTarget /\ device = want[c] /\ pin = want[c]

\* A call that names a device and was not let through without it: the target is on
\* that device until its run begins, and in the run the target is resolved there or
\* not at all.
Holding(c) == want[c] # NoDevice /\ c \notin loose

OnPin == HasTarget /\ pin # NoDevice => device = pin
OwnRetry == \A c \in Calls : step[c] = "resolving" => retry = c
LetOn == \A c \in LetThrough : Holding(c) => Confirmed(c)
RunOn ==
    \A c \in Calls : Holding(c) /\ step[c] = "running" =>
        \/ Confirmed(c)
        \/ stage = "resolving" /\ aim = want[c] /\ pin = want[c] /\ Attaching = {}
        \/ stage = "await" /\ target = "failed" /\ retried /\ retry = Nobody
ChildOn == stage = "child" /\ Holding(runner) => kid[awaited].on = want[runner]

\* While a run tries its target its pin is not moved, but perhaps forgotten.
AimInv == stage = "resolving" => pin \in {aim, NoDevice}

PinInv == OnPin /\ OwnRetry /\ LetOn /\ RunOn /\ ChildOn

\* What the results add up to, those of the files that are gone left out.
Counted(said, gone, o) == [f \in TestFiles |-> IF f \in gone THEN 0 ELSE Count(said[f])[o]]
Totals(said, gone, failures) ==
    [o \in Outcomes |-> SumFunction(Counted(said, gone, o)) + (IF o = "failed" THEN failures ELSE 0)]

\* The file a process runs.
AtHand == IF stage = "child" THEN {Head(todo)} ELSE {}

\* What a process has said is what arrived and what is under way.
Fed(r, arrived) ==
    \E left \in Seq(Outcomes) :
        /\ r.said = arrived \o left
        /\ \/ r.mail = left
           \/ /\ r.state \in {"closing", "exited"}
              /\ \E last \in {"done", "error"} : r.mail = Append(left, last)

Whole(said) == \A i \in DOMAIN said : said[i] # "interrupted"

RunStory ==
    runner # Nobody =>
        /\ IsInjective(todo)
        /\ \A i \in DOMAIN todo : /\ todo[i] \notin broken
                                  /\ todo[i] \notin AtHand => results[todo[i]] = <<>>
        /\ tally = Totals(results, broken \cup AtHand, Cardinality(broken))
        /\ ~stopRequested => \A f \in TestFiles : Whole(results[f])

ChildStory ==
    stage = "child" =>
        /\ kid[awaited].file = Head(todo)
        /\ Fed(kid[awaited], results[Head(todo)])
        /\ ~stopRequested => ~kid[awaited].abort /\ ~kid[awaited].asked
        /\ ~kid[awaited].asked => Whole(kid[awaited].said)

StoryInv == (runner = Nobody => TotalsAgree) /\ RunStory /\ ChildStory

\* In a run that is not stopped a file that is behind it broke or has all its results,
\* and the process at hand says that its file is done when it is.
ToldOf(f) == Len(results[f]) = Scene.tests[f]
Done(r) == \E i \in DOMAIN r.mail : r.mail[i] = "done"
MeantInv ==
    /\ EveryTestTold
    /\ runner # Nobody /\ ~stopRequested => \A f \in meant : f \in broken \/ f \in ToSet(todo) \/ ToldOf(f)
    /\ stage = "child" /\ ~stopRequested /\ Done(kid[awaited]) =>
           Len(kid[awaited].said) = Scene.tests[Head(todo)]

-----------------------------------------------------------------------------
(* Sums over finite sets.                                                  *)

\* The least of a set of numbers: induction for what the library's theorems
\* with an operator for a parameter cannot be used for.
LEMMA LeastNat ==
    ASSUME NEW S \in SUBSET Nat, S # {}
    PROVE  \E m \in S : \A n \in S : m <= n
<1>1. PICK m \in S : \A n \in S : ~(<<n, m>> \in OpToRel(<, Nat))
  BY NatLessThanWellFounded, WFMin, Zenon
<1>2. \A n \in S : n < m => <<n, m>> \in OpToRel(<, Nat)
  BY DEF OpToRel
<1>3. \A n \in S : ~(n < m)
  BY <1>1, <1>2, Zenon
<1>. QED  BY <1>3

\* A set of finite sets that is not empty has a member of the least size.
LEMMA LeastSet ==
    ASSUME NEW T, IsFiniteSet(T), NEW B \in SUBSET (SUBSET T), B # {}
    PROVE  \E s \in B : /\ IsFiniteSet(s)
                        /\ \A x \in s : s \ {x} \notin B
<1>. DEFINE C == {n \in Nat : \E s \in B : Cardinality(s) = n}
<1>1. \A s \in B : IsFiniteSet(s) /\ Cardinality(s) \in Nat
  BY FS_Subset, FS_CardinalityType
<1>2. C # {} /\ C \in SUBSET Nat
  BY <1>1
<1>3. PICK m \in C : \A n \in C : m <= n
  <2>. HIDE DEF C
  <2>. QED  BY <1>2, LeastNat
<1>4. PICK s \in B : Cardinality(s) = m
  BY <1>3
<1>5. ASSUME NEW x \in s, s \ {x} \in B  PROVE FALSE
  <2>1. Cardinality(s \ {x}) = m - 1
    BY <1>1, <1>4, FS_RemoveElement
  <2>2. m - 1 \in C
    BY <1>1, <1>5, <2>1
  <2>. QED  BY <1>3, <2>2
<1>. QED  BY <1>1, <1>5

Picked(s) == CHOOSE x \in s : TRUE

LEMMA PickedIsMember ==
    ASSUME NEW s, s # {}
    PROVE  Picked(s) \in s
BY DEF Picked

\* it sums g over each set of D.
Sums(it, g, D) ==
    it = [s \in D |-> IF s = {} THEN 0 ELSE LET x == Picked(s) IN g[x] + it[s \ {x}]]

LEMMA SumUnfolds ==
    ASSUME NEW g, NEW T, NEW it, Sums(it, g, SUBSET T)
    PROVE  \E sums : Sums(sums, g, SUBSET T) /\ SumFunctionOnSet(g, T) = sums[T]
BY Zenon DEF SumFunctionOnSet, FoldFunctionOnSet, MapThenFoldSet, Sums, Picked

LEMMA SumStep ==
    ASSUME NEW T, NEW g, NEW it, Sums(it, g, SUBSET T), NEW s \in SUBSET T
    PROVE  /\ it[{}] = 0
           /\ s # {} => /\ Picked(s) \in s
                        /\ it[s] = g[Picked(s)] + it[s \ {Picked(s)}]
<1>1. it[s] = IF s = {} THEN 0 ELSE LET x == Picked(s) IN g[x] + it[s \ {x}]
  BY Zenon DEF Sums
<1>2. it[{}] = 0
  BY {} \in SUBSET T, Zenon DEF Sums
<1>. QED  BY <1>1, <1>2, PickedIsMember

LEMMA SumTyped ==
    ASSUME NEW T, IsFiniteSet(T), NEW g \in [T -> Nat], NEW it, Sums(it, g, SUBSET T),
           NEW s \in SUBSET T
    PROVE  it[s] \in Nat
<1>. DEFINE B == {b \in SUBSET T : it[b] \notin Nat}
<1>. SUFFICES ASSUME B # {}  PROVE FALSE
  OBVIOUS
<1>1. PICK b \in B : \A x \in b : b \ {x} \notin B
  <2>. HIDE DEF B
  <2>1. B \in SUBSET (SUBSET T)
    BY DEF B
  <2>. QED  BY <2>1, LeastSet
<1>2. b # {}
  <2>1. it[{}] \in Nat
    BY SumStep
  <2>2. it[b] \notin Nat
    OBVIOUS
  <2>. QED  BY <2>1, <2>2, Zenon
<1>3. Picked(b) \in b /\ it[b] = g[Picked(b)] + it[b \ {Picked(b)}]
  BY <1>2, SumStep
<1>4. it[b \ {Picked(b)}] \in Nat
  BY <1>1, <1>3
<1>. QED  BY <1>3, <1>4

LEMMA SumsDiffer ==
    ASSUME NEW T, IsFiniteSet(T), NEW g \in [T -> Nat], NEW h \in [T -> Nat],
           NEW it, Sums(it, g, SUBSET T), NEW jt, Sums(jt, h, SUBSET T),
           NEW a \in T, \A x \in T \ {a} : g[x] = h[x], NEW s \in SUBSET T
    PROVE  it[s] + (IF a \in s THEN h[a] ELSE 0) = jt[s] + (IF a \in s THEN g[a] ELSE 0)
<1>. DEFINE Same(b) == it[b] + (IF a \in b THEN h[a] ELSE 0) = jt[b] + (IF a \in b THEN g[a] ELSE 0)
            B == {b \in SUBSET T : ~Same(b)}
<1>. SUFFICES ASSUME B # {}  PROVE FALSE
  OBVIOUS
<1>1. PICK b \in B : \A x \in b : b \ {x} \notin B
  <2>. HIDE DEF B
  <2>1. B \in SUBSET (SUBSET T)
    BY DEF B
  <2>. QED  BY <2>1, LeastSet
<1>2. b # {}
  <2>1. {} \in SUBSET T
    OBVIOUS
  <2>2. it[{}] = 0 /\ jt[{}] = 0
    <3>. HIDE DEF B, Same
    <3>1. it[{}] = 0
      BY <2>1, SumStep
    <3>2. jt[{}] = 0
      BY <2>1, SumStep
    <3>. QED  BY <3>1, <3>2
  <2>. QED  BY <2>2
<1>. DEFINE x == Picked(b)
<1>3. x \in b /\ it[b] = g[x] + it[b \ {x}] /\ jt[b] = h[x] + jt[b \ {x}]
  <2>. HIDE DEF Same
  <2>1. b \in SUBSET T
    OBVIOUS
  <2>2. Picked(b) \in b /\ it[b] = g[Picked(b)] + it[b \ {Picked(b)}]
    BY <1>2, <2>1, SumStep
  <2>3. jt[b] = h[Picked(b)] + jt[b \ {Picked(b)}]
    BY <1>2, <2>1, SumStep
  <2>. QED  BY <2>2, <2>3
<1>4. Same(b \ {x})
  BY <1>1, <1>3
<1>5. it[b \ {x}] \in Nat /\ jt[b \ {x}] \in Nat
  BY SumTyped
<1>. HIDE DEF x
<1>6. CASE x = a
  <2>1. it[b \ {x}] = jt[b \ {x}]
    BY <1>4, <1>5, <1>6
  <2>. QED  BY <1>3, <1>5, <1>6, <2>1
<1>7. CASE x # a
  BY <1>3, <1>4, <1>5, <1>7
<1>. QED  BY <1>6, <1>7

\* A function that sums exists: summing over the sets of at most n elements for
\* every n.
LEMMA SumExists ==
    ASSUME NEW T, IsFiniteSet(T), NEW g \in [T -> Nat]
    PROVE  \E it : Sums(it, g, SUBSET T)
<1>. DEFINE Upto(n) == {s \in SUBSET T : Cardinality(s) <= n}
            B == {n \in Nat : ~\E it : Sums(it, g, Upto(n))}
<1>1. \A s \in SUBSET T : IsFiniteSet(s) /\ Cardinality(s) \in Nat
  BY FS_Subset, FS_CardinalityType
<1>2. ASSUME B # {}  PROVE FALSE
  <2>1. PICK n \in B : \A m \in B : n <= m
    <3>. HIDE DEF B
    <3>1. B \in SUBSET Nat
      BY DEF B
    <3>. QED  BY <1>2, <3>1, LeastNat
  <2>2. CASE n = 0
    <3>1. \A s \in Upto(0) : s = {}
      BY <1>1, FS_EmptySet
    <3>2. Sums([s \in Upto(0) |-> 0], g, Upto(0))
      BY <3>1 DEF Sums
    <3>. QED  BY <2>1, <2>2, <3>2
  <2>3. CASE n # 0
    <3>1. n - 1 \in Nat /\ n - 1 \notin B
      <4>. DEFINE Built(m) == \E it : Sums(it, g, Upto(m))
      <4>1. B = {m \in Nat : ~Built(m)}
        OBVIOUS
      <4>. HIDE DEF B, Built
      <4>. QED  BY <2>1, <2>3, <4>1
    <3>2. PICK it : Sums(it, g, Upto(n - 1))
      BY <3>1
    <3>. DEFINE jt == [s \in Upto(n) |-> IF s = {} THEN 0 ELSE LET x == Picked(s) IN g[x] + it[s \ {x}]]
    <3>3. ASSUME NEW s \in Upto(n - 1)  PROVE jt[s] = it[s] /\ s \in Upto(n)
      <4>1. it[s] = IF s = {} THEN 0 ELSE LET x == Picked(s) IN g[x] + it[s \ {x}]
        BY <3>2, Zenon DEF Sums
      <4>2. s \in Upto(n)
        BY <1>1, <2>1
      <4>. QED  BY <4>1, <4>2
    <3>4. ASSUME NEW s \in Upto(n), s # {}  PROVE s \ {Picked(s)} \in Upto(n - 1)
      <4>1. Picked(s) \in s
        BY <3>4, PickedIsMember
      <4>2. Cardinality(s \ {Picked(s)}) = Cardinality(s) - 1
        BY <1>1, <4>1, FS_RemoveElement
      <4>. QED  BY <1>1, <2>1, <4>2
    <3>5. \A s \in Upto(n) : jt[s] = IF s = {} THEN 0 ELSE LET x == Picked(s) IN g[x] + jt[s \ {x}]
      <4>. SUFFICES ASSUME NEW s \in Upto(n), s # {}
                    PROVE  jt[s] = g[Picked(s)] + jt[s \ {Picked(s)}]
        OBVIOUS
      <4>1. jt[s] = g[Picked(s)] + it[s \ {Picked(s)}]
        OBVIOUS
      <4>2. jt[s \ {Picked(s)}] = it[s \ {Picked(s)}]
        <5>. HIDE DEF jt, Upto
        <5>. QED  BY <3>3, <3>4
      <4>. QED  BY <4>1, <4>2
    <3>6. Sums(jt, g, Upto(n))
      <4>1. jt = [s \in Upto(n) |-> jt[s]]
        OBVIOUS
      <4>. HIDE DEF jt, Upto
      <4>. QED  BY <3>5, <4>1 DEF Sums
    <3>. QED  BY <2>1, <3>6
  <2>. QED  BY <2>2, <2>3
<1>3. Cardinality(T) \in Nat /\ Upto(Cardinality(T)) = SUBSET T
  BY <1>1, FS_Subset, FS_CardinalityType
<1>. QED  BY <1>2, <1>3

\* What a sum is, without naming the function behind it.
LEMMA SumInNat ==
    ASSUME NEW T, IsFiniteSet(T), NEW g \in [T -> Nat]
    PROVE  SumFunction(g) \in Nat
<1>1. PICK it : Sums(it, g, SUBSET T) /\ SumFunctionOnSet(g, T) = it[T]
  BY SumExists, SumUnfolds
<1>. QED  BY <1>1, SumTyped DEF SumFunction

LEMMA SumChanges ==
    ASSUME NEW T, IsFiniteSet(T), NEW g \in [T -> Nat], NEW h \in [T -> Nat], NEW a \in T,
           \A x \in T \ {a} : g[x] = h[x]
    PROVE  SumFunction(g) + h[a] = SumFunction(h) + g[a]
<1>1. PICK it : Sums(it, g, SUBSET T) /\ SumFunctionOnSet(g, T) = it[T]
  BY SumExists, SumUnfolds
<1>2. PICK jt : Sums(jt, h, SUBSET T) /\ SumFunctionOnSet(h, T) = jt[T]
  BY SumExists, SumUnfolds
<1>3. it[T] + h[a] = jt[T] + g[a]
  BY <1>1, <1>2, SumsDiffer
<1>. QED  BY <1>1, <1>2, <1>3 DEF SumFunction

LEMMA SumOfNone ==
    ASSUME NEW T, IsFiniteSet(T), NEW g \in [T -> Nat], \A x \in T : g[x] = 0
    PROVE  SumFunction(g) = 0
<1>1. PICK it : Sums(it, g, SUBSET T) /\ SumFunctionOnSet(g, T) = it[T]
  BY SumExists, SumUnfolds
<1>. DEFINE B == {b \in SUBSET T : it[b] # 0}
<1>2. ASSUME B # {}  PROVE FALSE
  <2>1. PICK b \in B : \A x \in b : b \ {x} \notin B
    <3>. HIDE DEF B
    <3>1. B \in SUBSET (SUBSET T)
      BY DEF B
    <3>. QED  BY <1>2, <3>1, LeastSet
  <2>2. b # {}
    BY <1>1, SumStep
  <2>3. Picked(b) \in b /\ it[b] = g[Picked(b)] + it[b \ {Picked(b)}]
    BY <1>1, <2>2, SumStep
  <2>4. it[b \ {Picked(b)}] = 0
    BY <2>1, <2>3
  <2>. QED  BY <2>3, <2>4
<1>. QED  BY <1>1, <1>2 DEF SumFunction
-----------------------------------------------------------------------------
(* The data.                                                               *)

LEMMA SceneTyped ==
    ASSUME scene \in DOMAIN Scenes
    PROVE  /\ Scene.files \in Seq(TestFiles) /\ IsInjective(Scene.files) /\ Scene.files # <<>>
           /\ Scene.kids \in Kids /\ Scene.warm \in BOOLEAN
           /\ Scene.choices \in SUBSET (Devices \cup {NoDevice})
<1>. DEFINE Kind == [files : Seq(TestFiles), tests : [TestFiles -> Nat], kids : Kids, warm : BOOLEAN,
                     choices : SUBSET (Devices \cup {NoDevice}), bounds : [Occasions -> Nat]]
<1>2. Scenes[scene] \in Kind
  <2>1. Scenes \in Seq(Kind)
    BY McpAssumption DEF McpWellFormed
  <2>. HIDE DEF Kind
  <2>. QED  BY <2>1
<1>3. IsInjective(Scenes[scene].files) /\ Scenes[scene].files # <<>>
  BY McpAssumption DEF McpWellFormed
<1>. QED  BY <1>2, <1>3 DEF Scene

LEMMA MinIsMember ==
    ASSUME NEW S \in SUBSET Nat, S # {}
    PROVE  Min(S) \in S
<1>1. PICK m \in S : \A n \in S : m <= n
  BY LeastNat
<1>. QED  BY <1>1 DEF Min

LEMMA FreeTyped ==
    ASSUME McpTypeOK, Free # {}
    PROVE  Min(Free) \in Kids /\ kid[Min(Free)].state = "gone"
<1>. scene \in DOMAIN Scenes
  BY DEF McpTypeOK, ListTyped, TargetTyped, CallsTyped, RunTyped, KidsTyped, ResultsTyped
<1>1. Free \in SUBSET Nat
  BY SceneTyped DEF Free, Kids
<1>2. Min(Free) \in Free
  BY <1>1, MinIsMember
<1>3. \A k \in 1..Scene.kids : k \in Kids
  BY SceneTyped, McpAssumption DEF McpWellFormed, Kids
<1>. QED  BY <1>2, <1>3 DEF Free

LEMMA NextCallTyped ==
    ASSUME McpTypeOK, NEW c \in NextCall
    PROVE  c \in Calls /\ step[c] = "none"
<1>. DEFINE idle == {b \in Calls : step[b] = "none"}
<1>1. idle # {} /\ c = Min(idle)
  BY DEF NextCall
<1>2. idle \in SUBSET Nat
  BY DEF Calls
<1>. QED  BY <1>1, <1>2, MinIsMember

LEMMA CountTyped ==
    ASSUME NEW said \in Seq(Outcomes)
    PROVE  Count(said) \in [Outcomes -> Nat]
<1>1. ASSUME NEW o  PROVE Cardinality({i \in DOMAIN said : said[i] = o}) \in Nat
  <2>1. IsFiniteSet(DOMAIN said)
    BY FS_Interval
  <2>. QED  BY <2>1, FS_Subset, FS_CardinalityType
<1>. QED  BY <1>1 DEF Count, Outcomes

LEMMA TalliesTyped ==
    /\ Outcomes = {"passed", "failed", "interrupted"}
    /\ Zero \in [Outcomes -> Nat] /\ OneFailure \in [Outcomes -> Nat]
    /\ \A t, u \in [Outcomes -> Nat] : Plus(t, u) \in [Outcomes -> Nat]
BY DEF Outcomes, Zero, OneFailure, Plus

LEMMA ProcessFields ==
    ASSUME NEW r \in Process
    PROVE  /\ r.state \in {"gone", "forked", "running", "closing", "exited"}
           /\ r.file \in TestFiles \cup {NoTestFile} /\ r.on \in Devices \cup {NoDevice}
           /\ r.said \in Seq(Outcomes) /\ r.mail \in Seq(Words)
           /\ r.abort \in BOOLEAN /\ r.asked \in BOOLEAN
BY DEF Process

LEMMA ProcessMade ==
    ASSUME NEW st \in {"gone", "forked", "running", "closing", "exited"},
           NEW f \in TestFiles \cup {NoTestFile}, NEW d \in Devices \cup {NoDevice},
           NEW said \in Seq(Outcomes), NEW mail \in Seq(Words), NEW ab \in BOOLEAN, NEW as \in BOOLEAN
    PROVE  [state |-> st, file |-> f, on |-> d, said |-> said, mail |-> mail, abort |-> ab, asked |-> as]
               \in Process
BY DEF Process

LEMMA GoneTyped == Gone \in Process
<1>1. <<>> \in Seq(Outcomes) /\ <<>> \in Seq(Words)
  OBVIOUS
<1>. QED  BY <1>1, ProcessMade DEF Gone

LEMMA Forked ==
    ASSUME NEW f, NEW d
    PROVE  LET r == [Gone EXCEPT !.state = "forked", !.file = f, !.on = d] IN
           /\ r.state = "forked" /\ r.file = f /\ r.on = d
           /\ r.said = <<>> /\ r.mail = <<>> /\ r.abort = FALSE /\ r.asked = FALSE
BY DEF Gone

\* A process whose record is changed in one place, and not in the others.
LEMMA ProcessChanges ==
    ASSUME NEW r \in Process
    PROVE  /\ \A s \in {"gone", "forked", "running", "closing", "exited"} : [r EXCEPT !.state = s] \in Process
           /\ \A b \in BOOLEAN : [r EXCEPT !.abort = b] \in Process
           /\ \A b \in BOOLEAN : [r EXCEPT !.asked = b] \in Process
           /\ \A m \in Seq(Words) : [r EXCEPT !.mail = m] \in Process
           /\ \A m \in Seq(Outcomes) : [r EXCEPT !.said = m] \in Process
           /\ \A f \in TestFiles : [r EXCEPT !.file = f] \in Process
           /\ \A d \in Devices \cup {NoDevice} : [r EXCEPT !.on = d] \in Process
<1>1. r = [state |-> r.state, file |-> r.file, on |-> r.on, said |-> r.said, mail |-> r.mail,
           abort |-> r.abort, asked |-> r.asked]
  BY DEF Process
<1>2. /\ r.state \in {"gone", "forked", "running", "closing", "exited"}
      /\ r.file \in TestFiles \cup {NoTestFile} /\ r.on \in Devices \cup {NoDevice}
      /\ r.said \in Seq(Outcomes) /\ r.mail \in Seq(Words) /\ r.abort \in BOOLEAN /\ r.asked \in BOOLEAN
  BY ProcessFields
<1>3. ASSUME NEW s \in {"gone", "forked", "running", "closing", "exited"}
      PROVE  [r EXCEPT !.state = s] \in Process
  <2>1. [r EXCEPT !.state = s] =
       [state |-> s, file |-> r.file, on |-> r.on, said |-> r.said, mail |-> r.mail,
        abort |-> r.abort, asked |-> r.asked]
    BY <1>1
  <2>2. [state |-> s, file |-> r.file, on |-> r.on, said |-> r.said, mail |-> r.mail,
         abort |-> r.abort, asked |-> r.asked] \in Process
    BY <1>2 DEF Process
  <2>. QED  BY <2>1, <2>2, Zenon
<1>4. ASSUME NEW b \in BOOLEAN
      PROVE  [r EXCEPT !.abort = b] \in Process
  <2>1. [r EXCEPT !.abort = b] =
       [state |-> r.state, file |-> r.file, on |-> r.on, said |-> r.said, mail |-> r.mail,
        abort |-> b, asked |-> r.asked]
    BY <1>1
  <2>2. [state |-> r.state, file |-> r.file, on |-> r.on, said |-> r.said, mail |-> r.mail,
         abort |-> b, asked |-> r.asked] \in Process
    BY <1>2 DEF Process
  <2>. QED  BY <2>1, <2>2, Zenon
<1>5. ASSUME NEW b \in BOOLEAN
      PROVE  [r EXCEPT !.asked = b] \in Process
  <2>1. [r EXCEPT !.asked = b] =
       [state |-> r.state, file |-> r.file, on |-> r.on, said |-> r.said, mail |-> r.mail,
        abort |-> r.abort, asked |-> b]
    BY <1>1
  <2>2. [state |-> r.state, file |-> r.file, on |-> r.on, said |-> r.said, mail |-> r.mail,
         abort |-> r.abort, asked |-> b] \in Process
    BY <1>2 DEF Process
  <2>. QED  BY <2>1, <2>2, Zenon
<1>6. ASSUME NEW m \in Seq(Words)
      PROVE  [r EXCEPT !.mail = m] \in Process
  <2>1. [r EXCEPT !.mail = m] =
       [state |-> r.state, file |-> r.file, on |-> r.on, said |-> r.said, mail |-> m,
        abort |-> r.abort, asked |-> r.asked]
    BY <1>1
  <2>2. [state |-> r.state, file |-> r.file, on |-> r.on, said |-> r.said, mail |-> m,
         abort |-> r.abort, asked |-> r.asked] \in Process
    BY <1>2 DEF Process
  <2>. QED  BY <2>1, <2>2, Zenon
<1>7. ASSUME NEW m \in Seq(Outcomes)
      PROVE  [r EXCEPT !.said = m] \in Process
  <2>1. [r EXCEPT !.said = m] =
       [state |-> r.state, file |-> r.file, on |-> r.on, said |-> m, mail |-> r.mail,
        abort |-> r.abort, asked |-> r.asked]
    BY <1>1
  <2>2. [state |-> r.state, file |-> r.file, on |-> r.on, said |-> m, mail |-> r.mail,
         abort |-> r.abort, asked |-> r.asked] \in Process
    BY <1>2 DEF Process
  <2>. QED  BY <2>1, <2>2, Zenon
<1>8. ASSUME NEW f \in TestFiles
      PROVE  [r EXCEPT !.file = f] \in Process
  <2>1. [r EXCEPT !.file = f] =
       [state |-> r.state, file |-> f, on |-> r.on, said |-> r.said, mail |-> r.mail,
        abort |-> r.abort, asked |-> r.asked]
    BY <1>1
  <2>2. [state |-> r.state, file |-> f, on |-> r.on, said |-> r.said, mail |-> r.mail,
         abort |-> r.abort, asked |-> r.asked] \in Process
    BY <1>2 DEF Process
  <2>. QED  BY <2>1, <2>2, Zenon
<1>9. ASSUME NEW d \in Devices \cup {NoDevice}
      PROVE  [r EXCEPT !.on = d] \in Process
  <2>1. [r EXCEPT !.on = d] =
       [state |-> r.state, file |-> r.file, on |-> d, said |-> r.said, mail |-> r.mail,
        abort |-> r.abort, asked |-> r.asked]
    BY <1>1
  <2>2. [state |-> r.state, file |-> r.file, on |-> d, said |-> r.said, mail |-> r.mail,
         abort |-> r.abort, asked |-> r.asked] \in Process
    BY <1>2 DEF Process
  <2>. QED  BY <2>1, <2>2, Zenon
<1>. QED  BY <1>3, <1>4, <1>5, <1>6, <1>7, <1>8, <1>9

-----------------------------------------------------------------------------
(* The data stays what it is.                                              *)

LEMMA TypeInit == McpInit => McpTypeOK /\ StageInv /\ TargetInv /\ StopInv /\ ListInv
<1>. SUFFICES ASSUME McpInit  PROVE McpTypeOK /\ StageInv /\ TargetInv /\ StopInv /\ ListInv
  OBVIOUS
<1>1. <<>> \in Seq(TestFiles) /\ <<>> \in Seq(Outcomes)
  OBVIOUS
<1>2. verdict \in [status : {"none", "stopped", "failed", "passed"}, tally : [Outcomes -> Nat]]
  BY TalliesTyped DEF McpInit, NoRun
<1>3. McpTypeOK
  BY <1>1, <1>2, SceneTyped, TalliesTyped, GoneTyped DEF McpInit, McpTypeOK, ListTyped, TargetTyped, CallsTyped, RunTyped, KidsTyped, ResultsTyped, Steps, Nobody, NoKid
<1>4. StageInv
  BY DEF McpInit, StageInv, Nobody, NoKid, Gone, Calls
<1>5. TargetInv /\ StopInv /\ ListInv
  BY DEF McpInit, TargetInv, StopInv, ListInv, HasTarget, Nobody, NoKid
<1>. QED  BY <1>3, <1>4, <1>5

\* What the actions do to the step of a call.
LEMMA RefreshTyped ==
    ASSUME McpTypeOK, NEW c \in Calls, Refresh(c)
    PROVE  /\ listed' \in {"no", "first", "yes"} /\ sync' \in {"idle", "looking", "discovering"}
           /\ queued' \in BOOLEAN
           /\ \E to \in {"first", "listing", "queued"} : Goes(c, to)
BY DEF McpTypeOK, ListTyped, TargetTyped, CallsTyped, RunTyped, KidsTyped, ResultsTyped, Refresh, ScheduleSync

LEMMA GoesTyped ==
    ASSUME McpTypeOK, NEW c \in Calls, NEW to \in Steps, Goes(c, to)
    PROVE  step' \in [Calls -> Steps]
BY DEF McpTypeOK, ListTyped, TargetTyped, CallsTyped, RunTyped, KidsTyped, ResultsTyped, Goes

LEMMA MadeTyped ==
    ASSUME McpTypeOK, NEW c \in Calls, NEW d \in Devices \cup {NoDevice}, NEW files \in Seq(TestFiles),
           Made(c, d, files)
    PROVE  /\ want' \in [Calls -> Devices \cup {NoDevice}] /\ ask' \in [Calls -> Seq(TestFiles)]
           /\ since' \in [Calls -> Nat] /\ loose' \in SUBSET Calls
BY DEF McpTypeOK, ListTyped, TargetTyped, CallsTyped, RunTyped, KidsTyped, ResultsTyped, Made

LEMMA SpendTyped ==
    ASSUME McpTypeOK, NEW o \in Occasions, Spend(o)
    PROVE  spent' \in [Occasions -> Nat]
BY DEF McpTypeOK, ListTyped, TargetTyped, CallsTyped, RunTyped, KidsTyped, ResultsTyped, Spend

LEMMA ConcludeTyped ==
    ASSUME McpTypeOK, NEW c \in Calls, Conclude(c)
    PROVE  /\ listed' \in {"no", "first", "yes"} /\ sync' \in {"idle", "looking", "discovering"}
           /\ queued' \in BOOLEAN /\ pin' \in Devices \cup {NoDevice} /\ loose' \in SUBSET Calls
           /\ \E to \in {"none", "first", "listing", "queued"} : Goes(c, to)
<1>1. listed' \in {"no", "first", "yes"} /\ sync' \in {"idle", "looking", "discovering"} /\ queued' \in BOOLEAN
  BY RefreshTyped DEF Conclude, McpTypeOK, ListTyped, TargetTyped, CallsTyped, RunTyped, KidsTyped, ResultsTyped
<1>2. pin' \in Devices \cup {NoDevice} /\ loose' \in SUBSET Calls
  BY DEF Conclude, McpTypeOK, ListTyped, TargetTyped, CallsTyped, RunTyped, KidsTyped, ResultsTyped
<1>3. \E to \in {"none", "first", "listing", "queued"} : Goes(c, to)
  BY RefreshTyped DEF Conclude
<1>. QED  BY <1>1, <1>2, <1>3

LEMMA FinishTyped ==
    ASSUME McpTypeOK, NEW t \in [Outcomes -> Nat], Finish(t)
    PROVE  RunTyped'
<1>1. step' \in [Calls -> Steps]
  BY DEF Finish, Goes, McpTypeOK, ListTyped, TargetTyped, CallsTyped, RunTyped, KidsTyped, ResultsTyped, Steps
<1>2. verdict' \in [status : {"none", "stopped", "failed", "passed"}, tally : [Outcomes -> Nat]]
  BY DEF Finish
<1>3. <<>> \in Seq(TestFiles) /\ Zero \in [Outcomes -> Nat]
  BY TalliesTyped
<1>. QED  BY <1>1, <1>2, <1>3 DEF Finish, RunTyped

LEMMA GoOnTyped ==
    ASSUME McpTypeOK, NEW t \in [Outcomes -> Nat], NEW rest \in Seq(TestFiles),
           NEW armed \in Kids \cup {NoKid}, GoOn(t, rest, armed)
    PROVE  RunTyped'
<1>1. CASE stopRequested \/ rest = <<>>
  BY <1>1, FinishTyped DEF GoOn
<1>2. CASE ~(stopRequested \/ rest = <<>>)
  BY <1>2 DEF GoOn, RunTyped, McpTypeOK, ListTyped, TargetTyped, CallsTyped, RunTyped, KidsTyped, ResultsTyped
<1>. QED  BY <1>1, <1>2

LEMMA FileFailsTyped ==
    ASSUME McpTypeOK, todo # <<>>, NEW armed \in Kids \cup {NoKid}, FileFails(armed)
    PROVE  RunTyped' /\ broken' \in SUBSET TestFiles
<1>1. Head(todo) \in TestFiles /\ Tail(todo) \in Seq(TestFiles)
  BY HeadTailProperties DEF McpTypeOK, ListTyped, TargetTyped, CallsTyped, RunTyped, KidsTyped, ResultsTyped
<1>2. CASE stopRequested
  <2>1. Plus(tally, Count(results[Head(todo)])) \in [Outcomes -> Nat]
    BY <1>1, CountTyped, TalliesTyped DEF McpTypeOK, ListTyped, TargetTyped, CallsTyped, RunTyped, KidsTyped, ResultsTyped
  <2>. QED  BY <1>2, <2>1, FinishTyped DEF FileFails, McpTypeOK, ListTyped, TargetTyped, CallsTyped, RunTyped, KidsTyped, ResultsTyped
<1>3. CASE ~stopRequested
  <2>1. Plus(tally, OneFailure) \in [Outcomes -> Nat]
    BY TalliesTyped DEF McpTypeOK, ListTyped, TargetTyped, CallsTyped, RunTyped, KidsTyped, ResultsTyped
  <2>. QED  BY <1>1, <1>3, <2>1, GoOnTyped DEF FileFails, McpTypeOK, ListTyped, TargetTyped, CallsTyped, RunTyped, KidsTyped, ResultsTyped
<1>. QED  BY <1>2, <1>3

LEMMA ForkTyped ==
    ASSUME McpTypeOK, todo # <<>>, device' \in Devices \cup {NoDevice}, Fork
    PROVE  /\ RunTyped' /\ broken' \in SUBSET TestFiles
           /\ kid' \in [Kids -> Process] /\ awaited' \in Kids \cup {NoKid} /\ active' \in Kids \cup {NoKid}
           /\ unrun' \in BOOLEAN
<1>1. Min(Free) \in Kids
  BY FreeTyped DEF Fork
<1>2. Head(todo) \in TestFiles
  BY HeadTailProperties DEF McpTypeOK, ListTyped, TargetTyped, CallsTyped, RunTyped, KidsTyped, ResultsTyped
<1>3. [Gone EXCEPT !.state = "forked", !.file = Head(todo), !.on = device'] \in Process
  <2>1. [Gone EXCEPT !.state = "forked", !.file = Head(todo), !.on = device'] =
            [[[Gone EXCEPT !.state = "forked"] EXCEPT !.file = Head(todo)] EXCEPT !.on = device']
    BY DEF Gone
  <2>2. [Gone EXCEPT !.state = "forked"] \in Process
    BY GoneTyped, ProcessChanges
  <2>3. [[Gone EXCEPT !.state = "forked"] EXCEPT !.file = Head(todo)] \in Process
    BY <1>2, <2>2, ProcessChanges
  <2>4. [[[Gone EXCEPT !.state = "forked"] EXCEPT !.file = Head(todo)] EXCEPT !.on = device'] \in Process
    BY <2>3, ProcessChanges
  <2>. QED  BY <2>1, <2>4
<1>4. kid' \in [Kids -> Process]
  BY <1>1, <1>3 DEF Fork, McpTypeOK, ListTyped, TargetTyped, CallsTyped, RunTyped, KidsTyped, ResultsTyped
<1>5. RunTyped'
  BY DEF Fork, McpTypeOK, RunTyped
<1>. QED  BY <1>1, <1>4, <1>5 DEF Fork, McpTypeOK, ListTyped, TargetTyped, CallsTyped, RunTyped, KidsTyped, ResultsTyped

\* What keeps its type because no variable of it changes.
LEMMA Unmoved ==
    /\ ListTyped /\ UNCHANGED fileVars => ListTyped'
    /\ TargetTyped /\ UNCHANGED targetVars => TargetTyped'
    /\ CallsTyped /\ UNCHANGED <<want, ask, tried, asks, since, loose>> => CallsTyped'
    /\ RunTyped /\ UNCHANGED <<runner, stopRequested, stage, todo, tally, verdict, step, late, tries,
                               corner, timer>> => RunTyped'
    /\ KidsTyped /\ UNCHANGED <<kid, awaited, active, unrun>> => KidsTyped'
    /\ ResultsTyped /\ UNCHANGED <<results, broken, aim, meant>> => ResultsTyped'
BY DEF ListTyped, TargetTyped, CallsTyped, RunTyped, KidsTyped, ResultsTyped, fileVars, targetVars

LEMMA KidMovesTyped ==
    ASSUME McpTypeOK, NEW k \in Kids, NEW new \in Process, KidMoves(k, new), spent' \in [Occasions -> Nat]
    PROVE  McpTypeOK'
<1>1. KidsTyped'
  BY DEF McpTypeOK, KidsTyped, KidMoves, ghostVars
<1>. QED  BY <1>1, Unmoved DEF McpTypeOK, KidMoves, callVars, stageVars, ghostVars

LEMMA ListActionsTyped ==
    ASSUME McpTypeOK, \/ Look \/ EndSync \/ Save \/ DebounceFires \/ \E c \in Calls : RefreshAgain(c)
    PROVE  McpTypeOK'
<1>1. CASE Look
  <2>1. ListTyped'
    BY <1>1 DEF McpTypeOK, ListTyped, Look
  <2>. QED  BY <1>1, <2>1, Unmoved DEF McpTypeOK, Look, callVars, stageVars, kidVars, ghostVars
<1>2. CASE EndSync
  <2>1. ListTyped'
    BY <1>2 DEF McpTypeOK, ListTyped, EndSync
  <2>2. step' \in [Calls -> Steps]
    BY <1>2 DEF McpTypeOK, RunTyped, EndSync, Steps
  <2>3. RunTyped'
    BY <1>2, <2>2 DEF McpTypeOK, RunTyped, EndSync, stageVars, kidVars, ghostVars
  <2>4. since' \in [Calls -> Nat]
    BY <1>2 DEF McpTypeOK, CallsTyped, EndSync
  <2>5. CallsTyped'
    BY <1>2, <2>4 DEF McpTypeOK, CallsTyped, EndSync, ghostVars
  <2>. QED  BY <1>2, <2>1, <2>3, <2>5, Unmoved DEF McpTypeOK, EndSync, stageVars, kidVars, ghostVars
<1>3. CASE Save
  <2>1. spent' \in [Occasions -> Nat]
    BY <1>3, SpendTyped DEF Save, Occasions
  <2>2. ListTyped' /\ KidsTyped'
    BY <1>3 DEF McpTypeOK, ListTyped, KidsTyped, Save, kidVars
  <2>. QED  BY <1>3, <2>1, <2>2, Unmoved DEF McpTypeOK, Save, callVars, stageVars, kidVars
<1>4. CASE DebounceFires
  <2>1. PICK c \in NextCall : Made(c, NoDevice, <<Watched>>) /\ Refresh(c)
    BY <1>4 DEF DebounceFires
  <2>2. c \in Calls /\ <<Watched>> \in Seq(TestFiles)
    BY NextCallTyped, McpAssumption DEF McpWellFormed
  <2>3. CallsTyped'
    BY <1>4, <2>1, <2>2, MadeTyped DEF DebounceFires, McpTypeOK, CallsTyped
  <2>4. step' \in [Calls -> Steps]
    BY <2>1, <2>2, RefreshTyped, GoesTyped DEF Steps
  <2>5. RunTyped'
    BY <1>4, <2>4 DEF McpTypeOK, RunTyped, DebounceFires, stageVars, kidVars
  <2>6. listed' \in {"no", "first", "yes"} /\ sync' \in {"idle", "looking", "discovering"} /\ queued' \in BOOLEAN
    BY <2>1, <2>2, RefreshTyped
  <2>7. ListTyped'
    BY <1>4, <2>6 DEF McpTypeOK, ListTyped, DebounceFires
  <2>. QED  BY <1>4, <2>3, <2>5, <2>7, Unmoved DEF McpTypeOK, DebounceFires, stageVars, kidVars
<1>5. ASSUME NEW c \in Calls, RefreshAgain(c)  PROVE McpTypeOK'
  <2>1. step' \in [Calls -> Steps]
    BY <1>5 DEF McpTypeOK, RunTyped, RefreshAgain, ScheduleSync, Goes, Steps
  <2>2. RunTyped'
    BY <1>5, <2>1 DEF McpTypeOK, RunTyped, RefreshAgain, stageVars, kidVars, ghostVars
  <2>3. ListTyped'
    BY <1>5 DEF McpTypeOK, ListTyped, RefreshAgain, ScheduleSync
  <2>. QED  BY <1>5, <2>2, <2>3, Unmoved DEF McpTypeOK, RefreshAgain, stageVars, kidVars, ghostVars
<1>. QED  BY <1>1, <1>2, <1>3, <1>4, <1>5

LEMMA ResolvedTyped ==
    ASSUME McpTypeOK, NEW d \in Devices \cup {NoDevice}, Resolved(d)
    PROVE  target' \in {"failed", "up"} /\ device' \in Devices \cup {NoDevice}
BY DEF Resolved, McpTypeOK, TargetTyped

LEMMA TargetActionsTyped ==
    ASSUME McpTypeOK, \/ ApplyPin \/ Prepared \/ RetryEnds \/ DaemonDies
                      \/ \E c \in Calls : Tool(c) \/ ToolAttached(c)
    PROVE  McpTypeOK'
<1>1. CASE ApplyPin
  <2>1. pin' \in Devices \cup {NoDevice} /\ applied' \in Calls \cup {Nobody}
    BY <1>1 DEF McpTypeOK, TargetTyped, CallsTyped, ApplyPin
  <2>2. TargetTyped'
    BY <1>1, <2>1 DEF McpTypeOK, TargetTyped, ApplyPin
  <2>. QED  BY <1>1, <2>2, Unmoved DEF McpTypeOK, ApplyPin, callVars, stageVars, kidVars, ghostVars
<1>2. CASE Prepared
  <2>1. TargetTyped'
    BY <1>2, ResolvedTyped DEF McpTypeOK, TargetTyped, Prepared
  <2>. QED  BY <1>2, <2>1, Unmoved DEF McpTypeOK, Prepared, callVars, stageVars, kidVars, ghostVars
<1>3. CASE RetryEnds
  <2>1. TargetTyped'
    BY <1>3, ResolvedTyped DEF McpTypeOK, TargetTyped, RetryEnds
  <2>2. step' \in [Calls -> Steps]
    BY <1>3 DEF McpTypeOK, RunTyped, RetryEnds, Steps
  <2>3. RunTyped'
    BY <1>3, <2>2 DEF McpTypeOK, RunTyped, RetryEnds, stageVars, kidVars, ghostVars
  <2>. QED  BY <1>3, <2>1, <2>3, Unmoved DEF McpTypeOK, RetryEnds, stageVars, kidVars, ghostVars
<1>4. CASE DaemonDies
  <2>1. spent' \in [Occasions -> Nat]
    BY <1>4, SpendTyped DEF DaemonDies, Occasions
  <2>2. TargetTyped'
    BY <1>4 DEF McpTypeOK, TargetTyped, DaemonDies
  <2>. QED  BY <1>4, <2>1, <2>2, Unmoved DEF McpTypeOK, DaemonDies, callVars, stageVars, kidVars, ghostVars
<1>5. ASSUME NEW c \in Calls, Tool(c)  PROVE McpTypeOK'
  <2>1. spent' \in [Occasions -> Nat]
    BY <1>5, SpendTyped DEF Tool, Occasions
  <2>2. PICK d \in Scene.choices : Made(c, d, <<>>)
    BY <1>5 DEF Tool
  <2>3. d \in Devices \cup {NoDevice} /\ <<>> \in Seq(TestFiles)
    BY SceneTyped DEF McpTypeOK
  <2>4. CallsTyped'
    BY <1>5, <2>2, <2>3, MadeTyped DEF Tool, McpTypeOK, CallsTyped
  <2>5. step' \in [Calls -> Steps]
    BY <1>5 DEF McpTypeOK, RunTyped, Tool, Goes, Steps
  <2>6. TargetTyped'
    BY <1>5 DEF McpTypeOK, TargetTyped, Tool
  <2>7. RunTyped'
    BY <1>5, <2>5 DEF McpTypeOK, RunTyped, Tool, stageVars, kidVars
  <2>. QED  BY <1>5, <2>1, <2>4, <2>6, <2>7, Unmoved DEF McpTypeOK, Tool, stageVars, kidVars
<1>6. ASSUME NEW c \in Calls, ToolAttached(c)  PROVE McpTypeOK'
  <2>1. step' \in [Calls -> Steps]
    BY <1>6 DEF McpTypeOK, RunTyped, ToolAttached, Goes, Steps
  <2>2. TargetTyped'
    BY <1>6 DEF McpTypeOK, TargetTyped, ToolAttached
  <2>3. RunTyped'
    BY <1>6, <2>1 DEF McpTypeOK, RunTyped, ToolAttached, stageVars, kidVars, ghostVars
  <2>. QED  BY <1>6, <2>2, <2>3, Unmoved DEF McpTypeOK, ToolAttached, stageVars, kidVars, ghostVars
<1>. QED  BY <1>1, <1>2, <1>3, <1>4, <1>5, <1>6

LEMMA SettleTyped ==
    ASSUME McpTypeOK, NEW c \in Calls, NEW b \in BOOLEAN, Settle(c, b)
    PROVE  /\ listed' \in {"no", "first", "yes"} /\ sync' \in {"idle", "looking", "discovering"}
           /\ queued' \in BOOLEAN /\ pin' \in Devices \cup {NoDevice} /\ loose' \in SUBSET Calls
           /\ retry' \in Calls \cup {Nobody} /\ retried' \in BOOLEAN
           /\ \E to \in {"none", "first", "listing", "queued", "resolving"} : Goes(c, to)
<1>1. CASE ~b /\ runner = Nobody /\ target = "failed"
  BY <1>1 DEF Settle, McpTypeOK, ListTyped, TargetTyped, CallsTyped
<1>2. CASE ~(~b /\ runner = Nobody /\ target = "failed")
  <2>1. Conclude(c) /\ UNCHANGED <<retried, retry>>
    BY <1>2 DEF Settle
  <2>. QED  BY <2>1, ConcludeTyped DEF McpTypeOK, TargetTyped
<1>. QED  BY <1>1, <1>2

LEMMA ChoiceActionsTyped ==
    ASSUME McpTypeOK, \E c \in Calls : Chosen(c) \/ Settled(c) \/ ResolvedForCall(c) \/ Ask(c) \/ AskGoesOn(c)
    PROVE  McpTypeOK'
<1>1. ASSUME NEW c \in Calls, Chosen(c)  PROVE McpTypeOK'
  <2>. DEFINE justTried == tried[c] /\ pin = want[c]
  <2>1. justTried \in BOOLEAN
    OBVIOUS
  <2>2. /\ listed' \in {"no", "first", "yes"} /\ sync' \in {"idle", "looking", "discovering"}
        /\ queued' \in BOOLEAN /\ pin' \in Devices \cup {NoDevice} /\ loose' \in SUBSET Calls
        /\ retry' \in Calls \cup {Nobody} /\ retried' \in BOOLEAN
        /\ \E to \in {"none", "first", "listing", "queued", "resolving", "settling"} : Goes(c, to)
    <3>1. CASE retry = Nobody
      <4>1. Settle(c, justTried)
        BY <1>1, <3>1 DEF Chosen
      <4>. QED  BY <2>1, <4>1, SettleTyped
    <3>2. CASE retry # Nobody
      BY <1>1, <3>2 DEF Chosen, McpTypeOK, ListTyped, TargetTyped, CallsTyped
    <3>. QED  BY <3>1, <3>2
  <2>3. step' \in [Calls -> Steps]
    BY <2>2, GoesTyped DEF Steps
  <2>4. ListTyped'
    BY <1>1, <2>2 DEF Chosen, McpTypeOK, ListTyped
  <2>5. pending' \in Calls \cup {Nobody} /\ applied' \in Calls \cup {Nobody}
    BY <1>1 DEF Chosen, McpTypeOK, TargetTyped
  <2>6. TargetTyped'
    BY <1>1, <2>2, <2>5 DEF Chosen, McpTypeOK, TargetTyped
  <2>7. tried' \in [Calls -> BOOLEAN]
    BY <1>1 DEF Chosen, McpTypeOK, CallsTyped
  <2>8. CallsTyped'
    BY <1>1, <2>2, <2>7 DEF Chosen, McpTypeOK, CallsTyped
  <2>9. RunTyped'
    BY <1>1, <2>3 DEF Chosen, McpTypeOK, RunTyped, stageVars, kidVars
  <2>. QED  BY <1>1, <2>4, <2>6, <2>8, <2>9, Unmoved DEF Chosen, McpTypeOK, stageVars, kidVars
<1>2. ASSUME NEW c \in Calls, Settled(c)  PROVE McpTypeOK'
  <2>1. /\ listed' \in {"no", "first", "yes"} /\ sync' \in {"idle", "looking", "discovering"}
        /\ queued' \in BOOLEAN /\ pin' \in Devices \cup {NoDevice} /\ loose' \in SUBSET Calls
        /\ retry' \in Calls \cup {Nobody} /\ retried' \in BOOLEAN
        /\ \E to \in {"none", "first", "listing", "queued", "resolving"} : Goes(c, to)
    BY <1>2, SettleTyped DEF Settled, McpTypeOK, CallsTyped
  <2>3. step' \in [Calls -> Steps]
    BY <2>1, GoesTyped DEF Steps
  <2>4. ListTyped'
    BY <1>2, <2>1 DEF Settled, McpTypeOK, ListTyped
  <2>6. TargetTyped'
    BY <1>2, <2>1 DEF Settled, McpTypeOK, TargetTyped
  <2>8. CallsTyped'
    BY <1>2, <2>1 DEF Settled, McpTypeOK, CallsTyped
  <2>9. RunTyped'
    BY <1>2, <2>3 DEF Settled, McpTypeOK, RunTyped, stageVars, kidVars
  <2>. QED  BY <1>2, <2>4, <2>6, <2>8, <2>9, Unmoved DEF Settled, McpTypeOK, stageVars, kidVars
<1>3. ASSUME NEW c \in Calls, ResolvedForCall(c)  PROVE McpTypeOK'
  <2>1. /\ listed' \in {"no", "first", "yes"} /\ sync' \in {"idle", "looking", "discovering"}
        /\ queued' \in BOOLEAN /\ pin' \in Devices \cup {NoDevice} /\ loose' \in SUBSET Calls
        /\ \E to \in {"none", "first", "listing", "queued"} : Goes(c, to)
    BY <1>3, ConcludeTyped DEF ResolvedForCall
  <2>3. step' \in [Calls -> Steps]
    BY <2>1, GoesTyped DEF Steps
  <2>4. ListTyped'
    BY <1>3, <2>1 DEF ResolvedForCall, McpTypeOK, ListTyped
  <2>6. TargetTyped'
    BY <1>3, <2>1 DEF ResolvedForCall, McpTypeOK, TargetTyped
  <2>8. CallsTyped'
    BY <1>3, <2>1 DEF ResolvedForCall, McpTypeOK, CallsTyped
  <2>9. RunTyped'
    BY <1>3, <2>3 DEF ResolvedForCall, McpTypeOK, RunTyped, stageVars, kidVars
  <2>. QED  BY <1>3, <2>4, <2>6, <2>8, <2>9, Unmoved DEF ResolvedForCall, McpTypeOK, stageVars, kidVars
<1>4. ASSUME NEW c \in Calls, Ask(c)  PROVE McpTypeOK'
  <2>1. spent' \in [Occasions -> Nat]
    BY <1>4, SpendTyped DEF Ask, Occasions
  <2>2. PICK d \in Scene.choices : Made(c, d, Scene.files) /\ Refresh(c)
    BY <1>4 DEF Ask
  <2>3. CallsTyped'
    <3>1. d \in Devices \cup {NoDevice} /\ Scene.files \in Seq(TestFiles)
      BY SceneTyped DEF McpTypeOK
    <3>. QED  BY <1>4, <2>2, <3>1, MadeTyped DEF Ask, McpTypeOK, CallsTyped
  <2>4. /\ listed' \in {"no", "first", "yes"} /\ sync' \in {"idle", "looking", "discovering"}
        /\ queued' \in BOOLEAN
        /\ \E to \in {"first", "listing", "queued"} : Goes(c, to)
    BY <2>2, RefreshTyped
  <2>5. step' \in [Calls -> Steps]
    BY <2>4, GoesTyped DEF Steps
  <2>6. ListTyped'
    BY <1>4, <2>4 DEF Ask, McpTypeOK, ListTyped
  <2>7. RunTyped'
    BY <1>4, <2>5 DEF Ask, McpTypeOK, RunTyped, stageVars, kidVars
  <2>. QED  BY <1>4, <2>1, <2>3, <2>6, <2>7, Unmoved DEF Ask, McpTypeOK, stageVars, kidVars
<1>5. ASSUME NEW c \in Calls, AskGoesOn(c)  PROVE McpTypeOK'
  <2>1. /\ listed' \in {"no", "first", "yes"} /\ sync' \in {"idle", "looking", "discovering"}
        /\ queued' \in BOOLEAN
        /\ pending' \in Calls \cup {Nobody} /\ preparing' \in {"no", "session", "resolving"}
        /\ tried' \in [Calls -> BOOLEAN]
        /\ \E to \in {"choosing", "first", "listing", "queued"} : Goes(c, to)
    <3>1. CASE want[c] # NoDevice
      BY <1>5, <3>1 DEF AskGoesOn, AskOnDevice, Prepare, McpTypeOK, ListTyped, TargetTyped, CallsTyped
    <3>2. CASE want[c] = NoDevice
      <4>1. Refresh(c) /\ UNCHANGED <<pending, preparing, tried>>
        BY <1>5, <3>2 DEF AskGoesOn
      <4>. QED  BY <4>1, RefreshTyped DEF McpTypeOK, TargetTyped, CallsTyped
    <3>. QED  BY <3>1, <3>2
  <2>2. step' \in [Calls -> Steps]
    BY <2>1, GoesTyped DEF Steps
  <2>3. ListTyped'
    BY <1>5, <2>1 DEF AskGoesOn, McpTypeOK, ListTyped
  <2>4. TargetTyped'
    BY <1>5, <2>1 DEF AskGoesOn, McpTypeOK, TargetTyped
  <2>5. CallsTyped'
    BY <1>5, <2>1 DEF AskGoesOn, McpTypeOK, CallsTyped, ghostVars
  <2>6. RunTyped'
    BY <1>5, <2>2 DEF AskGoesOn, McpTypeOK, RunTyped, stageVars, kidVars, ghostVars
  <2>. QED  BY <1>5, <2>3, <2>4, <2>5, <2>6, Unmoved DEF AskGoesOn, McpTypeOK, stageVars, kidVars, ghostVars
<1>. QED  BY <1>1, <1>2, <1>3, <1>4, <1>5

LEMMA RunActionsTyped ==
    ASSUME McpTypeOK, StageInv,
           \/ DevicesReady \/ EnsureTarget \/ Probe \/ RunResolves \/ Stop \/ Escalate \/ TimesOut
           \/ \E c \in Calls : StartRun(c)
    PROVE  McpTypeOK'
<1>1. CASE DevicesReady
  <2>1. RunTyped'
    BY <1>1, GoOnTyped DEF DevicesReady, McpTypeOK, RunTyped
  <2>. QED  BY <1>1, <2>1, Unmoved DEF DevicesReady, McpTypeOK
<1>2. CASE EnsureTarget
  <2>1. todo # <<>>
    BY <1>2 DEF EnsureTarget, EnsureNow, StageInv
  <2>2. RunTyped' /\ broken' \in SUBSET TestFiles /\ retried' \in BOOLEAN
    <3>1. CASE HasTarget
      BY <1>2, <3>1 DEF EnsureTarget, EnsureNow, McpTypeOK, RunTyped, TargetTyped, ResultsTyped
    <3>2. CASE ~HasTarget /\ retried
      BY <1>2, <2>1, <3>2, FileFailsTyped DEF EnsureTarget, EnsureNow, McpTypeOK, RunTyped, TargetTyped
    <3>3. CASE ~HasTarget /\ ~retried
      <4>1. /\ stage' = "resolving" /\ retried' = TRUE /\ tries' = tries + 1
            /\ UNCHANGED <<runner, stopRequested, todo, tally, verdict, broken, timer, step, late, corner>>
        BY <1>2, <3>3 DEF EnsureTarget, EnsureNow
      <4>. QED  BY <4>1 DEF McpTypeOK, RunTyped, ResultsTyped
    <3>. QED  BY <3>1, <3>2, <3>3
  <2>3. TargetTyped'
    BY <1>2, <2>2 DEF EnsureTarget, EnsureNow, McpTypeOK, TargetTyped
  <2>4. ResultsTyped'
    <3>1. aim' \in {aim, pin} /\ UNCHANGED <<results, meant>>
      BY <1>2 DEF EnsureTarget, EnsureNow
    <3>. QED  BY <2>2, <3>1 DEF McpTypeOK, ResultsTyped, TargetTyped
  <2>. QED  BY <1>2, <2>2, <2>3, <2>4, Unmoved DEF EnsureTarget, EnsureNow, McpTypeOK
<1>3. CASE Probe
  <2>1. todo # <<>>
    BY <1>3 DEF Probe, StageInv
  <2>2. CASE target = "up" /\ UNCHANGED <<target, device, retried, aim, loose>> /\ Fork
    <3>1. /\ RunTyped' /\ broken' \in SUBSET TestFiles /\ unrun' \in BOOLEAN
          /\ kid' \in [Kids -> Process] /\ awaited' \in Kids \cup {NoKid} /\ active' \in Kids \cup {NoKid}
      BY <2>1, <2>2, ForkTyped DEF McpTypeOK, TargetTyped
    <3>2. KidsTyped' /\ ResultsTyped'
      BY <1>3, <2>2, <3>1 DEF Probe, McpTypeOK, KidsTyped, ResultsTyped
    <3>3. TargetTyped'
      BY <1>3, <2>2 DEF Probe, McpTypeOK, TargetTyped
    <3>. QED  BY <1>3, <2>2, <3>1, <3>2, <3>3, Unmoved DEF Probe, McpTypeOK
  <2>3. CASE /\ target = "dead" /\ target' = "failed" /\ device' = NoDevice
             /\ stage' = "resolving" /\ retried' = TRUE /\ aim' = pin /\ tries' = 1
             /\ loose' = loose \cup LetThrough
             /\ UNCHANGED <<runner, stopRequested, todo, tally, verdict, broken, kidVars, step, late, corner,
                            unrun>>
    <3>1. TargetTyped'
      BY <1>3, <2>3 DEF Probe, McpTypeOK, TargetTyped
    <3>2. RunTyped'
      BY <1>3, <2>3 DEF Probe, McpTypeOK, RunTyped, kidVars
    <3>3. CallsTyped'
      BY <1>3, <2>3 DEF Probe, McpTypeOK, CallsTyped, LetThrough
    <3>4. ResultsTyped'
      BY <1>3, <2>3 DEF Probe, McpTypeOK, ResultsTyped, TargetTyped
    <3>. QED  BY <1>3, <2>3, <3>1, <3>2, <3>3, <3>4, Unmoved DEF Probe, McpTypeOK, kidVars
  <2>. QED  BY <1>3, <2>2, <2>3 DEF Probe
<1>4. CASE RunResolves
  <2>1. todo # <<>> /\ target' \in {"failed", "up"} /\ device' \in Devices \cup {NoDevice}
    <3>1. Resolved(aim) /\ stage = "resolving"
      BY <1>4 DEF RunResolves
    <3>. QED  BY <3>1, ResolvedTyped DEF McpTypeOK, ResultsTyped, StageInv
  <2>2. /\ RunTyped' /\ broken' \in SUBSET TestFiles /\ unrun' \in BOOLEAN
        /\ kid' \in [Kids -> Process] /\ awaited' \in Kids \cup {NoKid} /\ active' \in Kids \cup {NoKid}
    <3>1. CASE target' = "up"
      BY <1>4, <2>1, <3>1, ForkTyped DEF RunResolves
    <3>2. CASE target' # "up"
      <4>1. FileFails(timer) /\ timer \in Kids \cup {NoKid}
        BY <1>4, <3>2 DEF RunResolves, McpTypeOK, RunTyped
      <4>2. RunTyped' /\ broken' \in SUBSET TestFiles
        BY <2>1, <4>1, FileFailsTyped
      <4>. QED  BY <1>4, <3>2, <4>2 DEF RunResolves, McpTypeOK, KidsTyped
    <3>. QED  BY <3>1, <3>2
  <2>3. KidsTyped' /\ ResultsTyped'
    BY <1>4, <2>2 DEF RunResolves, McpTypeOK, KidsTyped, ResultsTyped
  <2>4. TargetTyped'
    BY <1>4, <2>1 DEF RunResolves, McpTypeOK, TargetTyped
  <2>. QED  BY <1>4, <2>2, <2>3, <2>4, Unmoved DEF RunResolves, McpTypeOK
<1>5. CASE Stop
  <2>1. spent' \in [Occasions -> Nat]
    BY <1>5, SpendTyped DEF Stop, AskToAbort, Occasions
  <2>2. kid' \in [Kids -> Process]
    <3>1. CASE active = NoKid
      BY <1>5, <3>1 DEF Stop, AskToAbort, McpTypeOK, KidsTyped
    <3>2. CASE active # NoKid
      <4>1. active \in Kids /\ kid[active] \in Process
        BY <3>2 DEF McpTypeOK, KidsTyped
      <4>2. [kid[active] EXCEPT !.abort = TRUE] \in Process
        BY <4>1, ProcessChanges
      <4>3. kid' = [kid EXCEPT ![active] = [kid[active] EXCEPT !.abort = TRUE]]
        BY <1>5, <3>2 DEF Stop, AskToAbort
      <4>. QED  BY <4>1, <4>2, <4>3 DEF McpTypeOK, KidsTyped
    <3>. QED  BY <3>1, <3>2
  <2>3. KidsTyped'
    BY <1>5, <2>2 DEF Stop, AskToAbort, McpTypeOK, KidsTyped
  <2>4. timer' \in Kids \cup {NoKid} /\ corner' \in SUBSET {"unasked", "disarmed"}
    BY <1>5 DEF Stop, AskToAbort, McpTypeOK, KidsTyped, RunTyped
  <2>5. RunTyped'
    BY <1>5, <2>4 DEF Stop, AskToAbort, McpTypeOK, RunTyped, callVars
  <2>. QED  BY <1>5, <2>1, <2>3, <2>5, Unmoved DEF Stop, AskToAbort, McpTypeOK, callVars
<1>6. CASE Escalate
  <2>1. timer \in Kids /\ kid[timer] \in Process
    BY <1>6 DEF Escalate, McpTypeOK, RunTyped, KidsTyped
  <2>2. kid' \in [Kids -> Process]
    <3>1. [kid[timer] EXCEPT !.state = IF @ = "gone" THEN @ ELSE "exited"] \in Process
      <4>1. (IF kid[timer].state = "gone" THEN kid[timer].state ELSE "exited")
                \in {"gone", "forked", "running", "closing", "exited"}
        OBVIOUS
      <4>. QED  BY <2>1, <4>1, ProcessChanges
    <3>2. kid' = [kid EXCEPT ![timer] = [kid[timer] EXCEPT !.state = IF @ = "gone" THEN @ ELSE "exited"]]
      BY <1>6 DEF Escalate
    <3>. QED  BY <2>1, <3>1, <3>2 DEF McpTypeOK, KidsTyped
  <2>3. KidsTyped' /\ RunTyped'
    BY <1>6, <2>2 DEF Escalate, McpTypeOK, KidsTyped, RunTyped, stageVars, callVars, ghostVars
  <2>. QED  BY <1>6, <2>3, Unmoved DEF Escalate, McpTypeOK, callVars, stageVars, ghostVars
<1>7. CASE TimesOut
  <2>1. spent' \in [Occasions -> Nat]
    BY <1>7, SpendTyped DEF TimesOut, Occasions
  <2>2. todo # <<>> /\ awaited \in Kids /\ kid[awaited] \in Process
    BY <1>7 DEF TimesOut, StageInv, McpTypeOK, KidsTyped
  <2>3. RunTyped' /\ broken' \in SUBSET TestFiles
    BY <1>7, <2>2, FileFailsTyped DEF TimesOut
  <2>4. kid' \in [Kids -> Process]
    <3>1. [kid[awaited] EXCEPT !.state = "exited"] \in Process
      BY <2>2, ProcessChanges
    <3>2. [[kid[awaited] EXCEPT !.state = "exited"] EXCEPT !.abort = FALSE] \in Process
      BY <3>1, ProcessChanges
    <3>3. kid' = [kid EXCEPT ![awaited] = [[kid[awaited] EXCEPT !.state = "exited"] EXCEPT !.abort = FALSE]]
      BY <1>7, <2>2 DEF TimesOut, McpTypeOK, KidsTyped
    <3>. QED  BY <2>2, <3>2, <3>3 DEF McpTypeOK, KidsTyped
  <2>5. KidsTyped' /\ ResultsTyped'
    BY <1>7, <2>3, <2>4 DEF TimesOut, McpTypeOK, KidsTyped, ResultsTyped
  <2>. QED  BY <1>7, <2>1, <2>3, <2>5, Unmoved DEF TimesOut, McpTypeOK
<1>8. ASSUME NEW c \in Calls, StartRun(c)  PROVE McpTypeOK'
  <2>1. <<>> \in Seq(Outcomes) /\ <<>> \in Seq(TestFiles) /\ Zero \in [Outcomes -> Nat]
    BY TalliesTyped
  <2>2. step' \in [Calls -> Steps]
    BY <1>8 DEF StartRun, Goes, McpTypeOK, RunTyped, Steps
  <2>3. RunTyped'
    <3>1. /\ stage' \in {"none", "devices", "await", "probe", "resolving", "child"}
          /\ todo' \in Seq(TestFiles) /\ tally' \in [Outcomes -> Nat]
          /\ runner' \in Calls \cup {Nobody} /\ stopRequested' \in BOOLEAN
      <4>1. CASE runner # Nobody
        BY <1>8, <4>1 DEF StartRun, McpTypeOK, RunTyped
      <4>2. CASE runner = Nobody
        <5>1. /\ runner' = c /\ stopRequested' = FALSE /\ tally' = Zero /\ todo' = ask[c]
              /\ stage' = (IF ready THEN "await" ELSE "devices")
          BY <1>8, <4>2 DEF StartRun
        <5>. QED  BY <2>1, <5>1 DEF McpTypeOK, CallsTyped
      <4>. QED  BY <4>1, <4>2
    <3>. QED  BY <1>8, <2>2, <3>1 DEF StartRun, McpTypeOK, RunTyped, kidVars, ghostVars
  <2>4. TargetTyped'
    <3>1. preparing' \in {"no", "session", "resolving"}
      BY <1>8 DEF StartRun, Prepare, McpTypeOK, TargetTyped
    <3>2. retried' \in BOOLEAN
          /\ UNCHANGED <<ready, pending, applied, target, device, pin, retry>>
      BY <1>8 DEF StartRun, McpTypeOK, TargetTyped
    <3>. QED  BY <3>1, <3>2 DEF McpTypeOK, TargetTyped
  <2>5. ResultsTyped'
    <3>1. meant' \in SUBSET TestFiles
      <4>1. ToSet(ask[c]) \in SUBSET TestFiles
        BY DEF ToSet, McpTypeOK, CallsTyped
      <4>. QED  BY <1>8, <4>1 DEF StartRun, McpTypeOK, ResultsTyped
    <3>. QED  BY <1>8, <2>1, <3>1 DEF StartRun, McpTypeOK, ResultsTyped
  <2>. QED  BY <1>8, <2>3, <2>4, <2>5, Unmoved DEF StartRun, McpTypeOK, kidVars, ghostVars
<1>. QED  BY <1>1, <1>2, <1>3, <1>4, <1>5, <1>6, <1>7, <1>8

LEMMA KidActionsTyped ==
    ASSUME McpTypeOK, StageInv,
           \E k \in Kids : \/ KidOpens(k) \/ KidHears(k) \/ KidReports(k) \/ KidEnds(k) \/ KidExits(k)
                           \/ Deliver(k) \/ ExitSeen(k)
    PROVE  McpTypeOK'
<1>. SUFFICES ASSUME NEW k \in Kids,
                     \/ KidOpens(k) \/ KidHears(k) \/ KidReports(k) \/ KidEnds(k) \/ KidExits(k)
                     \/ Deliver(k) \/ ExitSeen(k)
              PROVE  McpTypeOK'
  OBVIOUS
<1>. DEFINE r == kid[k]
<1>a. r \in Process
  BY DEF McpTypeOK, KidsTyped
<1>b. spent \in [Occasions -> Nat]
  BY DEF McpTypeOK
<1>c. r.said \in Seq(Outcomes) /\ r.mail \in Seq(Words) /\ r.asked \in BOOLEAN
  BY <1>a, ProcessFields
<1>1. CASE KidOpens(k)
  <2>1. [r EXCEPT !.state = "running"] \in Process
    BY <1>a, ProcessChanges
  <2>. HIDE DEF r
  <2>2. KidMoves(k, [r EXCEPT !.state = "running"]) /\ UNCHANGED spent
    BY <1>1 DEF KidOpens, r
  <2>. QED  BY <1>b, <2>1, <2>2, KidMovesTyped
<1>2. CASE KidHears(k)
  <2>1. [r EXCEPT !.abort = FALSE, !.asked = @ \/ r.state = "running"] \in Process
    <3>1. [r EXCEPT !.abort = FALSE] \in Process
      BY <1>a, ProcessChanges
    <3>2. [[r EXCEPT !.abort = FALSE] EXCEPT !.asked = r.asked \/ r.state = "running"] \in Process
      BY <3>1, ProcessChanges
    <3>3. [r EXCEPT !.abort = FALSE, !.asked = @ \/ r.state = "running"] =
              [[r EXCEPT !.abort = FALSE] EXCEPT !.asked = r.asked \/ r.state = "running"]
      BY <1>a DEF Process
    <3>. QED  BY <3>2, <3>3
  <2>. HIDE DEF r
  <2>2. KidMoves(k, [r EXCEPT !.abort = FALSE, !.asked = @ \/ r.state = "running"]) /\ UNCHANGED spent
    BY <1>2 DEF KidHears, r
  <2>. QED  BY <1>b, <2>1, <2>2, KidMovesTyped
<1>3. CASE KidReports(k)
  <2>1. PICK o \in {"passed", "failed"} \cup (IF r.asked THEN {"interrupted"} ELSE {}) :
          KidMoves(k, [r EXCEPT !.said = Append(@, o), !.mail = Append(@, o)])
    BY <1>3, Zenon DEF KidReports
  <2>2. o \in Outcomes /\ o \in Words
    BY TalliesTyped DEF Words
  <2>3. [r EXCEPT !.said = Append(@, o), !.mail = Append(@, o)] \in Process
    <3>0. Append(r.said, o) \in Seq(Outcomes) /\ Append(r.mail, o) \in Seq(Words)
      BY <1>c, <2>2
    <3>1. [r EXCEPT !.said = Append(r.said, o)] \in Process
      BY <1>a, <3>0, ProcessChanges
    <3>2. [[r EXCEPT !.said = Append(r.said, o)] EXCEPT !.mail = Append(r.mail, o)] \in Process
      BY <3>0, <3>1, ProcessChanges
    <3>3. [r EXCEPT !.said = Append(@, o), !.mail = Append(@, o)] =
              [[r EXCEPT !.said = Append(r.said, o)] EXCEPT !.mail = Append(r.mail, o)]
      BY <1>a DEF Process
    <3>. QED  BY <3>2, <3>3
  <2>4. UNCHANGED spent
    BY <1>3 DEF KidReports
  <2>. HIDE DEF r
  <2>. QED  BY <1>b, <2>1, <2>3, <2>4, KidMovesTyped
<1>4. CASE KidEnds(k)
  <2>1. [r EXCEPT !.state = "closing", !.mail = Append(@, "done")] \in Process
    <3>0. Append(r.mail, "done") \in Seq(Words)
      BY <1>c DEF Words
    <3>1. [r EXCEPT !.state = "closing"] \in Process
      BY <1>a, ProcessChanges
    <3>2. [[r EXCEPT !.state = "closing"] EXCEPT !.mail = Append(r.mail, "done")] \in Process
      BY <3>0, <3>1, ProcessChanges
    <3>3. [r EXCEPT !.state = "closing", !.mail = Append(@, "done")] =
              [[r EXCEPT !.state = "closing"] EXCEPT !.mail = Append(r.mail, "done")]
      BY <1>a DEF Process
    <3>. QED  BY <3>2, <3>3
  <2>. HIDE DEF r
  <2>2. KidMoves(k, [r EXCEPT !.state = "closing", !.mail = Append(@, "done")]) /\ UNCHANGED spent
    BY <1>4 DEF KidEnds, r
  <2>. QED  BY <1>b, <2>1, <2>2, KidMovesTyped
<1>5. CASE KidExits(k)
  <2>1. [[r EXCEPT !.state = "exited"] EXCEPT !.abort = FALSE] \in Process
    <3>1. [r EXCEPT !.state = "exited"] \in Process
      BY <1>a, ProcessChanges
    <3>. QED  BY <3>1, ProcessChanges
  <2>2. ASSUME NEW last \in {<<>>, <<"error">>}
        PROVE  [r EXCEPT !.state = "exited", !.abort = FALSE, !.mail = @ \o last] \in Process
    <3>0. last \in Seq(Words)
      <4>1. "error" \in Words
        BY DEF Words
      <4>2. <<>> \in Seq(Words) /\ <<"error">> \in Seq(Words)
        BY <4>1
      <4>. QED  BY <4>2
    <3>1. r.mail \o last \in Seq(Words)
      BY <1>c, <3>0, ConcatProperties
    <3>2. [[[r EXCEPT !.state = "exited"] EXCEPT !.abort = FALSE] EXCEPT !.mail = r.mail \o last] \in Process
      BY <2>1, <3>1, ProcessChanges
    <3>3. [r EXCEPT !.state = "exited", !.abort = FALSE, !.mail = @ \o last] =
              [[[r EXCEPT !.state = "exited"] EXCEPT !.abort = FALSE] EXCEPT !.mail = r.mail \o last]
      BY <1>a DEF Process
    <3>. QED  BY <3>2, <3>3
  <2>3. CASE KidMoves(k, [r EXCEPT !.state = "exited", !.abort = FALSE]) /\ UNCHANGED spent
    <3>1. [r EXCEPT !.state = "exited", !.abort = FALSE] = [[r EXCEPT !.state = "exited"] EXCEPT !.abort = FALSE]
      BY <1>a DEF Process
    <3>. QED  BY <1>b, <2>1, <2>3, <3>1, KidMovesTyped
  <2>4. CASE /\ Spend("death")
             /\ \E last \in {<<>>, <<"error">>} :
                    KidMoves(k, [r EXCEPT !.state = "exited", !.abort = FALSE, !.mail = @ \o last])
    <3>1. PICK last \in {<<>>, <<"error">>} :
              KidMoves(k, [r EXCEPT !.state = "exited", !.abort = FALSE, !.mail = @ \o last])
      BY <2>4, Zenon
    <3>2. spent' \in [Occasions -> Nat]
      BY <2>4, SpendTyped DEF Occasions
    <3>. HIDE DEF r
    <3>. QED  BY <2>2, <3>1, <3>2, KidMovesTyped
  <2>. QED  BY <1>5, <2>3, <2>4, Zenon DEF KidExits
<1>6. CASE Deliver(k)
  <2>. DEFINE m == Head(r.mail)
              f == r.file
  <2>1. r.mail # <<>> /\ kid' = [kid EXCEPT ![k] = [r EXCEPT !.mail = Tail(r.mail)]]
    BY <1>6 DEF Deliver
  <2>2. f \in TestFiles /\ m \in Words /\ Tail(r.mail) \in Seq(Words)
    BY <1>c, <2>1, HeadTailProperties DEF StageInv
  <2>3. kid' \in [Kids -> Process]
    <3>1. [r EXCEPT !.mail = Tail(r.mail)] \in Process
      BY <1>a, <2>2, ProcessChanges
    <3>. HIDE DEF r
    <3>. QED  BY <2>1, <3>1 DEF McpTypeOK, KidsTyped
  <2>4. /\ RunTyped' /\ awaited' \in Kids \cup {NoKid} /\ active' \in Kids \cup {NoKid}
        /\ results' \in [TestFiles -> Seq(Outcomes)] /\ broken' \in SUBSET TestFiles
    <3>1. CASE awaited # k
      <4>1. UNCHANGED <<awaited, active, results, broken, stage, todo, tally, timer, verdict, runner,
                        stopRequested, step, late, tries, corner>>
        BY <1>6, <3>1 DEF Deliver
      <4>. QED  BY <4>1 DEF McpTypeOK, RunTyped, KidsTyped, ResultsTyped
    <3>2. CASE awaited = k /\ m = "done"
      <4>1. /\ awaited' = NoKid /\ UNCHANGED <<active, results, broken>>
            /\ GoOn(Plus(tally, Count(r.said)), Tail(todo), timer)
        BY <1>6, <3>2 DEF Deliver
      <4>2. todo # <<>>
        BY <3>2 DEF StageInv, Kids, NoKid
      <4>3. Tail(todo) \in Seq(TestFiles) /\ timer \in Kids \cup {NoKid} /\ tally \in [Outcomes -> Nat]
        BY <4>2 DEF McpTypeOK, RunTyped
      <4>4. Plus(tally, Count(r.said)) \in [Outcomes -> Nat]
        BY <1>c, <4>3, CountTyped, TalliesTyped
      <4>5. RunTyped'
        BY <4>1, <4>3, <4>4, GoOnTyped
      <4>. QED  BY <4>1, <4>5 DEF McpTypeOK, KidsTyped, ResultsTyped
    <3>3. CASE awaited = k /\ m = "error"
      <4>1. /\ awaited' = NoKid /\ active' = NoKid /\ UNCHANGED results /\ FileFails(NoKid)
        BY <1>6, <3>3 DEF Deliver
      <4>2. todo # <<>>
        BY <3>3 DEF StageInv, Kids, NoKid
      <4>3. RunTyped' /\ broken' \in SUBSET TestFiles
        BY <4>1, <4>2, FileFailsTyped
      <4>. QED  BY <4>1, <4>3 DEF McpTypeOK, ResultsTyped
    <3>4. CASE awaited = k /\ m \notin {"done", "error"}
      <4>1. /\ results' = [results EXCEPT ![f] = Append(@, m)]
            /\ UNCHANGED <<awaited, active, broken, stage, todo, tally, timer, verdict, runner,
                           stopRequested, step, late, tries, corner>>
        BY <1>6, <3>4 DEF Deliver
      <4>2. m \in Outcomes
        BY <2>2, <3>4 DEF Words
      <4>3. results' \in [TestFiles -> Seq(Outcomes)]
        BY <2>2, <4>1, <4>2 DEF McpTypeOK, ResultsTyped
      <4>. QED  BY <4>1, <4>3 DEF McpTypeOK, RunTyped, KidsTyped, ResultsTyped
    <3>. QED  BY <3>1, <3>2, <3>3, <3>4
  <2>5. KidsTyped' /\ ResultsTyped'
    BY <1>6, <2>3, <2>4 DEF Deliver, McpTypeOK, KidsTyped, ResultsTyped
  <2>. QED  BY <1>6, <2>4, <2>5, Unmoved DEF Deliver, McpTypeOK
<1>7. CASE ExitSeen(k)
  <2>1. kid' \in [Kids -> Process] /\ active' \in Kids \cup {NoKid}
    BY <1>7, GoneTyped DEF ExitSeen, McpTypeOK, KidsTyped
  <2>2. RunTyped' /\ awaited' \in Kids \cup {NoKid} /\ broken' \in SUBSET TestFiles
    <3>1. CASE awaited = k
      <4>1. awaited' = NoKid /\ FileFails(NoKid) /\ todo # <<>>
        BY <1>7, <3>1 DEF ExitSeen, StageInv, Kids, NoKid
      <4>. QED  BY <4>1, FileFailsTyped
    <3>2. CASE awaited # k
      <4>1. /\ timer' = NoKid
            /\ corner' = IF timer \notin {NoKid, k} THEN corner \cup {"disarmed"} ELSE corner
            /\ UNCHANGED <<awaited, broken, stage, todo, tally, verdict, runner, stopRequested, step, late,
                           tries>>
        BY <1>7, <3>2 DEF ExitSeen
      <4>. QED  BY <4>1 DEF McpTypeOK, RunTyped, KidsTyped, ResultsTyped
    <3>. QED  BY <3>1, <3>2
  <2>3. KidsTyped' /\ ResultsTyped'
    BY <1>7, <2>1, <2>2 DEF ExitSeen, McpTypeOK, KidsTyped, ResultsTyped
  <2>. QED  BY <1>7, <2>2, <2>3, Unmoved DEF ExitSeen, McpTypeOK
<1>. QED  BY <1>1, <1>2, <1>3, <1>4, <1>5, <1>6, <1>7

LEMMA TypeStep ==
    ASSUME McpTypeOK, StageInv, [McpNext]_mcpVars
    PROVE  McpTypeOK'
<1>1. CASE UNCHANGED mcpVars \/ Rest
  BY <1>1, Unmoved DEF mcpVars, Rest, McpTypeOK, callVars, stageVars, kidVars, ghostVars
<1>2. CASE McpNext /\ ~Rest
  BY <1>2, ListActionsTyped, TargetActionsTyped, ChoiceActionsTyped, RunActionsTyped, KidActionsTyped
     DEF McpNext
<1>. QED  BY <1>1, <1>2

-----------------------------------------------------------------------------
(* The run and the process it waits for.                                   *)

\* What a run does when it ends or goes on with other files.
LEMMA GoOnStage ==
    ASSUME McpTypeOK, StageInv, runner # Nobody, NEW t, NEW rest, NEW armed, GoOn(t, rest, armed)
    PROVE  \/ /\ runner' = Nobody /\ stage' = "none" /\ stopRequested' = FALSE /\ todo' = <<>>
              /\ step' = [step EXCEPT ![runner] = "none"]
              /\ late' = 0 /\ tries' = 0 /\ corner' = {} /\ timer' = NoKid
           \/ /\ runner' = runner /\ stage' = "await" /\ ~stopRequested /\ ~stopRequested'
              /\ todo' = rest /\ rest # <<>> /\ step' = step
              /\ late' = late /\ tries' = tries /\ corner' = corner /\ timer' = armed
BY DEF GoOn, Finish, Goes, McpTypeOK, RunTyped

LEMMA FileFailsStage ==
    ASSUME McpTypeOK, StageInv, runner # Nobody, NEW armed, FileFails(armed)
    PROVE  \/ /\ runner' = Nobody /\ stage' = "none" /\ stopRequested' = FALSE /\ todo' = <<>>
              /\ step' = [step EXCEPT ![runner] = "none"]
              /\ late' = 0 /\ tries' = 0 /\ corner' = {} /\ timer' = NoKid
           \/ /\ runner' = runner /\ stage' = "await" /\ ~stopRequested /\ ~stopRequested'
              /\ todo' = Tail(todo) /\ Tail(todo) # <<>> /\ step' = step
              /\ late' = late /\ tries' = tries /\ corner' = corner /\ timer' = armed
<1>1. CASE stopRequested
  BY <1>1 DEF FileFails, Finish, Goes, McpTypeOK, RunTyped
<1>2. CASE ~stopRequested
  BY <1>2, GoOnStage DEF FileFails
<1>. QED  BY <1>1, <1>2

\* The calls and the run: of StageInv what is not about processes.
CallsOfRun ==
    /\ runner = Nobody <=> stage = "none"
    /\ \A c \in Calls : step[c] = "running" <=> c = runner
    /\ stage \in {"await", "probe", "resolving", "child"} => todo # <<>>

ChildOfRun ==
    /\ awaited # NoKid <=> stage = "child"
    /\ awaited # NoKid => active = awaited /\ kid[awaited].state # "gone"

KidsHaveFiles ==
    \A k \in Kids : kid[k].state # "gone" \/ kid[k].mail # <<>> => kid[k].file \in TestFiles

LEMMA StageParts == StageInv <=> CallsOfRun /\ ChildOfRun /\ KidsHaveFiles
BY DEF StageInv, CallsOfRun, ChildOfRun, KidsHaveFiles

\* What keeps because nothing of it changes.
LEMMA StageUnmoved ==
    /\ CallsOfRun /\ UNCHANGED <<runner, stage, todo, step>> => CallsOfRun'
    /\ ChildOfRun /\ UNCHANGED <<awaited, active, stage, kid>> => ChildOfRun'
    /\ KidsHaveFiles /\ UNCHANGED kid => KidsHaveFiles'
BY DEF CallsOfRun, ChildOfRun, KidsHaveFiles

\* A step of a call that has no run.
LEMMA CallGoes ==
    ASSUME McpTypeOK, CallsOfRun, NEW c \in Calls, step[c] # "running", NEW to \in Steps, to # "running",
           Goes(c, to), UNCHANGED <<runner, stage, todo>>
    PROVE  CallsOfRun'
BY DEF CallsOfRun, Goes, McpTypeOK, RunTyped

LEMMA StageList ==
    ASSUME McpTypeOK, StageInv, \/ Look \/ EndSync \/ Save \/ DebounceFires
                                \/ \E c \in Calls : RefreshAgain(c)
    PROVE  StageInv'
<1>. CallsOfRun /\ ChildOfRun /\ KidsHaveFiles
  BY StageParts
<1>1. ChildOfRun' /\ KidsHaveFiles'
  BY StageUnmoved DEF Look, EndSync, Save, DebounceFires, RefreshAgain, stageVars, kidVars
<1>2. CallsOfRun'
  <2>1. CASE Look \/ Save
    BY <2>1, StageUnmoved DEF Look, Save, callVars, stageVars
  <2>2. CASE EndSync
    BY <2>2 DEF EndSync, CallsOfRun, stageVars
  <2>3. CASE DebounceFires
    <3>1. PICK c \in NextCall : Refresh(c)
      BY <2>3 DEF DebounceFires
    <3>2. c \in Calls /\ step[c] = "none"
      BY <3>1, NextCallTyped
    <3>3. PICK to \in {"first", "listing", "queued"} : Goes(c, to)
      BY <3>1, <3>2, RefreshTyped
    <3>. QED  BY <2>3, <3>2, <3>3, CallGoes DEF DebounceFires, stageVars, Steps
  <2>4. ASSUME NEW c \in Calls, RefreshAgain(c)  PROVE CallsOfRun'
    BY <2>4, CallGoes DEF RefreshAgain, ScheduleSync, stageVars, Steps
  <2>. QED  BY <2>1, <2>2, <2>3, <2>4
<1>. QED  BY <1>1, <1>2 DEF StageInv, CallsOfRun, ChildOfRun, KidsHaveFiles

LEMMA StageTarget ==
    ASSUME McpTypeOK, StageInv, \/ ApplyPin \/ Prepared \/ RetryEnds \/ DaemonDies
                                \/ \E c \in Calls : Tool(c) \/ ToolAttached(c)
    PROVE  StageInv'
<1>. CallsOfRun /\ ChildOfRun /\ KidsHaveFiles
  BY StageParts
<1>1. ChildOfRun' /\ KidsHaveFiles'
  BY StageUnmoved DEF ApplyPin, Prepared, RetryEnds, DaemonDies, Tool, ToolAttached, stageVars, kidVars
<1>2. CallsOfRun'
  <2>1. CASE ApplyPin \/ Prepared \/ DaemonDies
    BY <2>1, StageUnmoved DEF ApplyPin, Prepared, DaemonDies, callVars, stageVars
  <2>2. CASE RetryEnds
    BY <2>2 DEF RetryEnds, CallsOfRun, stageVars
  <2>3. ASSUME NEW c \in Calls, Tool(c)  PROVE CallsOfRun'
    <3>1. c \in Calls /\ step[c] = "none" /\ UNCHANGED <<runner, stage, todo>>
      BY <2>3, NextCallTyped DEF Tool, stageVars
    <3>2. step' = step \/ Goes(c, "attaching") \/ Goes(c, "retrying")
      BY <2>3 DEF Tool
    <3>3. "attaching" \in Steps /\ "retrying" \in Steps
      BY DEF Steps
    <3>. QED  BY <3>1, <3>2, <3>3, CallGoes, StageUnmoved
  <2>4. ASSUME NEW c \in Calls, ToolAttached(c)  PROVE CallsOfRun'
    BY <2>4, CallGoes DEF ToolAttached, stageVars, Steps
  <2>. QED  BY <2>1, <2>2, <2>3, <2>4
<1>. QED  BY <1>1, <1>2 DEF StageInv, CallsOfRun, ChildOfRun, KidsHaveFiles

LEMMA StageChoice ==
    ASSUME McpTypeOK, StageInv, NEW c \in Calls, Chosen(c) \/ Settled(c) \/ ResolvedForCall(c) \/ Ask(c) \/ AskGoesOn(c)
    PROVE  /\ step[c] \in {"none", "choosing", "settling", "resolved", "listed"}
           /\ \E to \in {"none", "first", "listing", "queued", "resolving", "settling", "choosing"} : Goes(c, to)
           /\ StageInv'
<1>. CallsOfRun /\ ChildOfRun /\ KidsHaveFiles
  BY StageParts
<1>1. ChildOfRun' /\ KidsHaveFiles'
  BY StageUnmoved DEF Chosen, Settled, ResolvedForCall, Ask, AskGoesOn, stageVars, kidVars
<1>2. step[c] \in {"none", "choosing", "settling", "resolved", "listed"}
  BY NextCallTyped DEF Chosen, Settled, ResolvedForCall, Ask, AskGoesOn
<1>3. \E to \in {"none", "first", "listing", "queued", "resolving", "settling", "choosing"} : Goes(c, to)
  <2>1. CASE Chosen(c)
    <3>1. (tried[c] /\ pin = want[c]) \in BOOLEAN
      OBVIOUS
    <3>2. Settle(c, tried[c] /\ pin = want[c]) \/ Goes(c, "settling")
      BY <2>1 DEF Chosen
    <3>. QED  BY <3>1, <3>2, SettleTyped
  <2>2. CASE Settled(c)
    <3>1. tried[c] \in BOOLEAN /\ Settle(c, tried[c])
      BY <2>2 DEF Settled, McpTypeOK, CallsTyped
    <3>. QED  BY <3>1, SettleTyped
  <2>3. CASE ResolvedForCall(c)
    BY <2>3, ConcludeTyped DEF ResolvedForCall
  <2>4. CASE Ask(c)
    BY <2>4, RefreshTyped DEF Ask
  <2>5. CASE AskGoesOn(c)
    BY <2>5, RefreshTyped DEF AskGoesOn, AskOnDevice
  <2>. QED  BY <2>1, <2>2, <2>3, <2>4, <2>5
<1>4. CallsOfRun'
  <2>1. UNCHANGED <<runner, stage, todo>>
    BY DEF Chosen, Settled, ResolvedForCall, Ask, AskGoesOn, stageVars
  <2>. QED  BY <1>2, <1>3, <2>1, CallGoes DEF Steps
<1>. QED  BY <1>1, <1>2, <1>3, <1>4, StageParts DEF StageInv, CallsOfRun, ChildOfRun, KidsHaveFiles

\* A call that waits for its files asked for some.
LEMMA AskedStep ==
    ASSUME McpTypeOK, StageInv, AskedFor, [McpNext]_mcpVars
    PROVE  AskedFor'
<1>. DEFINE Asks(c) == step[c] \notin {"none", "attaching", "retrying"}
<1>k. ASSUME UNCHANGED ask, \A c \in Calls : ~Asks(c)' \/ Asks(c)
      PROVE  AskedFor'
  BY <1>k DEF AskedFor
\* One call is made, or goes on.
<1>m. ASSUME NEW c \in NextCall, NEW d, NEW files \in Seq(TestFiles), Made(c, d, files), IsInjective(files),
             NEW to, Goes(c, to) \/ UNCHANGED step,
             files = <<>> => UNCHANGED step \/ to \in {"none", "attaching", "retrying"}
      PROVE  AskedFor'
  <2>1. c \in Calls /\ step[c] = "none"
    BY NextCallTyped
  <2>2. ask' = [ask EXCEPT ![c] = files] /\ ask \in [Calls -> Seq(TestFiles)] /\ step \in [Calls -> Steps]
    BY <1>m DEF Made, McpTypeOK, CallsTyped, RunTyped
  <2>3. ask'[c] = files /\ \A b \in Calls \ {c} : ask'[b] = ask[b] /\ step'[b] = step[b]
    BY <1>m, <2>1, <2>2 DEF Goes
  <2>4. step'[c] = to \/ step'[c] = "none"
    BY <1>m, <2>1, <2>2 DEF Goes
  <2>5. files = <<>> => step'[c] \in {"none", "attaching", "retrying"}
    BY <1>m, <2>1, <2>2 DEF Goes
  <2>. QED  BY <1>m, <2>3, <2>5 DEF AskedFor
<1>g. ASSUME NEW c \in Calls, NEW to, Goes(c, to) \/ UNCHANGED step, UNCHANGED ask,
             Asks(c) \/ to \in {"none", "attaching", "retrying"}
      PROVE  AskedFor'
  <2>1. \A b \in Calls : step'[b] = step[b] \/ (b = c /\ step'[b] = to)
    BY <1>g DEF Goes, McpTypeOK, RunTyped
  <2>. QED  BY <1>g, <1>k, <2>1
<1>1. CASE Look \/ Save \/ ApplyPin \/ Prepared \/ DaemonDies \/ Rest \/ UNCHANGED mcpVars
  BY <1>1, <1>k DEF Look, Save, ApplyPin, Prepared, DaemonDies, Rest, mcpVars, callVars
<1>2. CASE EndSync \/ RetryEnds
  BY <1>2, <1>k DEF EndSync, RetryEnds
<1>3. CASE DebounceFires
  <2>1. PICK c \in NextCall : Made(c, NoDevice, <<Watched>>) /\ Refresh(c)
    BY <1>3 DEF DebounceFires
  <2>2. c \in Calls /\ <<Watched>> \in Seq(TestFiles) /\ <<Watched>> # <<>>
    BY NextCallTyped, McpAssumption DEF McpWellFormed
  <2>3. PICK to \in {"first", "listing", "queued"} : Goes(c, to)
    BY <2>1, <2>2, RefreshTyped
  <2>4. IsInjective(<<Watched>>)
    BY DEF IsInjective
  <2>. QED  BY <1>m, <2>1, <2>2, <2>3, <2>4
<1>4. ASSUME NEW c \in Calls, RefreshAgain(c)  PROVE AskedFor'
  BY <1>4, <1>g DEF RefreshAgain, ScheduleSync
<1>5. ASSUME NEW c \in Calls, Tool(c)  PROVE AskedFor'
  <2>1. PICK d \in Scene.choices : Made(c, d, <<>>)
    BY <1>5 DEF Tool
  <2>2. c \in NextCall /\ (UNCHANGED step \/ Goes(c, "attaching") \/ Goes(c, "retrying"))
    BY <1>5 DEF Tool
  <2>3. IsInjective(<<>>) /\ <<>> \in Seq(TestFiles)
    BY DEF IsInjective
  <2>. QED  BY <1>m, <2>1, <2>2, <2>3
<1>6. ASSUME NEW c \in Calls, ToolAttached(c)  PROVE AskedFor'
  BY <1>6, <1>g DEF ToolAttached
<1>7. ASSUME NEW c \in Calls, Chosen(c) \/ Settled(c) \/ ResolvedForCall(c) \/ AskGoesOn(c)  PROVE AskedFor'
  <2>1. Asks(c) /\ UNCHANGED ask
    BY <1>7 DEF Chosen, Settled, ResolvedForCall, AskGoesOn
  <2>2. PICK to \in {"none", "first", "listing", "queued", "resolving", "settling", "choosing"} : Goes(c, to)
    BY <1>7, StageChoice
  <2>. QED  BY <1>g, <2>1, <2>2
<1>8. ASSUME NEW c \in Calls, Ask(c)  PROVE AskedFor'
  <2>1. PICK d \in Scene.choices : Made(c, d, Scene.files)
    BY <1>8 DEF Ask
  <2>2. c \in NextCall
    BY <1>8 DEF Ask
  <2>3. PICK to \in {"none", "first", "listing", "queued", "resolving", "settling", "choosing"} : Goes(c, to)
    BY <1>8, StageChoice
  <2>4. IsInjective(Scene.files) /\ Scene.files \in Seq(TestFiles) /\ Scene.files # <<>>
    BY SceneTyped DEF McpTypeOK
  <2>. QED  BY <1>m, <2>1, <2>2, <2>3, <2>4
<1>9. ASSUME NEW c \in Calls, StartRun(c)  PROVE AskedFor'
  BY <1>9, <1>g DEF StartRun
<1>10. CASE DevicesReady \/ EnsureTarget \/ Probe \/ RunResolves \/ Stop \/ Escalate \/ TimesOut
  <2>1. UNCHANGED ask
    BY <1>10 DEF DevicesReady, EnsureTarget, EnsureNow, Probe, RunResolves, Stop, AskToAbort, Escalate,
                 TimesOut, callVars
  <2>2. UNCHANGED step \/ Goes(runner, "none")
    BY <1>10 DEF DevicesReady, EnsureTarget, EnsureNow, Probe, RunResolves, Stop, AskToAbort, Escalate,
                 TimesOut, callVars, Fork, FileFails, GoOn, Finish
  <2>3. \A b \in Calls : step'[b] = step[b] \/ step'[b] = "none"
    BY <2>2 DEF Goes, McpTypeOK, RunTyped
  <2>. QED  BY <1>k, <2>1, <2>3
<1>11. ASSUME NEW k \in Kids,
              KidOpens(k) \/ KidHears(k) \/ KidReports(k) \/ KidEnds(k) \/ KidExits(k) \/ Deliver(k) \/ ExitSeen(k)
       PROVE  AskedFor'
  <2>1. UNCHANGED ask
    BY <1>11 DEF KidOpens, KidHears, KidReports, KidEnds, KidExits, KidMoves, Deliver, ExitSeen, callVars
  <2>2. UNCHANGED step \/ Goes(runner, "none")
    BY <1>11 DEF KidOpens, KidHears, KidReports, KidEnds, KidExits, KidMoves, Deliver, ExitSeen, callVars,
                 FileFails, GoOn, Finish
  <2>3. \A b \in Calls : step'[b] = step[b] \/ step'[b] = "none"
    BY <2>2 DEF Goes, McpTypeOK, RunTyped
  <2>. QED  BY <1>k, <2>1, <2>3
<1>. QED  BY <1>1, <1>2, <1>3, <1>4, <1>5, <1>6, <1>7, <1>8, <1>9, <1>10, <1>11 DEF McpNext

LEMMA StageRun ==
    ASSUME McpTypeOK, StageInv, AskedFor,
           \/ DevicesReady \/ EnsureTarget \/ Probe \/ RunResolves \/ Stop \/ Escalate \/ TimesOut
           \/ \E c \in Calls : StartRun(c)
    PROVE  StageInv'
<1>. CallsOfRun /\ ChildOfRun /\ KidsHaveFiles
  BY StageParts
<1>n. NoKid \notin Kids /\ Nobody \notin Calls
  BY DEF NoKid, Kids, Nobody, Calls
\* A run that ends, or goes on with files left, its process settled.
<1>r. ASSUME runner # Nobody, awaited' = NoKid,
             \/ /\ runner' = Nobody /\ stage' = "none"
                /\ step' = [step EXCEPT ![runner] = "none"]
             \/ runner' = runner /\ stage' = "await" /\ todo' # <<>> /\ step' = step
      PROVE  CallsOfRun' /\ ChildOfRun'
  <2>1. stage' \in {"none", "await"} /\ (runner' = Nobody <=> stage' = "none")
    BY <1>r
  <2>2. \A c \in Calls : step'[c] = "running" <=> c = runner'
    BY <1>n, <1>r DEF CallsOfRun, McpTypeOK, RunTyped
  <2>. QED  BY <1>r, <2>1, <2>2 DEF CallsOfRun, ChildOfRun
\* A process is forked.
<1>f. ASSUME stage \in {"probe", "resolving"}, Fork
      PROVE  StageInv'
  <2>1. Min(Free) \in Kids
    BY <1>f, FreeTyped DEF Fork
  <2>2. Head(todo) \in TestFiles /\ todo # <<>>
    BY <1>f, HeadTailProperties DEF CallsOfRun, McpTypeOK, RunTyped
  <2>3. CallsOfRun'
    BY <1>f, <2>2 DEF Fork, CallsOfRun
  <2>4. /\ kid'[Min(Free)].state = "forked" /\ kid'[Min(Free)].file = Head(todo)
        /\ \A k \in Kids \ {Min(Free)} : kid'[k] = kid[k]
    <3>1. kid' = [kid EXCEPT ![Min(Free)] =
                      [Gone EXCEPT !.state = "forked", !.file = Head(todo), !.on = device']]
      BY <1>f DEF Fork
    <3>2. kid'[Min(Free)] = [Gone EXCEPT !.state = "forked", !.file = Head(todo), !.on = device']
      BY <2>1, <3>1 DEF McpTypeOK, KidsTyped
    <3>. QED  BY <2>1, <3>1, <3>2, Forked DEF McpTypeOK, KidsTyped
  <2>5. ChildOfRun'
    BY <1>f, <1>n, <2>1, <2>4 DEF Fork, ChildOfRun, McpTypeOK, KidsTyped
  <2>6. KidsHaveFiles'
    BY <2>1, <2>2, <2>4 DEF KidsHaveFiles, McpTypeOK, KidsTyped
  <2>. QED  BY <2>3, <2>5, <2>6 DEF StageInv, CallsOfRun, ChildOfRun, KidsHaveFiles
<1>1. CASE DevicesReady
  <2>1. runner # Nobody /\ awaited = NoKid
    BY <1>1 DEF DevicesReady, CallsOfRun, ChildOfRun
  <2>2. CallsOfRun' /\ ChildOfRun'
    BY <1>1, <1>r, <2>1, GoOnStage DEF DevicesReady
  <2>. QED  BY <1>1, <2>2, StageUnmoved DEF DevicesReady, StageInv, CallsOfRun, ChildOfRun, KidsHaveFiles
<1>2. CASE EnsureTarget
  <2>1. runner # Nobody /\ awaited = NoKid /\ stage = "await" /\ todo # <<>>
    BY <1>2 DEF EnsureTarget, EnsureNow, CallsOfRun, ChildOfRun
  <2>2. UNCHANGED <<kid, awaited, active>>
    BY <1>2 DEF EnsureTarget, EnsureNow
  <2>3. CASE FileFails(timer)
    <3>1. CallsOfRun' /\ ChildOfRun'
      BY <1>r, <2>1, <2>2, <2>3, FileFailsStage
    <3>. QED  BY <2>2, <3>1, StageUnmoved DEF StageInv, CallsOfRun, ChildOfRun, KidsHaveFiles
  <2>4. CASE ~FileFails(timer)
    <3>1. stage' \in {"probe", "resolving"} /\ UNCHANGED <<runner, todo, step>>
      BY <1>2, <2>4 DEF EnsureTarget, EnsureNow
    <3>. QED  BY <2>1, <2>2, <3>1 DEF StageInv, CallsOfRun, ChildOfRun, KidsHaveFiles
  <2>. QED  BY <2>3, <2>4
<1>3. CASE Probe
  <2>1. CASE Fork
    BY <1>3, <1>f, <2>1 DEF Probe
  <2>2. CASE ~Fork
    <3>1. stage = "probe" /\ stage' = "resolving" /\ UNCHANGED <<runner, todo, step, kid, awaited, active>>
      BY <1>3, <2>2 DEF Probe, kidVars
    <3>. QED  BY <3>1 DEF StageInv, CallsOfRun, ChildOfRun, KidsHaveFiles
  <2>. QED  BY <2>1, <2>2
<1>4. CASE RunResolves
  <2>1. CASE target' = "up"
    BY <1>4, <1>f, <2>1 DEF RunResolves
  <2>2. CASE target' # "up"
    <3>1. /\ FileFails(timer) /\ UNCHANGED <<kid, awaited, active>>
          /\ runner # Nobody /\ awaited = NoKid
      BY <1>4, <2>2 DEF RunResolves, CallsOfRun, ChildOfRun
    <3>2. CallsOfRun' /\ ChildOfRun'
      BY <1>r, <3>1, FileFailsStage
    <3>. QED  BY <3>1, <3>2, StageUnmoved DEF StageInv, CallsOfRun, ChildOfRun, KidsHaveFiles
  <2>. QED  BY <2>1, <2>2
<1>5. CASE Stop
  <2>1. CallsOfRun'
    BY <1>5, StageUnmoved DEF Stop, AskToAbort, callVars
  <2>2. \A k \in Kids : kid'[k].state = kid[k].state /\ kid'[k].mail = kid[k].mail /\ kid'[k].file = kid[k].file
    <3>1. CASE active = NoKid
      BY <1>5, <3>1 DEF Stop, AskToAbort
    <3>2. CASE active # NoKid
      <4>1. kid' = [kid EXCEPT ![active] = [kid[active] EXCEPT !.abort = TRUE]]
        BY <1>5, <3>2 DEF Stop, AskToAbort
      <4>. QED  BY <3>2, <4>1 DEF McpTypeOK, KidsTyped, Process
    <3>. QED  BY <3>1, <3>2
  <2>3. ChildOfRun' /\ KidsHaveFiles'
    BY <1>5, <2>2 DEF Stop, AskToAbort, ChildOfRun, KidsHaveFiles, McpTypeOK, KidsTyped
  <2>. QED  BY <2>1, <2>3 DEF StageInv, CallsOfRun, ChildOfRun, KidsHaveFiles
<1>6. CASE Escalate
  <2>1. CallsOfRun'
    BY <1>6, StageUnmoved DEF Escalate, callVars, stageVars
  <2>2. timer \in Kids /\ kid' = [kid EXCEPT ![timer] = [kid[timer] EXCEPT !.state = IF @ = "gone" THEN @ ELSE "exited"]]
    BY <1>6 DEF Escalate, McpTypeOK, RunTyped
  <2>3. \A k \in Kids : /\ kid'[k].state = "gone" <=> kid[k].state = "gone"
                        /\ kid'[k].mail = kid[k].mail /\ kid'[k].file = kid[k].file
    BY <2>2 DEF McpTypeOK, KidsTyped, Process
  <2>4. ChildOfRun' /\ KidsHaveFiles'
    BY <1>6, <2>3 DEF Escalate, ChildOfRun, KidsHaveFiles, McpTypeOK, KidsTyped, stageVars
  <2>. QED  BY <2>1, <2>4 DEF StageInv, CallsOfRun, ChildOfRun, KidsHaveFiles
<1>7. CASE TimesOut
  <2>1. /\ awaited \in Kids /\ awaited # NoKid /\ awaited' = NoKid
        /\ kid' = [kid EXCEPT ![awaited].state = "exited", ![awaited].abort = FALSE]
        /\ FileFails(NoKid) /\ runner # Nobody
    BY <1>7 DEF TimesOut, ChildOfRun, CallsOfRun, McpTypeOK, KidsTyped
  <2>2. CallsOfRun' /\ ChildOfRun'
    BY <1>r, <2>1, FileFailsStage
  <2>3. kid[awaited].file \in TestFiles
    BY <2>1 DEF ChildOfRun, KidsHaveFiles
  <2>4. KidsHaveFiles'
    <3>1. \A k \in Kids \ {awaited} : kid'[k] = kid[k]
      BY <2>1 DEF McpTypeOK, KidsTyped
    <3>2. kid'[awaited].file = kid[awaited].file
      BY <2>1 DEF McpTypeOK, KidsTyped, Process
    <3>. QED  BY <2>3, <3>1, <3>2 DEF KidsHaveFiles
  <2>. QED  BY <2>2, <2>4 DEF StageInv, CallsOfRun, ChildOfRun, KidsHaveFiles
<1>8. ASSUME NEW c \in Calls, StartRun(c)  PROVE StageInv'
  <2>1. UNCHANGED <<kid, awaited, active>>
    BY <1>8 DEF StartRun, kidVars
  <2>2. CASE runner # Nobody
    <3>1. CallsOfRun'
      BY <1>8, <2>2, CallGoes DEF StartRun, Steps
    <3>2. ChildOfRun' /\ KidsHaveFiles'
      BY <1>8, <2>1, <2>2, StageUnmoved DEF StartRun
    <3>. QED  BY <3>1, <3>2 DEF StageInv, CallsOfRun, ChildOfRun, KidsHaveFiles
  <2>3. CASE runner = Nobody
    <3>1. stage' \in {"await", "devices"} /\ Goes(c, "running") /\ runner' = c /\ todo' = ask[c]
      BY <1>8, <2>3 DEF StartRun
    <3>2. ChildOfRun' /\ KidsHaveFiles' /\ awaited = NoKid
      BY <2>1, <2>3, <3>1 DEF ChildOfRun, KidsHaveFiles, CallsOfRun
    <3>3. c # Nobody /\ ask[c] # <<>>
      BY <1>8, <1>n DEF StartRun, AskedFor
    <3>4. \A b \in Calls : step'[b] = "running" <=> b = runner'
      BY <1>n, <2>3, <3>1 DEF CallsOfRun, Goes, McpTypeOK, RunTyped
    <3>5. CallsOfRun'
      BY <3>1, <3>3, <3>4 DEF CallsOfRun
    <3>. QED  BY <3>2, <3>5 DEF StageInv, CallsOfRun, ChildOfRun, KidsHaveFiles
  <2>. QED  BY <2>2, <2>3
<1>. QED  BY <1>1, <1>2, <1>3, <1>4, <1>5, <1>6, <1>7, <1>8

\* What a process does by itself: what changes of its record.
KidAct(old, new) ==
    \/ /\ old.state = "forked" /\ new.state = "running"
       /\ new.said = old.said /\ new.mail = old.mail /\ new.abort = old.abort /\ new.asked = old.asked
    \/ /\ old.abort /\ new.abort = FALSE /\ new.asked = (old.asked \/ old.state = "running")
       /\ new.state = old.state /\ new.said = old.said /\ new.mail = old.mail
    \/ /\ old.state = "running" /\ new.state = "running"
       /\ \E o \in Outcomes : /\ o = "interrupted" => old.asked
                              /\ new.said = Append(old.said, o) /\ new.mail = Append(old.mail, o)
       /\ new.abort = old.abort /\ new.asked = old.asked
    \/ /\ old.state = "running" /\ new.state = "closing" /\ new.mail = Append(old.mail, "done")
       /\ old.asked \/ Len(old.said) = Scene.tests[old.file]
       /\ new.said = old.said /\ new.abort = old.abort /\ new.asked = old.asked
    \/ /\ old.state \in {"forked", "running", "closing"} /\ new.state = "exited" /\ new.abort = FALSE
       /\ \/ new.mail = old.mail
          \/ old.state # "closing" /\ new.mail = Append(old.mail, "error")
       /\ new.said = old.said /\ new.asked = old.asked

LEMMA KidActs ==
    ASSUME McpTypeOK, NEW k \in Kids, KidOpens(k) \/ KidHears(k) \/ KidReports(k) \/ KidEnds(k) \/ KidExits(k)
    PROVE  /\ \A b \in Kids \ {k} : kid'[b] = kid[b]
           /\ kid'[k].file = kid[k].file /\ kid'[k].on = kid[k].on
           /\ KidAct(kid[k], kid'[k])
           /\ UNCHANGED <<scene, fileVars, targetVars, callVars, stageVars, awaited, active, timer, ghostVars>>
<1>. DEFINE r == kid[k]
<1>1. UNCHANGED <<scene, fileVars, targetVars, callVars, stageVars, awaited, active, timer, ghostVars>>
  BY DEF KidOpens, KidHears, KidReports, KidEnds, KidExits, KidMoves
<1>2. PICK new : /\ KidMoves(k, new)
                 /\ \/ r.state = "forked" /\ new = [r EXCEPT !.state = "running"]
                    \/ r.abort /\ new = [r EXCEPT !.abort = FALSE, !.asked = @ \/ r.state = "running"]
                    \/ /\ r.state = "running"
                       /\ \E o \in {"passed", "failed"} \cup (IF r.asked THEN {"interrupted"} ELSE {}) :
                              new = [r EXCEPT !.said = Append(@, o), !.mail = Append(@, o)]
                    \/ /\ r.state = "running" /\ new = [r EXCEPT !.state = "closing", !.mail = Append(@, "done")]
                       /\ r.asked \/ Len(r.said) = Scene.tests[r.file]
                    \/ r.state = "closing" /\ new = [r EXCEPT !.state = "exited", !.abort = FALSE]
                    \/ /\ r.state \in {"forked", "running"}
                       /\ \E last \in {<<>>, <<"error">>} :
                              new = [r EXCEPT !.state = "exited", !.abort = FALSE, !.mail = @ \o last]
  BY Zenon DEF KidOpens, KidHears, KidReports, KidEnds, KidExits
<1>3. kid'[k] = new /\ \A b \in Kids \ {k} : kid'[b] = kid[b]
  BY <1>2 DEF KidMoves, McpTypeOK, KidsTyped
<1>4. r \in Process
  BY DEF McpTypeOK, KidsTyped
<1>5. r.said \in Seq(Outcomes) /\ r.mail \in Seq(Words) /\ "error" \in Words
  BY <1>4, ProcessFields DEF Words
<1>6. new.file = r.file /\ new.on = r.on
  BY <1>2, <1>4 DEF Process
<1>7. KidAct(r, new)
  <2>1. CASE r.state = "forked" /\ new = [r EXCEPT !.state = "running"]
    <3>1. /\ new.state = "running" /\ new.said = r.said /\ new.mail = r.mail
          /\ new.abort = r.abort /\ new.asked = r.asked
      BY <1>4, <2>1 DEF Process
    <3>. QED  BY <2>1, <3>1 DEF KidAct
  <2>2. CASE r.abort /\ new = [r EXCEPT !.abort = FALSE, !.asked = @ \/ r.state = "running"]
    <3>1. /\ new.state = r.state /\ new.said = r.said /\ new.mail = r.mail
          /\ new.abort = FALSE /\ new.asked = (r.asked \/ r.state = "running")
      BY <1>4, <2>2 DEF Process
    <3>. QED  BY <2>2, <3>1 DEF KidAct
  <2>3. CASE /\ r.state = "running"
             /\ \E o \in {"passed", "failed"} \cup (IF r.asked THEN {"interrupted"} ELSE {}) :
                    new = [r EXCEPT !.said = Append(@, o), !.mail = Append(@, o)]
    <3>1. PICK o \in {"passed", "failed"} \cup (IF r.asked THEN {"interrupted"} ELSE {}) :
              new = [r EXCEPT !.said = Append(@, o), !.mail = Append(@, o)]
      BY <2>3
    <3>2. o \in Outcomes /\ (o = "interrupted" => r.asked)
      BY TalliesTyped
    <3>3. /\ new.said = Append(r.said, o) /\ new.mail = Append(r.mail, o)
          /\ new.state = r.state /\ new.abort = r.abort /\ new.asked = r.asked
      BY <1>4, <3>1 DEF Process
    <3>4. \E p \in Outcomes : /\ p = "interrupted" => r.asked
                              /\ new.said = Append(r.said, p) /\ new.mail = Append(r.mail, p)
      BY <3>2, <3>3
    <3>. QED  BY <2>3, <3>3, <3>4 DEF KidAct
  <2>4. CASE /\ r.state = "running" /\ new = [r EXCEPT !.state = "closing", !.mail = Append(@, "done")]
             /\ r.asked \/ Len(r.said) = Scene.tests[r.file]
    <3>1. /\ new.state = "closing" /\ new.said = r.said /\ new.mail = Append(r.mail, "done")
          /\ new.abort = r.abort /\ new.asked = r.asked
      BY <1>4, <2>4 DEF Process
    <3>. QED  BY <2>4, <3>1 DEF KidAct
  <2>5. CASE r.state = "closing" /\ new = [r EXCEPT !.state = "exited", !.abort = FALSE]
    <3>1. /\ new.state = "exited" /\ new.said = r.said /\ new.mail = r.mail
          /\ new.abort = FALSE /\ new.asked = r.asked
      BY <1>4, <2>5 DEF Process
    <3>. QED  BY <2>5, <3>1 DEF KidAct
  <2>6. CASE /\ r.state \in {"forked", "running"}
             /\ \E last \in {<<>>, <<"error">>} :
                    new = [r EXCEPT !.state = "exited", !.abort = FALSE, !.mail = @ \o last]
    <3>1. PICK last \in {<<>>, <<"error">>} :
              new = [r EXCEPT !.state = "exited", !.abort = FALSE, !.mail = @ \o last]
      BY <2>6
    <3>2. /\ new.state = "exited" /\ new.abort = FALSE /\ new.mail = r.mail \o last
          /\ new.said = r.said /\ new.asked = r.asked
      BY <1>4, <3>1 DEF Process
    <3>3. r.mail \o <<>> = r.mail
      BY <1>5
    <3>4. r.mail \o <<"error">> = Append(r.mail, "error")
      BY <1>5, AppendIsConcat, Zenon
    <3>5. new.mail = r.mail \/ new.mail = Append(r.mail, "error")
      BY <3>2, <3>3, <3>4
    <3>. QED  BY <2>6, <3>2, <3>5 DEF KidAct
  <2>. QED  BY <1>2, <2>1, <2>2, <2>3, <2>4, <2>5, <2>6
<1>. QED  BY <1>1, <1>3, <1>6, <1>7

LEMMA StageKids ==
    ASSUME McpTypeOK, StageInv, NEW k \in Kids,
           \/ KidOpens(k) \/ KidHears(k) \/ KidReports(k) \/ KidEnds(k) \/ KidExits(k)
           \/ Deliver(k) \/ ExitSeen(k)
    PROVE  StageInv'
<1>. CallsOfRun /\ ChildOfRun /\ KidsHaveFiles
  BY StageParts
<1>n. NoKid \notin Kids /\ Nobody \notin Calls
  BY DEF NoKid, Kids, Nobody, Calls
<1>r. ASSUME runner # Nobody, awaited' = NoKid,
             \/ /\ runner' = Nobody /\ stage' = "none"
                /\ step' = [step EXCEPT ![runner] = "none"]
             \/ runner' = runner /\ stage' = "await" /\ todo' # <<>> /\ step' = step
      PROVE  CallsOfRun' /\ ChildOfRun'
  <2>1. stage' \in {"none", "await"} /\ (runner' = Nobody <=> stage' = "none")
    BY <1>r
  <2>2. \A c \in Calls : step'[c] = "running" <=> c = runner'
    BY <1>n, <1>r DEF CallsOfRun, McpTypeOK, RunTyped
  <2>. QED  BY <1>r, <2>1, <2>2 DEF CallsOfRun, ChildOfRun
<1>1. CASE KidOpens(k) \/ KidHears(k) \/ KidReports(k) \/ KidEnds(k) \/ KidExits(k)
  <2>1. /\ \A b \in Kids \ {k} : kid'[b] = kid[b]
        /\ kid'[k].file = kid[k].file
        /\ UNCHANGED <<callVars, stageVars, awaited, active>>
        /\ KidAct(kid[k], kid'[k])
    BY <1>1, KidActs
  <2>2. /\ kid'[k].state = "gone" => kid[k].state = "gone"
        /\ kid[k].state = "gone" => kid'[k].state = "gone" /\ kid'[k].mail = kid[k].mail
    BY <2>1 DEF KidAct
  <2>3. CallsOfRun'
    BY <2>1, StageUnmoved DEF callVars, stageVars
  <2>4. ChildOfRun'
    BY <2>1, <2>2 DEF ChildOfRun, stageVars, McpTypeOK, KidsTyped
  <2>5. KidsHaveFiles'
    <3>1. ASSUME NEW b \in Kids, kid'[b].state # "gone" \/ kid'[b].mail # <<>>
          PROVE  kid'[b].file \in TestFiles
      BY <2>1, <2>2, <3>1 DEF KidsHaveFiles
    <3>. QED  BY <3>1 DEF KidsHaveFiles
  <2>. QED  BY <2>3, <2>4, <2>5 DEF StageInv, CallsOfRun, ChildOfRun, KidsHaveFiles
<1>2. CASE Deliver(k)
  <2>1. kid[k].mail # <<>> /\ kid' = [kid EXCEPT ![k] = [kid[k] EXCEPT !.mail = Tail(@)]]
    BY <1>2 DEF Deliver
  <2>2. /\ \A b \in Kids \ {k} : kid'[b] = kid[b]
        /\ kid'[k].file = kid[k].file /\ kid'[k].state = kid[k].state
    BY <2>1 DEF McpTypeOK, KidsTyped, Process
  <2>3. KidsHaveFiles'
    <3>1. ASSUME NEW b \in Kids, kid'[b].state # "gone" \/ kid'[b].mail # <<>>
          PROVE  kid'[b].file \in TestFiles
      BY <2>1, <2>2, <3>1 DEF KidsHaveFiles
    <3>. QED  BY <3>1 DEF KidsHaveFiles
  <2>4. CASE UNCHANGED <<awaited, active, stage, todo, runner, step>>
    <3>1. CallsOfRun'
      BY <2>4, StageUnmoved
    <3>2. ChildOfRun'
      BY <2>2, <2>4 DEF ChildOfRun, McpTypeOK, KidsTyped
    <3>. QED  BY <2>3, <3>1, <3>2 DEF StageInv, CallsOfRun, ChildOfRun, KidsHaveFiles
  <2>5. CASE awaited = k /\ awaited' = NoKid /\ GoOn(Plus(tally, Count(kid[k].said)), Tail(todo), timer)
    <3>1. runner # Nobody
      BY <1>n, <2>5 DEF CallsOfRun, ChildOfRun
    <3>2. CallsOfRun' /\ ChildOfRun'
      BY <1>r, <2>5, <3>1, GoOnStage
    <3>. QED  BY <2>3, <3>2 DEF StageInv, CallsOfRun, ChildOfRun, KidsHaveFiles
  <2>6. CASE awaited = k /\ awaited' = NoKid /\ FileFails(NoKid)
    <3>1. runner # Nobody
      BY <1>n, <2>6 DEF CallsOfRun, ChildOfRun
    <3>2. CallsOfRun' /\ ChildOfRun'
      BY <1>r, <2>6, <3>1, FileFailsStage
    <3>. QED  BY <2>3, <3>2 DEF StageInv, CallsOfRun, ChildOfRun, KidsHaveFiles
  <2>. QED  BY <1>2, <2>4, <2>5, <2>6 DEF Deliver
<1>3. CASE ExitSeen(k)
  <2>1. /\ \A b \in Kids \ {k} : kid'[b] = kid[b]
        /\ kid'[k].state = "gone" /\ kid'[k].mail = <<>>
    BY <1>3 DEF ExitSeen, Gone, McpTypeOK, KidsTyped
  <2>2. KidsHaveFiles'
    <3>1. ASSUME NEW b \in Kids, kid'[b].state # "gone" \/ kid'[b].mail # <<>>
          PROVE  kid'[b].file \in TestFiles
      BY <2>1, <3>1 DEF KidsHaveFiles
    <3>. QED  BY <3>1 DEF KidsHaveFiles
  <2>3. CASE awaited = k
    <3>1. awaited' = NoKid /\ FileFails(NoKid) /\ runner # Nobody
      BY <1>3, <1>n, <2>3 DEF ExitSeen, CallsOfRun, ChildOfRun
    <3>2. CallsOfRun' /\ ChildOfRun'
      BY <1>r, <3>1, FileFailsStage
    <3>. QED  BY <2>2, <3>2 DEF StageInv, CallsOfRun, ChildOfRun, KidsHaveFiles
  <2>4. CASE awaited # k
    <3>1. /\ UNCHANGED <<awaited, stage, todo, runner, step>>
          /\ active' = IF active = k THEN NoKid ELSE active
      BY <1>3, <2>4 DEF ExitSeen
    <3>2. CallsOfRun'
      BY <3>1, StageUnmoved
    <3>3. ChildOfRun'
      BY <2>1, <2>4, <3>1 DEF ChildOfRun, McpTypeOK, KidsTyped
    <3>. QED  BY <2>2, <3>2, <3>3 DEF StageInv, CallsOfRun, ChildOfRun, KidsHaveFiles
  <2>. QED  BY <2>3, <2>4
<1>. QED  BY <1>1, <1>2, <1>3

LEMMA StageStep ==
    ASSUME McpTypeOK, StageInv, AskedFor, [McpNext]_mcpVars
    PROVE  StageInv'
<1>1. CASE UNCHANGED mcpVars \/ Rest
  BY <1>1 DEF mcpVars, Rest, StageInv, callVars, stageVars, kidVars
<1>2. CASE McpNext /\ ~Rest
  BY <1>2, StageList, StageTarget, StageChoice, StageRun, StageKids DEF McpNext
<1>. QED  BY <1>1, <1>2

-----------------------------------------------------------------------------
(* The target is resolved by one at a time.                                *)

LEMMA TargetUnmoved ==
    TargetInv /\ UNCHANGED <<ready, preparing, target, retry, stage, retried, tries>> => TargetInv'
BY DEF TargetInv, HasTarget

\* The run goes on with its next file, or ends.
LEMMA TargetGoesOn ==
    ASSUME TargetInv, ready, UNCHANGED <<ready, preparing, target, retry, retried>>,
           \/ stage' = "none" /\ tries' = 0
           \/ /\ stage' = "await"
              /\ tries' = tries
    PROVE  TargetInv'
BY DEF TargetInv, HasTarget

LEMMA TargetRun ==
    ASSUME McpTypeOK, StageInv, TargetInv,
           \/ DevicesReady \/ EnsureTarget \/ Probe \/ RunResolves \/ Stop \/ Escalate \/ TimesOut
           \/ \E c \in Calls : StartRun(c)
    PROVE  TargetInv'
<1>1. CASE DevicesReady
  <2>1. runner # Nobody /\ ready /\ UNCHANGED targetVars
    BY <1>1 DEF DevicesReady, StageInv, TargetInv
  <2>. QED  BY <1>1, <2>1, GoOnStage, TargetGoesOn DEF DevicesReady, targetVars
<1>2. CASE EnsureTarget
  <2>1. runner # Nobody /\ ready /\ stage = "await" /\ retry = Nobody
    BY <1>2 DEF EnsureTarget, EnsureNow, StageInv, TargetInv
  <2>2. UNCHANGED <<ready, preparing, target, retry>>
    BY <1>2 DEF EnsureTarget, EnsureNow
  <2>3. CASE HasTarget
    BY <1>2, <2>1, <2>2, <2>3 DEF EnsureTarget, EnsureNow, TargetInv, HasTarget
  <2>4. CASE ~HasTarget /\ retried
    BY <1>2, <2>1, <2>2, <2>4, FileFailsStage, TargetGoesOn DEF EnsureTarget, EnsureNow
  <2>5. CASE ~HasTarget /\ ~retried
    <3>1. stage' = "resolving" /\ retried' = TRUE /\ tries' = tries + 1
      BY <1>2, <2>5 DEF EnsureTarget, EnsureNow
    <3>. QED  BY <2>1, <2>2, <2>5, <3>1 DEF TargetInv, HasTarget
  <2>. QED  BY <2>3, <2>4, <2>5
<1>3. CASE Probe
  <2>1. stage = "probe" /\ HasTarget /\ UNCHANGED <<ready, preparing, retry>>
    BY <1>3 DEF Probe, TargetInv
  <2>2. CASE target = "up" /\ UNCHANGED <<target, device, retried, aim, loose>> /\ Fork
    BY <2>1, <2>2 DEF Fork, TargetInv, HasTarget
  <2>3. CASE /\ target = "dead" /\ target' = "failed"
             /\ stage' = "resolving" /\ retried' = TRUE /\ tries' = 1
    BY <2>1, <2>3 DEF TargetInv, HasTarget
  <2>. QED  BY <1>3, <2>2, <2>3 DEF Probe
<1>4. CASE RunResolves
  <2>1. /\ stage = "resolving" /\ ready /\ retry = Nobody /\ retried /\ UNCHANGED <<ready, preparing, retry, retried>>
        /\ runner # Nobody /\ target' \in {"failed", "up"}
    BY <1>4 DEF RunResolves, Resolved, TargetInv, StageInv
  <2>2. CASE target' = "up"
    BY <1>4, <2>1, <2>2 DEF RunResolves, Fork, TargetInv, HasTarget
  <2>3. CASE target' # "up"
    <3>1. FileFails(timer)
      BY <1>4, <2>3 DEF RunResolves
    <3>2. stage' \in {"none", "await"} /\ (stage' = "none" => tries' = 0) /\ (stage' = "await" => tries' = tries)
      BY <2>1, <3>1, FileFailsStage
    <3>. QED  BY <2>1, <2>3, <3>2 DEF TargetInv, HasTarget
  <2>. QED  BY <2>2, <2>3
<1>5. CASE Stop \/ Escalate
  BY <1>5, TargetUnmoved DEF Stop, AskToAbort, Escalate, targetVars, stageVars, ghostVars
<1>6. CASE TimesOut
  <2>1. runner # Nobody /\ ready /\ UNCHANGED targetVars /\ FileFails(NoKid)
    BY <1>6 DEF TimesOut, StageInv, TargetInv
  <2>. QED  BY <2>1, FileFailsStage, TargetGoesOn DEF targetVars
<1>7. ASSUME NEW c \in Calls, StartRun(c)  PROVE TargetInv'
  <2>1. CASE runner # Nobody
    BY <1>7, <2>1, TargetUnmoved DEF StartRun, ghostVars
  <2>2. CASE runner = Nobody
    <3>1. /\ stage = "none" /\ retried' = FALSE /\ stage' = (IF ready THEN "await" ELSE "devices") /\ Prepare
          /\ UNCHANGED <<ready, target, retry, tries>>
      BY <1>7, <2>2 DEF StartRun, StageInv, ghostVars
    <3>. QED  BY <3>1 DEF Prepare, TargetInv, HasTarget, McpTypeOK, TargetTyped
  <2>. QED  BY <2>1, <2>2
<1>. QED  BY <1>1, <1>2, <1>3, <1>4, <1>5, <1>6, <1>7

LEMMA TargetStep ==
    ASSUME McpTypeOK, StageInv, TargetInv, [McpNext]_mcpVars
    PROVE  TargetInv'
<1>1. CASE \/ UNCHANGED mcpVars \/ Rest \/ Look \/ EndSync \/ Save \/ DebounceFires
           \/ \E c \in Calls : RefreshAgain(c)
  BY <1>1, TargetUnmoved DEF mcpVars, Rest, Look, EndSync, Save, DebounceFires, RefreshAgain, targetVars,
                             stageVars, ghostVars
<1>2. CASE ApplyPin \/ Prepared \/ RetryEnds \/ DaemonDies
  <2>1. UNCHANGED <<stage, tries>>
    BY <1>2 DEF ApplyPin, Prepared, RetryEnds, DaemonDies, stageVars, ghostVars
  <2>2. CASE ApplyPin \/ DaemonDies
    BY <2>1, <2>2 DEF ApplyPin, DaemonDies, TargetInv, HasTarget
  <2>3. CASE Prepared
    <3>1. stage \in {"none", "devices"}
      BY <2>3 DEF Prepared, TargetInv, McpTypeOK, RunTyped
    <3>. QED  BY <2>1, <2>3, <3>1 DEF Prepared, Resolved, TargetInv, HasTarget
  <2>4. CASE RetryEnds
    BY <2>1, <2>4 DEF RetryEnds, Resolved, TargetInv, HasTarget
  <2>. QED  BY <1>2, <2>2, <2>3, <2>4
<1>3. ASSUME NEW c \in Calls, Tool(c) \/ ToolAttached(c) \/ Ask(c) \/ AskGoesOn(c)  PROVE TargetInv'
  <2>1. UNCHANGED <<stage, tries, ready, target, retried>>
    <3>1. CASE Tool(c)
      BY <3>1 DEF Tool, stageVars
    <3>2. CASE ToolAttached(c)
      BY <3>2 DEF ToolAttached, stageVars, ghostVars
    <3>3. CASE Ask(c)
      BY <3>3 DEF Ask, targetVars, stageVars
    <3>4. CASE AskGoesOn(c)
      BY <3>4 DEF AskGoesOn, stageVars, ghostVars
    <3>. QED  BY <1>3, <3>1, <3>2, <3>3, <3>4
  <2>2. CASE Tool(c)
    <3>1. \/ ~ready /\ UNCHANGED retry /\ preparing' \in {"session", preparing}
          \/ /\ target = "failed" /\ runner = Nobody
             /\ UNCHANGED preparing
          \/ UNCHANGED <<retry, preparing>>
      BY <2>2 DEF Tool
    <3>. QED  BY <2>1, <3>1 DEF TargetInv, HasTarget, StageInv
  <2>3. CASE ToolAttached(c)
    BY <2>1, <2>3, TargetUnmoved DEF ToolAttached
  <2>4. CASE Ask(c)
    BY <2>1, <2>4, TargetUnmoved DEF Ask, targetVars
  <2>5. CASE AskGoesOn(c)
    <3>1. UNCHANGED retry /\ (UNCHANGED preparing \/ Prepare)
      BY <2>5 DEF AskGoesOn, AskOnDevice
    <3>. QED  BY <2>1, <3>1 DEF Prepare, TargetInv, HasTarget
  <2>. QED  BY <1>3, <2>2, <2>3, <2>4, <2>5
<1>4. ASSUME NEW c \in Calls, Chosen(c) \/ Settled(c) \/ ResolvedForCall(c)  PROVE TargetInv'
  <2>1. UNCHANGED <<stage, tries, ready, target, preparing>>
    <3>1. CASE Chosen(c)
      BY <3>1 DEF Chosen, stageVars
    <3>2. CASE Settled(c)
      BY <3>2 DEF Settled, stageVars
    <3>3. CASE ResolvedForCall(c)
      BY <3>3 DEF ResolvedForCall, stageVars
    <3>. QED  BY <1>4, <3>1, <3>2, <3>3
  <2>2. \/ UNCHANGED <<retry, retried>>
        \/ runner = Nobody /\ target = "failed" /\ retried' = TRUE
    BY <1>4 DEF Chosen, Settled, ResolvedForCall, Settle
  <2>3. CASE UNCHANGED <<retry, retried>>
    BY <2>1, <2>3, TargetUnmoved
  <2>4. CASE runner = Nobody /\ target = "failed" /\ retried' = TRUE
    <3>1. stage = "none" /\ tries = 0 /\ ready
      BY <2>4 DEF StageInv, TargetInv
    <3>. QED  BY <2>1, <2>4, <3>1 DEF TargetInv, HasTarget
  <2>. QED  BY <2>2, <2>3, <2>4
<1>5. CASE \/ DevicesReady \/ EnsureTarget \/ Probe \/ RunResolves \/ Stop \/ Escalate \/ TimesOut
           \/ \E c \in Calls : StartRun(c)
  BY <1>5, TargetRun
<1>6. ASSUME NEW k \in Kids,
             \/ KidOpens(k) \/ KidHears(k) \/ KidReports(k) \/ KidEnds(k) \/ KidExits(k)
             \/ Deliver(k) \/ ExitSeen(k)
      PROVE  TargetInv'
  <2>1. CASE KidOpens(k) \/ KidHears(k) \/ KidReports(k) \/ KidEnds(k) \/ KidExits(k)
    BY <2>1, KidActs, TargetUnmoved DEF targetVars, stageVars, ghostVars
  <2>2. CASE Deliver(k) \/ ExitSeen(k)
    <3>1. UNCHANGED targetVars
      BY <2>2 DEF Deliver, ExitSeen
    <3>2. \/ UNCHANGED <<stage, tries>>
          \/ awaited = k /\ \E t, rest, armed : GoOn(t, rest, armed)
          \/ awaited = k /\ FileFails(NoKid)
      BY <2>2 DEF Deliver, ExitSeen
    <3>3. awaited = k => runner # Nobody /\ ready
      BY DEF StageInv, TargetInv, Kids, NoKid
    <3>. QED  BY <3>1, <3>2, <3>3, GoOnStage, FileFailsStage, TargetGoesOn, TargetUnmoved DEF targetVars
  <2>. QED  BY <1>6, <2>1, <2>2
<1>. QED  BY <1>1, <1>2, <1>3, <1>4, <1>5, <1>6 DEF McpNext

LEMMA OneResolution == TargetInv => ResolvedOnce
<1>. SUFFICES ASSUME TargetInv  PROVE ResolvedOnce
  OBVIOUS
<1>. DEFINE Resolves(w) == CASE w = "session" -> preparing = "resolving"
                             [] w = "retry" -> retry # Nobody
                             [] w = "run" -> stage = "resolving"
            S == {w \in {"session", "retry", "run"} : Resolves(w)}
<1>1. ~(preparing = "resolving" /\ retry # Nobody) /\ ~(preparing = "resolving" /\ stage = "resolving")
      /\ ~(retry # Nobody /\ stage = "resolving")
  BY DEF TargetInv
<1>2. \A v, w \in S : v = w
  BY <1>1
<1>. HIDE DEF S
<1>3. Cardinality(S) <= 1
  <2>1. CASE S = {}
    BY <2>1, FS_EmptySet
  <2>2. CASE S # {}
    <3>1. PICK w \in S : TRUE
      BY <2>2
    <3>2. S = {w}
      BY <1>2, <3>1
    <3>. QED  BY <3>2, FS_Singleton
  <2>. QED  BY <2>1, <2>2
<1>. USE DEF S
<1>. QED  BY <1>3 DEF TargetInv, ResolvedOnce

-----------------------------------------------------------------------------
(* A Stop is heeded.                                                       *)

LEMMA StopUnmoved ==
    StopInv /\ UNCHANGED <<late, stage, stopRequested, corner, awaited, timer, kid>> => StopInv'
BY DEF StopInv

\* Whatever ends the file at hand leaves nothing of the Stop, or there was none.
LEMMA StopAfterFile ==
    ASSUME McpTypeOK, StopInv, awaited' = NoKid,
           \/ stage' = "none" /\ stopRequested' = FALSE /\ late' = 0
           \/ stage' = "await" /\ ~stopRequested /\ ~stopRequested' /\ late' = late
    PROVE  StopInv'
BY DEF StopInv, McpTypeOK, RunTyped

LEMMA StopFork ==
    ASSUME McpTypeOK, StopInv, stage \in {"probe", "resolving"}, Fork
    PROVE  StopInv'
BY DEF StopInv, Fork, McpTypeOK, RunTyped

LEMMA StopRun ==
    ASSUME McpTypeOK, StageInv, StopInv,
           \/ DevicesReady \/ EnsureTarget \/ Probe \/ RunResolves \/ TimesOut
           \/ \E c \in Calls : StartRun(c)
    PROVE  StopInv'
<1>1. CASE DevicesReady
  <2>1. runner # Nobody /\ awaited' = NoKid
    BY <1>1 DEF DevicesReady, StageInv
  <2>. QED  BY <1>1, <2>1, GoOnStage, StopAfterFile DEF DevicesReady
<1>2. CASE EnsureTarget
  <2>1. runner # Nobody /\ awaited = NoKid /\ awaited' = NoKid /\ stage = "await"
    BY <1>2 DEF EnsureTarget, EnsureNow, StageInv
  <2>2. CASE FileFails(timer)
    BY <2>1, <2>2, FileFailsStage, StopAfterFile
  <2>3. CASE ~FileFails(timer)
    <3>1. stage' \in {"probe", "resolving"} /\ UNCHANGED <<late, stopRequested, corner>>
      BY <1>2, <2>3 DEF EnsureTarget, EnsureNow
    <3>. QED  BY <2>1, <3>1 DEF StopInv
  <2>. QED  BY <2>2, <2>3
<1>3. CASE Probe
  <2>1. CASE Fork
    BY <1>3, <2>1, StopFork DEF Probe
  <2>2. CASE ~Fork
    <3>1. stage = "probe" /\ stage' = "resolving" /\ UNCHANGED <<late, stopRequested, corner, awaited>> /\ awaited = NoKid
      BY <1>3, <2>2 DEF Probe, kidVars, StageInv
    <3>. QED  BY <3>1 DEF StopInv
  <2>. QED  BY <2>1, <2>2
<1>4. CASE RunResolves
  <2>1. CASE target' = "up"
    BY <1>4, <2>1, StopFork DEF RunResolves
  <2>2. CASE target' # "up"
    <3>1. FileFails(timer) /\ runner # Nobody /\ awaited' = NoKid
      BY <1>4, <2>2 DEF RunResolves, StageInv
    <3>. QED  BY <3>1, FileFailsStage, StopAfterFile
  <2>. QED  BY <2>1, <2>2
<1>5. CASE TimesOut
  <2>1. FileFails(NoKid) /\ runner # Nobody /\ awaited' = NoKid
    BY <1>5 DEF TimesOut, StageInv
  <2>. QED  BY <2>1, FileFailsStage, StopAfterFile
<1>6. ASSUME NEW c \in Calls, StartRun(c)  PROVE StopInv'
  <2>1. UNCHANGED <<late, corner, kid, awaited, timer>>
    BY <1>6 DEF StartRun, kidVars, ghostVars
  <2>2. CASE runner # Nobody
    BY <1>6, <2>1, <2>2, StopUnmoved DEF StartRun
  <2>3. CASE runner = Nobody
    <3>1. ~stopRequested' /\ stage = "none"
      BY <1>6, <2>3 DEF StartRun, StageInv
    <3>. QED  BY <2>1, <3>1 DEF StopInv
  <2>. QED  BY <2>2, <2>3
<1>. QED  BY <1>1, <1>2, <1>3, <1>4, <1>5, <1>6

LEMMA StopStep ==
    ASSUME McpTypeOK, StageInv, StopInv, [McpNext]_mcpVars
    PROVE  StopInv'
<1>1. CASE \/ UNCHANGED mcpVars \/ Rest \/ Look \/ EndSync \/ Save \/ DebounceFires
           \/ ApplyPin \/ Prepared \/ RetryEnds \/ DaemonDies
           \/ \E c \in Calls : RefreshAgain(c) \/ Tool(c) \/ ToolAttached(c)
  BY <1>1, StopUnmoved DEF mcpVars, Rest, Look, EndSync, Save, DebounceFires, ApplyPin, Prepared, RetryEnds,
     DaemonDies, RefreshAgain, Tool, ToolAttached, stageVars, kidVars, ghostVars
<1>2. ASSUME NEW c \in Calls, Chosen(c) \/ Settled(c) \/ ResolvedForCall(c) \/ Ask(c) \/ AskGoesOn(c)  PROVE StopInv'
  BY <1>2, StopUnmoved DEF Chosen, Settled, ResolvedForCall, Ask, AskGoesOn, stageVars, kidVars, ghostVars
<1>3. CASE \/ DevicesReady \/ EnsureTarget \/ Probe \/ RunResolves \/ TimesOut
           \/ \E c \in Calls : StartRun(c)
  BY <1>3, StopRun
<1>4. CASE Stop
  <2>1. UNCHANGED <<late, stage, awaited>> /\ stopRequested'
    BY <1>4 DEF Stop, AskToAbort
  <2>2. CASE awaited # NoKid
    <3>1. stage = "child" /\ timer' = awaited
      BY <1>4, <2>2 DEF Stop, StageInv
    <3>. QED  BY <2>1, <3>1 DEF StopInv
  <2>3. CASE awaited = NoKid
    <3>1. stage \in {"await", "probe", "resolving"} => corner' # {}
      BY <1>4, <2>3 DEF Stop, AskToAbort
    <3>. QED  BY <2>1, <2>3, <3>1 DEF StopInv
  <2>. QED  BY <2>2, <2>3
<1>5. CASE Escalate
  <2>1. UNCHANGED <<late, stage, stopRequested, corner, awaited>>
    BY <1>5 DEF Escalate, stageVars, ghostVars
  <2>2. timer \in Kids /\ kid' = [kid EXCEPT ![timer] = [kid[timer] EXCEPT !.state = IF @ = "gone" THEN @ ELSE "exited"]]
    BY <1>5 DEF Escalate, McpTypeOK, RunTyped
  <2>3. /\ \A k \in Kids \ {timer} : kid'[k] = kid[k]
        /\ kid[timer].state # "gone" => kid'[timer].state = "exited"
    BY <2>2 DEF McpTypeOK, KidsTyped, Process
  <2>4. awaited # NoKid => awaited \in Kids /\ kid[awaited].state # "gone"
    BY DEF StageInv, McpTypeOK, KidsTyped
  <2>. QED  BY <2>1, <2>3, <2>4 DEF StopInv
<1>6. ASSUME NEW k \in Kids, KidOpens(k) \/ KidHears(k) \/ KidReports(k) \/ KidEnds(k) \/ KidExits(k)
      PROVE  StopInv'
  <2>1. /\ UNCHANGED <<stageVars, awaited, timer, ghostVars>>
        /\ \A b \in Kids \ {k} : kid'[b] = kid[b]
        /\ KidAct(kid[k], kid'[k])
    BY <1>6, KidActs
  <2>2. kid[k].state = "exited" => kid'[k].state = "exited"
    BY <2>1 DEF KidAct
  <2>. QED  BY <2>1, <2>2 DEF StopInv, stageVars, ghostVars, McpTypeOK, KidsTyped
<1>7. ASSUME NEW k \in Kids, Deliver(k)  PROVE StopInv'
  <2>1. /\ \A b \in Kids \ {k} : kid'[b] = kid[b]
        /\ kid'[k].state = kid[k].state
    BY <1>7 DEF Deliver, McpTypeOK, KidsTyped, Process
  <2>2. CASE UNCHANGED <<late, stage, stopRequested, corner, awaited, timer>>
    BY <2>1, <2>2 DEF StopInv, McpTypeOK, KidsTyped
  <2>3. CASE ~UNCHANGED <<late, stage, stopRequested, corner, awaited, timer>>
    <3>1. /\ awaited = k /\ awaited' = NoKid
          /\ FileFails(NoKid) \/ GoOn(Plus(tally, Count(kid[k].said)), Tail(todo), timer)
      BY <1>7, <2>3 DEF Deliver
    <3>2. runner # Nobody
      BY <3>1 DEF StageInv, Kids, NoKid
    <3>. QED  BY <3>1, <3>2, GoOnStage, FileFailsStage, StopAfterFile
  <2>. QED  BY <2>2, <2>3
<1>8. ASSUME NEW k \in Kids, ExitSeen(k)  PROVE StopInv'
  <2>1. CASE awaited = k
    <3>1. awaited' = NoKid /\ FileFails(NoKid) /\ runner # Nobody
      BY <1>8, <2>1 DEF ExitSeen, StageInv, Kids, NoKid
    <3>. QED  BY <3>1, FileFailsStage, StopAfterFile
  <2>2. CASE awaited # k
    <3>1. /\ UNCHANGED <<late, stage, stopRequested, awaited>> /\ timer' = NoKid
          /\ corner' = IF timer \notin {NoKid, k} THEN corner \cup {"disarmed"} ELSE corner
      BY <1>8, <2>2 DEF ExitSeen
    <3>2. \A b \in Kids \ {k} : kid'[b] = kid[b]
      BY <1>8 DEF ExitSeen, McpTypeOK, KidsTyped
    <3>3. corner # {} => corner' # {}
      BY <3>1
    <3>4. awaited # NoKid => kid'[awaited] = kid[awaited]
      BY <2>2, <3>2 DEF McpTypeOK, KidsTyped
    <3>5. timer = awaited /\ awaited # NoKid => corner' # {}
      BY <2>2, <3>1
    <3>. QED  BY <3>1, <3>3, <3>4, <3>5 DEF StopInv
  <2>. QED  BY <2>1, <2>2
<1>. QED  BY <1>1, <1>2, <1>3, <1>4, <1>5, <1>6, <1>7, <1>8 DEF McpNext

-----------------------------------------------------------------------------
(* A call goes on with a list of files that is no older than itself.       *)

\* No call comes to wait for the list.
LEMMA ListKeeps ==
    ASSUME ListInv, UNCHANGED <<sync, queued, disk, looked, known>>,
           \A c \in Calls : /\ since'[c] = since[c] \/ since'[c] = disk
                            /\ \/ step'[c] \notin {"queued", "listing", "listed"}
                               \/ step'[c] = step[c] /\ since'[c] = since[c],
           disk \in Nat
    PROVE  ListInv'
BY DEF ListInv

LEMMA ListRefreshes ==
    ASSUME McpTypeOK, ListInv, NEW c \in Calls, Refresh(c), UNCHANGED <<disk, looked, known>>,
           \/ UNCHANGED since
           \/ since' = [since EXCEPT ![c] = disk]
    PROVE  ListInv'
<1>1. \A b \in Calls \ {c} : step'[b] = step[b] /\ since'[b] = since[b]
  <2>1. PICK to : Goes(c, to)
    BY RefreshTyped
  <2>. QED  BY <2>1 DEF Goes, McpTypeOK, RunTyped, CallsTyped
<1>2. since'[c] <= disk /\ disk \in Nat /\ looked \in Nat /\ known \in Nat
  BY DEF McpTypeOK, ListTyped, CallsTyped, ListInv
<1>3. \/ step'[c] = "listing" /\ sync' = "looking" /\ UNCHANGED queued
      \/ step'[c] = "queued" /\ queued' /\ sync' = sync /\ sync # "idle"
      \/ step'[c] = "first" /\ UNCHANGED <<queued, sync>>
  BY DEF Refresh, ScheduleSync, Goes, McpTypeOK, RunTyped, ListTyped, ListInv
<1>4. ASSUME NEW b \in Calls
      PROVE  /\ since'[b] <= disk'
             /\ step'[b] = "queued" => queued'
             /\ step'[b] = "listing" => sync' # "idle" /\ (sync' = "discovering" => since'[b] <= looked')
             /\ step'[b] = "listed" => since'[b] <= known'
  <2>1. CASE b = c
    BY <1>2, <1>3, <2>1
  <2>2. CASE b # c
    BY <1>1, <1>3, <2>2 DEF ListInv
  <2>. QED  BY <2>1, <2>2
<1>5. queued' => sync' # "idle"
  BY <1>3 DEF ListInv
<1>. QED  BY <1>4, <1>5 DEF ListInv

LEMMA ListStep ==
    ASSUME McpTypeOK, StageInv, ListInv, [McpNext]_mcpVars
    PROVE  ListInv'
<1>. disk \in Nat /\ looked \in Nat /\ known \in Nat /\ since \in [Calls -> Nat]
  BY DEF McpTypeOK, ListTyped, CallsTyped
\* One call goes on, and not to wait for the list.
<1>g. ASSUME NEW c \in Calls, NEW to, Goes(c, to) \/ UNCHANGED step, to \notin {"queued", "listing", "listed"},
             UNCHANGED <<sync, queued, disk, looked, known, since>>
      PROVE  ListInv'
  <2>1. \A b \in Calls : step'[b] = step[b] \/ (b = c /\ step'[b] = to)
    BY <1>g DEF Goes, McpTypeOK, RunTyped
  <2>. QED  BY <1>g, <2>1, ListKeeps
<1>1. CASE \/ UNCHANGED mcpVars \/ Rest \/ ApplyPin \/ Prepared \/ DaemonDies \/ Stop \/ Escalate
  BY <1>1, ListKeeps DEF mcpVars, Rest, ApplyPin, Prepared, DaemonDies, Stop, AskToAbort, Escalate, fileVars,
                         callVars
<1>2. CASE Look
  BY <1>2 DEF Look, callVars, ListInv
<1>3. CASE EndSync
  <2>1. ASSUME NEW c \in Calls
        PROVE  /\ since'[c] <= disk'
               /\ step'[c] = "queued" => queued'
               /\ step'[c] = "listing" => sync' # "idle" /\ (sync' = "discovering" => since'[c] <= looked')
               /\ step'[c] = "listed" => since'[c] <= known'
    <3>1. step'[c] = CASE step[c] = "listing" -> "listed"
                       [] step[c] = "first" -> "again"
                       [] step[c] = "queued" -> "listing"
                       [] OTHER -> step[c]
      BY <1>3 DEF EndSync
    <3>2. /\ UNCHANGED <<disk, looked>> /\ queued' = FALSE /\ sync' = IF queued THEN "looking" ELSE "idle"
          /\ \/ sync = "discovering" /\ known' = looked /\ since'[c] = since[c]
             \/ /\ known' = known
                /\ since'[c] = IF step[c] = "listing" THEN 0 ELSE since[c]
      BY <1>3 DEF EndSync
    <3>3. step'[c] # "queued"
      BY <3>1
    <3>4. step'[c] = "listing" => step[c] = "queued" /\ queued
      BY <3>1 DEF ListInv
    <3>5. step'[c] = "listed" => step[c] \in {"listing", "listed"}
      BY <3>1
    <3>6. since'[c] <= disk'
      BY <3>2 DEF ListInv
    <3>7. step'[c] = "listed" => since'[c] <= known'
      BY <3>2, <3>5 DEF ListInv
    <3>. QED  BY <3>2, <3>3, <3>4, <3>6, <3>7
  <2>2. known' <= looked' /\ looked' <= disk' /\ ~queued'
    BY <1>3 DEF EndSync, ListInv
  <2>. QED  BY <2>1, <2>2 DEF ListInv
<1>4. CASE Save
  BY <1>4 DEF Save, ListInv, callVars
<1>5. CASE DebounceFires
  <2>1. PICK c \in NextCall : Made(c, NoDevice, <<Watched>>) /\ Refresh(c)
    BY <1>5 DEF DebounceFires
  <2>2. c \in Calls /\ step[c] = "none"
    BY NextCallTyped
  <2>. QED  BY <1>5, <2>1, <2>2, ListRefreshes DEF DebounceFires, Made
<1>6. ASSUME NEW c \in Calls, RefreshAgain(c)  PROVE ListInv'
  <2>1. ScheduleSync(c) /\ step[c] = "again" /\ UNCHANGED <<disk, looked, known, since>>
    BY <1>6 DEF RefreshAgain
  <2>2. /\ step'[c] \in {"listing", "queued"} /\ \A b \in Calls \ {c} : step'[b] = step[b]
        /\ step'[c] = "listing" => sync' = "looking" /\ UNCHANGED queued
        /\ step'[c] = "queued" => queued' /\ sync' = sync /\ sync # "idle"
    BY <2>1 DEF ScheduleSync, Goes, McpTypeOK, RunTyped, ListInv
  <2>. QED  BY <2>1, <2>2 DEF ListInv
<1>7. CASE RetryEnds
  <2>1. \A c \in Calls : step'[c] = step[c] \/ step'[c] \in {"none", "resolved"}
    BY <1>7 DEF RetryEnds
  <2>. QED  BY <1>7, <2>1, ListKeeps DEF RetryEnds, fileVars
<1>8. ASSUME NEW c \in Calls, Tool(c)  PROVE ListInv'
  <2>1. c \in NextCall /\ step[c] = "none" /\ since' = [since EXCEPT ![c] = disk] /\ UNCHANGED fileVars
    BY <1>8, NextCallTyped DEF Tool, Made
  <2>2. step' = step \/ Goes(c, "attaching") \/ Goes(c, "retrying")
    BY <1>8 DEF Tool
  <2>3. \A b \in Calls \ {c} : step'[b] = step[b] /\ since'[b] = since[b]
    BY <2>1, <2>2 DEF Goes, McpTypeOK, RunTyped
  <2>4. since'[c] = disk /\ step'[c] \in {"none", "attaching", "retrying"}
    BY <2>1, <2>2 DEF Goes, McpTypeOK, RunTyped
  <2>. QED  BY <2>1, <2>3, <2>4, ListKeeps DEF fileVars
<1>9. ASSUME NEW c \in Calls, ToolAttached(c)  PROVE ListInv'
  BY <1>9, <1>g DEF ToolAttached, fileVars
<1>10. ASSUME NEW c \in Calls, Chosen(c) \/ Settled(c) \/ ResolvedForCall(c) \/ AskGoesOn(c)  PROVE ListInv'
  <2>1. UNCHANGED <<disk, looked, known, since>>
    BY <1>10 DEF Chosen, Settled, ResolvedForCall, AskGoesOn
  <2>2. \/ Refresh(c)
        \/ /\ UNCHANGED <<sync, queued>>
           /\ Goes(c, "none") \/ Goes(c, "resolving") \/ Goes(c, "settling") \/ Goes(c, "choosing")
    BY <1>10 DEF Chosen, Settled, ResolvedForCall, Settle, Conclude, AskGoesOn, AskOnDevice
  <2>. QED  BY <1>g, <2>1, <2>2, ListRefreshes
<1>11. ASSUME NEW c \in Calls, Ask(c)  PROVE ListInv'
  <2>1. /\ c \in Calls /\ since' = [since EXCEPT ![c] = disk]
        /\ Refresh(c) /\ UNCHANGED <<disk, looked, known>>
    BY <1>11 DEF Ask, Made
  <2>. QED  BY <2>1, ListRefreshes
<1>12. ASSUME NEW c \in Calls, StartRun(c)  PROVE ListInv'
  BY <1>12, <1>g DEF StartRun, fileVars
<1>13. CASE DevicesReady \/ EnsureTarget \/ Probe \/ RunResolves \/ TimesOut
  <2>1. UNCHANGED <<fileVars, since>>
    BY <1>13 DEF DevicesReady, EnsureTarget, EnsureNow, Probe, RunResolves, TimesOut
  <2>2. UNCHANGED step \/ Goes(runner, "none")
    BY <1>13 DEF DevicesReady, EnsureTarget, EnsureNow, Probe, RunResolves, TimesOut, Fork, FileFails, GoOn, Finish
  <2>3. \A b \in Calls : step'[b] = step[b] \/ step'[b] = "none"
    BY <2>2 DEF Goes, McpTypeOK, RunTyped
  <2>. QED  BY <2>1, <2>3, ListKeeps DEF fileVars
<1>14. ASSUME NEW k \in Kids,
              KidOpens(k) \/ KidHears(k) \/ KidReports(k) \/ KidEnds(k) \/ KidExits(k) \/ Deliver(k) \/ ExitSeen(k)
       PROVE  ListInv'
  <2>1. UNCHANGED <<fileVars, since>>
    BY <1>14 DEF KidOpens, KidHears, KidReports, KidEnds, KidExits, KidMoves, Deliver, ExitSeen, callVars
  <2>2. UNCHANGED step \/ Goes(runner, "none")
    BY <1>14 DEF KidOpens, KidHears, KidReports, KidEnds, KidExits, KidMoves, Deliver, ExitSeen, callVars,
                 FileFails, GoOn, Finish
  <2>3. \A b \in Calls : step'[b] = step[b] \/ step'[b] = "none"
    BY <2>2 DEF Goes, McpTypeOK, RunTyped
  <2>. QED  BY <2>1, <2>3, ListKeeps DEF fileVars
<1>. QED  BY <1>1, <1>2, <1>3, <1>4, <1>5, <1>6, <1>7, <1>8, <1>9, <1>10, <1>11, <1>12, <1>13, <1>14 DEF McpNext

-----------------------------------------------------------------------------
(* A run is on the device that its call named.                             *)

\* A call that does not come to hold to anything.
Eased(c) ==
    \/ /\ want'[c] = want[c]
       /\ c \in loose => c \in loose'
       /\ c \in LetThrough' => c \in LetThrough
       /\ step'[c] = "running" => step[c] = "running"
    \/ want'[c] = NoDevice
    \/ c \notin LetThrough' /\ step'[c] # "running"

LEMMA PinKeeps ==
    ASSUME PinInv, UNCHANGED <<target, device, pin, retry, retried, stage, aim>>, \A c \in Calls : Eased(c),
           stage = "resolving" => Attaching' \subseteq Attaching,
           \A c \in Calls : step'[c] = "resolving" => step[c] = "resolving"
    PROVE  OnPin' /\ OwnRetry' /\ LetOn' /\ RunOn'
<1>1. OnPin' /\ OwnRetry'
  BY DEF PinInv, OnPin, OwnRetry, HasTarget
<1>2. \A c \in Calls : Confirmed(c) /\ want'[c] = want[c] => Confirmed(c)'
  BY DEF Confirmed, HasTarget
<1>3. LetOn'
  BY <1>2 DEF PinInv, LetOn, Eased, Holding, LetThrough
<1>4. RunOn'
  <2>1. ASSUME NEW c \in Calls, Holding(c)', step'[c] = "running"
        PROVE  \/ Confirmed(c)'
               \/ stage' = "resolving" /\ aim' = want'[c] /\ pin' = want'[c] /\ Attaching' = {}
               \/ stage' = "await" /\ target' = "failed" /\ retried' /\ retry' = Nobody
    <3>1. want'[c] = want[c] /\ Holding(c) /\ step[c] = "running"
      BY <2>1 DEF Eased, Holding
    <3>. QED  BY <1>2, <3>1 DEF PinInv, RunOn
  <2>. QED  BY <2>1 DEF RunOn
<1>. QED  BY <1>1, <1>3, <1>4

LEMMA AimStep ==
    ASSUME McpTypeOK, StageInv, TargetInv, AimInv, [McpNext]_mcpVars
    PROVE  AimInv'
<1>k. ASSUME stage' = "resolving" => UNCHANGED <<stage, aim>> /\ pin' \in {pin, NoDevice}
      PROVE  AimInv'
  BY <1>k DEF AimInv
<1>1. CASE \/ UNCHANGED mcpVars \/ Rest \/ Look \/ EndSync \/ Save \/ DebounceFires
           \/ Prepared \/ RetryEnds \/ DaemonDies \/ Stop \/ Escalate
           \/ \E c \in Calls : RefreshAgain(c) \/ Tool(c) \/ Ask(c)
  BY <1>1, <1>k DEF mcpVars, Rest, Look, EndSync, Save, DebounceFires, Prepared, RetryEnds, DaemonDies, Stop,
     AskToAbort, Escalate, RefreshAgain, Tool, Ask, targetVars, stageVars
<1>2. CASE ApplyPin
  <2>1. ~ready /\ UNCHANGED stageVars
    BY <1>2 DEF ApplyPin, TargetInv
  <2>. QED  BY <2>1, <1>k DEF TargetInv, stageVars
<1>3. ASSUME NEW c \in Calls, ToolAttached(c)  PROVE AimInv'
  BY <1>3, <1>k DEF ToolAttached, stageVars
<1>4. ASSUME NEW c \in Calls, Chosen(c) \/ Settled(c) \/ ResolvedForCall(c) \/ AskGoesOn(c)  PROVE AimInv'
  <2>1. UNCHANGED stageVars
    <3>1. CASE Chosen(c)
      BY <3>1 DEF Chosen
    <3>2. CASE Settled(c)
      BY <3>2 DEF Settled
    <3>3. CASE ResolvedForCall(c)
      BY <3>3 DEF ResolvedForCall
    <3>4. CASE AskGoesOn(c)
      BY <3>4 DEF AskGoesOn
    <3>. QED  BY <1>4, <3>1, <3>2, <3>3, <3>4
  <2>2. pin' \in {pin, NoDevice} \/ HasTarget \/ runner = Nobody
    BY <1>4 DEF Chosen, Settled, ResolvedForCall, AskGoesOn, Settle, Conclude
  <2>3. stage = "resolving" => ~HasTarget /\ runner # Nobody
    BY DEF TargetInv, StageInv
  <2>. QED  BY <2>1, <2>2, <2>3, <1>k DEF stageVars
<1>5. ASSUME NEW c \in Calls, StartRun(c)  PROVE AimInv'
  BY <1>5, <1>k DEF StartRun
<1>6. CASE EnsureTarget \/ Probe
  <2>1. UNCHANGED pin /\ (stage' = "resolving" => aim' = pin)
    <3>1. CASE EnsureTarget
      BY <3>1, FileFailsStage DEF EnsureTarget, EnsureNow, StageInv
    <3>2. CASE Probe
      BY <3>2 DEF Probe, Fork
    <3>. QED  BY <1>6, <3>1, <3>2
  <2>. QED  BY <2>1 DEF AimInv
<1>7. CASE DevicesReady \/ RunResolves \/ TimesOut
  <2>1. stage' # "resolving"
    <3>1. CASE DevicesReady
      BY <3>1, GoOnStage DEF DevicesReady, StageInv
    <3>2. CASE RunResolves
      BY <3>2, FileFailsStage DEF RunResolves, Fork, StageInv
    <3>3. CASE TimesOut
      BY <3>3, FileFailsStage DEF TimesOut, StageInv
    <3>. QED  BY <1>7, <3>1, <3>2, <3>3
  <2>. QED  BY <2>1 DEF AimInv
<1>8. ASSUME NEW k \in Kids, KidOpens(k) \/ KidHears(k) \/ KidReports(k) \/ KidEnds(k) \/ KidExits(k)
      PROVE  AimInv'
  BY <1>8, <1>k, KidActs DEF targetVars, stageVars
<1>9. ASSUME NEW k \in Kids, Deliver(k) \/ ExitSeen(k)  PROVE AimInv'
  <2>1. UNCHANGED <<pin, aim>>
    BY <1>9 DEF Deliver, ExitSeen, targetVars
  <2>2. \/ UNCHANGED stage
        \/ awaited = k /\ \E t, rest, armed : GoOn(t, rest, armed)
        \/ awaited = k /\ FileFails(NoKid)
    BY <1>9 DEF Deliver, ExitSeen
  <2>3. awaited = k => runner # Nobody
    BY DEF StageInv, Kids, NoKid
  <2>4. UNCHANGED stage \/ stage' # "resolving"
    BY <2>2, <2>3, GoOnStage, FileFailsStage
  <2>. QED  BY <2>1, <2>4, <1>k
<1>. QED  BY <1>1, <1>2, <1>3, <1>4, <1>5, <1>6, <1>7, <1>8, <1>9 DEF McpNext

LEMMA ChildKeeps ==
    ASSUME McpTypeOK, StageInv, PinInv, stage' = "child" => UNCHANGED <<stage, runner, awaited>>,
           runner # Nobody => /\ want'[runner] = want[runner]
                              /\ runner \in loose => runner \in loose',
           \A k \in Kids : k = awaited => kid'[k].on = kid[k].on
    PROVE  ChildOn'
<1>. SUFFICES ASSUME stage' = "child", Holding(runner)'
              PROVE  kid'[awaited'].on = want'[runner']
  BY DEF ChildOn
<1>1. runner # Nobody /\ awaited \in Kids
  BY DEF StageInv, McpTypeOK, KidsTyped
<1>2. Holding(runner)
  BY <1>1 DEF Holding
<1>. QED  BY <1>1, <1>2 DEF PinInv, ChildOn

\* While the target is not up or dead, no call that was let through holds to it.
LEMMA NoneHolds ==
    ASSUME PinInv, ~HasTarget
    PROVE  /\ \A c \in LetThrough : ~Holding(c)
           /\ stage \notin {"resolving", "await"} => \A c \in Calls : step[c] = "running" => ~Holding(c)
BY DEF PinInv, LetOn, RunOn, Confirmed

LEMMA PinList ==
    ASSUME McpTypeOK, StageInv, PinInv,
           \/ UNCHANGED mcpVars \/ Rest \/ Look \/ EndSync \/ Save \/ DebounceFires
           \/ \E c \in Calls : RefreshAgain(c)
    PROVE  PinInv'
<1>1. UNCHANGED <<targetVars, stageVars, kidVars>>
  BY DEF mcpVars, Rest, Look, EndSync, Save, DebounceFires, RefreshAgain
<1>2. CASE UNCHANGED mcpVars \/ Rest \/ Look \/ Save
  <2>1. UNCHANGED <<step, want, asks, loose>>
    BY <1>2 DEF mcpVars, Rest, Look, Save, callVars, ghostVars
  <2>. QED  BY <1>1, <2>1 DEF PinInv, OnPin, OwnRetry, LetOn, RunOn, ChildOn, Holding, Confirmed, HasTarget,
                              LetThrough, Attaching, targetVars, stageVars, kidVars
<1>3. CASE EndSync
  <2>1. UNCHANGED <<want, asks, loose>>
    BY <1>3 DEF EndSync, ghostVars
  <2>2. \A c \in Calls : \/ step'[c] = step[c]
                         \/ /\ step[c] \in {"first", "listing", "queued"}
                            /\ step'[c] \in {"again", "listing", "listed"}
    BY <1>3 DEF EndSync
  <2>3. \A c \in Calls : Eased(c)
    BY <2>1, <2>2 DEF Eased, LetThrough
  <2>4. Attaching' \subseteq Attaching /\ \A c \in Calls : step'[c] = "resolving" => step[c] = "resolving"
    BY <2>2 DEF Attaching, LetThrough
  <2>5. ChildOn'
    BY <1>1, <2>1, ChildKeeps DEF stageVars, kidVars
  <2>. QED  BY <1>1, <2>3, <2>4, <2>5, PinKeeps DEF PinInv, targetVars, stageVars
<1>4. CASE DebounceFires
  <2>1. PICK c \in NextCall : Made(c, NoDevice, <<Watched>>) /\ Refresh(c)
    BY <1>4 DEF DebounceFires
  <2>2. c \in Calls /\ step[c] = "none"
    BY NextCallTyped
  <2>3. PICK to \in {"first", "listing", "queued"} : Goes(c, to)
    BY <2>1, <2>2, RefreshTyped
  <2>4. /\ \A b \in Calls \ {c} : step'[b] = step[b] /\ want'[b] = want[b] /\ (b \in loose => b \in loose')
        /\ want'[c] = NoDevice /\ step'[c] = to
    BY <2>1, <2>2, <2>3 DEF Made, Goes, McpTypeOK, RunTyped, CallsTyped
  <2>5. \A b \in Calls : Eased(b)
    BY <1>4, <2>2, <2>4 DEF Eased, LetThrough, DebounceFires
  <2>6. Attaching' \subseteq Attaching /\ \A b \in Calls : step'[b] = "resolving" => step[b] = "resolving"
    BY <2>4 DEF Attaching
  <2>7. runner # c
    BY <2>2 DEF StageInv
  <2>8. ChildOn'
    BY <1>1, <2>4, <2>7, ChildKeeps DEF stageVars, kidVars, McpTypeOK, RunTyped
  <2>. QED  BY <1>1, <2>5, <2>6, <2>8, PinKeeps DEF PinInv, targetVars, stageVars
<1>5. ASSUME NEW c \in Calls, RefreshAgain(c)  PROVE PinInv'
  <2>1. step[c] = "again" /\ UNCHANGED <<want, asks, loose>>
    BY <1>5 DEF RefreshAgain, ghostVars
  <2>2. step'[c] \in {"listing", "queued"} /\ \A b \in Calls \ {c} : step'[b] = step[b]
    BY <1>5 DEF RefreshAgain, ScheduleSync, Goes, McpTypeOK, RunTyped
  <2>3. \A b \in Calls : Eased(b)
    BY <2>1, <2>2 DEF Eased, LetThrough
  <2>4. Attaching' \subseteq Attaching /\ \A b \in Calls : step'[b] = "resolving" => step[b] = "resolving"
    BY <2>2 DEF Attaching
  <2>5. ChildOn'
    BY <1>1, <2>1, ChildKeeps DEF stageVars, kidVars
  <2>. QED  BY <1>1, <2>3, <2>4, <2>5, PinKeeps DEF PinInv, targetVars, stageVars
<1>. QED  BY <1>2, <1>3, <1>4, <1>5

LEMMA PinTarget ==
    ASSUME McpTypeOK, StageInv, TargetInv, PinInv,
           \/ ApplyPin \/ Prepared \/ RetryEnds \/ DaemonDies
           \/ \E c \in Calls : Tool(c) \/ ToolAttached(c)
    PROVE  PinInv'
<1>n. Nobody \notin Calls
  BY DEF Nobody, Calls
<1>1. CASE ApplyPin \/ Prepared
  <2>1. /\ UNCHANGED <<stageVars, kidVars, callVars, ghostVars, retry>>
        /\ ~ready /\ ~HasTarget
    BY <1>1 DEF ApplyPin, Prepared, TargetInv, HasTarget
  <2>2. stage \notin {"resolving", "await"} /\ target = "none"
    BY <2>1 DEF TargetInv, McpTypeOK, TargetTyped
  <2>3. \A c \in Calls : Holding(c)' = Holding(c) /\ step'[c] = step[c]
    BY <2>1 DEF Holding, callVars, ghostVars
  <2>4. LetOn' /\ RunOn' /\ OwnRetry'
    <3>1. LetThrough' = LetThrough /\ UNCHANGED stage
      BY <2>1 DEF LetThrough, callVars, stageVars
    <3>2. \A c \in LetThrough' : ~Holding(c)'
      <4>1. \A c \in LetThrough : c \in Calls /\ ~Holding(c)
        BY <2>1, NoneHolds DEF LetThrough
      <4>. QED  BY <2>3, <3>1, <4>1
    <3>3. LetOn'
      BY <3>2 DEF LetOn
    <3>4. RunOn'
      BY <2>1, <2>2, <2>3, <3>1, NoneHolds DEF RunOn
    <3>5. OwnRetry'
      BY <2>1, <2>3 DEF PinInv, OwnRetry
    <3>. QED  BY <3>3, <3>4, <3>5
  <2>5. OnPin'
    <3>1. CASE ApplyPin
      BY <2>2, <3>1 DEF ApplyPin, OnPin, HasTarget
    <3>2. CASE Prepared
      BY <3>2 DEF Prepared, Resolved, OnPin, HasTarget
    <3>. QED  BY <1>1, <3>1, <3>2
  <2>6. ChildOn'
    BY <2>1, ChildKeeps DEF stageVars, kidVars, callVars, ghostVars
  <2>. QED  BY <2>4, <2>5, <2>6 DEF PinInv
<1>2. CASE RetryEnds
  <2>1. /\ UNCHANGED <<stageVars, kidVars, ghostVars, want, asks, pin>> /\ retry # Nobody /\ retry' = Nobody
        /\ ~HasTarget /\ stage # "resolving"
        /\ Resolved(pin)
    BY <1>2 DEF RetryEnds, TargetInv, HasTarget
  <2>2. \A c \in Calls : \/ step'[c] = step[c] /\ step[c] # "resolving"
                         \/ step'[c] \in {"none", "resolved"}
    BY <1>2 DEF RetryEnds
  <2>3. OwnRetry' /\ OnPin'
    BY <2>1, <2>2 DEF OwnRetry, OnPin, HasTarget, Resolved
  <2>4. \A c \in LetThrough' : ~Holding(c)'
    BY <2>1, <2>2, NoneHolds DEF LetThrough, Holding, ghostVars
  <2>5. \A c \in Calls : step'[c] = "running" => ~Holding(c)'
    <3>1. ASSUME NEW c \in Calls, step'[c] = "running", Holding(c)'  PROVE FALSE
      <4>1. step[c] = "running" /\ Holding(c)
        BY <2>1, <2>2, <3>1 DEF Holding, ghostVars
      <4>. QED  BY <2>1, <4>1 DEF PinInv, RunOn, Confirmed
    <3>. QED  BY <3>1
  <2>6. ChildOn'
    BY <2>1, ChildKeeps DEF stageVars, kidVars, ghostVars
  <2>. QED  BY <2>3, <2>4, <2>5, <2>6 DEF PinInv, LetOn, RunOn
<1>3. CASE DaemonDies
  <2>1. /\ UNCHANGED <<stageVars, kidVars, ghostVars, callVars, pin, device, retry, retried>>
        /\ target = "up" /\ target' = "dead"
    BY <1>3 DEF DaemonDies
  <2>2. HasTarget /\ HasTarget' /\ stage # "resolving"
    BY <2>1 DEF HasTarget, TargetInv
  <2>3. \A c \in Calls : (Holding(c)' <=> Holding(c)) /\ (Confirmed(c) => Confirmed(c)') /\ step'[c] = step[c]
    BY <2>1, <2>2 DEF Holding, Confirmed, callVars, ghostVars
  <2>4. OnPin' /\ OwnRetry' /\ LetOn'
    <3>1. LetThrough' = LetThrough /\ UNCHANGED stage
      BY <2>1 DEF LetThrough, callVars, stageVars
    <3>2. \A c \in LetThrough' : Holding(c)' => Confirmed(c)'
      <4>1. \A c \in LetThrough : c \in Calls /\ (Holding(c) => Confirmed(c))
        BY DEF PinInv, LetOn, LetThrough
      <4>. QED  BY <2>3, <3>1, <4>1
    <3>3. LetOn'
      BY <3>2 DEF LetOn
    <3>4. OnPin' /\ OwnRetry'
      BY <2>1, <2>2, <2>3 DEF PinInv, OnPin, OwnRetry
    <3>. QED  BY <3>3, <3>4
  <2>5. RunOn'
    BY <2>1, <2>2, <2>3 DEF PinInv, RunOn
  <2>6. ChildOn'
    BY <2>1, ChildKeeps DEF stageVars, kidVars, callVars, ghostVars
  <2>. QED  BY <2>4, <2>5, <2>6 DEF PinInv
<1>4. ASSUME NEW c \in Calls, Tool(c)  PROVE PinInv'
  <2>1. /\ c \in NextCall /\ step[c] = "none"
        /\ UNCHANGED <<stageVars, kidVars, target, device, pin, retried, asks>>
        /\ \/ Goes(c, "attaching") /\ ~ready /\ UNCHANGED retry
           \/ Goes(c, "retrying") /\ retry = Nobody /\ retry' = c /\ runner = Nobody
           \/ UNCHANGED <<step, retry>>
    BY <1>4, NextCallTyped DEF Tool
  <2>2. PICK d : Made(c, d, <<>>)
    BY <1>4 DEF Tool
  <2>3. /\ \A b \in Calls \ {c} : step'[b] = step[b] /\ want'[b] = want[b] /\ (b \in loose <=> b \in loose')
        /\ step'[c] \in {"none", "attaching", "retrying"}
        /\ step'[c] = "attaching" => ~ready
    BY <2>1, <2>2 DEF Made, Goes, McpTypeOK, RunTyped, CallsTyped
  <2>4. \A b \in Calls : Eased(b)
    BY <2>1, <2>3 DEF Eased, LetThrough
  <2>5. stage = "resolving" => Attaching' \subseteq Attaching
    BY <2>3 DEF Attaching, TargetInv
  <2>6. ChildOn'
    <3>1. runner # c
      BY <2>1 DEF StageInv
    <3>. QED  BY <2>1, <2>3, <3>1, ChildKeeps DEF stageVars, kidVars, McpTypeOK, RunTyped
  <2>7. CASE UNCHANGED retry
    <3>1. \A b \in Calls : step'[b] = "resolving" => step[b] = "resolving"
      BY <2>3
    <3>. QED  BY <2>1, <2>4, <2>5, <2>6, <2>7, <3>1, PinKeeps DEF PinInv, stageVars
  <2>8. CASE retry = Nobody /\ runner = Nobody
    <3>1. \A b \in Calls : step'[b] # "resolving" /\ step'[b] # "running"
      BY <1>n, <2>3, <2>8 DEF PinInv, OwnRetry, StageInv
    <3>2. OnPin' /\ OwnRetry' /\ RunOn'
      BY <2>1, <3>1 DEF PinInv, OnPin, OwnRetry, RunOn, HasTarget
    <3>3. LetOn'
      BY <2>1, <2>3 DEF PinInv, LetOn, LetThrough, Holding, Confirmed, HasTarget
    <3>. QED  BY <2>6, <3>2, <3>3 DEF PinInv
  <2>. QED  BY <2>1, <2>7, <2>8
<1>5. ASSUME NEW c \in Calls, ToolAttached(c)  PROVE PinInv'
  <2>1. /\ step[c] = "attaching"
        /\ UNCHANGED <<stageVars, kidVars, ghostVars, want, asks, target, device, retry, retried>>
        /\ HasTarget => UNCHANGED pin
        /\ pin' = pin \/ pin' = NoDevice
    BY <1>5 DEF ToolAttached
  <2>2. step'[c] = "none" /\ \A b \in Calls \ {c} : step'[b] = step[b]
    BY <1>5 DEF ToolAttached, Goes, McpTypeOK, RunTyped
  <2>3. c \in Attaching
    BY <2>1 DEF Attaching
  <2>4. \A b \in Calls : (Holding(b)' <=> Holding(b)) /\ (Confirmed(b) => Confirmed(b)')
    BY <2>1 DEF Holding, Confirmed, HasTarget, ghostVars
  <2>5. OnPin' /\ OwnRetry'
    BY <2>1, <2>2 DEF PinInv, OnPin, OwnRetry, HasTarget
  <2>6. LetOn'
    BY <2>1, <2>2, <2>4 DEF PinInv, LetOn, LetThrough
  <2>7. RunOn'
    BY <2>1, <2>2, <2>3, <2>4 DEF PinInv, RunOn, stageVars
  <2>8. ChildOn'
    BY <2>1, ChildKeeps DEF stageVars, kidVars, ghostVars
  <2>. QED  BY <2>5, <2>6, <2>7, <2>8 DEF PinInv
<1>. QED  BY <1>1, <1>2, <1>3, <1>4, <1>5

LEMMA PinChoice ==
    ASSUME McpTypeOK, StageInv, TargetInv, PinInv, NEW c \in Calls,
           Chosen(c) \/ Settled(c) \/ ResolvedForCall(c) \/ Ask(c) \/ AskGoesOn(c)
    PROVE  PinInv'
<1>n. Nobody \notin Calls
  BY DEF Nobody, Calls
<1>0. /\ UNCHANGED <<stageVars, kidVars, target, device>>
      /\ step[c] \in {"none", "choosing", "settling", "resolved", "listed"}
      /\ runner # c
  <2>1. UNCHANGED <<stageVars, kidVars, target, device>>
    <3>1. CASE Chosen(c)
      BY <3>1 DEF Chosen
    <3>2. CASE Settled(c)
      BY <3>2 DEF Settled
    <3>3. CASE ResolvedForCall(c)
      BY <3>3 DEF ResolvedForCall
    <3>4. CASE Ask(c)
      BY <3>4 DEF Ask, targetVars
    <3>5. CASE AskGoesOn(c)
      BY <3>5 DEF AskGoesOn
    <3>. QED  BY <3>1, <3>2, <3>3, <3>4, <3>5
  <2>2. step[c] \in {"none", "choosing", "settling", "resolved", "listed"}
    BY StageChoice
  <2>. QED  BY <2>1, <2>2 DEF StageInv
<1>s. PICK to \in {"none", "first", "listing", "queued", "resolving", "settling", "choosing"} : Goes(c, to)
  BY StageChoice
<1>t. step'[c] = to /\ \A b \in Calls \ {c} : step'[b] = step[b]
  BY <1>s DEF Goes, McpTypeOK, RunTyped
\* The call names its device as before, and is only let off.
<1>c. ASSUME UNCHANGED want, loose \subseteq loose'
      PROVE  ChildOn'
  BY <1>0, <1>c, ChildKeeps DEF stageVars, kidVars
\* The answer.
<1>1. ASSUME Conclude(c), UNCHANGED <<retry, retried, want, asks>>, step[c] \in {"choosing", "settling", "resolved"}
      PROVE  PinInv'
  <2>. DEFINE d == want[c]
  <2>1. /\ Attaching' \subseteq Attaching /\ loose \subseteq loose' /\ (~HasTarget => c \in loose')
        /\ ~HasTarget /\ pin' # pin => \A b \in Calls : b = runner /\ want[b] = pin => b \in loose'
    BY <1>1, <1>t, ConcludeTyped DEF Attaching, Conclude
  <2>2. step'[c] \in {"none", "first", "listing", "queued"}
    BY <1>1, <1>t, ConcludeTyped DEF Goes, McpTypeOK, RunTyped
  <2>3. OwnRetry'
    BY <1>1, <1>t, <2>2 DEF PinInv, OwnRetry
  <2>4. /\ \A b \in Calls : Holding(b)' => Holding(b)
        /\ ~HasTarget => ~Holding(c)'
    BY <1>1, <2>1 DEF Holding
  <2>5. CASE ~HasTarget
    <3>1. \A b \in LetThrough' : ~Holding(b)'
      BY <1>1, <1>t, <2>4, <2>5, NoneHolds DEF LetThrough
    <3>2. OnPin' /\ LetOn'
      BY <1>0, <2>5, <3>1 DEF OnPin, LetOn, HasTarget
    <3>3. RunOn'
      <4>1. ASSUME NEW b \in Calls, Holding(b)', step'[b] = "running"
            PROVE  \/ stage' = "resolving" /\ aim' = want'[b] /\ pin' = want'[b] /\ Attaching' = {}
                   \/ stage' = "await" /\ target' = "failed" /\ retried' /\ retry' = Nobody
        <5>1. step[b] = "running" /\ Holding(b) /\ b = runner /\ b \notin loose'
          BY <1>t, <2>2, <2>4, <4>1 DEF StageInv, Holding
        <5>2. CASE stage = "resolving" /\ aim = want[b] /\ pin = want[b] /\ Attaching = {}
          BY <1>0, <1>1, <2>1, <2>5, <5>1, <5>2 DEF stageVars
        <5>3. CASE stage = "await" /\ target = "failed" /\ retried /\ retry = Nobody
          BY <1>0, <1>1, <5>3 DEF stageVars
        <5>. QED  BY <2>5, <5>1, <5>2, <5>3 DEF PinInv, RunOn, Confirmed
      <4>. QED  BY <4>1 DEF RunOn
    <3>. QED  BY <1>1, <1>c, <2>1, <2>3, <3>2, <3>3 DEF PinInv
  <2>6. CASE HasTarget /\ device = d
    <3>1. pin' = IF pin = NoDevice THEN d ELSE pin
      BY <1>1, <2>6 DEF Conclude
    <3>2. pin' = d
      BY <2>6, <3>1 DEF PinInv, OnPin
    <3>3. OnPin' /\ HasTarget'
      BY <1>0, <2>6, <3>2 DEF OnPin, HasTarget
    <3>4. \A b \in Calls : want[b] # NoDevice /\ Confirmed(b) => Confirmed(b)'
      BY <1>0, <1>1, <3>1, <3>3 DEF Confirmed
    <3>5. want[c] # NoDevice => Confirmed(c)'
      BY <1>0, <1>1, <2>6, <3>2, <3>3 DEF Confirmed
    <3>6. LetOn'
      <4>1. ASSUME NEW b \in LetThrough', Holding(b)'  PROVE Confirmed(b)'
        <5>1. CASE b = c
          BY <1>1, <3>5, <4>1, <5>1 DEF Holding
        <5>2. CASE b # c
          BY <1>1, <1>t, <2>4, <3>4, <4>1, <5>2 DEF PinInv, LetOn, LetThrough, Holding
        <5>. QED  BY <5>1, <5>2
      <4>. QED  BY <4>1 DEF LetOn
    <3>7. RunOn'
      <4>1. ASSUME NEW b \in Calls, Holding(b)', step'[b] = "running"  PROVE Confirmed(b)'
        <5>1. step[b] = "running" /\ Holding(b)
          BY <1>t, <2>2, <2>4, <4>1
        <5>2. Confirmed(b)
          BY <2>6, <5>1 DEF PinInv, RunOn, TargetInv, HasTarget
        <5>. QED  BY <3>4, <5>1, <5>2 DEF Holding
      <4>. QED  BY <4>1 DEF RunOn
    <3>. QED  BY <1>1, <1>c, <2>1, <2>3, <3>3, <3>6, <3>7 DEF PinInv
  <2>7. CASE HasTarget /\ device # d
    <3>1. pin' = pin /\ Goes(c, "none")
      BY <1>1, <2>7 DEF Conclude
    <3>2. step'[c] = "none"
      BY <3>1 DEF Goes, McpTypeOK, RunTyped
    <3>3. \A b \in Calls : Eased(b)
      BY <1>1, <1>t, <2>1, <3>2 DEF Eased, LetThrough
    <3>4. /\ Attaching' \subseteq Attaching
          /\ \A b \in Calls : step'[b] = "resolving" => step[b] = "resolving"
      BY <1>t, <3>2 DEF Attaching
    <3>. QED  BY <1>0, <1>1, <1>c, <2>1, <3>1, <3>3, <3>4, PinKeeps DEF PinInv, stageVars
  <2>. QED  BY <2>5, <2>6, <2>7
\* The target is tried on the device that the call names.
<1>2. ASSUME runner = Nobody, target = "failed", pin' = want[c], retry' = c, Goes(c, "resolving"),
             retry = Nobody, UNCHANGED <<want, asks, loose>>
      PROVE  PinInv'
  <2>1. ~HasTarget /\ ~HasTarget' /\ step'[c] = "resolving"
    BY <1>0, <1>2 DEF HasTarget, Goes, McpTypeOK, RunTyped
  <2>2. OnPin' /\ OwnRetry'
    BY <1>n, <1>2, <1>t, <2>1 DEF PinInv, OnPin, OwnRetry
  <2>3. LetOn'
    BY <1>2, <1>t, <2>1, NoneHolds DEF LetOn, LetThrough, Holding
  <2>4. RunOn'
    BY <1>2, <1>n, <1>t, <2>1 DEF StageInv, RunOn
  <2>. QED  BY <1>2, <1>c, <2>2, <2>3, <2>4 DEF PinInv
<1>3. ASSUME NEW b \in BOOLEAN, Settle(c, b), retry = Nobody, UNCHANGED <<want, asks>>,
             step[c] \in {"choosing", "settling", "resolved"}
      PROVE  PinInv'
  BY <1>1, <1>2, <1>3 DEF Settle
<1>4. CASE Chosen(c)
  <2>1. CASE retry = Nobody
    <3>1. Settle(c, tried[c] /\ pin = want[c]) /\ (tried[c] /\ pin = want[c]) \in BOOLEAN
          /\ UNCHANGED <<want, asks>> /\ step[c] = "choosing"
      BY <1>4, <2>1 DEF Chosen
    <3>. QED  BY <1>3, <2>1, <3>1
  <2>2. CASE retry # Nobody
    <3>1. Goes(c, "settling") /\ UNCHANGED <<pin, retry, retried, loose, want, asks>> /\ step[c] = "choosing"
      BY <1>4, <2>2 DEF Chosen
    <3>2. step'[c] = "settling"
      BY <3>1 DEF Goes, McpTypeOK, RunTyped
    <3>3. \A b \in Calls : Eased(b)
      BY <1>t, <3>1, <3>2 DEF Eased, LetThrough
    <3>4. /\ Attaching' \subseteq Attaching
          /\ \A b \in Calls : step'[b] = "resolving" => step[b] = "resolving"
      BY <1>t, <3>1, <3>2 DEF Attaching
    <3>. QED  BY <1>0, <1>c, <3>1, <3>3, <3>4, PinKeeps DEF PinInv, stageVars
  <2>. QED  BY <2>1, <2>2
<1>5. CASE Settled(c)
  <2>1. Settle(c, tried[c]) /\ tried[c] \in BOOLEAN /\ retry = Nobody /\ UNCHANGED <<want, asks>> /\ step[c] = "settling"
    BY <1>5 DEF Settled, McpTypeOK, CallsTyped
  <2>. QED  BY <1>3, <2>1
<1>6. CASE ResolvedForCall(c)
  BY <1>1, <1>6 DEF ResolvedForCall
<1>7. CASE Ask(c)
  <2>1. runner = Nobody /\ UNCHANGED <<pin, retry, retried>> /\ asks' = asks \cup {c}
    BY <1>7 DEF Ask, targetVars
  <2>2. PICK d : Made(c, d, Scene.files) /\ Refresh(c)
    BY <1>7 DEF Ask
  <2>3. \A b \in Calls \ {c} : want'[b] = want[b] /\ (b \in loose => b \in loose')
    BY <2>2 DEF Made, McpTypeOK, CallsTyped
  <2>4. step'[c] \in {"first", "listing", "queued"}
    BY <2>2, RefreshTyped DEF Goes, McpTypeOK, RunTyped
  <2>5. \A b \in Calls : Eased(b)
    BY <1>t, <2>1, <2>3, <2>4 DEF Eased, LetThrough
  <2>6. stage = "none"
    BY <2>1 DEF StageInv
  <2>7. ChildOn'
    BY <1>0, <2>6 DEF ChildOn, stageVars
  <2>. QED  BY <1>0, <1>t, <2>1, <2>4, <2>5, <2>6, <2>7, PinKeeps DEF PinInv, stageVars
<1>8. CASE AskGoesOn(c)
  <2>1. UNCHANGED <<pin, retry, retried, want, loose>> /\ asks' = asks \ {c}
    BY <1>8 DEF AskGoesOn, ghostVars
  <2>2. \/ want[c] = NoDevice /\ step'[c] \in {"first", "listing", "queued"}
        \/ step'[c] = "choosing"
    BY <1>8, RefreshTyped DEF AskGoesOn, AskOnDevice, Goes, McpTypeOK, RunTyped
  <2>3. \A b \in Calls : Eased(b)
    BY <1>t, <2>1, <2>2 DEF Eased, LetThrough
  <2>4. Attaching' \subseteq Attaching /\ \A b \in Calls : step'[b] = "resolving" => step[b] = "resolving"
    BY <1>t, <2>2 DEF Attaching
  <2>. QED  BY <1>0, <1>c, <2>1, <2>3, <2>4, PinKeeps DEF PinInv, stageVars
<1>. QED  BY <1>4, <1>5, <1>6, <1>7, <1>8

\* The run ends, or goes on without having got the target.
LEMMA PinGoesOn ==
    ASSUME McpTypeOK, StageInv, PinInv, UNCHANGED <<want, asks, loose, retry, pin>>,
           \/ /\ runner' = Nobody /\ stage' = "none" /\ step' = [step EXCEPT ![runner] = "none"]
           \/ runner' = runner /\ stage' = "await" /\ step' = step,
           runner # Nobody,
           \A c \in Calls : c = runner /\ Holding(c) =>
               Confirmed(c)' \/ (target' = "failed" /\ retried' /\ retry = Nobody),
           OnPin', \A c \in LetThrough : Holding(c) => Confirmed(c)'
    PROVE  PinInv'
<1>1. \A c \in Calls : step'[c] = step[c] \/ (c = runner /\ step'[c] = "none")
  BY DEF McpTypeOK, RunTyped
<1>2. \A c \in Calls : Holding(c)' <=> Holding(c)
  BY DEF Holding
<1>3. OwnRetry' /\ LetOn'
  BY <1>1, <1>2 DEF PinInv, OwnRetry, LetOn, LetThrough
<1>4. ChildOn'
  BY DEF ChildOn
<1>5. RunOn'
  <2>1. ASSUME NEW c \in Calls, Holding(c)', step'[c] = "running"
        PROVE  Confirmed(c)' \/ (stage' = "await" /\ target' = "failed" /\ retried' /\ retry' = Nobody)
    <3>1. c = runner /\ step'[c] = step[c] /\ Holding(c)
      BY <1>1, <1>2, <2>1 DEF StageInv
    <3>2. step' # [step EXCEPT ![runner] = "none"]
      BY <2>1, <3>1 DEF McpTypeOK, RunTyped
    <3>. QED  BY <3>1, <3>2
  <2>. QED  BY <2>1 DEF RunOn
<1>. QED  BY <1>3, <1>4, <1>5 DEF PinInv

\* A process is forked, on the device of the target.
LEMMA PinFork ==
    ASSUME McpTypeOK, StageInv, PinInv, UNCHANGED <<want, asks, loose, retry, pin>>, runner # Nobody,
           Fork, OnPin', \A c \in Calls : c = runner /\ Holding(c) => Confirmed(c)',
           \A c \in LetThrough : Holding(c) => Confirmed(c)'
    PROVE  PinInv'
<1>1. UNCHANGED <<step, runner>> /\ stage' = "child"
  BY DEF Fork
<1>2. Min(Free) \in Kids
  BY FreeTyped DEF Fork
<1>3. kid'[awaited'].on = device'
  <2>1. /\ kid' = [kid EXCEPT ![Min(Free)] =
                      [Gone EXCEPT !.state = "forked", !.file = Head(todo), !.on = device']]
        /\ awaited' = Min(Free)
    BY DEF Fork
  <2>. QED  BY <1>2, <2>1, Forked DEF McpTypeOK, KidsTyped
<1>4. OwnRetry' /\ LetOn' /\ RunOn'
  BY <1>1 DEF PinInv, OwnRetry, LetOn, RunOn, LetThrough, Holding, StageInv
<1>5. ChildOn'
  <2>1. runner \in Calls
    BY DEF McpTypeOK, RunTyped
  <2>. QED  BY <1>1, <1>3, <2>1 DEF ChildOn, Holding, Confirmed
<1>. QED  BY <1>4, <1>5 DEF PinInv

LEMMA PinRun ==
    ASSUME McpTypeOK, StageInv, TargetInv, AimInv, PinInv,
           \/ DevicesReady \/ EnsureTarget \/ Probe \/ RunResolves \/ Stop \/ Escalate \/ TimesOut
           \/ \E c \in Calls : StartRun(c)
    PROVE  PinInv'
<1>n. Nobody \notin Calls
  BY DEF Nobody, Calls
<1>r. \A c \in Calls : step[c] = "running" <=> c = runner
  BY DEF StageInv
<1>t. runner # Nobody => runner \in Calls
  BY DEF McpTypeOK, RunTyped
<1>1. CASE DevicesReady
  <2>1. /\ runner # Nobody /\ stage = "devices" /\ UNCHANGED <<targetVars, want, asks, loose>>
        /\ GoOn(tally, todo, timer)
    BY <1>1 DEF DevicesReady, StageInv
  <2>2. \A c \in Calls : c = runner /\ Holding(c) => Confirmed(c)'
    BY <1>r, <1>t, <2>1 DEF PinInv, RunOn, Confirmed, HasTarget, targetVars
  <2>3. OnPin' /\ \A c \in LetThrough : Holding(c) => Confirmed(c)'
    BY <2>1 DEF PinInv, OnPin, LetOn, Confirmed, HasTarget, targetVars
  <2>. QED  BY <2>1, <2>2, <2>3, GoOnStage, PinGoesOn DEF targetVars
<1>2. CASE EnsureTarget
  <2>1. /\ runner # Nobody /\ stage = "await" /\ retry = Nobody
        /\ UNCHANGED <<target, device, pin, retry, want, asks, loose, kid, awaited>>
    BY <1>2 DEF EnsureTarget, EnsureNow, StageInv
  <2>2. OnPin' /\ \A c \in Calls : Confirmed(c)' <=> Confirmed(c)
    BY <2>1 DEF PinInv, OnPin, Confirmed, HasTarget
  <2>3. CASE HasTarget
    <3>1. UNCHANGED <<retried, runner, step>> /\ stage' = "probe"
      BY <1>2, <2>3 DEF EnsureTarget, EnsureNow
    <3>2. \A c \in Calls : step[c] = "running" /\ Holding(c) => Confirmed(c)
      BY <2>1, <2>3 DEF PinInv, RunOn, HasTarget
    <3>3. OwnRetry' /\ LetOn' /\ RunOn'
      BY <2>1, <2>2, <3>1, <3>2 DEF PinInv, OwnRetry, LetOn, RunOn, LetThrough, Holding
    <3>4. ChildOn'
      BY <3>1 DEF ChildOn
    <3>. QED  BY <2>2, <3>3, <3>4 DEF PinInv
  <2>4. CASE ~HasTarget /\ retried
    <3>1. UNCHANGED retried /\ FileFails(timer)
      BY <1>2, <2>4 DEF EnsureTarget, EnsureNow
    <3>2. \A c \in Calls : c = runner /\ Holding(c) => target' = "failed" /\ retried' /\ retry = Nobody
      BY <1>r, <1>t, <2>1, <2>4, <3>1 DEF PinInv, RunOn, Confirmed
    <3>3. \A c \in LetThrough : Holding(c) => Confirmed(c)'
      BY <2>2 DEF PinInv, LetOn, LetThrough
    <3>. QED  BY <2>1, <2>2, <3>1, <3>2, <3>3, FileFailsStage, PinGoesOn
  <2>5. CASE ~HasTarget /\ ~retried
    <3>1. stage' = "resolving" /\ UNCHANGED <<runner, step>>
      BY <1>2, <2>5 DEF EnsureTarget, EnsureNow
    <3>2. \A c \in Calls : step[c] = "running" => ~Holding(c)
      BY <2>1, <2>5 DEF PinInv, RunOn, Confirmed
    <3>3. OwnRetry' /\ LetOn' /\ RunOn'
      BY <2>1, <2>2, <3>1, <3>2 DEF PinInv, OwnRetry, LetOn, RunOn, LetThrough, Holding
    <3>4. ChildOn'
      BY <3>1 DEF ChildOn
    <3>. QED  BY <2>2, <3>3, <3>4 DEF PinInv
  <2>. QED  BY <2>3, <2>4, <2>5
<1>3. CASE Probe
  <2>1. /\ Event /\ stage = "probe" /\ HasTarget /\ ready /\ runner # Nobody
        /\ UNCHANGED <<pin, retry, want, asks>>
    BY <1>3 DEF Probe, TargetInv, StageInv
  <2>2. \A c \in Calls : step[c] = "running" /\ Holding(c) => Confirmed(c)
    BY <2>1 DEF PinInv, RunOn
  <2>3. CASE target = "up" /\ UNCHANGED <<target, device, retried, aim, loose>> /\ Fork
    <3>1. OnPin' /\ \A c \in Calls : Confirmed(c)' <=> Confirmed(c)
      BY <2>1, <2>3 DEF PinInv, OnPin, Confirmed, HasTarget
    <3>2. /\ \A c \in Calls : c = runner /\ Holding(c) => Confirmed(c)'
          /\ \A c \in LetThrough : Holding(c) => Confirmed(c)'
      BY <1>r, <2>2, <3>1 DEF PinInv, LetOn, LetThrough, Holding
    <3>. QED  BY <2>1, <2>3, <3>1, <3>2, PinFork
  <2>4. CASE /\ target = "dead" /\ target' = "failed" /\ device' = NoDevice
             /\ stage' = "resolving" /\ aim' = pin /\ loose' = loose \cup LetThrough /\ UNCHANGED <<runner, step>>
    <3>1. preparing = "no" /\ retry = Nobody
      BY <2>1 DEF TargetInv, HasTarget, McpTypeOK, TargetTyped
    <3>2. Attaching = {}
      <4>1. ASSUME NEW c \in Attaching  PROVE FALSE
        <5>1. step[c] # "resolving"
          BY <1>n, <3>1 DEF PinInv, OwnRetry, Attaching
        <5>. QED  BY <2>1, <3>1, <4>1, <5>1 DEF Attaching, Event, Continues
      <4>. QED  BY <4>1
    <3>3. Attaching' = {} /\ LetThrough' = LetThrough
      BY <2>1, <2>4, <3>2 DEF Attaching, LetThrough
    <3>4. OnPin' /\ OwnRetry'
      BY <2>1, <2>4 DEF PinInv, OnPin, OwnRetry, HasTarget
    <3>5. LetOn'
      BY <2>4, <3>3 DEF LetOn, Holding
    <3>6. RunOn'
      <4>1. ASSUME NEW c \in Calls, Holding(c)', step'[c] = "running"
            PROVE  stage' = "resolving" /\ aim' = want'[c] /\ pin' = want'[c] /\ Attaching' = {}
        <5>1. step[c] = "running" /\ Holding(c)
          BY <2>1, <2>4, <4>1 DEF Holding
        <5>. QED  BY <2>1, <2>2, <2>4, <3>3, <5>1 DEF Confirmed
      <4>. QED  BY <4>1 DEF RunOn
    <3>7. ChildOn'
      BY <2>4 DEF ChildOn
    <3>. QED  BY <3>4, <3>5, <3>6, <3>7 DEF PinInv
  <2>. QED  BY <1>3, <2>3, <2>4 DEF Probe
<1>4. CASE RunResolves
  <2>1. /\ stage = "resolving" /\ ~HasTarget /\ retried /\ retry = Nobody /\ runner # Nobody
        /\ UNCHANGED <<pin, retry, retried, want, loose, asks>> /\ Resolved(aim)
    BY <1>4 DEF RunResolves, TargetInv, StageInv
  <2>2. OnPin'
    <3>1. pin \in {aim, NoDevice} /\ stage' # "resolving"
      <4>1. stage' # "resolving"
        BY <1>4, <2>1, FileFailsStage DEF RunResolves, Fork
      <4>. QED  BY <2>1, <4>1 DEF AimInv
    <3>. QED  BY <2>1, <3>1 DEF Resolved, OnPin, HasTarget
  <2>3. \A c \in LetThrough : ~Holding(c)
    BY <2>1, NoneHolds
  <2>4. \A c \in Calls : c = runner /\ Holding(c) => pin = want[c] /\ aim = want[c]
    BY <1>r, <1>t, <2>1 DEF PinInv, RunOn, Confirmed
  <2>5. CASE target' = "up"
    <3>1. \A c \in Calls : c = runner /\ Holding(c) => Confirmed(c)'
      BY <2>1, <2>4, <2>5 DEF Resolved, Confirmed, HasTarget, Holding
    <3>2. Fork
      BY <1>4, <2>5 DEF RunResolves
    <3>. QED  BY <2>1, <2>2, <2>3, <3>1, <3>2, PinFork
  <2>6. CASE target' # "up"
    <3>1. FileFails(timer) /\ target' = "failed"
      BY <1>4, <2>1, <2>6 DEF RunResolves, Resolved
    <3>. QED  BY <2>1, <2>2, <2>3, <3>1, FileFailsStage, PinGoesOn
  <2>. QED  BY <2>5, <2>6
<1>5. CASE Stop \/ Escalate
  <2>1. UNCHANGED <<targetVars, callVars, loose, stage, aim, runner, awaited>>
    BY <1>5 DEF Stop, AskToAbort, Escalate, stageVars, ghostVars
  <2>2. \A k \in Kids : kid'[k].on = kid[k].on
    <3>1. PICK k \in Kids \cup {NoKid} :
              \/ UNCHANGED kid
              \/ k \in Kids /\ kid' = [kid EXCEPT ![k] = [kid[k] EXCEPT !.abort = TRUE]]
              \/ k \in Kids /\ kid' = [kid EXCEPT ![k] = [kid[k] EXCEPT !.state = IF @ = "gone" THEN @ ELSE "exited"]]
      BY <1>5 DEF Stop, AskToAbort, Escalate, McpTypeOK, KidsTyped, RunTyped
    <3>2. CASE UNCHANGED kid
      BY <3>2
    <3>3. CASE k \in Kids /\ kid' = [kid EXCEPT ![k] = [kid[k] EXCEPT !.abort = TRUE]]
      BY <3>3 DEF McpTypeOK, KidsTyped, Process
    <3>4. CASE k \in Kids /\ kid' = [kid EXCEPT ![k] = [kid[k] EXCEPT !.state = IF @ = "gone" THEN @ ELSE "exited"]]
      BY <3>4 DEF McpTypeOK, KidsTyped, Process
    <3>. QED  BY <3>1, <3>2, <3>3, <3>4
  <2>3. ChildOn'
    BY <2>1, <2>2, ChildKeeps DEF callVars
  <2>4. \A c \in Calls : Eased(c)
    BY <2>1 DEF Eased, LetThrough, callVars
  <2>. QED  BY <2>1, <2>3, <2>4, PinKeeps DEF PinInv, Attaching, callVars, targetVars
<1>6. CASE TimesOut
  <2>1. /\ runner # Nobody /\ stage = "child" /\ UNCHANGED <<targetVars, want, asks, loose>>
        /\ FileFails(NoKid)
    BY <1>6 DEF TimesOut, StageInv
  <2>2. \A c \in Calls : c = runner /\ Holding(c) => Confirmed(c)'
    BY <1>r, <1>t, <2>1 DEF PinInv, RunOn, Confirmed, HasTarget, targetVars
  <2>3. OnPin' /\ \A c \in LetThrough : Holding(c) => Confirmed(c)'
    BY <2>1 DEF PinInv, OnPin, LetOn, Confirmed, HasTarget, targetVars
  <2>. QED  BY <2>1, <2>2, <2>3, FileFailsStage, PinGoesOn DEF targetVars
<1>7. ASSUME NEW c \in Calls, StartRun(c)  PROVE PinInv'
  <2>1. /\ step[c] = "listed" /\ UNCHANGED <<target, device, pin, retry, want, asks, loose, aim, kidVars>>
        /\ c \in LetThrough
    BY <1>7 DEF StartRun, LetThrough, ghostVars
  <2>2. OnPin' /\ \A b \in Calls : Confirmed(b)' <=> Confirmed(b)
    BY <2>1 DEF PinInv, OnPin, Confirmed, HasTarget
  <2>3. CASE runner # Nobody
    <3>1. Goes(c, "none") /\ UNCHANGED <<retried, runner, stage>>
      BY <1>7, <2>3 DEF StartRun
    <3>2. step'[c] = "none" /\ \A b \in Calls \ {c} : step'[b] = step[b]
      BY <3>1 DEF Goes, McpTypeOK, RunTyped
    <3>3. \A b \in Calls : Eased(b)
      BY <2>1, <3>2 DEF Eased, LetThrough
    <3>4. ChildOn'
      BY <2>1, <3>1, ChildKeeps DEF kidVars
    <3>. QED  BY <2>1, <3>1, <3>2, <3>3, <3>4, PinKeeps DEF PinInv, Attaching
  <2>4. CASE runner = Nobody
    <3>1. Goes(c, "running") /\ stage' \in {"await", "devices"}
      BY <1>7, <2>4 DEF StartRun
    <3>2. step'[c] = "running" /\ \A b \in Calls \ {c} : step'[b] = step[b] /\ step[b] # "running"
      BY <1>n, <1>r, <2>4, <3>1 DEF Goes, McpTypeOK, RunTyped
    <3>3. OwnRetry' /\ LetOn' /\ RunOn'
      BY <2>1, <2>2, <3>2 DEF PinInv, OwnRetry, LetOn, RunOn, LetThrough, Holding
    <3>4. ChildOn'
      BY <3>1 DEF ChildOn
    <3>. QED  BY <2>2, <3>3, <3>4 DEF PinInv
  <2>. QED  BY <2>3, <2>4
<1>. QED  BY <1>1, <1>2, <1>3, <1>4, <1>5, <1>6, <1>7

LEMMA PinKids ==
    ASSUME McpTypeOK, StageInv, TargetInv, PinInv, NEW k \in Kids,
           \/ KidOpens(k) \/ KidHears(k) \/ KidReports(k) \/ KidEnds(k) \/ KidExits(k)
           \/ Deliver(k) \/ ExitSeen(k)
    PROVE  PinInv'
<1>r. \A c \in Calls : step[c] = "running" <=> c = runner
  BY DEF StageInv
<1>t. runner # Nobody => runner \in Calls
  BY DEF McpTypeOK, RunTyped
\* The run and the target stay where they are.
<1>s. ASSUME UNCHANGED <<targetVars, want, asks, step, loose, stage, aim, runner, awaited>>,
             \A b \in Kids : b = awaited => kid'[b].on = kid[b].on
      PROVE  PinInv'
  <2>1. ChildOn'
    BY <1>s, ChildKeeps
  <2>2. \A c \in Calls : Eased(c)
    BY <1>s DEF Eased, LetThrough
  <2>. QED  BY <1>s, <2>1, <2>2, PinKeeps DEF PinInv, Attaching, targetVars
<1>1. CASE KidOpens(k) \/ KidHears(k) \/ KidReports(k) \/ KidEnds(k) \/ KidExits(k)
  BY <1>1, <1>s, KidActs DEF callVars, stageVars, ghostVars
<1>2. CASE Deliver(k) \/ ExitSeen(k)
  <2>1. UNCHANGED <<targetVars, want, asks, loose>>
    BY <1>2 DEF Deliver, ExitSeen
  <2>2. CASE UNCHANGED <<stage, runner, step, awaited>>
    <3>1. \A b \in Kids : b = awaited => kid'[b].on = kid[b].on
      <4>1. CASE Deliver(k)
        <5>1. kid' = [kid EXCEPT ![k] = [kid[k] EXCEPT !.mail = Tail(@)]]
          BY <4>1 DEF Deliver
        <5>. QED  BY <5>1 DEF McpTypeOK, KidsTyped, Process
      <4>2. CASE ExitSeen(k)
        <5>1. awaited # k
          BY <2>2, <4>2 DEF ExitSeen, Kids, NoKid
        <5>. QED  BY <4>2, <5>1 DEF ExitSeen, McpTypeOK, KidsTyped
      <4>. QED  BY <1>2, <4>1, <4>2
    <3>2. UNCHANGED aim
      BY <1>2 DEF Deliver, ExitSeen
    <3>. QED  BY <1>s, <2>1, <2>2, <3>1, <3>2
  <2>3. CASE ~UNCHANGED <<stage, runner, step, awaited>>
    <3>1. /\ awaited = k
          /\ FileFails(NoKid) \/ GoOn(Plus(tally, Count(kid[k].said)), Tail(todo), timer)
      BY <1>2, <2>3 DEF Deliver, ExitSeen
    <3>2. runner # Nobody /\ stage = "child"
      BY <3>1 DEF StageInv, Kids, NoKid
    <3>3. \A c \in Calls : c = runner /\ Holding(c) => Confirmed(c)'
      BY <1>r, <1>t, <2>1, <3>2 DEF PinInv, RunOn, Confirmed, HasTarget, targetVars
    <3>4. OnPin' /\ \A c \in LetThrough : Holding(c) => Confirmed(c)'
      BY <2>1 DEF PinInv, OnPin, LetOn, Confirmed, HasTarget, targetVars
    <3>. QED  BY <2>1, <3>1, <3>2, <3>3, <3>4, GoOnStage, FileFailsStage, PinGoesOn DEF targetVars
  <2>. QED  BY <2>2, <2>3
<1>. QED  BY <1>1, <1>2

LEMMA PinStep ==
    ASSUME McpTypeOK, StageInv, TargetInv, AimInv, PinInv, [McpNext]_mcpVars
    PROVE  PinInv'
BY PinList, PinTarget, PinChoice, PinRun, PinKids DEF McpNext

-----------------------------------------------------------------------------
(* The totals tell the story of the results.                               *)

LEMMA Finite == \A s \in SUBSET TestFiles : IsFiniteSet(s) /\ Cardinality(s) \in Nat
BY McpAssumption, FS_Subset, FS_CardinalityType DEF McpWellFormed

LEMMA CountedTyped ==
    ASSUME NEW said \in [TestFiles -> Seq(Outcomes)], NEW gone, NEW o \in Outcomes
    PROVE  /\ Counted(said, gone, o) \in [TestFiles -> Nat]
           /\ SumFunction(Counted(said, gone, o)) \in Nat
<1>1. Counted(said, gone, o) \in [TestFiles -> Nat]
  <2>1. \A f \in TestFiles : Count(said[f])[o] \in Nat
    BY CountTyped
  <2>. QED  BY <2>1 DEF Counted
<1>2. IsFiniteSet(TestFiles)
  BY McpAssumption DEF McpWellFormed
<1>. QED  BY <1>1, <1>2, SumInNat

LEMMA TotalsTyped ==
    ASSUME NEW said \in [TestFiles -> Seq(Outcomes)], NEW gone, NEW n \in Nat
    PROVE  Totals(said, gone, n) \in [Outcomes -> Nat]
BY CountedTyped DEF Totals

LEMMA OneMore ==
    \A less, more \in [TestFiles -> Nat], f \in TestFiles :
        (\A x \in TestFiles \ {f} : less[x] = more[x])
            => SumFunction(less) + more[f] = SumFunction(more) + less[f]
<1>1. IsFiniteSet(TestFiles)
  BY McpAssumption DEF McpWellFormed
<1>. TAKE less, more \in [TestFiles -> Nat], f \in TestFiles
<1>. HAVE \A x \in TestFiles \ {f} : less[x] = more[x]
<1>. QED  BY <1>1, SumChanges, Zenon

\* A file's results come to count.
LEMMA TotalsGrow ==
    ASSUME NEW said \in [TestFiles -> Seq(Outcomes)], NEW gone \in SUBSET TestFiles,
           NEW h \in TestFiles, h \notin gone, NEW n \in Nat
    PROVE  Plus(Totals(said, gone \cup {h}, n), Count(said[h])) = Totals(said, gone, n)
<1>2. ASSUME NEW o \in Outcomes
      PROVE  SumFunction(Counted(said, gone \cup {h}, o)) + Count(said[h])[o] = SumFunction(Counted(said, gone, o))
  <2>. DEFINE less == Counted(said, gone \cup {h}, o)
              more == Counted(said, gone, o)
  <2>1. less \in [TestFiles -> Nat] /\ more \in [TestFiles -> Nat]
    BY CountedTyped
  <2>2. SumFunction(less) \in Nat /\ SumFunction(more) \in Nat
    BY CountedTyped
  <2>3. less[h] = 0 /\ more[h] = Count(said[h])[o]
    BY DEF Counted
  <2>4. \A f \in TestFiles \ {h} : less[f] = more[f]
    BY DEF Counted
  <2>. HIDE DEF less, more
  <2>5. SumFunction(less) + more[h] = SumFunction(more) + less[h]
    BY <2>1, <2>4, OneMore
  <2>6. SumFunction(less) + Count(said[h])[o] = SumFunction(more)
    BY <2>2, <2>3, <2>5
  <2>. QED  BY <2>6 DEF less, more
<1>3. ASSUME NEW o \in Outcomes
      PROVE  Totals(said, gone \cup {h}, n)[o] + Count(said[h])[o] = Totals(said, gone, n)[o]
  <2>1. Count(said[h])[o] \in Nat
    BY CountTyped
  <2>2. SumFunction(Counted(said, gone \cup {h}, o)) \in Nat /\ SumFunction(Counted(said, gone, o)) \in Nat
    BY CountedTyped
  <2>3. SumFunction(Counted(said, gone \cup {h}, o)) + Count(said[h])[o] = SumFunction(Counted(said, gone, o))
    BY <1>2
  <2>4. /\ Totals(said, gone \cup {h}, n)[o]
              = SumFunction(Counted(said, gone \cup {h}, o)) + (IF o = "failed" THEN n ELSE 0)
        /\ Totals(said, gone, n)[o] = SumFunction(Counted(said, gone, o)) + (IF o = "failed" THEN n ELSE 0)
    BY Zenon DEF Totals
  <2>. HIDE DEF Totals, Counted
  <2>. QED  BY <2>1, <2>2, <2>3, <2>4
<1>. QED  BY <1>3 DEF Plus, Totals, Outcomes

LEMMA CountOfNone == Count(<<>>) = Zero
<1>1. \A o : {i \in DOMAIN <<>> : <<>>[i] = o} = {}
  OBVIOUS
<1>2. Count(<<>>) = [o \in DOMAIN Zero |-> 0]
  BY <1>1, FS_EmptySet, Zenon DEF Count
<1>. QED  BY <1>2 DEF Zero

LEMMA PlusZero == \A t \in [Outcomes -> Nat] : Plus(t, Zero) = t
BY TalliesTyped DEF Plus, Zero, Outcomes

LEMMA TotalsSame ==
    ASSUME NEW said \in [TestFiles -> Seq(Outcomes)], NEW told \in [TestFiles -> Seq(Outcomes)],
           NEW gone \in SUBSET TestFiles, NEW n \in Nat,
           \A f \in TestFiles \ gone : said[f] = told[f]
    PROVE  Totals(said, gone, n) = Totals(told, gone, n)
<1>1. \A o \in Outcomes : Counted(said, gone, o) = Counted(told, gone, o)
  BY DEF Counted
<1>. QED  BY <1>1, Zenon DEF Totals

LEMMA TotalsFail ==
    ASSUME NEW said \in [TestFiles -> Seq(Outcomes)], NEW gone, NEW n \in Nat
    PROVE  Plus(Totals(said, gone, n), OneFailure) = Totals(said, gone, n + 1)
<1>1. \A o \in Outcomes : SumFunction(Counted(said, gone, o)) \in Nat
  BY CountedTyped
<1>2. ASSUME NEW o \in Outcomes
      PROVE  Totals(said, gone, n)[o] + OneFailure[o] = Totals(said, gone, n + 1)[o]
  BY <1>1 DEF Totals, OneFailure, Zero, Outcomes
<1>. QED  BY <1>2 DEF Plus, Totals, Outcomes

LEMMA TotalsOfNone ==
    ASSUME NEW said \in [TestFiles -> Seq(Outcomes)], \A f \in TestFiles : said[f] = <<>>
    PROVE  Totals(said, {}, 0) = Zero
<1>1. IsFiniteSet(TestFiles)
  BY McpAssumption DEF McpWellFormed
<1>2. ASSUME NEW o \in Outcomes  PROVE SumFunction(Counted(said, {}, o)) = 0
  <2>1. \A f \in TestFiles : Count(said[f]) = Zero
    BY CountOfNone
  <2>2. \A f \in TestFiles : Counted(said, {}, o)[f] = 0
    BY <2>1 DEF Counted, Zero, Outcomes
  <2>. QED  BY <1>1, <2>2, CountedTyped, SumOfNone
<1>. QED  BY <1>2 DEF Totals, Zero, Outcomes

\* A run that passed: nothing broke, and nothing failed or was cut off.
Told ==
    /\ verdict.tally = Totals(results, broken, Cardinality(broken))
    /\ verdict.status = "passed" => /\ verdict.tally["failed"] = 0
                                    /\ \A f \in TestFiles : Whole(results[f])

LEMMA ToldStory == ResultsTyped /\ Told => TotalsAgree
<1>. SUFFICES ASSUME ResultsTyped, Told  PROVE TotalsAgree
  OBVIOUS
<1>. DEFINE Sum(o) == SumFunction([f \in TestFiles |-> IF f \in broken THEN 0 ELSE Count(results[f])[o]])
<1>0. \A o : Sum(o) = SumFunction(Counted(results, broken, o))
  BY DEF Counted
<1>. HIDE DEF Sum
<1>1. \A o \in Outcomes : Sum(o) \in Nat
  BY <1>0, CountedTyped DEF ResultsTyped
<1>2. verdict.tally = [o \in DOMAIN Zero |-> Sum(o) + IF o = "failed" THEN Cardinality(broken) ELSE 0]
  BY <1>0, Zenon DEF Told, Totals, Outcomes
<1>3. ASSUME verdict.status = "passed"
      PROVE  broken = {} /\ Sum("failed") + Sum("interrupted") = 0
  <2>1. IsFiniteSet(broken) /\ Cardinality(broken) \in Nat
    BY Finite DEF ResultsTyped
  <2>2. Sum("failed") + Cardinality(broken) = 0 /\ Sum("failed") \in Nat
    BY <1>1, <1>2, <1>3, TalliesTyped DEF Told, Outcomes
  <2>3. broken = {} /\ Sum("failed") = 0
    BY <2>1, <2>2, FS_EmptySet
  <2>4. \A f \in TestFiles : Count(results[f])["interrupted"] = 0
    <3>1. ASSUME NEW f \in TestFiles  PROVE Count(results[f])["interrupted"] = 0
      <4>1. {i \in DOMAIN results[f] : results[f][i] = "interrupted"} = {}
        BY <1>3 DEF Told, Whole
      <4>2. Count(results[f])["interrupted"] = Cardinality({i \in DOMAIN results[f] : results[f][i] = "interrupted"})
        BY DEF Count, Zero
      <4>. QED  BY <4>1, <4>2, FS_EmptySet, Zenon
    <3>. QED  BY <3>1
  <2>5. Sum("interrupted") = 0
    <3>1. Counted(results, broken, "interrupted") \in [TestFiles -> Nat]
      BY CountedTyped, TalliesTyped DEF ResultsTyped
    <3>2. \A f \in TestFiles : Counted(results, broken, "interrupted")[f] = 0
      BY <2>4 DEF Counted
    <3>3. IsFiniteSet(TestFiles)
      BY McpAssumption DEF McpWellFormed
    <3>. QED  BY <1>0, <3>1, <3>2, <3>3, SumOfNone
  <2>. QED  BY <2>3, <2>5
<1>. QED  BY <1>2, <1>3, Zenon DEF TotalsAgree, Sum

-----------------------------------------------------------------------------
(* What a process says arrives in the order it was said.                   *)

LEMMA WordsTyped == /\ Outcomes \subseteq Words /\ "done" \in Words /\ "error" \in Words
                    /\ "done" \notin Outcomes /\ "error" \notin Outcomes
                    /\ \A m \in Words : m \in {"done", "error"} \/ m \in Outcomes
BY TalliesTyped DEF Words

LEMMA FedSame ==
    ASSUME NEW old, NEW new, NEW arrived, Fed(old, arrived), new.said = old.said, new.mail = old.mail,
           new.state = old.state \/ new.state = "exited"
    PROVE  Fed(new, arrived)
BY Zenon DEF Fed

\* What a process says is said and under way.
LEMMA FedOn ==
    ASSUME NEW old \in Process, NEW new, NEW arrived \in Seq(Outcomes), Fed(old, arrived), KidAct(old, new)
    PROVE  Fed(new, arrived)
<1>1. PICK left \in Seq(Outcomes) :
          /\ old.said = arrived \o left
          /\ \/ old.mail = left
             \/ /\ old.state \in {"closing", "exited"}
                /\ \E last \in {"done", "error"} : old.mail = Append(left, last)
  BY Zenon DEF Fed
<1>2. CASE new.said = old.said /\ new.mail = old.mail
  <2>1. new.state = old.state \/ new.state = "exited" \/ old.state = "forked"
    BY <1>2 DEF KidAct
  <2>2. CASE old.state = "forked"
    <3>1. new.said = arrived \o left /\ new.mail = left
      BY <1>1, <1>2, <2>2
    <3>. QED  BY <3>1, Zenon DEF Fed
  <2>. QED  BY <1>2, <2>1, <2>2, FedSame
<1>3. CASE ~(new.said = old.said /\ new.mail = old.mail)
  <2>1. \/ /\ old.state = "running"
           /\ \E o \in Outcomes : new.said = Append(old.said, o) /\ new.mail = Append(old.mail, o)
        \/ /\ old.state \in {"forked", "running"} /\ new.state \in {"closing", "exited"} /\ new.said = old.said
           /\ \E last \in {"done", "error"} : new.mail = Append(old.mail, last)
    BY <1>3 DEF KidAct
  <2>2. old.mail = left
    BY <1>1, <2>1
  <2>3. ASSUME NEW o \in Outcomes, new.said = Append(old.said, o), new.mail = Append(old.mail, o)
        PROVE  Fed(new, arrived)
    <3>1. Append(left, o) \in Seq(Outcomes)
      OBVIOUS
    <3>2. Append(arrived \o left, o) = arrived \o Append(left, o)
      OBVIOUS
    <3>3. new.said = arrived \o Append(left, o) /\ new.mail = Append(left, o)
      BY <1>1, <2>2, <2>3, <3>2
    <3>. QED  BY <3>1, <3>3, Zenon DEF Fed
  <2>4. ASSUME new.state \in {"closing", "exited"}, new.said = old.said,
               \E last \in {"done", "error"} : new.mail = Append(old.mail, last)
        PROVE  Fed(new, arrived)
    BY <1>1, <2>2, <2>4, Zenon DEF Fed
  <2>. QED  BY <2>1, <2>3, <2>4
<1>. QED  BY <1>2, <1>3

\* The first word under way arrives.
LEMMA FedTakes ==
    ASSUME NEW old, NEW new, NEW arrived \in Seq(Outcomes), Fed(old, arrived), old.mail # <<>>,
           new.said = old.said, new.state = old.state, new.mail = Tail(old.mail)
    PROVE  /\ Head(old.mail) \in {"done", "error"} => old.said = arrived
           /\ Head(old.mail) \in Outcomes =>
                  /\ Fed(new, Append(arrived, Head(old.mail)))
                  /\ Whole(old.said) => Head(old.mail) # "interrupted"
<1>1. PICK left \in Seq(Outcomes) :
          /\ old.said = arrived \o left
          /\ \/ old.mail = left
             \/ /\ old.state \in {"closing", "exited"}
                /\ \E last \in {"done", "error"} : old.mail = Append(left, last)
  BY Zenon DEF Fed
<1>2. CASE left = <<>>
  <2>1. PICK last \in {"done", "error"} : old.mail = Append(<<>>, last)
    BY <1>1, <1>2
  <2>2. Head(old.mail) = last /\ last \notin Outcomes
    BY <2>1, WordsTyped
  <2>3. old.said = arrived
    BY <1>1, <1>2
  <2>. QED  BY <2>2, <2>3
<1>3. CASE left # <<>>
  <2>. DEFINE m == Head(left)
              rest == Tail(left)
  <2>1. m \in Outcomes /\ rest \in Seq(Outcomes)
    BY <1>3, HeadTailProperties
  <2>2. Head(old.mail) = m
    <3>1. ASSUME NEW last, old.mail = Append(left, last)  PROVE Head(old.mail) = m
      <4>1. Append(left, last)[1] = left[1]
        BY <1>3
      <4>. QED  BY <1>3, <3>1, <4>1
    <3>. QED  BY <1>1, <3>1
  <2>3. arrived \o left = Append(arrived, m) \o rest
    BY <1>3
  <2>4. \/ new.mail = rest
        \/ new.state \in {"closing", "exited"} /\ \E last \in {"done", "error"} : new.mail = Append(rest, last)
    <3>1. ASSUME NEW last, old.mail = Append(left, last)  PROVE Tail(old.mail) = Append(rest, last)
      BY <1>3, <3>1
    <3>. QED  BY <1>1, <3>1
  <2>5. Whole(old.said) => m # "interrupted"
    <3>1. Len(arrived) + 1 \in DOMAIN old.said /\ old.said[Len(arrived) + 1] = m
      BY <1>1, <1>3
    <3>. QED  BY <3>1 DEF Whole
  <2>6. new.said = Append(arrived, m) \o rest
    BY <1>1, <2>3
  <2>. HIDE DEF m, rest
  <2>7. Fed(new, Append(arrived, m))
    BY <2>1, <2>4, <2>6, Zenon DEF Fed
  <2>. QED  BY <2>1, <2>2, <2>5, <2>7, WordsTyped
<1>. QED  BY <1>2, <1>3

-----------------------------------------------------------------------------
(* The totals go along with the results.                                   *)

\* The file at hand: whether it counts yet or not, the totals leave it out.
LEMMA StoryAtHand ==
    ASSUME McpTypeOK, StageInv, RunStory, runner # Nobody, todo # <<>>
    PROVE  LET h == Head(todo) IN
           /\ h \in TestFiles /\ h \notin broken
           /\ tally = Totals(results, broken \cup {h}, Cardinality(broken))
           /\ Plus(tally, Count(results[h])) = Totals(results, broken, Cardinality(broken))
           /\ Plus(tally, OneFailure) = Totals(results, broken \cup {h}, Cardinality(broken \cup {h}))
<1>. DEFINE h == Head(todo)
<1>1. /\ results \in [TestFiles -> Seq(Outcomes)] /\ broken \in SUBSET TestFiles
      /\ todo \in Seq(TestFiles)
  BY DEF McpTypeOK, RunTyped, ResultsTyped
<1>2. h \in TestFiles /\ 1 \in DOMAIN todo /\ todo[1] = h
  BY <1>1
<1>3. h \notin broken /\ (h \notin AtHand => results[h] = <<>>)
  BY <1>2 DEF RunStory
<1>4. tally = Totals(results, broken \cup AtHand, Cardinality(broken))
  BY DEF RunStory
<1>5. IsFiniteSet(broken) /\ Cardinality(broken) \in Nat
  BY <1>1, Finite
<1>. HIDE DEF h
<1>6. Plus(Totals(results, broken \cup {h}, Cardinality(broken)), Count(results[h]))
          = Totals(results, broken, Cardinality(broken))
  BY <1>1, <1>2, <1>3, <1>5, TotalsGrow
<1>7. tally = Totals(results, broken \cup {h}, Cardinality(broken))
  <2>1. CASE AtHand = {h}
    BY <1>4, <2>1
  <2>2. CASE AtHand = {}
    <3>1. Count(results[h]) = Zero
      BY <1>3, <2>2, CountOfNone
    <3>2. Totals(results, broken \cup {h}, Cardinality(broken)) \in [Outcomes -> Nat]
      BY <1>1, <1>5, TotalsTyped
    <3>3. Totals(results, broken \cup {h}, Cardinality(broken)) = Totals(results, broken, Cardinality(broken))
      BY <1>6, <3>1, <3>2, PlusZero
    <3>. QED  BY <1>4, <2>2, <3>3
  <2>. QED  BY <2>1, <2>2 DEF AtHand, h
<1>8. Cardinality(broken \cup {h}) = Cardinality(broken) + 1
  BY <1>3, <1>5, FS_AddElement
<1>9. Plus(tally, OneFailure) = Totals(results, broken \cup {h}, Cardinality(broken) + 1)
  BY <1>1, <1>5, <1>7, TotalsFail
<1>10. Plus(tally, Count(results[h])) = Totals(results, broken, Cardinality(broken))
  BY <1>6, <1>7
<1>11. Plus(tally, OneFailure) = Totals(results, broken \cup {h}, Cardinality(broken \cup {h}))
  BY <1>8, <1>9
<1>. QED  BY <1>2, <1>3, <1>7, <1>10, <1>11 DEF h

\* The files after the one at hand have no results yet.
LEMMA StoryRest ==
    ASSUME McpTypeOK, RunStory, runner # Nobody, todo # <<>>
    PROVE  /\ Tail(todo) \in Seq(TestFiles) /\ IsInjective(Tail(todo))
           /\ \A i \in DOMAIN Tail(todo) : /\ Tail(todo)[i] \notin broken \cup {Head(todo)}
                                           /\ results[Tail(todo)[i]] = <<>>
<1>1. todo \in Seq(TestFiles)
  BY DEF McpTypeOK, RunTyped
<1>2. \A i, j \in DOMAIN todo : todo[i] = todo[j] => i = j
  BY Zenon DEF RunStory, IsInjective
<1>3. Tail(todo) \in Seq(TestFiles)
  BY <1>1, HeadTailProperties
<1>4. \A i \in DOMAIN Tail(todo) : i \in Nat /\ i + 1 \in DOMAIN todo /\ Tail(todo)[i] = todo[i + 1]
  BY <1>1
<1>5. 1 \in DOMAIN todo /\ Head(todo) = todo[1]
  BY <1>1
<1>6. ASSUME NEW i \in DOMAIN Tail(todo)
      PROVE  Tail(todo)[i] \notin broken \cup {Head(todo)} /\ results[Tail(todo)[i]] = <<>>
  <2>1. i \in Nat /\ i # 0 /\ i + 1 \in DOMAIN todo /\ Tail(todo)[i] = todo[i + 1]
    BY <1>3, <1>4
  <2>2. todo[i + 1] # Head(todo)
    BY <1>2, <1>5, <2>1
  <2>. QED  BY <2>1, <2>2 DEF RunStory, AtHand
<1>7. IsInjective(Tail(todo))
  <2>1. ASSUME NEW i \in DOMAIN Tail(todo), NEW j \in DOMAIN Tail(todo), Tail(todo)[i] = Tail(todo)[j]
        PROVE  i = j
    <3>1. i + 1 = j + 1 /\ i \in Nat /\ j \in Nat
      BY <1>2, <1>4, <2>1
    <3>. QED  BY <3>1
  <2>. QED  BY <2>1, Zenon DEF IsInjective
<1>. QED  BY <1>3, <1>6, <1>7

\* A file has ended: the run ends, or goes on with the rest.
LEMMA StoryAfter ==
    ASSUME McpTypeOK, ResultsTyped', RunStory, runner # Nobody, UNCHANGED results,
           NEW rest \in Seq(TestFiles), NEW armed, NEW t, GoOn(t, rest, armed),
           t = Totals(results', broken', Cardinality(broken')),
           IsInjective(rest), \A i \in DOMAIN rest : rest[i] \notin broken' /\ results[rest[i]] = <<>>
    PROVE  StoryInv'
<1>1. CASE Finish(t)
  <2>1. t \in [Outcomes -> Nat]
    <3>1. Cardinality(broken') \in Nat
      BY Finite DEF ResultsTyped
    <3>. QED  BY <3>1, TotalsTyped DEF ResultsTyped
  <2>2. /\ verdict' = [status |-> IF stopRequested THEN "stopped"
                                  ELSE IF t.failed > 0 THEN "failed" ELSE "passed", tally |-> t]
        /\ runner' = Nobody /\ stage' = "none"
    BY <1>1 DEF Finish
  <2>3. verdict'.tally = t
    BY <2>2
  <2>4. verdict'.status = "passed" => ~stopRequested /\ ~(t.failed > 0)
    BY <2>2
  <2>5. verdict'.status = "passed" => t["failed"] = 0
    BY <2>1, <2>4, TalliesTyped
  <2>6. verdict'.status = "passed" => \A f \in TestFiles : Whole(results'[f])
    BY <2>4 DEF RunStory
  <2>7. Told'
    BY <2>3, <2>5, <2>6 DEF Told
  <2>8. TotalsAgree'
    <3>1. (ResultsTyped /\ Told => TotalsAgree)'
      BY ToldStory, PTL
    <3>. QED  BY <2>7, <3>1
  <2>. QED  BY <2>2, <2>8 DEF StoryInv, RunStory, ChildStory
<1>2. CASE ~Finish(t)
  <2>1. /\ stage' = "await" /\ todo' = rest /\ tally' = t /\ runner' = runner /\ ~stopRequested
    BY <1>2 DEF GoOn
  <2>2. AtHand' = {}
    BY <2>1 DEF AtHand
  <2>3. \A f \in TestFiles : Whole(results'[f])
    BY <2>1 DEF RunStory
  <2>4. tally' = Totals(results', broken' \cup AtHand', Cardinality(broken'))
    <3>1. broken' \cup AtHand' = broken'
      BY <2>2
    <3>. QED  BY <2>1, <3>1
  <2>5. RunStory'
    BY <2>1, <2>2, <2>3, <2>4 DEF RunStory
  <2>. QED  BY <2>1, <2>5 DEF StoryInv, ChildStory
<1>. QED  BY <1>1, <1>2

LEMMA StoryFileFails ==
    ASSUME McpTypeOK, StageInv, ResultsTyped', RunStory, runner # Nobody, todo # <<>>, UNCHANGED results,
           NEW armed, FileFails(armed)
    PROVE  StoryInv'
<1>1. CASE stopRequested
  <2>1. GoOn(Plus(tally, Count(results[Head(todo)])), Tail(todo), armed) /\ broken' = broken
    BY <1>1 DEF FileFails, GoOn
  <2>2. Plus(tally, Count(results[Head(todo)])) = Totals(results', broken', Cardinality(broken'))
    BY <2>1, StoryAtHand
  <2>3. \A i \in DOMAIN Tail(todo) : Tail(todo)[i] \notin broken' /\ results[Tail(todo)[i]] = <<>>
    BY <2>1, StoryRest
  <2>. QED  BY <2>1, <2>2, <2>3, StoryRest, StoryAfter
<1>2. CASE ~stopRequested
  <2>1. GoOn(Plus(tally, OneFailure), Tail(todo), armed) /\ broken' = broken \cup {Head(todo)}
    BY <1>2 DEF FileFails
  <2>2. Plus(tally, OneFailure) = Totals(results', broken', Cardinality(broken'))
    BY <2>1, StoryAtHand
  <2>3. \A i \in DOMAIN Tail(todo) : Tail(todo)[i] \notin broken' /\ results[Tail(todo)[i]] = <<>>
    BY <2>1, StoryRest
  <2>. QED  BY <2>1, <2>2, <2>3, StoryRest, StoryAfter
<1>. QED  BY <1>1, <1>2

\* A process is forked: the file at hand counts no longer, and had nothing to count.
LEMMA StoryFork ==
    ASSUME McpTypeOK, StageInv, StoryInv, runner # Nobody, stage \in {"probe", "resolving"},
           Fork, UNCHANGED results
    PROVE  StoryInv'
<1>. DEFINE h == Head(todo)
<1>1. /\ UNCHANGED <<runner, stopRequested, todo, tally, broken>>
      /\ stage' = "child"
      /\ kid' = [kid EXCEPT ![Min(Free)] = [Gone EXCEPT !.state = "forked", !.file = h, !.on = device']]
      /\ awaited' = Min(Free)
  BY DEF Fork
<1>2. todo # <<>> /\ AtHand = {} /\ AtHand' = {h}
  BY <1>1 DEF StageInv, AtHand
<1>3. RunStory
  BY DEF StoryInv
<1>4. /\ h \in TestFiles /\ h \notin broken
      /\ tally = Totals(results, broken \cup {h}, Cardinality(broken))
  BY <1>2, <1>3, StoryAtHand
<1>. HIDE DEF h
<1>5. tally' = Totals(results', broken' \cup AtHand', Cardinality(broken'))
  BY <1>1, <1>2, <1>4
<1>6. RunStory'
  BY <1>1, <1>2, <1>3, <1>5 DEF RunStory
<1>7. results[h] = <<>>
  <2>1. 1 \in DOMAIN todo /\ todo[1] = h
    BY <1>2 DEF h, McpTypeOK, RunTyped
  <2>. QED  BY <1>2, <1>3, <2>1 DEF RunStory
<1>8. LET r == kid'[awaited'] IN
      /\ r.state = "forked" /\ r.file = h /\ r.said = <<>> /\ r.mail = <<>>
      /\ r.abort = FALSE /\ r.asked = FALSE
  <2>1. kid'[awaited'] = [Gone EXCEPT !.state = "forked", !.file = h, !.on = device']
    <3>1. Min(Free) \in Kids
      BY FreeTyped DEF Fork
    <3>. QED  BY <1>1, <3>1 DEF McpTypeOK, KidsTyped
  <2>2. LET r == [Gone EXCEPT !.state = "forked", !.file = h, !.on = device'] IN
        /\ r.state = "forked" /\ r.file = h /\ r.said = <<>> /\ r.mail = <<>>
        /\ r.abort = FALSE /\ r.asked = FALSE
    BY DEF Gone
  <2>. QED  BY <2>1, <2>2, Zenon
<1>9. Fed(kid'[awaited'], <<>>)
  <2>1. <<>> \in Seq(Outcomes) /\ <<>> = <<>> \o <<>>
    OBVIOUS
  <2>. QED  BY <1>8, <2>1, Zenon DEF Fed
<1>10. Whole(kid'[awaited'].said)
  BY <1>8 DEF Whole
<1>11. results'[Head(todo')] = <<>> /\ Head(todo') = h
  BY <1>1, <1>7 DEF h
<1>12. ChildStory'
  BY <1>8, <1>9, <1>10, <1>11 DEF ChildStory
<1>. QED  BY <1>1, <1>6, <1>12 DEF StoryInv

-----------------------------------------------------------------------------
(* Every step keeps the story.                                             *)

LEMMA StoryUnmoved ==
    ASSUME StoryInv, UNCHANGED <<runner, verdict, results, broken, stopRequested, todo, tally, stage, awaited>>,
           stage = "child" => kid'[awaited] = kid[awaited]
    PROVE  StoryInv'
<1>1. runner' = Nobody => TotalsAgree'
  BY DEF StoryInv, TotalsAgree
<1>2. AtHand' = AtHand
  BY DEF AtHand
<1>3. RunStory'
  BY <1>2 DEF StoryInv, RunStory
<1>4. ChildStory'
  BY DEF StoryInv, ChildStory
<1>. QED  BY <1>1, <1>3, <1>4 DEF StoryInv

\* The run moves on without a file or a process.
LEMMA StoryMoves ==
    ASSUME StoryInv, UNCHANGED <<runner, results, broken, stopRequested, todo, tally>>, runner # Nobody,
           stage # "child", stage' # "child"
    PROVE  StoryInv'
<1>1. AtHand = {} /\ AtHand' = {}
  BY DEF AtHand
<1>2. RunStory'
  BY <1>1 DEF StoryInv, RunStory
<1>. QED  BY <1>2 DEF StoryInv, ChildStory

\* The process at hand is asked, killed, or acts by itself.
LEMMA StoryChild ==
    ASSUME McpTypeOK, StageInv, StoryInv, UNCHANGED <<runner, results, broken, todo, tally, stage, awaited>>,
           stage = "child", ~stopRequested' => ~stopRequested,
           kid'[awaited].file = kid[awaited].file,
           Fed(kid'[awaited], results[Head(todo)]),
           ~stopRequested' => ~kid'[awaited].abort /\ ~kid'[awaited].asked,
           ~kid'[awaited].asked => Whole(kid'[awaited].said)
    PROVE  StoryInv'
<1>1. runner # Nobody
  BY DEF StageInv
<1>2. AtHand' = AtHand
  BY DEF AtHand
<1>3. RunStory'
  BY <1>2 DEF StoryInv, RunStory
<1>4. ChildStory'
  BY DEF StoryInv, ChildStory
<1>. QED  BY <1>1, <1>3, <1>4 DEF StoryInv

LEMMA StoryRun ==
    ASSUME McpTypeOK, StageInv, AskedFor, StoryInv, McpTypeOK',
           \/ DevicesReady \/ EnsureTarget \/ Probe \/ RunResolves \/ Stop \/ Escalate \/ TimesOut
           \/ \E c \in Calls : StartRun(c)
    PROVE  StoryInv'
<1>r. RunStory /\ ResultsTyped'
  BY DEF StoryInv, McpTypeOK
<1>a. awaited # NoKid => awaited \in Kids
  BY DEF McpTypeOK, KidsTyped
<1>1. CASE DevicesReady
  <2>1. /\ runner # Nobody /\ stage = "devices" /\ UNCHANGED <<results, broken>>
        /\ GoOn(tally, todo, timer)
    BY <1>1 DEF DevicesReady, StageInv
  <2>2. AtHand = {}
    BY <2>1 DEF AtHand
  <2>3. tally = Totals(results', broken', Cardinality(broken'))
    <3>1. broken \cup AtHand = broken
      BY <2>2
    <3>. QED  BY <1>r, <2>1, <3>1 DEF RunStory
  <2>4. IsInjective(todo) /\ \A i \in DOMAIN todo : todo[i] \notin broken' /\ results[todo[i]] = <<>>
    BY <1>r, <2>1, <2>2 DEF RunStory
  <2>5. todo \in Seq(TestFiles)
    BY DEF McpTypeOK, RunTyped
  <2>. QED  BY <1>r, <2>1, <2>3, <2>4, <2>5, StoryAfter
<1>2. CASE EnsureTarget
  <2>1. runner # Nobody /\ todo # <<>> /\ stage = "await" /\ UNCHANGED results
    BY <1>2 DEF EnsureTarget, EnsureNow, StageInv
  <2>2. CASE FileFails(timer)
    BY <1>r, <2>1, <2>2, StoryFileFails
  <2>3. CASE ~FileFails(timer)
    <3>1. stage' \in {"probe", "resolving"} /\ UNCHANGED <<runner, broken, stopRequested, todo, tally>>
      BY <1>2, <2>3 DEF EnsureTarget, EnsureNow
    <3>. QED  BY <2>1, <3>1, StoryMoves
  <2>. QED  BY <2>2, <2>3
<1>3. CASE Probe
  <2>1. runner # Nobody /\ stage = "probe" /\ UNCHANGED results
    BY <1>3 DEF Probe, StageInv
  <2>2. CASE Fork
    BY <2>1, <2>2, StoryFork
  <2>3. CASE ~Fork
    <3>1. stage' = "resolving" /\ UNCHANGED <<runner, broken, stopRequested, todo, tally>>
      BY <1>3, <2>3 DEF Probe
    <3>. QED  BY <2>1, <3>1, StoryMoves
  <2>. QED  BY <2>2, <2>3
<1>4. CASE RunResolves
  <2>1. runner # Nobody /\ todo # <<>> /\ stage = "resolving" /\ UNCHANGED results /\ (Fork \/ FileFails(timer))
    BY <1>4 DEF RunResolves, StageInv
  <2>. QED  BY <1>r, <2>1, StoryFork, StoryFileFails
<1>5. CASE Stop
  <2>1. /\ UNCHANGED <<runner, verdict, results, broken, todo, tally, stage, awaited>>
        /\ runner # Nobody /\ stopRequested'
        /\ kid' = (IF active = NoKid THEN kid ELSE [kid EXCEPT ![active] = [kid[active] EXCEPT !.abort = TRUE]])
    BY <1>5 DEF Stop, AskToAbort
  <2>2. CASE stage = "child"
    <3>1. awaited \in Kids /\ kid' = [kid EXCEPT ![awaited] = [kid[awaited] EXCEPT !.abort = TRUE]]
      BY <1>a, <2>1, <2>2 DEF StageInv
    <3>2. kid'[awaited] = [kid[awaited] EXCEPT !.abort = TRUE] /\ kid[awaited] \in Process
      BY <3>1 DEF McpTypeOK, KidsTyped
    <3>3. /\ kid'[awaited].file = kid[awaited].file /\ kid'[awaited].said = kid[awaited].said
          /\ kid'[awaited].mail = kid[awaited].mail /\ kid'[awaited].state = kid[awaited].state
          /\ kid'[awaited].asked = kid[awaited].asked
      BY <3>2 DEF Process
    <3>4. Fed(kid'[awaited], results[Head(todo)])
      BY <2>2, <3>3, FedSame DEF StoryInv, ChildStory
    <3>. QED  BY <2>1, <2>2, <3>3, <3>4, StoryChild DEF StoryInv, ChildStory
  <2>3. CASE stage # "child"
    <3>1. RunStory'
      BY <1>r, <2>1, <2>3 DEF RunStory, AtHand
    <3>. QED  BY <2>1, <2>3, <3>1 DEF StoryInv, ChildStory
  <2>. QED  BY <2>2, <2>3
<1>6. CASE Escalate
  <2>1. UNCHANGED <<stageVars, awaited>>
    BY <1>6 DEF Escalate
  <2>2. timer \in Kids /\ kid' = [kid EXCEPT ![timer] = [kid[timer] EXCEPT !.state = IF @ = "gone" THEN @ ELSE "exited"]]
    BY <1>6 DEF Escalate, McpTypeOK, RunTyped
  <2>3. CASE stage = "child" /\ awaited = timer
    <3>1. /\ kid'[awaited] = [kid[awaited] EXCEPT !.state = IF @ = "gone" THEN @ ELSE "exited"]
          /\ kid[awaited] \in Process
      BY <2>2, <2>3 DEF McpTypeOK, KidsTyped
    <3>2. /\ kid'[awaited].file = kid[awaited].file /\ kid'[awaited].said = kid[awaited].said
          /\ kid'[awaited].mail = kid[awaited].mail /\ kid'[awaited].asked = kid[awaited].asked
          /\ kid'[awaited].abort = kid[awaited].abort
          /\ kid'[awaited].state = kid[awaited].state \/ kid'[awaited].state = "exited"
      BY <3>1 DEF Process
    <3>3. Fed(kid'[awaited], results[Head(todo)])
      BY <2>3, <3>2, FedSame DEF StoryInv, ChildStory
    <3>. QED  BY <2>1, <2>3, <3>2, <3>3, StoryChild DEF StoryInv, ChildStory, stageVars
  <2>4. CASE ~(stage = "child" /\ awaited = timer)
    <3>1. stage = "child" => kid'[awaited] = kid[awaited]
      BY <1>a, <2>2, <2>4 DEF StageInv, McpTypeOK, KidsTyped
    <3>. QED  BY <2>1, <3>1, StoryUnmoved DEF stageVars
  <2>. QED  BY <2>3, <2>4
<1>7. CASE TimesOut
  <2>1. FileFails(NoKid) /\ runner # Nobody /\ todo # <<>> /\ UNCHANGED results
    BY <1>7 DEF TimesOut, StageInv
  <2>. QED  BY <1>r, <2>1, StoryFileFails
<1>8. ASSUME NEW c \in Calls, StartRun(c)  PROVE StoryInv'
  <2>1. UNCHANGED <<verdict, kid, awaited>> /\ step[c] = "listed"
    BY <1>8 DEF StartRun, kidVars
  <2>2. CASE runner # Nobody
    BY <1>8, <2>1, <2>2, StoryUnmoved DEF StartRun
  <2>3. CASE runner = Nobody
    <3>1. /\ runner' = c /\ stopRequested' = FALSE
          /\ results' = [f \in TestFiles |-> <<>>] /\ broken' = {} /\ tally' = Zero /\ todo' = ask[c]
          /\ stage' \in {"await", "devices"}
      BY <1>8, <2>3 DEF StartRun
    <3>2. IsInjective(todo') /\ todo' \in Seq(TestFiles)
      BY <2>1, <3>1 DEF AskedFor, McpTypeOK, CallsTyped
    <3>3. AtHand' = {}
      BY <3>1 DEF AtHand
    <3>4. \A f \in TestFiles : results'[f] = <<>>
      BY <3>1
    <3>5. \A i \in DOMAIN todo' : todo'[i] \in TestFiles
      BY <3>2
    <3>6. \A f \in TestFiles : Whole(results'[f])
      BY <3>4 DEF Whole
    <3>7. tally' = Totals(results', broken' \cup AtHand', Cardinality(broken'))
      <4>1. Totals(results', {}, 0) = Zero
        BY <1>r, <3>4, TotalsOfNone DEF ResultsTyped
      <4>2. Cardinality(broken') = 0 /\ broken' \cup AtHand' = {}
        BY <3>1, <3>3, FS_EmptySet
      <4>. QED  BY <3>1, <4>1, <4>2
    <3>8. RunStory'
      BY <3>1, <3>2, <3>4, <3>5, <3>6, <3>7 DEF RunStory
    <3>9. runner' # Nobody
      BY <3>1 DEF Calls, Nobody
    <3>. QED  BY <3>1, <3>8, <3>9 DEF StoryInv, ChildStory
  <2>. QED  BY <2>2, <2>3
<1>. QED  BY <1>1, <1>2, <1>3, <1>4, <1>5, <1>6, <1>7, <1>8

\* A result arrives.
LEMMA StoryArrives ==
    ASSUME McpTypeOK, StageInv, StoryInv, ResultsTyped', NEW k \in Kids, awaited = k, kid[k].mail # <<>>,
           Head(kid[k].mail) \in Outcomes,
           UNCHANGED <<runner, broken, stopRequested, todo, tally, stage, awaited>>,
           results' = [results EXCEPT ![kid[k].file] = Append(@, Head(kid[k].mail))],
           kid'[k].file = kid[k].file, kid'[k].said = kid[k].said, kid'[k].state = kid[k].state,
           kid'[k].asked = kid[k].asked, kid'[k].abort = kid[k].abort, kid'[k].mail = Tail(kid[k].mail)
    PROVE  StoryInv'
<1>. DEFINE h == Head(todo)
            m == Head(kid[k].mail)
<1>1. stage = "child" /\ runner # Nobody /\ todo # <<>>
  BY DEF StageInv, Kids, NoKid
<1>2. RunStory /\ ChildStory /\ kid[k].file = h /\ h \in TestFiles
  BY <1>1, StoryAtHand DEF StoryInv, ChildStory
<1>3. results \in [TestFiles -> Seq(Outcomes)] /\ broken \in SUBSET TestFiles
  BY DEF McpTypeOK, ResultsTyped
<1>4. results'[h] = Append(results[h], m) /\ \A f \in TestFiles \ {h} : results'[f] = results[f]
  BY <1>2, <1>3
<1>5. /\ Fed(kid'[k], Append(results[h], m))
      /\ Whole(kid[k].said) => m # "interrupted"
  <2>1. results[h] \in Seq(Outcomes) /\ Fed(kid[k], results[h])
    BY <1>1, <1>2, <1>3 DEF ChildStory
  <2>. QED  BY <2>1, FedTakes
<1>6. ~stopRequested => m # "interrupted"
  BY <1>1, <1>2, <1>5 DEF ChildStory
<1>7. AtHand = {h} /\ AtHand' = {h}
  BY <1>1 DEF AtHand
<1>. HIDE DEF h, m
<1>8. tally' = Totals(results', broken' \cup AtHand', Cardinality(broken'))
  <2>1. tally = Totals(results, broken \cup {h}, Cardinality(broken))
    BY <1>1, <1>2, <1>7 DEF RunStory
  <2>2. Totals(results, broken \cup {h}, Cardinality(broken)) = Totals(results', broken \cup {h}, Cardinality(broken))
    <3>1. PICK told \in [TestFiles -> Seq(Outcomes)] : told = results'
      BY DEF ResultsTyped
    <3>2. PICK gone \in SUBSET TestFiles : gone = broken \cup {h}
      BY <1>2, <1>3
    <3>3. \A f \in TestFiles \ gone : results[f] = told[f]
      BY <1>4, <3>1, <3>2
    <3>4. Cardinality(broken) \in Nat
      BY <1>3, Finite
    <3>5. Totals(results, gone, Cardinality(broken)) = Totals(told, gone, Cardinality(broken))
      BY <1>3, <3>3, <3>4, TotalsSame
    <3>. QED  BY <3>1, <3>2, <3>5, Zenon
  <2>. QED  BY <1>7, <2>1, <2>2
<1>9. ~stopRequested' => \A f \in TestFiles : Whole(results'[f])
  <2>1. ASSUME ~stopRequested  PROVE Whole(results'[h])
    <3>1. Whole(results[h]) /\ m # "interrupted" /\ results[h] \in Seq(Outcomes)
      BY <1>1, <1>2, <1>3, <1>6, <2>1 DEF RunStory
    <3>2. Whole(Append(results[h], m))
      BY <3>1 DEF Whole
    <3>. QED  BY <1>4, <3>2
  <2>. QED  BY <1>1, <1>2, <1>4, <2>1 DEF RunStory
<1>10. RunStory'
  <2>1. \A i \in DOMAIN todo : todo[i] \in TestFiles
    BY DEF McpTypeOK, RunTyped
  <2>2. \A i \in DOMAIN todo' : /\ todo'[i] \notin broken'
                                /\ todo'[i] \notin AtHand' => results'[todo'[i]] = <<>>
    BY <1>1, <1>2, <1>4, <1>7, <2>1 DEF RunStory
  <2>. QED  BY <1>1, <1>2, <1>8, <1>9, <2>2 DEF RunStory
<1>11. ChildStory'
  <2>1. Fed(kid'[awaited'], results'[Head(todo')])
    BY <1>4, <1>5 DEF h
  <2>. QED  BY <1>1, <1>2, <2>1 DEF ChildStory, h
<1>. QED  BY <1>1, <1>10, <1>11 DEF StoryInv

LEMMA StoryKids ==
    ASSUME McpTypeOK, StageInv, StoryInv, McpTypeOK', NEW k \in Kids,
           \/ KidOpens(k) \/ KidHears(k) \/ KidReports(k) \/ KidEnds(k) \/ KidExits(k)
           \/ Deliver(k) \/ ExitSeen(k)
    PROVE  StoryInv'
<1>r. RunStory /\ ResultsTyped'
  BY DEF StoryInv, McpTypeOK
<1>a. /\ stage = "child" => awaited \in Kids
      /\ awaited = k => stage = "child" /\ runner # Nobody /\ todo # <<>>
  BY DEF StageInv, McpTypeOK, KidsTyped, Kids, NoKid
<1>1. CASE KidOpens(k) \/ KidHears(k) \/ KidReports(k) \/ KidEnds(k) \/ KidExits(k)
  <2>1. /\ UNCHANGED <<stageVars, awaited>>
        /\ \A b \in Kids \ {k} : kid'[b] = kid[b]
        /\ kid'[k].file = kid[k].file
        /\ KidAct(kid[k], kid'[k])
    BY <1>1, KidActs
  <2>2. CASE awaited # k
    BY <1>a, <2>1, <2>2, StoryUnmoved DEF stageVars
  <2>3. CASE awaited = k
    <3>1. ChildStory /\ stage = "child" /\ Head(todo) \in TestFiles
      BY <1>a, <1>r, <2>3, StoryAtHand DEF StoryInv
    <3>2. kid[k] \in Process /\ results[Head(todo)] \in Seq(Outcomes) /\ kid[k].said \in Seq(Outcomes)
      BY <3>1, ProcessFields DEF McpTypeOK, KidsTyped, ResultsTyped
    <3>3. Fed(kid'[k], results[Head(todo)])
      BY <2>1, <2>3, <3>1, <3>2, FedOn DEF ChildStory
    <3>4. ~stopRequested => ~kid'[k].abort /\ ~kid'[k].asked
      BY <2>1, <2>3, <3>1 DEF ChildStory, KidAct
    <3>5. ~kid'[k].asked => Whole(kid'[k].said)
      <4>1. ASSUME ~kid'[k].asked  PROVE Whole(kid'[k].said)
        <5>1. /\ ~kid[k].asked
              /\ \/ kid'[k].said = kid[k].said
                 \/ \E o \in Outcomes : o # "interrupted" /\ kid'[k].said = Append(kid[k].said, o)
          BY <2>1, <4>1 DEF KidAct
        <5>2. Whole(kid[k].said)
          BY <2>3, <3>1, <5>1 DEF ChildStory
        <5>3. \A o \in Outcomes : o # "interrupted" => Whole(Append(kid[k].said, o))
          BY <3>2, <5>2 DEF Whole
        <5>. QED  BY <5>1, <5>2, <5>3
      <4>. QED  BY <4>1
    <3>. QED  BY <2>1, <2>3, <3>1, <3>3, <3>4, <3>5, StoryChild DEF stageVars
  <2>. QED  BY <2>2, <2>3
<1>2. CASE Deliver(k)
  <2>. DEFINE m == Head(kid[k].mail)
  <2>1. /\ kid[k].mail # <<>> /\ kid' = [kid EXCEPT ![k] = [kid[k] EXCEPT !.mail = Tail(@)]]
        /\ kid[k] \in Process
    BY <1>2 DEF Deliver, McpTypeOK, KidsTyped
  <2>2. /\ \A b \in Kids \ {k} : kid'[b] = kid[b]
        /\ kid'[k] = [kid[k] EXCEPT !.mail = Tail(@)]
    BY <2>1 DEF McpTypeOK, KidsTyped
  <2>3. /\ kid'[k].file = kid[k].file /\ kid'[k].said = kid[k].said /\ kid'[k].state = kid[k].state
        /\ kid'[k].asked = kid[k].asked /\ kid'[k].abort = kid[k].abort /\ kid'[k].mail = Tail(kid[k].mail)
    BY <2>1, <2>2 DEF Process
  <2>4. CASE awaited # k
    <3>1. UNCHANGED <<runner, verdict, results, broken, stopRequested, todo, tally, stage, awaited>>
      BY <1>2, <2>4 DEF Deliver
    <3>. QED  BY <1>a, <2>2, <2>4, <3>1, StoryUnmoved
  <2>5. CASE awaited = k /\ m = "done"
    <3>1. UNCHANGED <<results, broken>> /\ GoOn(Plus(tally, Count(kid[k].said)), Tail(todo), timer)
      BY <1>2, <2>5 DEF Deliver
    <3>2. ChildStory /\ Head(todo) \in TestFiles /\ results[Head(todo)] \in Seq(Outcomes)
      BY <1>a, <1>r, <2>5, StoryAtHand DEF StoryInv, McpTypeOK, ResultsTyped
    <3>3. kid[k].said = results[Head(todo)]
      <4>1. Fed(kid[k], results[Head(todo)])
        BY <1>a, <2>5, <3>2 DEF ChildStory
      <4>. QED  BY <2>1, <2>3, <2>5, <3>2, <4>1, FedTakes
    <3>4. Plus(tally, Count(kid[k].said)) = Totals(results', broken', Cardinality(broken'))
      BY <1>a, <1>r, <2>5, <3>1, <3>3, StoryAtHand
    <3>5. \A i \in DOMAIN Tail(todo) : Tail(todo)[i] \notin broken' /\ results[Tail(todo)[i]] = <<>>
      BY <1>a, <1>r, <2>5, <3>1, StoryRest
    <3>. QED  BY <1>a, <1>r, <2>5, <3>1, <3>4, <3>5, StoryRest, StoryAfter
  <2>6. CASE awaited = k /\ m = "error"
    <3>1. UNCHANGED results /\ FileFails(NoKid)
      BY <1>2, <2>6 DEF Deliver
    <3>. QED  BY <1>a, <1>r, <2>6, <3>1, StoryFileFails
  <2>7. CASE awaited = k /\ m \notin {"done", "error"}
    <3>1. /\ UNCHANGED <<runner, broken, stopRequested, todo, tally, stage, awaited>>
          /\ results' = [results EXCEPT ![kid[k].file] = Append(@, m)]
      BY <1>2, <2>7 DEF Deliver
    <3>2. m \in Outcomes
      <4>1. kid[k].mail \in Seq(Words)
        BY <2>1, ProcessFields
      <4>. QED  BY <2>1, <2>7, <4>1, WordsTyped
    <3>. QED  BY <1>r, <2>1, <2>3, <2>7, <3>1, <3>2, StoryArrives
  <2>. QED  BY <2>4, <2>5, <2>6, <2>7
<1>3. CASE ExitSeen(k)
  <2>1. CASE awaited = k
    <3>1. UNCHANGED results /\ FileFails(NoKid)
      BY <1>3, <2>1 DEF ExitSeen
    <3>. QED  BY <1>a, <1>r, <2>1, <3>1, StoryFileFails
  <2>2. CASE awaited # k
    <3>1. /\ UNCHANGED <<runner, verdict, results, broken, stopRequested, todo, tally, stage, awaited>>
          /\ kid' = [kid EXCEPT ![k] = Gone]
      BY <1>3, <2>2 DEF ExitSeen
    <3>2. stage = "child" => kid'[awaited] = kid[awaited]
      BY <1>a, <2>2, <3>1 DEF McpTypeOK, KidsTyped
    <3>. QED  BY <3>1, <3>2, StoryUnmoved
  <2>. QED  BY <2>1, <2>2
<1>. QED  BY <1>1, <1>2, <1>3

LEMMA StoryStep ==
    ASSUME McpTypeOK, StageInv, AskedFor, StoryInv, McpTypeOK', [McpNext]_mcpVars
    PROVE  StoryInv'
<1>1. CASE \/ UNCHANGED mcpVars \/ Rest \/ Look \/ EndSync \/ Save \/ DebounceFires
           \/ ApplyPin \/ Prepared \/ RetryEnds \/ DaemonDies
           \/ \E c \in Calls : \/ RefreshAgain(c) \/ Tool(c) \/ ToolAttached(c) \/ Chosen(c) \/ Settled(c)
                               \/ ResolvedForCall(c) \/ Ask(c) \/ AskGoesOn(c)
  <2>1. UNCHANGED <<stageVars, kidVars>>
    BY <1>1 DEF mcpVars, Rest, Look, EndSync, Save, DebounceFires, ApplyPin, Prepared, RetryEnds, DaemonDies,
       RefreshAgain, Tool, ToolAttached, Chosen, Settled, ResolvedForCall, Ask, AskGoesOn
  <2>. QED  BY <2>1, StoryUnmoved DEF stageVars, kidVars
<1>2. CASE \/ DevicesReady \/ EnsureTarget \/ Probe \/ RunResolves \/ Stop \/ Escalate \/ TimesOut
           \/ \E c \in Calls : StartRun(c)
  BY <1>2, StoryRun
<1>3. CASE \E k \in Kids : \/ KidOpens(k) \/ KidHears(k) \/ KidReports(k) \/ KidEnds(k) \/ KidExits(k)
                          \/ Deliver(k) \/ ExitSeen(k)
  BY <1>3, StoryKids
<1>. QED  BY <1>1, <1>2, <1>3 DEF McpNext

-----------------------------------------------------------------------------
(* A run that passed has a result of every test.                           *)

LEMMA SceneFixed == [McpNext]_mcpVars => UNCHANGED scene
BY DEF McpNext, mcpVars, Rest, Look, EndSync, Save, DebounceFires, ApplyPin, Prepared, RetryEnds, DaemonDies,
   RefreshAgain, Tool, ToolAttached, Chosen, Settled, ResolvedForCall, Ask, AskGoesOn, StartRun, DevicesReady,
   EnsureTarget, EnsureNow, Probe, RunResolves, Stop, AskToAbort, Escalate, TimesOut, KidOpens, KidHears,
   KidReports, KidEnds, KidExits, KidMoves, Deliver, ExitSeen

LEMMA MeantUnmoved ==
    ASSUME MeantInv, UNCHANGED <<scene, runner, verdict, stopRequested, meant, broken, todo, results, stage, awaited>>,
           stage = "child" => kid'[awaited].mail = kid[awaited].mail /\ kid'[awaited].said = kid[awaited].said
    PROVE  MeantInv'
<1>1. EveryTestTold'
  BY DEF MeantInv, EveryTestTold, Scene
<1>2. \A f \in meant : ToldOf(f)' <=> ToldOf(f)
  BY DEF ToldOf, Scene
<1>3. stage' = "child" /\ Done(kid'[awaited']) => Done(kid[awaited])
  BY DEF Done
<1>. QED  BY <1>1, <1>2, <1>3 DEF MeantInv, Scene

\* A file has ended, or the target is ready: the run goes on with the rest, or ends.
LEMMA MeantAfter ==
    ASSUME MeantInv, StoryInv', runner # Nobody, UNCHANGED <<scene, results, meant>>,
           broken \subseteq broken',
           NEW rest, NEW armed, NEW t, GoOn(t, rest, armed),
           ~stopRequested => \A f \in ToSet(todo) : f \in broken' \/ f \in ToSet(rest) \/ ToldOf(f)
    PROVE  MeantInv'
<1>1. \A f : ToldOf(f)' <=> ToldOf(f)
  BY DEF ToldOf, Scene
<1>2. ~stopRequested => \A f \in meant : f \in broken' \/ f \in ToSet(rest) \/ ToldOf(f)
  BY DEF MeantInv
<1>3. CASE stopRequested \/ rest = <<>>
  <2>1. /\ runner' = Nobody /\ stage' = "none"
        /\ verdict'.status = "passed" => ~stopRequested
    BY <1>3 DEF GoOn, Finish
  <2>2. verdict'.status = "passed" => broken' = {}
    BY <2>1 DEF StoryInv, TotalsAgree
  <2>3. ToSet(<<>>) = {}
    BY DEF ToSet
  <2>4. EveryTestTold'
    BY <1>1, <1>2, <1>3, <2>1, <2>2, <2>3 DEF EveryTestTold, ToldOf
  <2>. QED  BY <2>1, <2>4 DEF MeantInv
<1>4. CASE ~(stopRequested \/ rest = <<>>)
  <2>1. stage' = "await" /\ todo' = rest /\ runner' = runner
    BY <1>4 DEF GoOn
  <2>2. EveryTestTold'
    BY <2>1 DEF EveryTestTold
  <2>. QED  BY <1>1, <1>2, <1>4, <2>1, <2>2 DEF MeantInv
<1>. QED  BY <1>3, <1>4

\* The first of a list, and the rest.
LEMMA HeadOrTail ==
    ASSUME McpTypeOK, NEW f \in ToSet(todo)
    PROVE  f = Head(todo) \/ f \in ToSet(Tail(todo))
<1>1. todo \in Seq(TestFiles)
  BY DEF McpTypeOK, RunTyped
<1>2. PICK i \in DOMAIN todo : f = todo[i]
  BY DEF ToSet
<1>3. CASE i = 1
  BY <1>1, <1>2, <1>3
<1>4. CASE i # 1
  <2>1. i - 1 \in DOMAIN Tail(todo) /\ Tail(todo)[i - 1] = todo[i]
    BY <1>1, <1>4
  <2>. QED  BY <1>2, <2>1 DEF ToSet
<1>. QED  BY <1>3, <1>4

LEMMA MeantFileFails ==
    ASSUME McpTypeOK, MeantInv, StoryInv', runner # Nobody, UNCHANGED <<scene, results, meant>>,
           NEW armed, FileFails(armed)
    PROVE  MeantInv'
<1>1. CASE stopRequested
  <2>1. GoOn(Plus(tally, Count(results[Head(todo)])), Tail(todo), armed) /\ broken' = broken
    BY <1>1 DEF FileFails, GoOn
  <2>. QED  BY <1>1, <2>1, MeantAfter
<1>2. CASE ~stopRequested
  <2>1. GoOn(Plus(tally, OneFailure), Tail(todo), armed) /\ broken' = broken \cup {Head(todo)}
    BY <1>2 DEF FileFails
  <2>. QED  BY <2>1, HeadOrTail, MeantAfter
<1>. QED  BY <1>1, <1>2

\* The run goes on within its file, or with the target.
LEMMA MeantMoves ==
    ASSUME MeantInv, UNCHANGED <<scene, runner, meant, broken, todo, results>>, runner # Nobody,
           ~stopRequested' => ~stopRequested,
           stage' = "child" /\ ~stopRequested' /\ Done(kid'[awaited']) =>
               Len(kid'[awaited'].said) = Scene.tests[Head(todo)]
    PROVE  MeantInv'
<1>1. \A f : ToldOf(f)' <=> ToldOf(f)
  BY DEF ToldOf, Scene
<1>2. EveryTestTold'
  BY DEF EveryTestTold
<1>. QED  BY <1>1, <1>2 DEF MeantInv, Scene

LEMMA MeantFork ==
    ASSUME McpTypeOK, MeantInv, UNCHANGED <<scene, meant, results>>, runner # Nobody, Fork
    PROVE  MeantInv'
<1>1. UNCHANGED <<runner, stopRequested, todo, broken>> /\ awaited' = Min(Free)
  BY DEF Fork
<1>2. kid'[awaited'] = [Gone EXCEPT !.state = "forked", !.file = Head(todo), !.on = device']
  <2>1. Min(Free) \in Kids
    BY FreeTyped DEF Fork
  <2>. QED  BY <1>1, <2>1 DEF Fork, McpTypeOK, KidsTyped
<1>3. kid'[awaited'].mail = <<>>
  BY <1>2 DEF Gone
<1>4. ~Done(kid'[awaited'])
  BY <1>3 DEF Done
<1>. QED  BY <1>1, <1>4, MeantMoves

LEMMA MeantRun ==
    ASSUME McpTypeOK, StageInv, MeantInv, StoryInv', UNCHANGED scene,
           \/ DevicesReady \/ EnsureTarget \/ Probe \/ RunResolves \/ Stop \/ Escalate \/ TimesOut
           \/ \E c \in Calls : StartRun(c)
    PROVE  MeantInv'
<1>1. CASE DevicesReady
  <2>1. runner # Nobody /\ UNCHANGED <<results, broken, meant>> /\ GoOn(tally, todo, timer)
    BY <1>1 DEF DevicesReady, StageInv
  <2>. QED  BY <2>1, MeantAfter
<1>2. CASE EnsureTarget
  <2>1. runner # Nobody /\ UNCHANGED <<results, meant>>
    BY <1>2 DEF EnsureTarget, EnsureNow, StageInv
  <2>2. CASE FileFails(timer)
    BY <2>1, <2>2, MeantFileFails
  <2>3. CASE ~FileFails(timer)
    <3>1. stage' \in {"probe", "resolving"} /\ UNCHANGED <<runner, broken, stopRequested, todo>>
      BY <1>2, <2>3 DEF EnsureTarget, EnsureNow
    <3>. QED  BY <2>1, <3>1, MeantMoves
  <2>. QED  BY <2>2, <2>3
<1>3. CASE Probe
  <2>1. runner # Nobody /\ UNCHANGED <<results, meant>>
    BY <1>3 DEF Probe, StageInv
  <2>2. CASE Fork
    BY <2>1, <2>2, MeantFork
  <2>3. CASE ~Fork
    <3>1. stage' = "resolving" /\ UNCHANGED <<runner, broken, stopRequested, todo>>
      BY <1>3, <2>3 DEF Probe
    <3>. QED  BY <2>1, <3>1, MeantMoves
  <2>. QED  BY <2>2, <2>3
<1>4. CASE RunResolves
  <2>1. runner # Nobody /\ UNCHANGED <<results, meant>> /\ (Fork \/ FileFails(timer))
    BY <1>4 DEF RunResolves, StageInv
  <2>. QED  BY <2>1, MeantFork, MeantFileFails
<1>5. CASE Stop
  <2>1. UNCHANGED <<runner, meant, broken, todo, results>> /\ runner # Nobody /\ stopRequested'
    BY <1>5 DEF Stop, AskToAbort
  <2>. QED  BY <2>1, MeantMoves
<1>6. CASE Escalate
  <2>1. UNCHANGED <<stageVars, awaited>>
    BY <1>6 DEF Escalate
  <2>2. timer \in Kids /\ kid' = [kid EXCEPT ![timer] = [kid[timer] EXCEPT !.state = IF @ = "gone" THEN @ ELSE "exited"]]
    BY <1>6 DEF Escalate, McpTypeOK, RunTyped
  <2>3. \A k \in Kids : kid'[k].mail = kid[k].mail /\ kid'[k].said = kid[k].said
    BY <2>2 DEF McpTypeOK, KidsTyped, Process
  <2>4. stage = "child" => awaited \in Kids
    BY DEF StageInv, McpTypeOK, KidsTyped
  <2>. QED  BY <2>1, <2>3, <2>4, MeantUnmoved DEF stageVars
<1>7. CASE TimesOut
  <2>1. FileFails(NoKid) /\ runner # Nobody /\ UNCHANGED <<results, meant>>
    BY <1>7 DEF TimesOut, StageInv
  <2>. QED  BY <2>1, MeantFileFails
<1>8. ASSUME NEW c \in Calls, StartRun(c)  PROVE MeantInv'
  <2>1. CASE runner # Nobody
    BY <1>8, <2>1, MeantUnmoved DEF StartRun, kidVars
  <2>2. CASE runner = Nobody
    <3>1. runner' = c /\ todo' = ask[c] /\ meant' = ToSet(ask[c]) /\ stage' \in {"await", "devices"}
      BY <1>8, <2>2 DEF StartRun
    <3>2. runner' # Nobody
      BY <3>1 DEF Calls, Nobody
    <3>3. EveryTestTold'
      BY <3>2 DEF EveryTestTold
    <3>. QED  BY <3>1, <3>3 DEF MeantInv
  <2>. QED  BY <2>1, <2>2
<1>. QED  BY <1>1, <1>2, <1>3, <1>4, <1>5, <1>6, <1>7, <1>8

\* What the process at hand does: it says that its file is done when it is.
LEMMA MeantActs ==
    ASSUME McpTypeOK, StageInv, StoryInv, MeantInv, NEW k \in Kids, awaited = k, UNCHANGED <<scene, stageVars, awaited>>,
           KidAct(kid[k], kid'[k])
    PROVE  MeantInv'
<1>1. stage = "child" /\ runner # Nobody /\ UNCHANGED <<runner, meant, broken, todo, results, stopRequested>>
  BY DEF StageInv, stageVars, Kids, NoKid
<1>2. ChildStory /\ kid[k] \in Process
  BY DEF StoryInv, McpTypeOK, KidsTyped
<1>3. kid[k].mail \in Seq(Words) /\ kid[k].file = Head(todo)
  BY <1>1, <1>2, ProcessFields DEF ChildStory
\* Before it says so it is running, and has not.
<1>4. kid[k].state \in {"forked", "running"} => ~Done(kid[k])
  <2>1. PICK left \in Seq(Outcomes) :
            \/ kid[k].mail = left
            \/ kid[k].state \in {"closing", "exited"}
    BY <1>1, <1>2 DEF ChildStory, Fed
  <2>2. \A i \in DOMAIN left : left[i] # "done"
    <3>1. \A i \in DOMAIN left : left[i] \in Outcomes
      OBVIOUS
    <3>. QED  BY <3>1 DEF Outcomes, Zero
  <2>. QED  BY <2>1, <2>2 DEF Done
<1>5. ASSUME ~stopRequested', Done(kid'[k])  PROVE Len(kid'[k].said) = Scene.tests[Head(todo)]
  <2>1. ~kid[k].asked /\ ~stopRequested
    BY <1>1, <1>2, <1>5 DEF ChildStory
  <2>2. CASE kid'[k].mail = kid[k].mail /\ kid'[k].said = kid[k].said
    <3>1. Done(kid[k])
      BY <1>5, <2>2 DEF Done
    <3>. QED  BY <1>1, <2>1, <2>2, <3>1 DEF MeantInv
  <2>3. CASE kid[k].state = "running" /\ \E o \in Outcomes : kid'[k].mail = Append(kid[k].mail, o)
    <3>1. ~Done(kid'[k])
      <4>1. PICK o \in Outcomes : kid'[k].mail = Append(kid[k].mail, o)
        BY <2>3
      <4>2. o # "done"
        BY DEF Outcomes, Zero
      <4>. QED  BY <1>3, <1>4, <2>3, <4>1, <4>2 DEF Done
    <3>. QED  BY <1>5, <3>1
  <2>4. CASE kid'[k].said = kid[k].said /\ Len(kid[k].said) = Scene.tests[kid[k].file]
    BY <1>3, <2>4
  <2>5. CASE /\ kid[k].state \in {"forked", "running"} /\ kid'[k].mail = Append(kid[k].mail, "error")
    <3>1. ~Done(kid'[k])
      BY <1>3, <1>4, <2>5 DEF Done
    <3>. QED  BY <1>5, <3>1
  <2>. QED  BY <2>1, <2>2, <2>3, <2>4, <2>5 DEF KidAct
<1>. QED  BY <1>1, <1>5, MeantMoves

LEMMA MeantKids ==
    ASSUME McpTypeOK, StageInv, StoryInv, MeantInv, StoryInv', UNCHANGED scene, NEW k \in Kids,
           \/ KidOpens(k) \/ KidHears(k) \/ KidReports(k) \/ KidEnds(k) \/ KidExits(k)
           \/ Deliver(k) \/ ExitSeen(k)
    PROVE  MeantInv'
<1>a. /\ stage = "child" => awaited \in Kids
      /\ awaited = k => stage = "child" /\ runner # Nobody /\ todo # <<>>
  BY DEF StageInv, McpTypeOK, KidsTyped, Kids, NoKid
<1>1. CASE KidOpens(k) \/ KidHears(k) \/ KidReports(k) \/ KidEnds(k) \/ KidExits(k)
  <2>1. /\ UNCHANGED <<stageVars, awaited>>
        /\ \A b \in Kids \ {k} : kid'[b] = kid[b]
        /\ KidAct(kid[k], kid'[k])
    BY <1>1, KidActs
  <2>2. CASE awaited # k
    BY <1>a, <2>1, <2>2, MeantUnmoved DEF stageVars
  <2>. QED  BY <2>1, <2>2, MeantActs
<1>2. CASE Deliver(k)
  <2>. DEFINE m == Head(kid[k].mail)
  <2>1. /\ kid[k].mail # <<>> /\ kid' = [kid EXCEPT ![k] = [kid[k] EXCEPT !.mail = Tail(@)]]
        /\ kid[k] \in Process
    BY <1>2 DEF Deliver, McpTypeOK, KidsTyped
  <2>2. /\ \A b \in Kids \ {k} : kid'[b] = kid[b]
        /\ kid'[k] = [kid[k] EXCEPT !.mail = Tail(@)]
    BY <2>1 DEF McpTypeOK, KidsTyped
  <2>3. kid'[k].said = kid[k].said /\ kid'[k].mail = Tail(kid[k].mail) /\ kid[k].mail \in Seq(Words)
    BY <2>1, <2>2 DEF Process
  <2>4. CASE awaited # k
    <3>1. UNCHANGED <<runner, verdict, stopRequested, meant, broken, todo, results, stage, awaited>>
      BY <1>2, <2>4 DEF Deliver
    <3>. QED  BY <1>a, <2>2, <2>4, <3>1, MeantUnmoved
  <2>5. CASE awaited = k /\ m = "done"
    <3>1. UNCHANGED <<results, broken, meant>> /\ GoOn(Plus(tally, Count(kid[k].said)), Tail(todo), timer)
      BY <1>2, <2>5 DEF Deliver
    <3>2. RunStory /\ ChildStory
      BY DEF StoryInv
    <3>3. Head(todo) \in TestFiles /\ results[Head(todo)] \in Seq(Outcomes) /\ Fed(kid[k], results[Head(todo)])
      BY <1>a, <2>5, <3>2, StoryAtHand DEF McpTypeOK, ResultsTyped, ChildStory
    <3>4. kid[k].said = results[Head(todo)]
      <4>1. kid'[k].state = kid[k].state
        BY <2>1, <2>2 DEF Process
      <4>. QED  BY <2>1, <2>3, <2>5, <3>3, <4>1, FedTakes
    <3>5. Done(kid[k])
      <4>1. 1 \in DOMAIN kid[k].mail /\ kid[k].mail[1] = "done"
        BY <2>1, <2>3, <2>5
      <4>. QED  BY <4>1 DEF Done
    <3>6. ~stopRequested => ToldOf(Head(todo))
      BY <1>a, <2>5, <3>4, <3>5 DEF MeantInv, ToldOf
    <3>. QED  BY <1>a, <2>5, <3>1, <3>6, HeadOrTail, MeantAfter
  <2>6. CASE awaited = k /\ m = "error"
    <3>1. UNCHANGED <<results, meant>> /\ FileFails(NoKid)
      BY <1>2, <2>6 DEF Deliver
    <3>. QED  BY <1>a, <2>6, <3>1, MeantFileFails
  <2>7. CASE awaited = k /\ m \notin {"done", "error"}
    <3>1. /\ UNCHANGED <<runner, broken, stopRequested, todo, meant, stage, awaited>>
          /\ results' = [results EXCEPT ![kid[k].file] = Append(@, m)]
      BY <1>2, <2>7 DEF Deliver
    <3>2. stage = "child" /\ runner # Nobody /\ kid[k].file = Head(todo) /\ todo \in Seq(TestFiles) /\ todo # <<>>
      BY <1>a, <2>7 DEF StoryInv, ChildStory, McpTypeOK, RunTyped
    <3>3. Head(todo) \in ToSet(todo)
      BY <3>2 DEF ToSet
    <3>4. \A f \in meant : f # Head(todo) => (ToldOf(f) => ToldOf(f)')
      BY <3>1, <3>2 DEF ToldOf, Scene, McpTypeOK, ResultsTyped
    <3>5. Done(kid'[k]) => Done(kid[k])
      <4>1. \A i \in DOMAIN Tail(kid[k].mail) : /\ i + 1 \in DOMAIN kid[k].mail
                                               /\ Tail(kid[k].mail)[i] = kid[k].mail[i + 1]
        BY <2>1, <2>3
      <4>. QED  BY <2>3, <4>1 DEF Done
    <3>6. EveryTestTold'
      BY <3>1, <3>2 DEF EveryTestTold
    <3>7. Scene' = Scene
      BY DEF Scene
    <3>. QED  BY <2>3, <2>7, <3>1, <3>2, <3>3, <3>4, <3>5, <3>6, <3>7 DEF MeantInv
  <2>. QED  BY <2>4, <2>5, <2>6, <2>7
<1>3. CASE ExitSeen(k)
  <2>1. CASE awaited = k
    <3>1. UNCHANGED <<results, meant>> /\ FileFails(NoKid)
      BY <1>3, <2>1 DEF ExitSeen
    <3>. QED  BY <1>a, <2>1, <3>1, MeantFileFails
  <2>2. CASE awaited # k
    <3>1. /\ UNCHANGED <<runner, verdict, stopRequested, meant, broken, todo, results, stage, awaited>>
          /\ kid' = [kid EXCEPT ![k] = Gone]
      BY <1>3, <2>2 DEF ExitSeen
    <3>2. stage = "child" => kid'[awaited] = kid[awaited]
      BY <1>a, <2>2, <3>1 DEF McpTypeOK, KidsTyped
    <3>. QED  BY <3>1, <3>2, MeantUnmoved
  <2>. QED  BY <2>1, <2>2
<1>. QED  BY <1>1, <1>2, <1>3

LEMMA MeantStep ==
    ASSUME McpTypeOK, StageInv, StoryInv, MeantInv, StoryInv', [McpNext]_mcpVars
    PROVE  MeantInv'
<1>. UNCHANGED scene
  BY SceneFixed
<1>1. CASE \/ UNCHANGED mcpVars \/ Rest \/ Look \/ EndSync \/ Save \/ DebounceFires
           \/ ApplyPin \/ Prepared \/ RetryEnds \/ DaemonDies
           \/ \E c \in Calls : \/ RefreshAgain(c) \/ Tool(c) \/ ToolAttached(c) \/ Chosen(c) \/ Settled(c)
                               \/ ResolvedForCall(c) \/ Ask(c) \/ AskGoesOn(c)
  <2>1. UNCHANGED <<stageVars, kidVars>>
    BY <1>1 DEF mcpVars, Rest, Look, EndSync, Save, DebounceFires, ApplyPin, Prepared, RetryEnds, DaemonDies,
       RefreshAgain, Tool, ToolAttached, Chosen, Settled, ResolvedForCall, Ask, AskGoesOn
  <2>. QED  BY <2>1, MeantUnmoved DEF stageVars, kidVars
<1>. QED  BY <1>1, MeantRun, MeantKids DEF McpNext

-----------------------------------------------------------------------------
(* What a session promises.                                                *)

McpInv ==
    McpTypeOK /\ StageInv /\ AskedFor /\ TargetInv /\ AimInv /\ StopInv /\ ListInv /\ PinInv
    /\ StoryInv /\ MeantInv

LEMMA McpInvInit == McpInit => McpInv
<1>. SUFFICES ASSUME McpInit  PROVE McpInv
  OBVIOUS
<1>1. McpTypeOK /\ StageInv /\ TargetInv /\ StopInv /\ ListInv
  BY TypeInit
<1>2. AskedFor
  <2>1. IsInjective(<<>>)
    BY DEF IsInjective
  <2>. QED  BY <2>1 DEF McpInit, AskedFor
<1>3. \A c \in Calls : step[c] = "none"
  BY DEF McpInit
<1>4. PinInv
  <2>1. OnPin /\ ChildOn
    BY DEF McpInit, OnPin, ChildOn
  <2>2. OwnRetry /\ LetOn /\ RunOn
    BY <1>3 DEF OwnRetry, LetOn, LetThrough, RunOn
  <2>. QED  BY <2>1, <2>2 DEF PinInv
<1>5. StoryInv
  <2>1. verdict.status = "none"
    BY DEF McpInit, NoRun
  <2>2. TotalsAgree
    BY <2>1 DEF TotalsAgree
  <2>3. RunStory /\ ChildStory
    BY DEF McpInit, RunStory, ChildStory
  <2>. QED  BY <2>2, <2>3 DEF StoryInv
<1>6. AimInv
  BY DEF McpInit, AimInv
<1>7. MeantInv
  <2>1. verdict.status = "none" /\ runner = Nobody /\ stage = "none"
    BY DEF McpInit, NoRun
  <2>. QED  BY <2>1 DEF MeantInv, EveryTestTold
<1>. QED  BY <1>1, <1>2, <1>4, <1>5, <1>6, <1>7 DEF McpInv

LEMMA McpInvStep == McpInv /\ [McpNext]_mcpVars => McpInv'
<1>. SUFFICES ASSUME McpInv, [McpNext]_mcpVars  PROVE McpInv'
  OBVIOUS
<1>. McpTypeOK /\ StageInv /\ AskedFor /\ TargetInv /\ AimInv /\ StopInv /\ ListInv /\ PinInv /\ StoryInv /\ MeantInv
  BY DEF McpInv
<1>1. McpTypeOK' /\ StageInv' /\ AskedFor'
  BY TypeStep, StageStep, AskedStep
<1>2. TargetInv' /\ AimInv' /\ StopInv' /\ ListInv' /\ PinInv'
  BY TargetStep, AimStep, StopStep, ListStep, PinStep
<1>3. StoryInv'
  BY <1>1, StoryStep
<1>4. MeantInv'
  BY <1>3, MeantStep
<1>. QED  BY <1>1, <1>2, <1>3, <1>4 DEF McpInv

LEMMA McpInvariant == McpSpec => []McpInv
<1>. QED  BY McpInvInit, McpInvStep, PTL DEF McpSpec

\* The session's data is what it should be: the list and its sync, the target and
\* its pin, the calls, the run, the processes and what they have under way.
THEOREM McpTypeCorrect == McpSpec => []McpTypeOK
<1>1. McpInv => McpTypeOK
  BY DEF McpInv
<1>. QED  BY <1>1, McpInvariant, PTL

\* ensureDevicesReady, _retryFailedTargets and _ensureTargetForProject never resolve
\* the target two at a time, and a run resolves it once, or once more after its
\* daemon died.
THEOREM McpResolvesOnce == McpSpec => []ResolvedOnce
<1>1. McpInv => ResolvedOnce
  BY OneResolution DEF McpInv
<1>. QED  BY <1>1, McpInvariant, PTL

\* After stop() one process at most is forked, and the one at hand is to be killed
\* or has exited, but for a Stop that comes between two processes.
THEOREM McpHeedsStop == McpSpec => []StopHeeded
<1>1. McpInv => StopHeeded
  BY DEF McpInv, StopInv, StopHeeded
<1>. QED  BY <1>1, McpInvariant, PTL

\* A call goes on with a list of files (_scheduleSync) that is no older than the
\* call, and a run that names a device (deviceChoiceError) has its
\* processes there, unless the target was dropped before the run began.
THEOREM McpHonoursRequests == McpSpec => []RequestHonoured
<1>1. McpInv => RequestHonoured
  <2>. SUFFICES ASSUME McpInv  PROVE RequestHonoured
    OBVIOUS
  <2>1. StageInv /\ ListInv /\ ChildOn /\ McpTypeOK
    BY DEF McpInv, PinInv
  <2>2. \A c \in Calls : step[c] = "listed" => known >= since[c]
    BY <2>1 DEF ListInv, McpTypeOK, ListTyped, CallsTyped
  <2>3. awaited # NoKid /\ want[runner] # NoDevice /\ runner \notin loose => kid[awaited].on = want[runner]
    BY <2>1 DEF StageInv, ChildOn, Holding
  <2>. QED  BY <2>2, <2>3 DEF RequestHonoured
<1>. QED  BY <1>1, McpInvariant, PTL

\* The totals of a run that has ended (_finishRun) are what the results of its files
\* add up to (_testResults), a broken file being one failure (_accountForFileError)
\* whatever it had reported; and a run that passed has no file broken, no test cut off,
\* and a result of every test of every file that it was asked for.
THEOREM McpTellsOneStory == McpSpec => []OneStory
<1>1. McpInv => OneStory
  BY DEF McpInv, StoryInv, MeantInv, OneStory, TotalsAgree
<1>. QED  BY <1>1, McpInvariant, PTL

=============================================================================
