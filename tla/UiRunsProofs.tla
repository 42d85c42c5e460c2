---------------------------- MODULE UiRunsProofs ----------------------------
(***************************************************************************)
(* Why the page of UI mode never shows a run that Stop cannot find, why no *)
(* file is given to a worker that should not run it, why a busy worker     *)
(* owes an answer, and why no file of a run is lost or counted twice, for  *)
(* any number of workers, files, targets and requests.                     *)
(***************************************************************************)
EXTENDS UiRuns, TLAPS, SequenceTheorems, FiniteSetTheorems, WellFoundedInduction

Steps == {"none", "waiting", "gated", "readying", "marked", "between", "reviving", "dispatching"}
RunSteps == {"marked", "between", "reviving", "dispatching"}

\* Every sequence is one over its own elements.
IsSeq(q) == q \in Seq(Range(q))

IsHandle(h) ==
    /\ DOMAIN h = {"there", "retired", "busy", "file", "stale", "active"}
    /\ h.there \in BOOLEAN /\ h.retired \in BOOLEAN /\ h.busy \in BOOLEAN
    /\ h.active \in BOOLEAN

UiTypeOK ==
    /\ step \in [Requests -> Steps] /\ waited \in [Requests -> BOOLEAN]
    /\ awaits \in [Requests -> SUBSET Slots] /\ due \in [Requests -> SUBSET Slots]
    /\ waiter \in Requests \cup {Nobody} /\ runner \in Requests \cup {Nobody}
    /\ stopped \subseteq Requests
    /\ handle = [s \in Slots |-> handle[s]] /\ \A s \in Slots : IsHandle(handle[s])
    /\ DOMAIN job = Slots /\ \A s \in Slots : IsSeq(job[s])

\* One request at a time runs; only its dispatch leaves calls to make.
RunInv ==
    /\ \A r \in Requests : step[r] \in RunSteps <=> runner = r
    /\ dispatch # "none" => \E r \in Requests : step[r] = "dispatching"
    /\ agenda # <<>> => dispatch # "none"

\* The startup gate lets one request through, and until it opens there is no worker.
GateInv ==
    /\ waiter # Nobody => step[waiter] = "waiting"
    /\ \A q, r \in Requests : step[q] = "gated" /\ step[r] = "gated" => q = r
    /\ starting =>
          /\ \A r \in Requests : step[r] \in {"none", "waiting"} /\ due[r] = {}
          /\ \A s \in Slots : handle[s] = Absent
          /\ respawning = {} /\ attempts = {}

\* What the page shows, also while a released request is about to take the run.
PageInv ==
    page /\ corner \cap {"unended", "again"} = {} =>
        \/ waiter # Nobody \/ preparing \/ runner # Nobody
        \/ \E r \in Requests : step[r] = "readying" /\ waited[r] /\ awaits[r] = {}

\* A request that was stopped is over, or about to be, and the workers that were
\* stale when a request came have been retired before it goes on.
StopInv ==
    /\ \A r \in stopped : \/ step[r] = "none"
                          \/ step[r] = "gated" /\ stoppedPreparing
                          \/ runner = r /\ aborted
    /\ \A r \in Requests : step[r] # "none" =>
          \A s \in due[r] : handle[s].there /\ handle[s].retired

UiInv == UiTypeOK /\ RunInv /\ GateInv /\ PageInv /\ StopInv

-----------------------------------------------------------------------------
(* Sequences, records and the least of a set.                              *)

LEMMA MinIsMember ==
    ASSUME NEW S \in SUBSET Nat, S # {}
    PROVE  Min(S) \in S /\ \A n \in S : Min(S) <= n
<1>1. PICK m \in S : \A n \in S : ~(<<n, m>> \in OpToRel(<, Nat))
  BY NatLessThanWellFounded, WFMin
<1>2. \A n \in S : n < m => <<n, m>> \in OpToRel(<, Nat)
  BY DEF OpToRel
<1>3. \A n \in S : ~(n < m)
  BY <1>1, <1>2, Zenon
<1>4. \A n \in S : m <= n
  BY <1>3
<1>. QED  BY <1>4 DEF Min

LEMMA SeqIsSeq ==
    ASSUME NEW S, NEW q \in Seq(S)
    PROVE  IsSeq(q)
<1>1. q \in [1..Len(q) -> S] /\ Len(q) \in Nat
  BY LenProperties
<1>2. q \in [1..Len(q) -> Range(q)]
  BY <1>1 DEF Range
<1>. QED  BY <1>1, <1>2, SeqDef DEF IsSeq

LEMMA EmptyIsSeq == IsSeq(<<>>) /\ Len(<<>>) = 0
BY DEF IsSeq

LEMMA AppendIsSeq ==
    ASSUME NEW q, IsSeq(q), NEW x
    PROVE  IsSeq(Append(q, x)) /\ Len(Append(q, x)) = Len(q) + 1
<1>1. Append(q, x) \in Seq(Range(q) \cup {x}) /\ Len(Append(q, x)) = Len(q) + 1
  BY DEF IsSeq
<1>. QED  BY <1>1, SeqIsSeq

LEMMA TailIsSeq ==
    ASSUME NEW q, IsSeq(q), q # <<>>
    PROVE  IsSeq(Tail(q)) /\ Len(Tail(q)) = Len(q) - 1 /\ Len(q) \in Nat
<1>1. Tail(q) \in Seq(Range(q)) /\ Len(Tail(q)) = Len(q) - 1 /\ Len(q) \in Nat
  BY EmptySeq, HeadTailProperties DEF IsSeq
<1>. QED  BY <1>1, SeqIsSeq

LEMMA RetiredIsHandle ==
    ASSUME NEW h, IsHandle(h)
    PROVE  LET g == [h EXCEPT !.retired = TRUE] IN
           IsHandle(g) /\ g.retired /\ g.there = h.there /\ g.busy = h.busy /\ g.active = h.active
BY DEF IsHandle

LEMMA GivenUpIsHandle ==
    ASSUME NEW h, IsHandle(h)
    PROVE  /\ IsHandle(GivenUp(h)) /\ GivenUp(h).there = h.there /\ GivenUp(h).active = h.active
           /\ GivenUp(h).retired /\ ~GivenUp(h).busy /\ GivenUp(h).file = NoFile
BY DEF IsHandle, GivenUp

LEMMA HoldingIsHandle ==
    ASSUME NEW h, IsHandle(h), NEW busy \in BOOLEAN, NEW f
    PROVE  LET g == Holding(h, busy, f) IN
           /\ IsHandle(g) /\ g.there = h.there /\ g.retired = h.retired /\ g.active = h.active
           /\ g.busy = busy /\ g.file = f
BY DEF IsHandle, Holding

-----------------------------------------------------------------------------
(* The events and the calls that leave the requests where they are.        *)

LEMMA UiInvInit == Init => UiInv
<1>. SUFFICES ASSUME Init PROVE UiInv
  OBVIOUS
<1>1. IsHandle(Absent)
  BY DEF Absent, IsHandle
<1>2. UiTypeOK
  BY <1>1, EmptyIsSeq DEF Init, UiTypeOK, Steps
<1>3. RunInv
  BY UiAssumption DEF Init, RunInv, RunSteps
<1>4. GateInv /\ PageInv /\ StopInv
  BY DEF Init, GateInv, PageInv, StopInv
<1>. QED  BY <1>2, <1>3, <1>4 DEF UiInv

\* No worker loses what retired it.
HandlesKept ==
    /\ handle' = [s \in Slots |-> handle'[s]]
    /\ \A s \in Slots : /\ IsHandle(handle'[s])
                        /\ handle[s].there /\ handle[s].retired =>
                              \/ handle'[s].there /\ handle'[s].retired
                              \/ \A r \in Requests : s \notin due'[r]

JobsKept == DOMAIN job' = Slots /\ \A s \in Slots : IsSeq(job'[s])

LEMMA RequestsKept ==
    ASSUME UiInv, HandlesKept, JobsKept,
           UNCHANGED <<starting, waiter, preparing, stoppedPreparing, step, waited, runner, aborted,
                       page, stopped>>,
           corner \subseteq corner',
           awaits' \in [Requests -> SUBSET Slots], \A r \in Requests : awaits'[r] \subseteq awaits[r],
           due' \in [Requests -> SUBSET Slots], \A r \in Requests : due'[r] \subseteq due[r],
           dispatch' # "none" => dispatch # "none",
           agenda' # <<>> => dispatch' # "none",
           starting => handle' = handle /\ respawning' = {} /\ attempts' = {}
    PROVE  UiInv'
<1>1. UiTypeOK'
  BY DEF UiInv, UiTypeOK, HandlesKept, JobsKept
<1>2. RunInv'
  BY DEF UiInv, RunInv
<1>3. GateInv'
  BY DEF UiInv, UiTypeOK, GateInv
<1>4. PageInv'
  BY DEF UiInv, PageInv
<1>5. StopInv'
  BY DEF UiInv, UiTypeOK, StopInv, HandlesKept
<1>. QED  BY <1>1, <1>2, <1>3, <1>4, <1>5 DEF UiInv

\* Before the gate opens nothing but a request and Stop happens.
LEMMA NothingYet ==
    ASSUME UiInv, starting
    PROVE  /\ respawning = {} /\ attempts = {} /\ runner = Nobody /\ agenda = <<>> /\ dispatch = "none"
           /\ \A s \in Slots : ~handle[s].there /\ s \notin Live
<1>1. \A r \in Requests : step[r] \in {"none", "waiting"}
  BY DEF UiInv, GateInv
<1>2. runner = Nobody
  BY <1>1 DEF UiInv, UiTypeOK, RunInv, RunSteps
<1>3. dispatch = "none" /\ agenda = <<>>
  BY <1>1 DEF UiInv, RunInv
<1>4. \A s \in Slots : ~handle[s].there
  BY DEF UiInv, GateInv, Absent
<1>. QED  BY <1>2, <1>3, <1>4 DEF UiInv, GateInv, Live

LEMMA RespawnKeeps ==
    ASSUME UiInv, NEW s \in Slots, RespawnReady(s) \/ RespawnFails(s)
    PROVE  UiInv'
<1>1. UiTypeOK /\ RunInv
  BY DEF UiInv
<1>2. ~starting
  BY NothingYet DEF RespawnReady, RespawnFails
<1>3. CASE RespawnReady(s)
  <2>1. /\ handle' = [handle EXCEPT ![s] = Fresh] /\ job' = [job EXCEPT ![s] = <<>>]
        /\ awaits' = [r \in Requests |-> awaits[r] \ {s}] /\ due' = [r \in Requests |-> due[r] \ {s}]
        /\ UNCHANGED <<gateVars, step, waited, runVars, dispatchVars, page, stopped, corner>>
    BY <1>3 DEF RespawnReady, reportVars
  <2>2. IsHandle(Fresh)
    BY DEF Fresh, Absent, IsHandle
  <2>3. HandlesKept
    BY <1>1, <2>1, <2>2 DEF HandlesKept, UiTypeOK
  <2>4. JobsKept
    BY <1>1, <2>1, EmptyIsSeq DEF JobsKept, UiTypeOK
  <2>. QED  BY <1>1, <1>2, <2>1, <2>3, <2>4, RequestsKept
            DEF gateVars, runVars, dispatchVars, UiTypeOK, RunInv
<1>4. CASE RespawnFails(s)
  <2>1. /\ awaits' = [r \in Requests |-> awaits[r] \ {s}]
        /\ UNCHANGED <<gateVars, step, waited, runVars, dispatchVars, handle, job, page, ghostVars>>
    BY <1>4 DEF RespawnFails, reportVars
  <2>2. HandlesKept /\ JobsKept
    BY <1>1, <2>1 DEF HandlesKept, JobsKept, UiTypeOK
  <2>. QED  BY <1>1, <1>2, <2>1, <2>2, RequestsKept
            DEF gateVars, runVars, dispatchVars, ghostVars, UiTypeOK, RunInv
<1>. QED  BY <1>3, <1>4
\* What RespawnAll does to the handles.
LEMMA Retiring ==
    ASSUME UiTypeOK, NEW ss,
           handle' = [s \in Slots |-> IF s \in ss THEN [handle[s] EXCEPT !.retired = TRUE] ELSE handle[s]]
    PROVE  /\ HandlesKept
           /\ \A s \in Slots : /\ handle'[s].there = handle[s].there
                               /\ s \in ss => handle'[s].retired
                               /\ s \notin ss => handle'[s] = handle[s]
BY RetiredIsHandle DEF HandlesKept, UiTypeOK

\* The events in which workers come, die or grow old.
LEMMA WorkerEventKeeps ==
    ASSUME UiInv, \/ Save \/ RecycleStale
                  \/ \E s \in Slots : UserRespawn(s) \/ ChildEnds(s) \/ ChannelCloses(s)
                  \/ \E b \in Buckets : AttemptEnds(b)
    PROVE  UiInv'
<1>1. UiTypeOK /\ RunInv
  BY DEF UiInv
<1>2. CASE Save
  <2>1. /\ handle' = [s \in Slots |-> IF s \in Live THEN [handle[s] EXCEPT !.stale = TRUE] ELSE handle[s]]
        /\ UNCHANGED <<gateVars, requestVars, runVars, dispatchVars, job, page, ghostVars>>
        /\ ~starting
    BY <1>2 DEF Save, reportVars
  <2>2. HandlesKept /\ JobsKept
    BY <1>1, <2>1 DEF HandlesKept, JobsKept, UiTypeOK, IsHandle
  <2>. QED  BY <1>1, <2>1, <2>2, RequestsKept
            DEF gateVars, requestVars, runVars, dispatchVars, ghostVars, UiTypeOK, RunInv
<1>3. CASE RecycleStale
  <2>1. PICK ss \in SUBSET {s \in Live : handle[s].stale /\ ~handle[s].busy} :
           RespawnAll(IF runner = Nobody THEN ss ELSE {})
    BY <1>3 DEF RecycleStale
  <2>2. UNCHANGED <<gateVars, requestVars, runVars, dispatchVars, job, page, ghostVars, attempts>>
    BY <1>3 DEF RecycleStale, reportVars
  <2>3. HandlesKept
    BY <1>1, <2>1, Retiring DEF RespawnAll
  <2>4. starting => handle' = handle /\ respawning' = {} /\ attempts' = {}
    <3>. SUFFICES ASSUME starting PROVE handle' = handle /\ respawning' = {} /\ attempts' = {}
      OBVIOUS
    <3>1. ss = {}
      BY <2>1, NothingYet DEF Live
    <3>2. respawning = {} /\ attempts = {}
      BY NothingYet
    <3>3. handle' = [s \in Slots |-> handle[s]]
      BY <2>1, <3>1 DEF RespawnAll
    <3>4. handle' = handle
      BY <1>1, <3>3 DEF UiTypeOK
    <3>. QED  BY <2>1, <2>2, <3>1, <3>2, <3>4 DEF RespawnAll
  <2>5. JobsKept
    BY <1>1, <2>2 DEF JobsKept, UiTypeOK
  <2>. QED  BY <1>1, <2>2, <2>3, <2>4, <2>5, RequestsKept
            DEF gateVars, requestVars, runVars, dispatchVars, ghostVars, UiTypeOK, RunInv
<1>4. ASSUME NEW s \in Slots, UserRespawn(s) PROVE UiInv'
  <2>1. /\ handle' = [x \in Slots |->
              IF x = s /\ x \in Live THEN [handle[x] EXCEPT !.retired = TRUE, !.busy = FALSE]
              ELSE IF x \in {s} \cup Unready THEN [handle[x] EXCEPT !.retired = TRUE] ELSE handle[x]]
        /\ UNCHANGED <<gateVars, requestVars, runVars, dispatchVars, job, page, stopped, due>>
        /\ corner \subseteq corner'
    BY <1>4 DEF UserRespawn, reportVars
  <2>2. ~starting
    BY <1>4, NothingYet DEF UserRespawn
  <2>3. HandlesKept
    BY <1>1, <2>1 DEF HandlesKept, UiTypeOK, IsHandle
  <2>4. JobsKept
    BY <1>1, <2>1 DEF JobsKept, UiTypeOK
  <2>. QED  BY <1>1, <2>1, <2>2, <2>3, <2>4, RequestsKept
            DEF gateVars, requestVars, runVars, dispatchVars, UiTypeOK, RunInv
<1>5. ASSUME NEW s \in Slots, ChildEnds(s) \/ ChannelCloses(s) PROVE UiInv'
  <2>1. /\ UNCHANGED <<gateVars, requestVars, runVars, dispatchVars, handle, page, ghostVars,
                       respawning, attempts>>
        /\ job' = job \/ job' = [job EXCEPT ![s] = <<>>]
    BY <1>5 DEF ChildEnds, ChannelCloses, reportVars, targetVars
  <2>2. HandlesKept /\ JobsKept
    BY <1>1, <2>1, EmptyIsSeq DEF HandlesKept, JobsKept, UiTypeOK
  <2>. QED  BY <1>1, <2>1, <2>2, RequestsKept, NothingYet
            DEF gateVars, requestVars, runVars, dispatchVars, ghostVars, UiTypeOK, RunInv
<1>6. ASSUME NEW b \in Buckets, AttemptEnds(b) PROVE UiInv'
  <2>1. /\ \/ handle' = handle
           \/ \E ss \in SUBSET {s \in Slots : suite.device[s] = b /\ ~handle[s].there} :
                 handle' = [s \in Slots |-> IF s \in ss THEN Fresh ELSE handle[s]]
        /\ UNCHANGED <<gateVars, requestVars, runner, aborted, dispatchVars, job, page, ghostVars>>
    BY <1>6 DEF AttemptEnds, reportVars
  <2>2. ~starting
    BY <1>6, NothingYet DEF AttemptEnds
  <2>3. IsHandle(Fresh)
    BY DEF Fresh, Absent, IsHandle
  <2>4. HandlesKept
    BY <1>1, <2>1, <2>3 DEF HandlesKept, UiTypeOK
  <2>5. JobsKept
    BY <1>1, <2>1 DEF JobsKept, UiTypeOK
  <2>. QED  BY <1>1, <2>1, <2>2, <2>4, <2>5, RequestsKept
            DEF gateVars, requestVars, dispatchVars, ghostVars, UiTypeOK, RunInv
<1>. QED  BY <1>2, <1>3, <1>4, <1>5, <1>6

\* The calls of the agenda, and the events of a dispatch.
LEMMA DispatchKeeps ==
    ASSUME UiInv, \/ DispatchNext \/ RetireWorker \/ MaybeResolve \/ AllOffered \/ Escalate
                  \/ \E s \in Slots : ChildAnswers(s) \/ Deliver(s) \/ ExitSeen(s)
    PROVE  UiInv'
<1>1. UiTypeOK /\ RunInv
  BY DEF UiInv
<1>2. CASE DispatchNext
  <2>1. /\ UNCHANGED <<gateVars, requestVars, runVars, dispatch, page, ghostVars>> /\ agenda # <<>>
        /\ \/ UNCHANGED <<handle, job>>
           \/ /\ handle' = [handle EXCEPT ![Caller] = Holding(@, FALSE, NoFile)]
              /\ job' = job
           \/ \E next :
                 /\ handle' = [handle EXCEPT ![Caller] = Holding(@, TRUE, next)]
                 /\ job' = [job EXCEPT ![Caller] = IF child[Caller] = "up" THEN Append(@, next) ELSE @]
    BY <1>2 DEF DispatchNext, Calling, reportVars
  <2>2. HandlesKept
    <3>1. CASE UNCHANGED <<handle, job>>
      BY <1>1, <3>1 DEF HandlesKept, UiTypeOK
    <3>2. ASSUME NEW b \in BOOLEAN, NEW next,
                 handle' = [handle EXCEPT ![Caller] = Holding(@, b, next)]
          PROVE  HandlesKept
      BY <1>1, <3>2, HoldingIsHandle DEF HandlesKept, UiTypeOK
    <3>. QED  BY <2>1, <3>1, <3>2
  <2>3. JobsKept
    <3>1. CASE job' = job
      BY <1>1, <3>1 DEF JobsKept, UiTypeOK
    <3>2. ASSUME NEW next, job' = [job EXCEPT ![Caller] = IF child[Caller] = "up" THEN Append(@, next) ELSE @]
          PROVE  JobsKept
      BY <1>1, <3>2, AppendIsSeq DEF JobsKept, UiTypeOK
    <3>. QED  BY <2>1, <3>1, <3>2
  <2>. QED  BY <1>1, <2>1, <2>2, <2>3, RequestsKept, NothingYet
            DEF gateVars, requestVars, runVars, ghostVars, UiTypeOK, RunInv
<1>3. CASE RetireWorker
  <2>1. /\ UNCHANGED <<gateVars, requestVars, runner, aborted, page, job, ghostVars>> /\ agenda # <<>>
        /\ dispatch' # "none" <=> dispatch # "none"
        /\ \/ handle' = handle
           \/ handle' = [handle EXCEPT ![Caller] = GivenUp(@)]
    BY <1>3 DEF RetireWorker, Calling
  <2>2. HandlesKept /\ JobsKept
    BY <1>1, <2>1, GivenUpIsHandle DEF HandlesKept, JobsKept, UiTypeOK
  <2>. QED  BY <1>1, <2>1, <2>2, RequestsKept, NothingYet
            DEF gateVars, requestVars, ghostVars, UiTypeOK, RunInv
<1>4. CASE MaybeResolve \/ AllOffered
  <2>1. /\ UNCHANGED <<gateVars, requestVars, runner, aborted, page, job, handle, ghostVars>> /\ agenda # <<>>
        /\ dispatch' # "none" <=> dispatch # "none"
    BY <1>4 DEF MaybeResolve, AllOffered, Settle, Calling, workerVars, reportVars, runVars
  <2>2. HandlesKept /\ JobsKept
    BY <1>1, <2>1 DEF HandlesKept, JobsKept, UiTypeOK
  <2>. QED  BY <1>1, <2>1, <2>2, RequestsKept, NothingYet
            DEF gateVars, requestVars, ghostVars, UiTypeOK, RunInv
<1>5. CASE Escalate
  <2>1. /\ UNCHANGED <<gateVars, requestVars, runner, aborted, page, ghostVars, agenda, respawning, attempts>>
        /\ dispatch' # "none" <=> dispatch # "none"
        /\ handle' = [s \in Slots |-> handle'[s]] /\ DOMAIN job' = Slots
        /\ \A s \in Slots :
              /\ \/ handle'[s] = handle[s]
                 \/ s \in Live /\ handle'[s] = GivenUp(handle[s])
              /\ job'[s] = job[s] \/ job'[s] = <<>>
    BY <1>1, <1>5 DEF Escalate, Settle, targetVars, UiTypeOK
  <2>2. HandlesKept /\ JobsKept
    BY <1>1, <2>1, EmptyIsSeq, GivenUpIsHandle DEF HandlesKept, JobsKept, UiTypeOK
  <2>3. starting => handle' = handle
    BY <1>1, <1>5, NothingYet DEF Escalate, UiTypeOK
  <2>. QED  BY <1>1, <2>1, <2>2, <2>3, RequestsKept, NothingYet
            DEF gateVars, requestVars, ghostVars, UiTypeOK, RunInv
<1>6. ASSUME NEW s \in Slots, ChildAnswers(s) PROVE UiInv'
  <2>1. /\ UNCHANGED <<gateVars, requestVars, runVars, dispatchVars, page, handle, ghostVars, respawning, attempts>>
        /\ job[s] # <<>> /\ job' = [job EXCEPT ![s] = Tail(@)]
    BY <1>6 DEF ChildAnswers, reportVars, targetVars
  <2>2. HandlesKept /\ JobsKept
    BY <1>1, <2>1, TailIsSeq DEF HandlesKept, JobsKept, UiTypeOK
  <2>. QED  BY <1>1, <2>1, <2>2, RequestsKept, NothingYet
            DEF gateVars, requestVars, runVars, dispatchVars, ghostVars, UiTypeOK, RunInv
<1>7. ASSUME NEW s \in Slots, Deliver(s) PROVE UiInv'
  <2>1. /\ UNCHANGED <<gateVars, requestVars, runner, aborted, dispatch, page, job, ghostVars, respawning, attempts>>
        /\ \/ handle' = handle
           \/ dispatch = "open" /\ handle' = [handle EXCEPT ![s] = Holding(@, @.busy /\ ~aborted, NoFile)]
        /\ agenda' = agenda \/ dispatch = "open"
    BY <1>7 DEF Deliver, targetVars
  <2>. DEFINE busy == handle[s].busy /\ ~aborted
  <2>2. busy \in BOOLEAN /\ (handle' = handle \/ handle' = [handle EXCEPT ![s] = Holding(@, busy, NoFile)])
    BY <2>1
  <2>. HIDE DEF busy
  <2>3. HandlesKept /\ JobsKept
    BY <1>1, <2>1, <2>2, HoldingIsHandle DEF HandlesKept, JobsKept, UiTypeOK
  <2>. QED  BY <1>1, <2>1, <2>3, RequestsKept, NothingYet
            DEF gateVars, requestVars, ghostVars, UiTypeOK, RunInv
<1>8. ASSUME NEW s \in Slots, ExitSeen(s) PROVE UiInv'
  <2>1. /\ UNCHANGED <<gateVars, requestVars, runVars, dispatch, page, job, ghostVars, respawning, attempts>>
        /\ \/ handle' = handle
           \/ handle' = [handle EXCEPT ![s] = GivenUp(@)]
              /\ ~handle[s].retired
        /\ agenda' = <<>> \/ dispatch = "open"
    BY <1>8 DEF ExitSeen, reportVars, targetVars
  <2>2. HandlesKept /\ JobsKept
    BY <1>1, <2>1, GivenUpIsHandle DEF HandlesKept, JobsKept, UiTypeOK
  <2>3. starting => handle' = handle
    BY <2>1 DEF UiInv, GateInv, Absent
  <2>. QED  BY <1>1, <2>1, <2>2, <2>3, RequestsKept, NothingYet
            DEF gateVars, requestVars, runVars, ghostVars, UiTypeOK, RunInv
<1>. QED  BY <1>2, <1>3, <1>4, <1>5, <1>6, <1>7, <1>8
-----------------------------------------------------------------------------
(* The requests.                                                           *)

\* A request enters its run: it takes it, waits for its workers or goes away.
LEMMA Entering ==
    ASSUME UiTypeOK, NEW r \in Requests, NEW what, NEW held \in BOOLEAN, EnterRun(r, what, held)
    PROVE  \E to \in {"none", "readying", "marked"} :
              /\ step' = [step EXCEPT ![r] = to]
              /\ \E h \in BOOLEAN : waited' = [waited EXCEPT ![r] = h] /\ (to # "none" => h = held)
              /\ HandlesKept
              /\ \A s \in Slots : handle[s].there /\ handle[s].retired =>
                                     handle'[s].there /\ handle'[s].retired
              /\ IF to = "none" THEN awaits' = awaits /\ handle' = handle
                 ELSE /\ awaits' = [awaits EXCEPT ![r] = Unready]
                      /\ \A s \in Unready : handle'[s].there /\ handle'[s].retired
              /\ IF to = "marked" THEN runner = Nobody /\ runner' = r /\ aborted' = FALSE
                 ELSE runner' = runner /\ aborted' = aborted
<1>1. ASSUME EnsureReady(r)
      PROVE  /\ HandlesKept
             /\ awaits' = [awaits EXCEPT ![r] = Unready]
             /\ \A s \in Unready : handle'[s].there /\ handle'[s].retired
             /\ \A s \in Slots : handle[s].there /\ handle[s].retired =>
                                    handle'[s].there /\ handle'[s].retired
  BY <1>1, Retiring DEF EnsureReady, RespawnAll, Unready
<1>2. ASSUME handle' = handle PROVE HandlesKept
  BY <1>2 DEF HandlesKept, UiTypeOK
<1>3. CASE what = "all"
  <2>1. /\ step' = [step EXCEPT ![r] = "readying"] /\ waited' = [waited EXCEPT ![r] = held]
        /\ EnsureReady(r) /\ runner' = runner /\ aborted' = aborted
    BY <1>3 DEF EnterRun, Goes, runVars
  <2>. QED  BY <1>1, <2>1
<1>4. CASE what # "all" /\ UseParallel /\ runner = Nobody
  <2>1. /\ step' = [step EXCEPT ![r] = "marked"] /\ waited' = [waited EXCEPT ![r] = held]
        /\ EnsureReady(r) /\ runner' = r /\ aborted' = FALSE
    BY <1>4 DEF EnterRun, Goes, Mark
  <2>. QED  BY <1>1, <1>4, <2>1
<1>5. CASE what # "all" /\ ~(UseParallel /\ runner = Nobody)
  <2>1. /\ step' = [step EXCEPT ![r] = "none"] /\ waited' = [waited EXCEPT ![r] = FALSE]
        /\ awaits' = awaits /\ handle' = handle /\ runner' = runner /\ aborted' = aborted
    BY <1>5 DEF EnterRun, NoRun, Goes, runVars
  <2>. QED  BY <1>2, <2>1
<1>. QED  BY <1>3, <1>4, <1>5

\* A request that has no run yet moves on.
LEMMA MovedRunInv ==
    ASSUME UiTypeOK, RunInv, NEW r \in Requests, step[r] \notin RunSteps,
           NEW to \in Steps, step' = [step EXCEPT ![r] = to],
           IF to \in RunSteps THEN runner = Nobody /\ runner' = r ELSE runner' = runner,
           UNCHANGED <<dispatch, agenda>>
    PROVE  RunInv'
<1>1. \A q \in Requests : step'[q] = IF q = r THEN to ELSE step[q]
  BY DEF UiTypeOK
<1>2. \A q \in Requests : step'[q] \in RunSteps <=> runner' = q
  BY <1>1, UiAssumption DEF RunInv, RunSteps, Steps
<1>3. dispatch' # "none" => \E q \in Requests : step'[q] = "dispatching"
  BY <1>1 DEF RunInv, RunSteps
<1>. QED  BY <1>2, <1>3 DEF RunInv

LEMMA AskKeeps ==
    ASSUME UiInv, NEW r \in Requests, Ask(r)
    PROVE  UiInv'
<1>1. UiTypeOK /\ RunInv /\ GateInv /\ PageInv /\ StopInv
  BY DEF UiInv
<1>2. /\ step[r] = "none" /\ waiter = Nobody /\ ~preparing /\ agenda = <<>>
      /\ due' = [due EXCEPT ![r] = {s \in Live : handle[s].stale /\ ~handle[s].busy}]
      /\ stopped' = stopped \ {r}
      /\ UNCHANGED <<starting, preparing, stoppedPreparing, dispatch, agenda, job, attempts, corner>>
  BY DEF Ask, Event, dispatchVars, targetVars
<1>3. due' \in [Requests -> SUBSET Slots]
  BY <1>1, <1>2 DEF UiTypeOK, Live
<1>4. JobsKept
  BY <1>1, <1>2 DEF JobsKept, UiTypeOK
<1>5. CASE starting
  <2>1. PICK what : /\ waiter' = r /\ Goes(r, "waiting", what, TRUE) /\ page' = TRUE
                    /\ UNCHANGED <<awaits, handle, respawning, runVars, outcome, times, verdict>>
    BY <1>5 DEF Ask
  <2>2. /\ step' = [step EXCEPT ![r] = "waiting"] /\ waited' = [waited EXCEPT ![r] = TRUE]
        /\ UNCHANGED <<awaits, handle, respawning, runner, aborted>> /\ waiter' = r
    BY <2>1 DEF Goes, runVars
  <2>3. UiTypeOK'
    BY <1>1, <1>2, <1>3, <1>4, <2>2 DEF UiTypeOK, JobsKept, Steps
  <2>4. RunInv'
    BY <1>1, <1>2, <2>2, MovedRunInv DEF Steps, RunSteps
  <2>5. due'[r] = {}
    BY <1>1, <1>2, <1>5, NothingYet DEF UiTypeOK, Live
  <2>6. GateInv'
    BY <1>1, <1>2, <1>5, <2>2, <2>5, UiAssumption DEF UiTypeOK, GateInv
  <2>7. PageInv'
    BY <2>2, UiAssumption DEF PageInv
  <2>8. StopInv'
    BY <1>1, <1>2, <2>2, <2>5 DEF UiTypeOK, StopInv
  <2>. QED  BY <2>3, <2>4, <2>6, <2>7, <2>8 DEF UiInv
<1>6. CASE ~starting
  <2>1. PICK what : EnterRun(r, what, FALSE) /\ UNCHANGED <<waiter, page>>
    BY <1>6 DEF Ask
  <2>2. PICK to \in {"none", "readying", "marked"} :
           /\ step' = [step EXCEPT ![r] = to]
           /\ \E h \in BOOLEAN : waited' = [waited EXCEPT ![r] = h] /\ (to # "none" => h = FALSE)
           /\ HandlesKept
           /\ \A s \in Slots : handle[s].there /\ handle[s].retired =>
                                  handle'[s].there /\ handle'[s].retired
           /\ IF to = "none" THEN awaits' = awaits /\ handle' = handle
              ELSE /\ awaits' = [awaits EXCEPT ![r] = Unready]
                   /\ \A s \in Unready : handle'[s].there /\ handle'[s].retired
           /\ IF to = "marked" THEN runner = Nobody /\ runner' = r /\ aborted' = FALSE
              ELSE runner' = runner /\ aborted' = aborted
    BY <1>1, <2>1, Entering
  <2>3. UiTypeOK'
    <3>1. step' \in [Requests -> Steps] /\ waited' \in [Requests -> BOOLEAN]
      BY <1>1, <2>2 DEF UiTypeOK, Steps
    <3>2. awaits' \in [Requests -> SUBSET Slots]
      <4>1. Unready \in SUBSET Slots
        BY DEF Unready
      <4>2. CASE to = "none"
        BY <1>1, <2>2, <4>2 DEF UiTypeOK
      <4>3. CASE to # "none"
        BY <1>1, <2>2, <4>1, <4>3 DEF UiTypeOK
      <4>. QED  BY <4>2, <4>3
    <3>3. waiter' = waiter /\ runner' \in Requests \cup {Nobody} /\ stopped' \subseteq Requests
      BY <1>1, <1>2, <2>1, <2>2 DEF UiTypeOK
    <3>. QED  BY <1>1, <1>3, <1>4, <2>2, <3>1, <3>2, <3>3 DEF UiTypeOK, JobsKept, HandlesKept
  <2>4. RunInv'
    BY <1>1, <1>2, <2>2, MovedRunInv DEF Steps, RunSteps
  <2>5. GateInv'
    BY <1>1, <1>2, <1>6, <2>1, <2>2 DEF UiTypeOK, GateInv
  <2>6. PageInv'
    <3>1. runner # Nobody => runner' # Nobody
      BY <2>2
    <3>2. \A q \in Requests : step[q] = "readying" /\ waited[q] /\ awaits[q] = {} =>
                               step'[q] = "readying" /\ waited'[q] /\ awaits'[q] = {}
      BY <1>1, <1>2, <2>2 DEF UiTypeOK
    <3>. QED  BY <1>1, <1>2, <2>1, <3>1, <3>2 DEF PageInv
  <2>7. StopInv'
    <3>1. \A q \in stopped' : q # r /\ q \in stopped /\ q \in Requests /\ step'[q] = step[q]
      BY <1>1, <1>2, <2>2 DEF UiTypeOK
    <3>2. \A q \in stopped' : \/ step'[q] = "none"
                              \/ step'[q] = "gated" /\ stoppedPreparing'
                              \/ runner' = q /\ aborted'
      <4>1. ASSUME NEW q \in stopped', runner = q /\ aborted PROVE runner' = q /\ aborted'
        <5>1. q # Nobody
          BY <3>1, UiAssumption
        <5>. QED  BY <2>2, <4>1, <5>1
      <4>. QED  BY <1>1, <1>2, <3>1, <4>1 DEF StopInv
    <3>3. ASSUME to # "none", NEW s \in due'[r] PROVE handle'[s].there /\ handle'[s].retired
      BY <1>1, <1>2, <2>2, <3>3 DEF UiTypeOK, Unready, Live
    <3>4. \A q \in Requests : step'[q] # "none" => \A s \in due'[q] : handle'[s].there /\ handle'[s].retired
      BY <1>1, <1>2, <2>2, <3>3 DEF UiTypeOK, StopInv
    <3>. QED  BY <3>2, <3>4 DEF StopInv
  <2>. QED  BY <2>3, <2>4, <2>5, <2>6, <2>7 DEF UiInv
<1>. QED  BY <1>5, <1>6

LEMMA FinishStartupKeeps ==
    ASSUME UiInv, FinishStartup
    PROVE  UiInv'
<1>1. UiTypeOK /\ RunInv /\ GateInv /\ PageInv /\ StopInv
  BY DEF UiInv
<1>2. /\ starting /\ starting' = FALSE
      /\ UNCHANGED <<stoppedPreparing, waited, runner, aborted, dispatch, agenda, job, page, stopped,
                     due, corner>>
  BY DEF FinishStartup, runVars, dispatchVars, reportVars, ghostVars
<1>3. /\ runner = Nobody /\ \A r \in Requests : step[r] \in {"none", "waiting"} /\ due[r] = {}
  BY <1>1, <1>2, NothingYet DEF GateInv
<1>3a. PICK up \in SUBSET Slots : \E gone \in SUBSET up :
         /\ handle' = [s \in Slots |-> IF s \notin up THEN Absent
                                       ELSE [Fresh EXCEPT !.retired = s \in gone]]
         /\ IF waiter = Nobody
            THEN UNCHANGED <<waiter, preparing, step, awaits, respawning>>
            ELSE /\ waiter' = Nobody /\ preparing' = TRUE
                 /\ step' = [step EXCEPT ![waiter] = "gated"]
                 /\ awaits' = [awaits EXCEPT ![waiter] = gone] /\ respawning' = gone
  BY DEF FinishStartup
<1>4. PICK gone \in SUBSET up :
         /\ handle' = [s \in Slots |-> IF s \notin up THEN Absent
                                       ELSE [Fresh EXCEPT !.retired = s \in gone]]
         /\ IF waiter = Nobody
            THEN UNCHANGED <<waiter, preparing, step, awaits, respawning>>
            ELSE /\ waiter' = Nobody /\ preparing' = TRUE
                 /\ step' = [step EXCEPT ![waiter] = "gated"]
                 /\ awaits' = [awaits EXCEPT ![waiter] = gone] /\ respawning' = gone
  BY <1>3a
<1>5. /\ handle' = [s \in Slots |-> handle'[s]] /\ \A s \in Slots : IsHandle(handle'[s])
      /\ DOMAIN job' = Slots /\ \A s \in Slots : IsSeq(job'[s])
  <2>1. ASSUME NEW b \in BOOLEAN PROVE IsHandle(Absent) /\ IsHandle([Fresh EXCEPT !.retired = b])
    BY DEF IsHandle, Absent, Fresh
  <2>2. ASSUME NEW s \in Slots PROVE IsHandle(handle'[s])
    <3>. DEFINE b == s \in gone
    <3>1. b \in BOOLEAN /\ handle'[s] = IF s \notin up THEN Absent ELSE [Fresh EXCEPT !.retired = b]
      BY <1>4
    <3>. HIDE DEF b
    <3>. QED  BY <2>1, <3>1
  <2>3. handle' = [s \in Slots |-> handle'[s]]
    BY <1>4
  <2>. QED  BY <1>1, <1>2, <2>2, <2>3 DEF UiTypeOK
<1>6. CASE waiter = Nobody
  <2>1. UNCHANGED <<waiter, preparing, step, awaits>>
    BY <1>4, <1>6
  <2>2. UiTypeOK' /\ RunInv'
    BY <1>1, <1>2, <1>5, <2>1 DEF UiTypeOK, RunInv
  <2>3. GateInv' /\ PageInv' /\ StopInv'
    BY <1>1, <1>2, <1>3, <2>1 DEF GateInv, PageInv, StopInv
  <2>. QED  BY <2>2, <2>3 DEF UiInv
<1>7. CASE waiter # Nobody
  <2>1. /\ waiter' = Nobody /\ preparing' = TRUE /\ waiter \in Requests
        /\ step' = [step EXCEPT ![waiter] = "gated"] /\ awaits' = [awaits EXCEPT ![waiter] = gone]
    BY <1>1, <1>4, <1>7 DEF UiTypeOK
  <2>2. \A r \in Requests : step'[r] = IF r = waiter THEN "gated" ELSE step[r]
    BY <1>1, <2>1 DEF UiTypeOK
  <2>3. gone \in SUBSET Slots
    BY <1>4
  <2>4. UiTypeOK'
    BY <1>1, <1>2, <1>5, <2>1, <2>3 DEF UiTypeOK, Steps
  <2>5. RunInv'
    BY <1>1, <1>2, <1>3, <2>2, UiAssumption DEF RunInv, RunSteps
  <2>6. GateInv'
    BY <1>2, <1>3, <2>1, <2>2 DEF GateInv
  <2>7. step[waiter] = "waiting"
    BY <1>1, <1>7 DEF GateInv
  <2>8. PageInv'
    BY <2>1 DEF PageInv
  <2>9. StopInv'
    <3>1. \A r \in stopped : r \in Requests /\ r # waiter /\ step[r] = "none"
      BY <1>1, <1>3, <2>7, UiAssumption DEF UiTypeOK, StopInv
    <3>. QED  BY <1>2, <1>3, <2>2, <3>1 DEF StopInv
  <2>. QED  BY <2>4, <2>5, <2>6, <2>8, <2>9 DEF UiInv
<1>. QED  BY <1>6, <1>7

\* The request that is released takes the run, waits again or is over.
LEMMA ProceedKeeps ==
    ASSUME UiInv, NEW r \in Requests, Proceed(r)
    PROVE  UiInv'
<1>1. UiTypeOK /\ RunInv /\ GateInv /\ PageInv /\ StopInv
  BY DEF UiInv
<1>2. /\ agenda = <<>> /\ step[r] = "gated" /\ awaits[r] = {}
      /\ preparing' = FALSE /\ stoppedPreparing' = FALSE
      /\ corner \subseteq corner'
      /\ "again" \notin corner' => stoppedPreparing \/ runner' # Nobody \/ awaits'[r] = {}
      /\ page' => page /\ (runner # Nobody \/ step'[r] # "none")
      /\ UNCHANGED <<starting, waiter, dispatch, agenda, job, attempts, stopped, due>>
  BY DEF Proceed, dispatchVars, targetVars
<1>3. ~starting
  BY <1>1, <1>2 DEF GateInv
<1>4. \E to \in {"none", "readying", "marked"} :
         /\ stoppedPreparing => to = "none"
         /\ step' = [step EXCEPT ![r] = to]
         /\ \E h \in BOOLEAN : waited' = [waited EXCEPT ![r] = h] /\ (to # "none" => h)
         /\ HandlesKept
         /\ \A s \in Slots : handle[s].there /\ handle[s].retired =>
                                handle'[s].there /\ handle'[s].retired
         /\ IF to = "none" THEN awaits' = awaits ELSE awaits' = [awaits EXCEPT ![r] = Unready]
         /\ IF to = "marked" THEN runner = Nobody /\ runner' = r /\ aborted' = FALSE
            ELSE runner' = runner /\ aborted' = aborted
  <2>1. CASE stoppedPreparing
    <3>1. /\ step' = [step EXCEPT ![r] = "none"] /\ waited' = [waited EXCEPT ![r] = FALSE]
          /\ UNCHANGED <<awaits, handle, runner, aborted>>
      BY <2>1 DEF Proceed, NoRun, Goes, runVars
    <3>2. HandlesKept
      BY <1>1, <3>1 DEF HandlesKept, UiTypeOK
    <3>. QED  BY <3>1, <3>2
  <2>2. CASE ~stoppedPreparing
    <3>1. EnterRun(r, want[r], TRUE)
      BY <2>2 DEF Proceed
    <3>. QED  BY <1>1, <2>2, <3>1, Entering
  <2>. QED  BY <2>1, <2>2
<1>5. PICK to \in {"none", "readying", "marked"} :
         /\ stoppedPreparing => to = "none"
         /\ step' = [step EXCEPT ![r] = to]
         /\ \E h \in BOOLEAN : waited' = [waited EXCEPT ![r] = h] /\ (to # "none" => h)
         /\ HandlesKept
         /\ \A s \in Slots : handle[s].there /\ handle[s].retired =>
                                handle'[s].there /\ handle'[s].retired
         /\ IF to = "none" THEN awaits' = awaits ELSE awaits' = [awaits EXCEPT ![r] = Unready]
         /\ IF to = "marked" THEN runner = Nobody /\ runner' = r /\ aborted' = FALSE
            ELSE runner' = runner /\ aborted' = aborted
  BY <1>4
<1>6. \A q \in Requests : step'[q] = IF q = r THEN to ELSE step[q]
  BY <1>1, <1>5 DEF UiTypeOK
<1>7. UiTypeOK'
  <2>1. Unready \in SUBSET Slots
    BY DEF Unready
  <2>2. awaits' \in [Requests -> SUBSET Slots]
    BY <1>1, <1>5, <2>1 DEF UiTypeOK
  <2>3. step' \in [Requests -> Steps] /\ waited' \in [Requests -> BOOLEAN]
    BY <1>1, <1>5 DEF UiTypeOK, Steps
  <2>4. waiter' = waiter /\ runner' \in Requests \cup {Nobody} /\ stopped' = stopped
    BY <1>1, <1>2, <1>5 DEF UiTypeOK
  <2>. QED  BY <1>1, <1>2, <1>5, <2>2, <2>3, <2>4 DEF UiTypeOK, HandlesKept
<1>8. RunInv'
  BY <1>1, <1>2, <1>5, MovedRunInv DEF Steps, RunSteps
<1>9. GateInv'
  <2>1. waiter' # Nobody => waiter \in Requests /\ waiter # r /\ step[waiter] = "waiting"
    BY <1>1, <1>2 DEF UiTypeOK, GateInv
  <2>2. \A p, q \in Requests : step'[p] = "gated" /\ step'[q] = "gated" => p = q
    BY <1>1, <1>6 DEF GateInv
  <2>. QED  BY <1>2, <1>3, <1>6, <2>1, <2>2 DEF GateInv
<1>10. PageInv'
  <2>. SUFFICES ASSUME page', corner' \cap {"unended", "again"} = {}, runner' = Nobody
                PROVE  \E q \in Requests : step'[q] = "readying" /\ waited'[q] /\ awaits'[q] = {}
    BY DEF PageInv
  <2>1. runner = Nobody
    BY <1>5, UiAssumption
  <2>2. to = "readying"
    BY <1>2, <1>5, <1>6, <2>1, UiAssumption
  <2>3. awaits'[r] = {}
    BY <1>2, <1>5, <2>2
  <2>4. waited'[r]
    BY <1>1, <1>5, <2>2 DEF UiTypeOK
  <2>. QED  BY <1>6, <2>2, <2>3, <2>4
<1>11. StopInv'
  <2>1. ASSUME NEW q \in stopped
        PROVE  step'[q] = "none" \/ (runner' = q /\ aborted')
    <3>1. q \in Requests
      BY <1>1 DEF UiTypeOK
    <3>2. CASE q = r
      <4>1. runner # r
        BY <1>1, <1>2 DEF RunInv, RunSteps
      <4>. QED  BY <1>1, <1>2, <1>5, <1>6, <3>2, <4>1 DEF StopInv
    <3>3. CASE q # r
      <4>1. step[q] # "gated"
        BY <1>1, <1>2, <3>1, <3>3 DEF GateInv
      <4>2. CASE step[q] = "none"
        BY <1>6, <3>1, <3>3, <4>2
      <4>3. CASE runner = q /\ aborted
        <5>1. runner' = q
          BY <1>5, <3>1, <4>3, UiAssumption
        <5>2. aborted'
          BY <1>5, <3>1, <4>3, UiAssumption
        <5>. QED  BY <5>1, <5>2
      <4>. QED  BY <1>1, <4>1, <4>2, <4>3 DEF StopInv
    <3>. QED  BY <3>2, <3>3
  <2>2. ASSUME NEW q \in Requests, step'[q] # "none", NEW s \in due'[q]
        PROVE  handle'[s].there /\ handle'[s].retired
    <3>1. step[q] # "none" /\ s \in due[q] /\ s \in Slots
      BY <1>1, <1>2, <1>6, <2>2 DEF UiTypeOK
    <3>2. handle[s].there /\ handle[s].retired
      BY <1>1, <3>1 DEF StopInv
    <3>. QED  BY <1>5, <3>1, <3>2
  <2>. QED  BY <1>2, <2>1, <2>2 DEF StopInv
<1>. QED  BY <1>7, <1>8, <1>9, <1>10, <1>11 DEF UiInv

\* The run goes through its steps, or ends.
LEMMA RunMoves ==
    ASSUME UiInv, HandlesKept, NEW r \in Requests, step[r] \in RunSteps,
           NEW to \in {"none", "between", "reviving", "dispatching"}, step' = [step EXCEPT ![r] = to],
           waited' = waited \/ \E b \in BOOLEAN : waited' = [waited EXCEPT ![r] = b],
           IF to = "none" THEN runner' = Nobody /\ (page' => page /\ "unended" \in corner')
                          ELSE runner' = runner,
           dispatch' # "none" => to = "dispatching", agenda' # <<>> => dispatch' # "none",
           corner \subseteq corner',
           UNCHANGED <<gateVars, awaits, aborted, job, stopped, due>>
    PROVE  UiInv'
<1>1. UiTypeOK /\ RunInv /\ GateInv /\ PageInv /\ StopInv
  BY DEF UiInv
<1>2. /\ UNCHANGED <<starting, waiter, preparing, stoppedPreparing>> /\ ~starting
      /\ r # Nobody /\ runner = r
  BY <1>1, NothingYet, UiAssumption DEF gateVars, RunInv
<1>3. \A q \in Requests : step'[q] = IF q = r THEN to ELSE step[q]
  BY <1>1 DEF UiTypeOK
<1>4. UiTypeOK'
  <2>1. step' \in [Requests -> Steps] /\ waited' \in [Requests -> BOOLEAN]
    BY <1>1 DEF UiTypeOK, Steps
  <2>2. runner' \in Requests \cup {Nobody}
    BY <1>2
  <2>. QED  BY <1>1, <1>2, <2>1, <2>2 DEF UiTypeOK, HandlesKept
<1>5. RunInv'
  <2>1. ASSUME NEW q \in Requests PROVE step'[q] \in RunSteps <=> runner' = q
    <3>1. CASE q = r
      BY <1>2, <1>3, <3>1 DEF RunSteps
    <3>2. CASE q # r
      BY <1>1, <1>2, <1>3, <3>2, UiAssumption DEF RunInv
    <3>. QED  BY <3>1, <3>2
  <2>. QED  BY <1>3, <2>1 DEF RunInv
<1>6. GateInv'
  <2>1. step[r] \notin {"gated", "waiting"}
    BY DEF RunSteps
  <2>2. waiter # Nobody => waiter \in Requests /\ waiter # r
    BY <1>1, <2>1 DEF UiTypeOK, GateInv
  <2>. QED  BY <1>1, <1>2, <1>3, <2>1, <2>2 DEF GateInv
<1>7. PageInv'
  <2>1. CASE to = "none"
    BY <2>1 DEF PageInv
  <2>2. CASE to # "none"
    BY <1>2, <2>2 DEF PageInv
  <2>. QED  BY <2>1, <2>2
<1>8. StopInv'
  <2>1. ASSUME NEW q \in stopped
        PROVE  \/ step'[q] = "none"
               \/ step'[q] = "gated" /\ stoppedPreparing'
               \/ runner' = q /\ aborted'
    <3>0. q \in Requests
      BY <1>1 DEF UiTypeOK
    <3>1. CASE q = r /\ to = "none"
      BY <1>3, <3>0, <3>1
    <3>2. CASE q = r /\ to # "none"
      <4>1. runner = q /\ aborted
        BY <1>1, <3>0, <3>2 DEF StopInv, RunSteps
      <4>. QED  BY <3>2, <4>1
    <3>3. CASE q # r
      BY <1>1, <1>2, <1>3, <3>0, <3>3 DEF StopInv
    <3>. QED  BY <3>1, <3>2, <3>3
  <2>2. ASSUME NEW q \in Requests, step'[q] # "none", NEW s \in due'[q]
        PROVE  handle'[s].there /\ handle'[s].retired
    <3>1. step[q] # "none" /\ s \in due[q] /\ s \in Slots
      BY <1>1, <1>3, <2>2 DEF UiTypeOK, RunSteps
    <3>2. handle[s].there /\ handle[s].retired
      BY <1>1, <3>1 DEF StopInv
    <3>. QED  BY <2>2, <3>1, <3>2 DEF HandlesKept
  <2>. QED  BY <2>1, <2>2 DEF StopInv
<1>. QED  BY <1>4, <1>5, <1>6, <1>7, <1>8 DEF UiInv

\* A run that has its workers begins, or does not come about.
LEMMA StartKeeps ==
    ASSUME UiInv, NEW r \in Requests, StartAll(r) \/ StartProject(r)
    PROVE  UiInv'
<1>1. UiTypeOK /\ RunInv /\ GateInv /\ PageInv /\ StopInv
  BY DEF UiInv
<1>2. ASSUME handle' = handle PROVE HandlesKept
  BY <1>1, <1>2 DEF UiTypeOK, HandlesKept
<1>3. CASE StartProject(r)
  <2>1. /\ step[r] = "marked" /\ step' = [step EXCEPT ![r] = "between"]
        /\ UNCHANGED <<gateVars, awaits, waited, runner, aborted, dispatch, agenda, handle, job,
                       stopped, due, corner>>
    BY <1>3 DEF StartProject, runVars, dispatchVars, workerVars, ghostVars
  <2>2. dispatch = "none"
    BY <1>1, <2>1 DEF RunInv, RunSteps
  <2>3. agenda = <<>>
    BY <1>1, <2>2 DEF RunInv
  <2>. QED  BY <1>2, <2>1, <2>2, <2>3, RunMoves DEF RunSteps
<1>4. CASE StartAll(r)
  <2>1. /\ step[r] = "readying"
        /\ UNCHANGED <<starting, waiter, preparing, stoppedPreparing, awaits, dispatch, agenda,
                       handle, job, respawning, attempts, stopped, due, corner>>
    BY <1>4 DEF StartAll, gateVars, dispatchVars, workerVars, targetVars, ghostVars
  <2>2. PICK to \in {"none", "between"} :
           /\ step' = [step EXCEPT ![r] = to]
           /\ \E b \in BOOLEAN : waited' = [waited EXCEPT ![r] = b]
           /\ IF to = "between" THEN runner = Nobody /\ runner' = r /\ aborted' = FALSE
              ELSE /\ runner' = runner /\ aborted' = aborted
                   /\ page' => page /\ (runner # Nobody \/ ~waited[r])
    <3>1. CASE UseParallel /\ runner = Nobody
      <4>1. Mark(r) /\ Goes(r, "between", want[r], waited[r])
        BY <1>4, <3>1 DEF StartAll
      <4>2. waited[r] \in BOOLEAN
        BY <1>1 DEF UiTypeOK
      <4>. QED  BY <3>1, <4>1, <4>2 DEF Mark, Goes
    <3>2. CASE ~(UseParallel /\ runner = Nobody)
      <4>1. NoRun(r) /\ page' = (page /\ (runner # Nobody \/ ~waited[r])) /\ UNCHANGED runVars
        BY <1>4, <3>2 DEF StartAll
      <4>. QED  BY <4>1 DEF NoRun, Goes, runVars
    <3>. QED  BY <3>1, <3>2
  <2>3. \A q \in Requests : step'[q] = IF q = r THEN to ELSE step[q]
    BY <1>1, <2>2 DEF UiTypeOK
  <2>4. ~starting
    BY <1>1, <2>1 DEF GateInv
  <2>5. UiTypeOK'
    <3>1. step' \in [Requests -> Steps] /\ waited' \in [Requests -> BOOLEAN]
      BY <1>1, <2>2 DEF UiTypeOK, Steps
    <3>2. runner' \in Requests \cup {Nobody}
      BY <1>1, <2>2 DEF UiTypeOK
    <3>. QED  BY <1>1, <2>1, <3>1, <3>2 DEF UiTypeOK
  <2>6. RunInv'
    BY <1>1, <2>1, <2>2, MovedRunInv DEF Steps, RunSteps
  <2>7. GateInv'
    BY <1>1, <2>1, <2>3, <2>4 DEF UiTypeOK, GateInv
  <2>8. PageInv'
    <3>. SUFFICES ASSUME page', corner' \cap {"unended", "again"} = {}, runner' = Nobody
                  PROVE  \/ waiter' # Nobody \/ preparing'
                         \/ \E q \in Requests : step'[q] = "readying" /\ waited'[q] /\ awaits'[q] = {}
      BY DEF PageInv
    <3>1. to = "none"
      BY <2>2, UiAssumption
    <3>2. page /\ runner = Nobody /\ ~waited[r]
      BY <2>2, <3>1
    <3>3. \A q \in Requests \ {r} : waited'[q] = waited[q] /\ step'[q] = step[q]
      BY <1>1, <2>2, <2>3 DEF UiTypeOK
    <3>. QED  BY <1>1, <2>1, <3>2, <3>3 DEF PageInv
  <2>9. StopInv'
    <3>1. ASSUME NEW q \in stopped
          PROVE  \/ step'[q] = "none"
                 \/ step'[q] = "gated" /\ stoppedPreparing'
                 \/ runner' = q /\ aborted'
      <4>1. q \in Requests /\ q # Nobody
        BY <1>1, UiAssumption DEF UiTypeOK
      <4>2. q # r
        BY <1>1, <2>1, <4>1 DEF StopInv, RunInv, RunSteps
      <4>3. CASE runner = q /\ aborted
        BY <2>2, <4>1, <4>3
      <4>4. CASE ~(runner = q /\ aborted)
        BY <1>1, <2>1, <2>3, <4>1, <4>2, <4>4 DEF StopInv
      <4>. QED  BY <4>3, <4>4
    <3>2. \A q \in Requests : step'[q] # "none" => step[q] # "none"
      BY <2>1, <2>3
    <3>. QED  BY <1>1, <2>1, <3>1, <3>2 DEF StopInv
  <2>. QED  BY <2>5, <2>6, <2>7, <2>8, <2>9 DEF UiInv
<1>. QED  BY <1>3, <1>4

\* The waves and the dispatches of the run.
LEMMA WavesKeep ==
    ASSUME UiInv, NEW r \in Requests, NextWave(r) \/ OpenDispatch(r) \/ EndDispatch(r)
    PROVE  UiInv'
<1>1. UiTypeOK /\ RunInv
  BY DEF UiInv
<1>2. ASSUME handle' = handle PROVE HandlesKept
  BY <1>1, <1>2 DEF UiTypeOK, HandlesKept
<1>3. ASSUME handle' = [s \in Slots |-> handle'[s]],
             \A s \in Slots : \E b \in BOOLEAN : handle'[s] = [handle[s] EXCEPT !.active = b]
      PROVE  HandlesKept
  <2>1. ASSUME NEW h, IsHandle(h), NEW b \in BOOLEAN
        PROVE  LET g == [h EXCEPT !.active = b] IN
               IsHandle(g) /\ g.there = h.there /\ g.retired = h.retired
    BY <2>1 DEF IsHandle
  <2>2. ASSUME NEW s \in Slots
        PROVE  IsHandle(handle'[s]) /\ handle'[s].there = handle[s].there /\ handle'[s].retired = handle[s].retired
    <3>1. PICK b \in BOOLEAN : handle'[s] = [handle[s] EXCEPT !.active = b]
      BY <1>3
    <3>2. IsHandle(handle[s])
      BY <1>1 DEF UiTypeOK
    <3>. QED  BY <2>1, <3>1, <3>2
  <2>. QED  BY <1>3, <2>2 DEF HandlesKept
<1>4. ASSUME NEW rejected, EndRun(r, rejected)
      PROVE  /\ step' = [step EXCEPT ![r] = "none"] /\ waited' = [waited EXCEPT ![r] = FALSE]
             /\ runner' = Nobody /\ corner \subseteq corner' /\ (page' => page /\ "unended" \in corner')
  BY <1>4 DEF EndRun, NoRun, Goes
<1>5. CASE NextWave(r)
  <2>1. /\ agenda = <<>> /\ step[r] = "between" /\ dispatch = "none"
        /\ UNCHANGED <<gateVars, awaits, aborted, dispatch, agenda, handle, job, stopped, due>>
    BY <1>5 DEF NextWave, workerVars
  <2>2. \/ EndRun(r, FALSE)
        \/ /\ step' = step \/ step' = [step EXCEPT ![r] = "reviving"]
           /\ UNCHANGED <<runner, waited, page, corner>>
    BY <1>5 DEF NextWave
  <2>3. CASE EndRun(r, FALSE)
    BY <1>2, <1>4, <2>1, <2>3, RunMoves DEF RunSteps
  <2>4. CASE (step' = step \/ step' = [step EXCEPT ![r] = "reviving"]) /\ UNCHANGED <<runner, waited, page, corner>>
    <3>1. step' = [step EXCEPT ![r] = "between"] \/ step' = [step EXCEPT ![r] = "reviving"]
      BY <1>1, <2>1, <2>4 DEF UiTypeOK
    <3>. QED  BY <1>2, <2>1, <2>4, <3>1, RunMoves DEF RunSteps
  <2>. QED  BY <2>2, <2>3, <2>4
<1>6. CASE OpenDispatch(r)
  <2>1. /\ agenda = <<>> /\ step[r] = "reviving"
        /\ UNCHANGED <<gateVars, awaits, waited, runner, aborted, job, stopped, due>>
        /\ corner \subseteq corner'
    BY <1>6 DEF OpenDispatch
  <2>2. dispatch = "none"
    BY <1>1, <2>1 DEF RunInv, RunSteps
  <2>3. \/ step' = [step EXCEPT ![r] = "between"] /\ UNCHANGED <<dispatch, agenda, handle>>
        \/ /\ dispatch' = "open" /\ step' = [step EXCEPT ![r] = "dispatching"]
           /\ handle' = [s \in Slots |-> [handle[s] EXCEPT !.active = s \in Live]]
    BY <1>6 DEF OpenDispatch, NothingToDispatch
  <2>4. HandlesKept
    <3>1. CASE handle' = [s \in Slots |-> [handle[s] EXCEPT !.active = s \in Live]]
      <4>1. ASSUME NEW s \in Slots PROVE \E b \in BOOLEAN : handle'[s] = [handle[s] EXCEPT !.active = b]
        <5>. DEFINE live == s \in Live
        <5>1. live \in BOOLEAN /\ handle'[s] = [handle[s] EXCEPT !.active = live]
          BY <3>1
        <5>. HIDE DEF live
        <5>. QED  BY <5>1
      <4>2. handle' = [s \in Slots |-> handle'[s]]
        BY <3>1
      <4>. QED  BY <1>3, <4>1, <4>2
    <3>. QED  BY <1>2, <2>3, <3>1
  <2>5. CASE step' = [step EXCEPT ![r] = "between"] /\ UNCHANGED <<dispatch, agenda>>
    BY <2>1, <2>2, <2>4, <2>5, RunMoves DEF RunSteps
  <2>6. CASE dispatch' = "open" /\ step' = [step EXCEPT ![r] = "dispatching"]
    BY <2>1, <2>4, <2>6, RunMoves DEF RunSteps
  <2>. QED  BY <2>3, <2>5, <2>6
<1>7. CASE EndDispatch(r)
  <2>1. /\ agenda = <<>> /\ step[r] = "dispatching" /\ dispatch' = "none"
        /\ UNCHANGED <<gateVars, awaits, aborted, agenda, job, stopped, due>>
        /\ handle' = [s \in Slots |-> [handle[s] EXCEPT !.active = FALSE]]
    BY <1>7 DEF EndDispatch
  <2>2. HandlesKept
    <3>1. \A s \in Slots : handle'[s] = [handle[s] EXCEPT !.active = FALSE]
      BY <2>1
    <3>2. handle' = [s \in Slots |-> handle'[s]]
      BY <2>1
    <3>. QED  BY <1>3, <3>1, <3>2
  <2>3. \/ step' = [step EXCEPT ![r] = "between"] /\ UNCHANGED <<runner, waited, page, corner>>
        \/ EndRun(r, TRUE)
    BY <1>7 DEF EndDispatch
  <2>4. CASE EndRun(r, TRUE)
    BY <1>4, <2>1, <2>2, <2>4, RunMoves DEF RunSteps
  <2>5. CASE step' = [step EXCEPT ![r] = "between"] /\ UNCHANGED <<runner, waited, page, corner>>
    BY <2>1, <2>2, <2>5, RunMoves DEF RunSteps
  <2>. QED  BY <2>3, <2>4, <2>5
<1>. QED  BY <1>5, <1>6, <1>7

\* Stop ends the request that is held, prepares its workers or runs.
LEMMA StopKeeps ==
    ASSUME UiInv, Stop
    PROVE  UiInv'
<1>1. UiTypeOK /\ RunInv /\ GateInv /\ PageInv /\ StopInv
  BY DEF UiInv
<1>2. /\ agenda = <<>>
      /\ UNCHANGED <<starting, awaits, runner, dispatch, agenda, handle, job, respawning, attempts,
                     due, corner>>
  BY DEF Stop, Event, dispatchVars, workerVars, targetVars
<1>3. CASE waiter # Nobody /\ Cancel /\ page' = FALSE /\ UNCHANGED aborted /\ waiter' = Nobody
  <2>1. /\ NoRun(waiter) /\ stopped' = stopped \cup {waiter}
        /\ UNCHANGED <<preparing, stoppedPreparing>>
    BY <1>3 DEF Cancel
  <2>2. /\ waiter \in Requests
        /\ step' = [step EXCEPT ![waiter] = "none"] /\ waited' = [waited EXCEPT ![waiter] = FALSE]
    BY <1>1, <1>3, <2>1 DEF NoRun, Goes, UiTypeOK
  <2>3. \A q \in Requests : step'[q] = IF q = waiter THEN "none" ELSE step[q]
    BY <1>1, <2>2 DEF UiTypeOK
  <2>4. step[waiter] = "waiting"
    BY <1>1, <1>3 DEF GateInv
  <2>5. UiTypeOK'
    BY <1>1, <1>2, <1>3, <2>1, <2>2 DEF UiTypeOK, Steps
  <2>6. RunInv'
    BY <1>1, <1>2, <2>2, <2>4, MovedRunInv DEF Steps, RunSteps
  <2>7. GateInv'
    BY <1>1, <1>2, <1>3, <2>3 DEF GateInv
  <2>8. PageInv'
    BY <1>3 DEF PageInv
  <2>9. StopInv'
    <3>1. ASSUME NEW q \in stopped'
          PROVE  \/ step'[q] = "none"
                 \/ step'[q] = "gated" /\ stoppedPreparing'
                 \/ runner' = q /\ aborted'
      BY <1>1, <1>2, <1>3, <2>1, <2>2, <2>3 DEF StopInv, UiTypeOK
    <3>. QED  BY <1>1, <1>2, <2>3, <3>1 DEF StopInv
  <2>. QED  BY <2>5, <2>6, <2>7, <2>8, <2>9 DEF UiInv
<1>4. CASE preparing /\ Cancel /\ page' = FALSE /\ UNCHANGED <<aborted, waiter>>
           /\ preparing' = FALSE /\ stoppedPreparing' = TRUE
           /\ stopped' = stopped \cup {r \in Requests : step[r] = "gated"}
           /\ UNCHANGED <<waiter, step, waited>>
  <2>1. UiTypeOK' /\ RunInv'
    BY <1>1, <1>2, <1>4 DEF UiTypeOK, RunInv
  <2>2. GateInv' /\ PageInv'
    BY <1>1, <1>2, <1>4 DEF GateInv, PageInv
  <2>3. StopInv'
    BY <1>1, <1>2, <1>4 DEF StopInv
  <2>. QED  BY <2>1, <2>2, <2>3 DEF UiInv
<1>5. CASE /\ runner # Nobody /\ aborted' = TRUE /\ stopped' = stopped \cup {runner}
           /\ UNCHANGED <<waiter, step, waited, preparing, stoppedPreparing, page>>
  <2>1. UiTypeOK' /\ RunInv'
    BY <1>1, <1>2, <1>5 DEF UiTypeOK, RunInv
  <2>2. GateInv' /\ PageInv'
    BY <1>1, <1>2, <1>5 DEF GateInv, PageInv
  <2>3. StopInv'
    BY <1>1, <1>2, <1>5 DEF StopInv
  <2>. QED  BY <2>1, <2>2, <2>3 DEF UiInv
<1>. QED  BY <1>3, <1>4, <1>5 DEF Stop, Cancel

LEMMA UiStep == UiInv /\ [Next]_vars => UiInv'
<1>. SUFFICES ASSUME UiInv, [Next]_vars PROVE UiInv'
  OBVIOUS
<1>1. CASE UNCHANGED vars
  <2>1. /\ UNCHANGED <<gateVars, requestVars, runner, aborted, dispatch, agenda, handle, job,
                       respawning, attempts, page, ghostVars>>
    BY <1>1 DEF vars, runVars, dispatchVars, workerVars, targetVars, reportVars
  <2>2. HandlesKept /\ JobsKept
    BY <2>1 DEF UiInv, UiTypeOK, HandlesKept, JobsKept
  <2>. QED  BY <2>1, <2>2, RequestsKept, NothingYet
            DEF gateVars, requestVars, ghostVars, UiInv, UiTypeOK, RunInv
<1>2. CASE Server
  BY <1>2, DispatchKeeps, ProceedKeeps, StartKeeps, WavesKeep DEF Server
<1>3. CASE FinishStartup \/ Save \/ RecycleStale \/ Stop \/ Escalate
  BY <1>3, FinishStartupKeeps, WorkerEventKeeps, StopKeeps, DispatchKeeps
<1>4. CASE \E r \in Requests : Ask(r)
  BY <1>4, AskKeeps
<1>5. CASE \E s \in Slots : WorkerUp(s) \/ UserRespawn(s) \/ ChildEnds(s) \/ ChannelCloses(s)
                           \/ ChildAnswers(s) \/ Deliver(s) \/ ExitSeen(s)
  BY <1>5, RespawnKeeps, WorkerEventKeeps, DispatchKeeps DEF WorkerUp
<1>6. CASE \E b \in Buckets : AttemptEnds(b)
  BY <1>6, WorkerEventKeeps
<1>. QED  BY <1>1, <1>2, <1>3, <1>4, <1>5, <1>6 DEF Next

LEMMA UiInvHolds == Spec => []UiInv
BY UiInvInit, UiStep, PTL DEF Spec

-----------------------------------------------------------------------------
(* What follows for every session.                                         *)

\* While the page of UI mode shows a run, Stop finds one to end: a request the
\* startup gate holds, one that prepares its workers, or the run itself
\* (markRunStarted, releaseHeldRun and stopRun).
THEOREM PageShows == Spec => []PageShowsTheRun
<1>1. UiInv => PageShowsTheRun
  BY DEF UiInv, PageInv, PageShowsTheRun, Event, Continues
<1>. QED  BY <1>1, UiInvHolds, PTL

\* What happens to a worker's file outside dispatchNext: it stays, is answered or lost.
JobsOnlyEnd ==
    \A s \in Slots : \/ job'[s] = job[s]
                     \/ job'[s] = <<>>
                     \/ job[s] # <<>> /\ job'[s] = Tail(job[s])

LEMMA OnlyDispatchNextGives ==
    ASSUME UiInv, Next, ~DispatchNext
    PROVE  JobsOnlyEnd
<1>1. DOMAIN job = Slots
  BY DEF UiInv, UiTypeOK
<1>2. ASSUME job' = job PROVE JobsOnlyEnd
  BY <1>2 DEF JobsOnlyEnd
<1>3. CASE RetireWorker \/ MaybeResolve \/ AllOffered
  BY <1>2, <1>3 DEF RetireWorker, MaybeResolve, AllOffered, workerVars
<1>4. ASSUME NEW r \in Requests,
             \/ Proceed(r) \/ StartAll(r) \/ StartProject(r) \/ Ask(r)
             \/ NextWave(r) \/ OpenDispatch(r) \/ EndDispatch(r)
      PROVE  JobsOnlyEnd
  BY <1>2, <1>4 DEF Proceed, StartAll, StartProject, NextWave, OpenDispatch, EndDispatch, Ask, workerVars
<1>5. CASE FinishStartup \/ Save \/ RecycleStale \/ Stop
  BY <1>2, <1>5 DEF FinishStartup, Save, RecycleStale, Stop, workerVars
<1>6. CASE Escalate
  <2>1. job' = job \/ job' = [s \in Slots |-> IF s \in {x \in Live : handle[x].busy} THEN <<>> ELSE job[s]]
    BY <1>6 DEF Escalate
  <2>. QED  BY <1>2, <2>1 DEF JobsOnlyEnd
<1>7. ASSUME NEW s \in Slots,
             \/ WorkerUp(s) \/ UserRespawn(s) \/ ChildEnds(s) \/ ChannelCloses(s)
             \/ ChildAnswers(s) \/ Deliver(s) \/ ExitSeen(s)
      PROVE  JobsOnlyEnd
  <2>1. \/ job' = job
        \/ job' = [job EXCEPT ![s] = <<>>]
        \/ job[s] # <<>> /\ job' = [job EXCEPT ![s] = Tail(@)]
    BY <1>7 DEF WorkerUp, RespawnReady, RespawnFails, UserRespawn, ChildEnds, ChannelCloses,
                ChildAnswers, Deliver, ExitSeen
  <2>. QED  BY <1>1, <1>2, <2>1 DEF JobsOnlyEnd
<1>8. ASSUME NEW b \in Buckets, AttemptEnds(b) PROVE JobsOnlyEnd
  BY <1>2, <1>8 DEF AttemptEnds
<1>. QED  BY <1>3, <1>4, <1>5, <1>6, <1>7, <1>8 DEF Next, Server

\* dispatchNext gives no file to a worker for a request that Stop ended, and none
\* to a worker that ran old code, idle, when the run was asked for
\* (ensureWorkersReady recycled it first).
THEOREM FilesGivenRightly == Spec => GivenRightly
<1>. DEFINE Rightly == \A s \in Slots : Len(job'[s]) > Len(job[s]) =>
                           runner \notin stopped /\ s \notin due[runner]
<1>1. ASSUME UiInv, DispatchNext PROVE Rightly
  <2>0. UiTypeOK /\ RunInv /\ StopInv
    BY <1>1 DEF UiInv
  <2>1. SUFFICES ASSUME NEW s \in Slots, Len(job'[s]) > Len(job[s])
                 PROVE  runner \notin stopped /\ s \notin due[runner]
    OBVIOUS
  <2>2. Len(job[s]) \in Nat
    BY <2>0 DEF UiTypeOK, IsSeq
  <2>3. job'[s] # job[s]
    BY <2>1, <2>2
  <2>4. s = Caller /\ s \in Live /\ ~aborted /\ agenda # <<>>
    BY <1>1, <2>0, <2>3 DEF DispatchNext, Calling, UiTypeOK
  <2>5. PICK r \in Requests : step[r] = "dispatching"
    BY <2>0, <2>4 DEF RunInv
  <2>6. runner = r
    BY <2>0, <2>5 DEF RunInv, RunSteps
  <2>7. runner \notin stopped
    BY <2>0, <2>4, <2>5, <2>6 DEF StopInv
  <2>8. s \notin due[runner]
    BY <2>0, <2>4, <2>5, <2>6 DEF StopInv, Live
  <2>. QED  BY <2>7, <2>8
<1>2. ASSUME UiInv, Next, ~DispatchNext PROVE Rightly
  <2>1. SUFFICES ASSUME NEW s \in Slots PROVE ~(Len(job'[s]) > Len(job[s]))
    OBVIOUS
  <2>2. IsSeq(job[s])
    BY <1>2 DEF UiInv, UiTypeOK
  <2>3. Len(job[s]) \in Nat
    BY <2>2 DEF IsSeq
  <2>4. \/ job'[s] = job[s]
        \/ job'[s] = <<>>
        \/ job[s] # <<>> /\ job'[s] = Tail(job[s])
    BY <1>2, OnlyDispatchNextGives DEF JobsOnlyEnd
  <2>5. CASE job'[s] = job[s] \/ job'[s] = <<>>
    BY <2>3, <2>5, EmptyIsSeq
  <2>6. CASE job[s] # <<>> /\ job'[s] = Tail(job[s])
    <3>1. Len(Tail(job[s])) = Len(job[s]) - 1
      BY <2>2, <2>6, TailIsSeq
    <3>. QED  BY <2>3, <2>6, <3>1
  <2>. QED  BY <2>4, <2>5, <2>6
<1>3. UiInv /\ [Next]_vars => [Rightly]_vars
  BY <1>1, <1>2
<1>. QED  BY <1>3, UiInvHolds, PTL DEF Spec, GivenRightly

-----------------------------------------------------------------------------
(* What the server believes of its workers.                                *)

CallSet == [call : {"dispatchNext", "retireWorker", "maybeResolve", "offered"}, slot : Nat]

WorkerTypeOK ==
    /\ child \in [Slots -> {"gone", "up", "dead", "closed"}] /\ agenda \in Seq(CallSet)
    /\ DOMAIN mail = Slots /\ \A s \in Slots : IsSeq(mail[s])

Empty(s) == job[s] = <<>> /\ mail[s] = <<>>

\* The calls of the agenda that concern worker s.
Offers(i, s) == i \in 1..Len(agenda) /\ agenda[i] = [call |-> "dispatchNext", slot |-> s]
ToRetire(s) == agenda # <<>> /\ agenda[1] = [call |-> "retireWorker", slot |-> s]

\* A live worker has one file at most; an idle one has none, and a busy one is
\* of the open dispatch and answers, ends or is about to be called upon.
Owed(s) ==
    /\ ~handle[s].there => Empty(s)
    /\ s \in Live =>
          /\ Len(job[s]) + Len(mail[s]) <= 1
          /\ ~handle[s].busy => Empty(s)
          /\ handle[s].busy =>
                /\ handle[s].active /\ dispatch = "open"
                /\ \/ Len(job[s]) + Len(mail[s]) = 1
                   \/ child[s] \in {"dead", "closed"}
                   \/ \E i \in Nat : Offers(i, s)
                   \/ ToRetire(s)
          /\ child[s] = "gone" => ToRetire(s)

\* A worker is offered one file at a time, in turn, and only the last of the offers
\* may be to one whose channel is closed: whoever is retired, nobody waits for an
\* offer made before.
OffersInv ==
    \A i \in Nat, s \in Slots : Offers(i, s) =>
        /\ s \in Live => handle[s].active /\ Empty(s) /\ (handle[s].busy => ~aborted)
        /\ \A j \in Nat, t \in Slots : i < j /\ Offers(j, t) => s # t /\ child[s] # "closed"
        /\ agenda[1].call # "retireWorker"

RetiresInv == \A i \in 1..Len(agenda) : agenda[i].call = "retireWorker" => i = 1 /\ dispatch = "open"

\* What is still offered once the dispatch has settled, no worker will take.
SettledInv == agenda # <<>> /\ dispatch # "open" => aborted \/ fileQueue = <<>> \/ Remaining = {}

AgendaInv == OffersInv /\ RetiresInv /\ SettledInv

\* The situation in which it does not hold.
Clean == "closed" \notin corner

WorkerInv == WorkerTypeOK /\ (Clean => AgendaInv /\ \A s \in Slots : Owed(s))

LEMMA WorkerInvInit == Init => WorkerInv
<1>. SUFFICES ASSUME Init PROVE WorkerInv
  OBVIOUS
<1>1. WorkerTypeOK
  BY EmptyIsSeq DEF Init, WorkerTypeOK
<1>2. AgendaInv
  BY DEF Init, AgendaInv, OffersInv, RetiresInv, SettledInv, Offers
<1>3. ASSUME NEW s \in Slots PROVE Owed(s)
  BY <1>3 DEF Init, Owed, Empty, Live, Absent
<1>. QED  BY <1>1, <1>2, <1>3 DEF WorkerInv

-----------------------------------------------------------------------------
(* Between two events nothing is on the agenda.                            *)

\* What may become of a worker without the server having a say.
Unmoved(s) ==
    /\ handle'[s].there <=> handle[s].there
    /\ handle'[s].retired <=> handle[s].retired
    /\ handle'[s].busy <=> handle[s].busy
    /\ s \in Live /\ handle[s].busy => (handle'[s].active <=> handle[s].active)
    /\ job'[s] = job[s] /\ mail'[s] = mail[s] /\ child'[s] = child[s]
LetGo(s) ==
    /\ handle'[s].retired /\ (handle'[s].there <=> handle[s].there)
    /\ job'[s] \in {job[s], <<>>} /\ mail'[s] \in {mail[s], <<>>}
Renewed(s) ==
    /\ ~handle'[s].busy /\ job'[s] = <<>> /\ mail'[s] = <<>>
    /\ handle'[s].retired \/ child'[s] # "gone"

LEMMA StillOwed ==
    ASSUME NEW s \in Slots, Owed(s), Unmoved(s), s \in Live => ~ToRetire(s),
           s \in Live /\ handle[s].busy => dispatch' = "open",
           (\E i \in Nat : Offers(i, s)) => (\E i \in Nat : Offers(i, s)')
    PROVE  Owed(s)'
<1>1. s \in Live' <=> s \in Live
  BY DEF Unmoved, Live
<1>2. Empty(s)' <=> Empty(s)
  BY DEF Unmoved, Empty
<1>. QED  BY <1>1, <1>2 DEF Owed, Unmoved

LEMMA RenewedOwed ==
    ASSUME NEW s \in Slots, (LetGo(s) /\ Owed(s)) \/ Renewed(s)
    PROVE  Owed(s)'
<1>1. CASE LetGo(s) /\ Owed(s)
  <2>1. s \notin Live'
    BY <1>1 DEF LetGo, Live
  <2>2. ~handle'[s].there => Empty(s)'
    BY <1>1 DEF LetGo, Owed, Empty
  <2>. QED  BY <2>1, <2>2 DEF Owed
<1>2. CASE Renewed(s)
  <2>1. Empty(s)' /\ ~handle'[s].busy /\ (s \in Live' => child'[s] # "gone")
    BY <1>2 DEF Renewed, Empty, Live
  <2>2. Len(job'[s]) + Len(mail'[s]) <= 1
    BY <1>2, EmptyIsSeq DEF Renewed
  <2>. QED  BY <2>1, <2>2 DEF Owed
<1>. QED  BY <1>1, <1>2

LEMMA QuietOwed ==
    ASSUME agenda = <<>>, NEW s \in Slots, Owed(s),
           \/ Unmoved(s) /\ (s \in Live /\ handle[s].busy => dispatch' = dispatch)
           \/ LetGo(s)
           \/ Renewed(s)
    PROVE  Owed(s)'
<1>1. ~ToRetire(s) /\ \A i \in Nat : ~Offers(i, s)
  BY EmptyIsSeq DEF ToRetire, Offers
<1>2. CASE Unmoved(s) /\ (s \in Live /\ handle[s].busy => dispatch' = dispatch)
  <2>1. s \in Live /\ handle[s].busy => dispatch' = "open"
    BY <1>2 DEF Owed
  <2>. QED  BY <1>1, <1>2, <2>1, StillOwed
<1>3. CASE LetGo(s) \/ Renewed(s)
  BY <1>3, RenewedOwed
<1>. QED  BY <1>2, <1>3

LEMMA QuietKeeps ==
    ASSUME WorkerInv, agenda = <<>>, agenda' = <<>>, corner \subseteq corner', WorkerTypeOK',
           Clean' => \A s \in Slots :
               \/ Unmoved(s) /\ (s \in Live /\ handle[s].busy => dispatch' = dispatch)
               \/ LetGo(s)
               \/ Renewed(s)
               \/ Owed(s)'
    PROVE  WorkerInv'
<1>. SUFFICES ASSUME Clean' PROVE AgendaInv' /\ \A s \in Slots : Owed(s)'
  BY DEF WorkerInv
<1>1. Clean /\ \A s \in Slots : Owed(s)
  BY DEF Clean, WorkerInv
<1>2. AgendaInv'
  BY EmptyIsSeq DEF AgendaInv, OffersInv, RetiresInv, SettledInv, Offers
<1>3. ASSUME NEW s \in Slots PROVE Owed(s)'
  BY <1>1, QuietOwed
<1>. QED  BY <1>2, <1>3

\* The handles RespawnAll retires are let go of, the others stay.
LEMMA RetiringLetsGo ==
    ASSUME UiTypeOK, NEW ss, UNCHANGED <<job, mail, child>>,
           handle' = [s \in Slots |-> IF s \in ss THEN [handle[s] EXCEPT !.retired = TRUE] ELSE handle[s]]
    PROVE  \A s \in Slots : Unmoved(s) \/ LetGo(s)
BY Retiring DEF Unmoved, LetGo

LEMMA EnteringLetsGo ==
    ASSUME UiTypeOK, NEW r, NEW what, NEW held, EnterRun(r, what, held), UNCHANGED <<job, mail, child>>
    PROVE  \A s \in Slots : Unmoved(s) \/ LetGo(s)
<1>1. handle' = handle \/ EnsureReady(r)
  BY DEF EnterRun
<1>2. CASE handle' = handle
  BY <1>2 DEF Unmoved
<1>3. CASE EnsureReady(r)
  BY <1>3, RetiringLetsGo DEF EnsureReady, RespawnAll
<1>. QED  BY <1>1, <1>2, <1>3

\* What the requests do leaves every worker that is not let go of as it is.
LEMMA RequestsKeepWorkers ==
    ASSUME UiInv, WorkerInv, NEW r,
           \/ Ask(r) \/ Proceed(r) \/ StartAll(r) \/ StartProject(r) \/ NextWave(r) \/ Stop
    PROVE  WorkerInv'
<1>1. /\ agenda = <<>> /\ corner \subseteq corner'
      /\ UNCHANGED <<agenda, child, job, mail, dispatch>>
  <2>1. CASE Ask(r) \/ Proceed(r) \/ StartAll(r) \/ StartProject(r) \/ Stop
    BY <2>1 DEF Ask, Proceed, StartAll, StartProject, Stop, Event, dispatchVars, workerVars, ghostVars
  <2>2. CASE NextWave(r)
    BY <2>2 DEF NextWave, EndRun, workerVars
  <2>. QED  BY <2>1, <2>2
<1>2. WorkerTypeOK'
  BY <1>1 DEF WorkerInv, WorkerTypeOK
<1>3. handle' = handle \/ \E what, held : EnterRun(r, what, held)
  <2>1. CASE Ask(r)
    BY <2>1 DEF Ask
  <2>2. CASE Proceed(r)
    BY <2>2 DEF Proceed
  <2>3. CASE StartAll(r) \/ StartProject(r) \/ NextWave(r) \/ Stop
    BY <2>3 DEF StartAll, StartProject, NextWave, Stop, workerVars
  <2>. QED  BY <2>1, <2>2, <2>3
<1>4. \A s \in Slots : Unmoved(s) \/ LetGo(s)
  <2>1. CASE handle' = handle
    BY <1>1, <2>1 DEF Unmoved
  <2>2. CASE \E what, held : EnterRun(r, what, held)
    BY <1>1, <2>2, EnteringLetsGo DEF UiInv
  <2>. QED  BY <1>3, <2>1, <2>2
<1>. QED  BY <1>1, <1>2, <1>4, QuietKeeps

\* Workers come up, grow old, and are recycled.
LEMMA RecyclingKeepsWorkers ==
    ASSUME UiInv, WorkerInv, \/ FinishStartup \/ Save \/ RecycleStale
                             \/ \E s \in Slots : WorkerUp(s) \/ UserRespawn(s)
                             \/ \E b \in Buckets : AttemptEnds(b)
    PROVE  WorkerInv'
<1>1. UiTypeOK /\ WorkerTypeOK
  BY DEF UiInv, WorkerInv
<1>2. Clean => \A s \in Slots : Owed(s)
  BY DEF WorkerInv
<1>3. CASE FinishStartup
  <2>1. PICK up \in SUBSET Slots : \E gone \in SUBSET up :
           /\ handle' = [s \in Slots |-> IF s \notin up THEN Absent
                                         ELSE [Fresh EXCEPT !.retired = s \in gone]]
           /\ child' = [s \in Slots |-> IF s \in up \ gone THEN "up" ELSE "gone"]
    BY <1>3 DEF FinishStartup
  <2>2. PICK gone \in SUBSET up :
           /\ handle' = [s \in Slots |-> IF s \notin up THEN Absent
                                         ELSE [Fresh EXCEPT !.retired = s \in gone]]
           /\ child' = [s \in Slots |-> IF s \in up \ gone THEN "up" ELSE "gone"]
    BY <2>1
  <2>3. starting /\ UNCHANGED <<agenda, dispatch, job, mail, corner>>
    BY <1>3 DEF FinishStartup, dispatchVars, ghostVars
  <2>4. agenda = <<>> /\ \A s \in Slots : ~handle[s].there
    BY <2>3, NothingYet
  <2>5. WorkerTypeOK'
    BY <1>1, <2>2, <2>3 DEF WorkerTypeOK
  <2>6. ASSUME Clean', NEW s \in Slots PROVE Renewed(s)
    <3>1. job'[s] = <<>> /\ mail'[s] = <<>>
      BY <1>2, <2>3, <2>4, <2>6 DEF Owed, Empty, Clean
    <3>. DEFINE b == s \in gone
    <3>2. handle'[s] = IF s \notin up THEN Absent ELSE [Fresh EXCEPT !.retired = b]
      BY <2>2
    <3>3. s \in up /\ ~b => child'[s] = "up"
      BY <2>2
    <3>4. b \in BOOLEAN
      OBVIOUS
    <3>. HIDE DEF b
    <3>5. CASE s \notin up
      BY <3>1, <3>2, <3>5 DEF Renewed, Absent
    <3>6. CASE s \in up /\ b
      BY <3>1, <3>2, <3>6 DEF Renewed, Fresh, Absent
    <3>7. CASE s \in up /\ ~b
      BY <3>1, <3>2, <3>3, <3>7 DEF Renewed, Fresh, Absent
    <3>. QED  BY <3>5, <3>6, <3>7
  <2>. QED  BY <2>3, <2>4, <2>5, <2>6, QuietKeeps
<1>4. CASE Save
  <2>1. /\ handle' = [s \in Slots |-> IF s \in Live THEN [handle[s] EXCEPT !.stale = TRUE] ELSE handle[s]]
        /\ agenda = <<>> /\ UNCHANGED <<agenda, dispatch, child, job, mail, corner>>
    BY <1>4 DEF Save, Event, dispatchVars, ghostVars
  <2>2. WorkerTypeOK'
    BY <1>1, <2>1 DEF WorkerTypeOK
  <2>3. ASSUME NEW s \in Slots PROVE Unmoved(s)
    BY <1>1, <2>1 DEF UiTypeOK, IsHandle, Unmoved
  <2>. QED  BY <2>1, <2>2, <2>3, QuietKeeps
<1>5. CASE RecycleStale
  <2>1. /\ \E ss : RespawnAll(ss)
        /\ agenda = <<>> /\ UNCHANGED <<agenda, dispatch, child, job, mail, corner>>
    BY <1>5 DEF RecycleStale, Event, dispatchVars, ghostVars
  <2>2. WorkerTypeOK'
    BY <1>1, <2>1 DEF WorkerTypeOK
  <2>3. \A s \in Slots : Unmoved(s) \/ LetGo(s)
    BY <1>1, <2>1, RetiringLetsGo DEF RespawnAll
  <2>. QED  BY <2>1, <2>2, <2>3, QuietKeeps
<1>6. ASSUME NEW s \in Slots, WorkerUp(s) PROVE WorkerInv'
  <2>1. /\ \/ handle' = handle /\ UNCHANGED <<child, job, mail>>
           \/ /\ handle' = [handle EXCEPT ![s] = Fresh] /\ child' = [child EXCEPT ![s] = "up"]
              /\ job' = [job EXCEPT ![s] = <<>>] /\ mail' = [mail EXCEPT ![s] = <<>>]
        /\ agenda = <<>> /\ UNCHANGED <<agenda, dispatch, corner>>
    BY <1>6 DEF WorkerUp, RespawnReady, RespawnFails, Event, dispatchVars, ghostVars
  <2>2. WorkerTypeOK'
    BY <1>1, <2>1, EmptyIsSeq DEF WorkerTypeOK
  <2>3. ASSUME NEW x \in Slots PROVE Unmoved(x) \/ Renewed(x)
    <3>1. \/ handle'[x] = handle[x] /\ job'[x] = job[x] /\ mail'[x] = mail[x] /\ child'[x] = child[x]
          \/ handle'[x] = Fresh /\ job'[x] = <<>> /\ mail'[x] = <<>> /\ child'[x] = "up"
      BY <1>1, <2>1 DEF UiTypeOK, WorkerTypeOK
    <3>. QED  BY <3>1 DEF Unmoved, Renewed, Fresh, Absent
  <2>. QED  BY <2>1, <2>2, <2>3, QuietKeeps
<1>7. ASSUME NEW s \in Slots, UserRespawn(s) PROVE WorkerInv'
  <2>1. /\ handle' = [x \in Slots |->
              IF x = s /\ x \in Live THEN [handle[x] EXCEPT !.retired = TRUE, !.busy = FALSE]
              ELSE IF x \in {s} \cup Unready THEN [handle[x] EXCEPT !.retired = TRUE] ELSE handle[x]]
        /\ agenda = <<>> /\ UNCHANGED <<agenda, dispatch, child, job, mail>> /\ corner \subseteq corner'
    BY <1>7 DEF UserRespawn, Event, dispatchVars
  <2>2. WorkerTypeOK'
    BY <1>1, <2>1 DEF WorkerTypeOK
  <2>3. ASSUME NEW x \in Slots PROVE Unmoved(x) \/ LetGo(x)
    BY <1>1, <2>1 DEF UiTypeOK, IsHandle, Unmoved, LetGo
  <2>. QED  BY <2>1, <2>2, <2>3, QuietKeeps
<1>8. ASSUME NEW b \in Buckets, AttemptEnds(b) PROVE WorkerInv'
  <2>1. /\ agenda = <<>> /\ UNCHANGED <<agenda, dispatch, job, mail, corner>>
        /\ \/ UNCHANGED <<handle, child>>
           \/ \E ss \in SUBSET {s \in Slots : suite.device[s] = b /\ ~handle[s].there} :
                 /\ handle' = [s \in Slots |-> IF s \in ss THEN Fresh ELSE handle[s]]
                 /\ child' = [s \in Slots |-> IF s \in ss THEN "up" ELSE child[s]]
    BY <1>8 DEF AttemptEnds, Event, dispatchVars, ghostVars
  <2>2. WorkerTypeOK'
    BY <1>1, <2>1 DEF WorkerTypeOK
  <2>3. ASSUME Clean', NEW x \in Slots PROVE Unmoved(x) \/ Renewed(x)
    <3>1. \/ handle'[x] = handle[x] /\ child'[x] = child[x]
          \/ ~handle[x].there /\ handle'[x] = Fresh /\ child'[x] = "up"
      BY <2>1
    <3>2. ~handle[x].there => job[x] = <<>> /\ mail[x] = <<>>
      BY <1>2, <2>1, <2>3 DEF Clean, Owed, Empty
    <3>. QED  BY <2>1, <3>1, <3>2 DEF Unmoved, Renewed, Fresh, Absent
  <2>. QED  BY <2>1, <2>2, <2>3, QuietKeeps
<1>. QED  BY <1>3, <1>4, <1>5, <1>6, <1>7, <1>8

LEMMA NoMore ==
    ASSUME NEW a \in Nat, NEW b \in Nat, NEW c \in {a, 0}, NEW d \in {b, 0}
    PROVE  a + b <= 1 => c + d <= 1
OBVIOUS

LEMMA OneMoved ==
    ASSUME NEW a \in Nat, NEW b \in Nat, NEW c, NEW d, c = a - 1, d = b + 1, a + b = 1
    PROVE  c + d = 1 /\ c + d <= 1
OBVIOUS

\* A worker answers, ends, or is killed by the timer of Stop; the dispatch ends.
LEMMA EndingsKeepWorkers ==
    ASSUME UiInv, WorkerInv, \/ Escalate
                             \/ \E s \in Slots : ChildEnds(s) \/ ChannelCloses(s) \/ ChildAnswers(s)
                             \/ \E r \in Requests : EndDispatch(r)
    PROVE  WorkerInv'
<1>1. UiTypeOK /\ WorkerTypeOK
  BY DEF UiInv, WorkerInv
<1>2. Clean => \A s \in Slots : Owed(s)
  BY DEF WorkerInv
<1>3. \A s \in Slots : IsSeq(job[s]) /\ IsSeq(mail[s]) /\ Len(job[s]) \in Nat /\ Len(mail[s]) \in Nat
  BY <1>1 DEF UiTypeOK, WorkerTypeOK, IsSeq
<1>4. CASE Escalate
  <2>1. /\ agenda = <<>> /\ UNCHANGED <<agenda, mail, corner>>
        /\ \/ UNCHANGED <<handle, child, job, dispatch>>
           \/ /\ handle' = [s \in Slots |-> IF s \in {x \in Live : handle[x].busy}
                                            THEN GivenUp(handle[s]) ELSE handle[s]]
              /\ child' = [s \in Slots |-> IF s \in {x \in Live : handle[x].busy} /\ child[s] = "up"
                                           THEN "dead" ELSE child[s]]
              /\ job' = [s \in Slots |-> IF s \in {x \in Live : handle[x].busy} THEN <<>> ELSE job[s]]
    BY <1>4 DEF Escalate, Event, ghostVars
  <2>2. WorkerTypeOK'
    BY <1>1, <2>1 DEF WorkerTypeOK
  <2>3. ASSUME NEW s \in Slots
        PROVE  \/ Unmoved(s) /\ (s \in Live /\ handle[s].busy => dispatch' = dispatch)
               \/ LetGo(s)
    <3>1. \/ handle'[s] = handle[s] /\ child'[s] = child[s] /\ job'[s] = job[s] /\ dispatch' = dispatch
          \/ /\ handle'[s] = handle[s] /\ child'[s] = child[s] /\ job'[s] = job[s]
             /\ ~(s \in Live /\ handle[s].busy)
          \/ handle'[s] = GivenUp(handle[s]) /\ job'[s] = <<>>
      BY <2>1
    <3>. QED  BY <1>1, <2>1, <3>1, GivenUpIsHandle DEF UiTypeOK, Unmoved, LetGo
  <2>. QED  BY <2>1, <2>2, <2>3, QuietKeeps
<1>5. ASSUME NEW s \in Slots, ChildEnds(s) \/ ChannelCloses(s) PROVE WorkerInv'
  <2>1. /\ agenda = <<>> /\ UNCHANGED <<agenda, dispatch, handle, mail, corner>>
        /\ \/ child' = [child EXCEPT ![s] = "dead"] /\ job' = [job EXCEPT ![s] = <<>>]
           \/ child' = [child EXCEPT ![s] = "closed"] /\ job' = job
    BY <1>5 DEF ChildEnds, ChannelCloses, Event, dispatchVars, ghostVars
  <2>2. WorkerTypeOK'
    BY <1>1, <2>1 DEF WorkerTypeOK
  <2>3. ASSUME NEW x \in Slots, x # s PROVE Unmoved(x)
    BY <1>1, <2>1, <2>3 DEF UiTypeOK, WorkerTypeOK, Unmoved
  <2>4. child'[s] \in {"dead", "closed"} /\ job'[s] \in {job[s], <<>>} /\ mail'[s] = mail[s]
    BY <1>1, <2>1 DEF UiTypeOK, WorkerTypeOK
  <2>5. ASSUME Clean' PROVE Owed(s)'
    <3>1. Owed(s)
      BY <1>2, <2>1, <2>5 DEF Clean
    <3>2. Empty(s) => Empty(s)'
      BY <2>4 DEF Empty
    <3>3. Len(job[s]) + Len(mail[s]) <= 1 => Len(job'[s]) + Len(mail'[s]) <= 1
      <4>1. CASE job'[s] = job[s]
        BY <2>4, <4>1
      <4>2. CASE job'[s] = <<>>
        <5>1. /\ Len(job[s]) \in Nat /\ Len(mail[s]) \in Nat
              /\ Len(job'[s]) \in {Len(job[s]), 0} /\ Len(mail'[s]) \in {Len(mail[s]), 0}
          BY <1>3, <2>4, <4>2, EmptyIsSeq
        <5>. QED  BY <5>1, NoMore
      <4>. QED  BY <2>4, <4>1, <4>2
    <3>4. s \in Live' <=> s \in Live
      BY <2>1 DEF Live
    <3>. QED  BY <2>1, <2>4, <3>1, <3>2, <3>3, <3>4 DEF Owed
  <2>. QED  BY <2>1, <2>2, <2>3, <2>5, QuietKeeps
<1>6. ASSUME NEW s \in Slots, ChildAnswers(s) PROVE WorkerInv'
  <2>1. /\ agenda = <<>> /\ UNCHANGED <<agenda, dispatch, handle, child, corner>>
        /\ s \in Live /\ child[s] = "up" /\ job[s] # <<>>
        /\ job' = [job EXCEPT ![s] = Tail(@)]
    BY <1>6 DEF ChildAnswers, Event, dispatchVars, ghostVars
  <2>2. PICK m : mail' = [mail EXCEPT ![s] = Append(@, m)]
    BY <1>6 DEF ChildAnswers
  <2>3. WorkerTypeOK'
    BY <1>1, <2>1, <2>2, AppendIsSeq DEF WorkerTypeOK
  <2>4. ASSUME NEW x \in Slots, x # s PROVE Unmoved(x)
    BY <1>1, <2>1, <2>2, <2>4 DEF UiTypeOK, WorkerTypeOK, Unmoved
  <2>5. Len(job'[s]) = Len(job[s]) - 1 /\ Len(mail'[s]) = Len(mail[s]) + 1
    BY <1>1, <1>3, <2>1, <2>2, TailIsSeq, AppendIsSeq DEF UiTypeOK, WorkerTypeOK
  <2>6. ASSUME Clean' PROVE Owed(s)'
    <3>1. Owed(s)
      BY <1>2, <2>1, <2>6 DEF Clean
    <3>2. handle[s].busy /\ handle[s].there /\ s \in Live'
      BY <2>1, <3>1 DEF Owed, Empty, Live
    <3>3. ~ToRetire(s) /\ \A i \in Nat : ~Offers(i, s)
      BY <2>1, EmptyIsSeq DEF ToRetire, Offers
    <3>4. Len(job[s]) + Len(mail[s]) = 1
      BY <2>1, <3>1, <3>2, <3>3 DEF Owed
    <3>5. Len(job[s]) \in Nat /\ Len(mail[s]) \in Nat
      BY <1>3
    <3>6. Len(job'[s]) + Len(mail'[s]) = 1 /\ Len(job'[s]) + Len(mail'[s]) <= 1
      BY <2>5, <3>4, <3>5, OneMoved
    <3>7. handle' = handle /\ dispatch' = dispatch /\ child'[s] = "up" /\ handle[s].active /\ dispatch = "open"
      BY <2>1, <3>1, <3>2 DEF Owed
    <3>. QED  BY <3>2, <3>6, <3>7 DEF Owed
  <2>. QED  BY <2>1, <2>3, <2>4, <2>6, QuietKeeps
<1>7. ASSUME NEW r \in Requests, EndDispatch(r) PROVE WorkerInv'
  <2>1. /\ agenda = <<>> /\ dispatch # "open" /\ UNCHANGED <<agenda, child, job, mail>>
        /\ handle' = [s \in Slots |-> [handle[s] EXCEPT !.active = FALSE]] /\ corner \subseteq corner'
    BY <1>7 DEF EndDispatch, EndRun
  <2>2. WorkerTypeOK'
    BY <1>1, <2>1 DEF WorkerTypeOK
  <2>3. ASSUME Clean', NEW s \in Slots
        PROVE  Unmoved(s) /\ (s \in Live /\ handle[s].busy => dispatch' = dispatch)
    <3>1. ~(s \in Live /\ handle[s].busy)
      BY <1>2, <2>1, <2>3 DEF Clean, Owed
    <3>. QED  BY <1>1, <2>1, <3>1 DEF UiTypeOK, IsHandle, Unmoved
  <2>. QED  BY <2>1, <2>2, <2>3, QuietKeeps
<1>. QED  BY <1>4, <1>5, <1>6, <1>7

-----------------------------------------------------------------------------
(* The calls an event leaves to make.                                      *)

LEMMA CallOfOne ==
    ASSUME NEW name \in {"dispatchNext", "retireWorker", "maybeResolve", "offered"}, NEW s \in Slots
    PROVE  /\ Calls(name, <<s>>) = <<[call |-> name, slot |-> s]>>
           /\ Call(name) = <<[call |-> name, slot |-> 0]>>
           /\ [call |-> name, slot |-> s] \in CallSet /\ [call |-> name, slot |-> 0] \in CallSet
BY UiAssumption DEF Calls, Call, CallSet, Slots

\* One call is left to make, in an open dispatch, and it is not an offer.
LEMMA OneCallLeft ==
    ASSUME NEW c \in CallSet, agenda' = <<c>>, c.call # "dispatchNext", dispatch' = "open"
    PROVE  AgendaInv' /\ agenda' \in Seq(CallSet) /\ agenda' # <<>> /\ agenda'[1] = c
<1>1. Len(agenda') = 1 /\ agenda'[1] = c
  OBVIOUS
<1>2. OffersInv'
  BY <1>1 DEF OffersInv, Offers
<1>3. RetiresInv' /\ SettledInv'
  BY <1>1 DEF RetiresInv, SettledInv
<1>. QED  BY <1>1, <1>2, <1>3 DEF AgendaInv

LEMMA ExitKeepsWorkers ==
    ASSUME UiInv, WorkerInv, NEW s \in Slots, ExitSeen(s)
    PROVE  WorkerInv'
<1>1. UiTypeOK /\ WorkerTypeOK
  BY DEF UiInv, WorkerInv
<1>. DEFINE attached == dispatch = "open" /\ handle[s].active
<1>2. /\ agenda = <<>> /\ UNCHANGED <<dispatch, job, corner>>
      /\ child' = [child EXCEPT ![s] = "gone"] /\ mail' = [mail EXCEPT ![s] = <<>>]
      /\ agenda' = IF ~attached THEN <<>>
                   ELSE IF handle[s].retired THEN Call("maybeResolve") ELSE Calls("retireWorker", <<s>>)
      /\ handle' = IF attached \/ handle[s].retired THEN handle
                   ELSE [handle EXCEPT ![s] = GivenUp(@)]
  BY DEF ExitSeen, Event, ghostVars
<1>3. /\ child' \in [Slots -> {"gone", "up", "dead", "closed"}]
      /\ DOMAIN mail' = Slots /\ \A x \in Slots : IsSeq(mail'[x])
  BY <1>1, <1>2, EmptyIsSeq DEF WorkerTypeOK
<1>4. ASSUME NEW x \in Slots, x # s PROVE Unmoved(x)
  BY <1>1, <1>2, <1>4 DEF UiTypeOK, WorkerTypeOK, Unmoved
<1>5. mail'[s] = <<>> /\ child'[s] = "gone"
  BY <1>1, <1>2 DEF WorkerTypeOK
<1>6. ~attached \/ handle[s].retired => LetGo(s)
  BY <1>1, <1>2, <1>5, GivenUpIsHandle DEF UiTypeOK, LetGo
<1>. HIDE DEF attached
<1>7. CASE ~attached
  <2>1. agenda' = <<>>
    BY <1>2, <1>7
  <2>2. WorkerTypeOK'
    BY <1>3, <2>1 DEF WorkerTypeOK
  <2>. QED  BY <1>2, <1>4, <1>6, <1>7, <2>1, <2>2, QuietKeeps
<1>8. CASE attached
  <2>1. dispatch = "open" /\ dispatch' = "open" /\ handle[s].active /\ handle' = handle
    BY <1>2, <1>8 DEF attached
  <2>2. PICK c \in CallSet : /\ agenda' = <<c>> /\ c.call # "dispatchNext"
                             /\ ~handle[s].retired => c = [call |-> "retireWorker", slot |-> s]
    BY <1>2, <1>8, CallOfOne
  <2>3. AgendaInv' /\ agenda' \in Seq(CallSet) /\ agenda' # <<>> /\ agenda'[1] = c
    BY <2>1, <2>2, OneCallLeft
  <2>4. WorkerTypeOK'
    BY <1>3, <2>3 DEF WorkerTypeOK
  <2>5. ASSUME Clean', NEW x \in Slots PROVE Owed(x)'
    <3>1. Owed(x)
      BY <1>2, <2>5 DEF WorkerInv, Clean
    <3>2. CASE x # s \/ handle[s].retired
      BY <1>2, <1>4, <1>6, <3>1, <3>2, QuietOwed
    <3>3. CASE x = s /\ ~handle[s].retired
      <4>1. ToRetire(s)'
        BY <2>2, <2>3, <3>3 DEF ToRetire
      <4>2. Empty(s) => Empty(s)'
        BY <1>2, <1>5 DEF Empty
      <4>3. Len(job[s]) + Len(mail[s]) <= 1 => Len(job'[s]) + Len(mail'[s]) <= 1
        <5>1. /\ Len(job[s]) \in Nat /\ Len(mail[s]) \in Nat
              /\ Len(job'[s]) \in {Len(job[s]), 0} /\ Len(mail'[s]) \in {Len(mail[s]), 0}
          BY <1>1, <1>2, <1>5, EmptyIsSeq DEF UiTypeOK, WorkerTypeOK, IsSeq
        <5>. QED  BY <5>1, NoMore
      <4>4. s \in Live' <=> s \in Live
        BY <2>1 DEF Live
      <4>. QED  BY <2>1, <3>1, <3>3, <4>1, <4>2, <4>3, <4>4 DEF Owed
    <3>. QED  BY <3>2, <3>3
  <2>. QED  BY <2>3, <2>4, <2>5 DEF WorkerInv
<1>. QED  BY <1>7, <1>8

LEMMA OneAndNone ==
    ASSUME NEW p, NEW q, IsSeq(p), IsSeq(q), q # <<>>, Len(p) + Len(q) <= 1
    PROVE  p = <<>> /\ Tail(q) = <<>>
<1>1. /\ Len(q) \in Nat /\ Len(Tail(q)) = Len(q) - 1 /\ IsSeq(Tail(q)) /\ Len(p) \in Nat
      /\ Len(q) # 0
  BY TailIsSeq, EmptySeq DEF IsSeq
<1>2. ASSUME NEW a \in Nat, NEW b \in Nat \ {0}, a + b <= 1 PROVE a = 0 /\ b - 1 = 0
  BY <1>2
<1>3. Len(p) = 0 /\ Len(Tail(q)) = 0
  BY <1>1, <1>2
<1>. QED  BY <1>1, <1>3, EmptySeq DEF IsSeq

\* messageHandler.
LEMMA DeliverKeepsWorkers ==
    ASSUME UiInv, WorkerInv, NEW s \in Slots, Deliver(s)
    PROVE  WorkerInv'
<1>1. UiTypeOK /\ WorkerTypeOK
  BY DEF UiInv, WorkerInv
<1>. DEFINE heard == dispatch = "open" /\ s \in Remaining
            busy == handle[s].busy /\ ~aborted
<1>0. /\ Calls("retireWorker", <<s>>) = <<[call |-> "retireWorker", slot |-> s]>>
      /\ Calls("dispatchNext", <<s>>) = <<[call |-> "dispatchNext", slot |-> s]>>
      /\ Call("maybeResolve") = <<[call |-> "maybeResolve", slot |-> 0]>>
  BY CallOfOne
<1>2. /\ agenda = <<>> /\ mail[s] # <<>> /\ child[s] \in {"up", "dead"}
      /\ mail' = [mail EXCEPT ![s] = Tail(@)]
      /\ UNCHANGED <<dispatch, aborted, fileQueue, child, job, corner>>
      /\ \/ ~heard /\ UNCHANGED <<handle, agenda>>
         \/ heard /\ agenda' = Calls("retireWorker", <<s>>) /\ handle' = handle
         \/ /\ heard /\ handle' = [handle EXCEPT ![s] = Holding(@, busy, NoFile)]
            /\ agenda' = IF aborted THEN Call("maybeResolve") ELSE Calls("dispatchNext", <<s>>)
  BY DEF Deliver, Event, ghostVars
<1>3. busy \in BOOLEAN
  OBVIOUS
<1>. HIDE DEF busy
<1>4. /\ DOMAIN mail' = Slots /\ \A x \in Slots : IsSeq(mail'[x])
      /\ mail'[s] = Tail(mail[s]) /\ job'[s] = job[s] /\ child'[s] = child[s]
  BY <1>1, <1>2, TailIsSeq DEF WorkerTypeOK
<1>5. /\ \A x \in Slots : x # s => handle'[x] = handle[x]
      /\ \/ handle'[s] = handle[s]
         \/ handle'[s] = Holding(handle[s], busy, NoFile)
  BY <1>1, <1>2 DEF UiTypeOK
<1>6. ASSUME NEW x \in Slots, x # s PROVE Unmoved(x)
  BY <1>1, <1>2, <1>5, <1>6 DEF UiTypeOK, WorkerTypeOK, Unmoved
<1>7. (handle'[s].there <=> handle[s].there) /\ (handle'[s].retired <=> handle[s].retired)
  BY <1>1, <1>3, <1>5, HoldingIsHandle DEF UiTypeOK
<1>8. ASSUME Clean'
      PROVE  /\ s \in Live => handle[s].busy /\ heard /\ Empty(s)' /\ handle[s].active
             /\ handle[s].there
  <2>1. Owed(s)
    BY <1>2, <1>8 DEF WorkerInv, Clean
  <2>2. s \in Live => handle[s].busy /\ dispatch = "open" /\ handle[s].active
    BY <1>2, <2>1 DEF Owed, Empty
  <2>3. s \in Live => job[s] = <<>> /\ Tail(mail[s]) = <<>>
    BY <1>1, <1>2, <2>1, OneAndNone DEF Owed, UiTypeOK, WorkerTypeOK
  <2>. QED  BY <1>2, <1>4, <2>1, <2>2, <2>3 DEF Owed, Empty, Remaining
<1>9. CASE ~heard /\ UNCHANGED <<handle, agenda>>
  <2>1. WorkerTypeOK'
    BY <1>1, <1>2, <1>4, <1>9 DEF WorkerTypeOK
  <2>2. ASSUME Clean' PROVE Owed(s)'
    BY <1>8, <1>9, <2>2 DEF Owed, Live
  <2>. QED  BY <1>2, <1>6, <1>9, <2>1, <2>2, QuietKeeps
<1>10. CASE heard
  <2>1. s \in Live /\ dispatch' = "open" /\ handle[s].there /\ ~handle[s].retired /\ handle[s].active
    BY <1>2, <1>10 DEF Remaining, Live
  <2>2. s \in Live'
    BY <1>7, <2>1 DEF Live
  <2>3. PICK c \in CallSet : agenda' = <<c>> /\ c.call \in {"dispatchNext", "retireWorker", "maybeResolve"}
    BY <1>2, <1>10, CallOfOne
  <2>4. agenda' \in Seq(CallSet) /\ Len(agenda') = 1 /\ agenda'[1] = c /\ agenda' # <<>>
    BY <2>3
  <2>5. WorkerTypeOK'
    BY <1>1, <1>2, <1>4, <2>4 DEF WorkerTypeOK
  <2>6. ASSUME Clean' PROVE AgendaInv' /\ Owed(s)'
    <3>1. handle[s].busy /\ Empty(s)' /\ Len(job'[s]) + Len(mail'[s]) <= 1
      <4>1. handle[s].busy /\ Empty(s)'
        BY <1>8, <2>1, <2>6
      <4>2. Len(job'[s]) = 0 /\ Len(mail'[s]) = 0
        BY <4>1, EmptyIsSeq DEF Empty
      <4>. QED  BY <4>1, <4>2
    <3>2. CASE agenda' = Calls("retireWorker", <<s>>) /\ handle' = handle
      <4>1. c = [call |-> "retireWorker", slot |-> s]
        BY <1>0, <2>4, <3>2
      <4>2. ToRetire(s)'
        BY <2>4, <4>1 DEF ToRetire
      <4>3. AgendaInv'
        BY <2>1, <2>3, <4>1, OneCallLeft
      <4>. QED  BY <1>2, <2>1, <2>2, <3>1, <3>2, <4>2, <4>3 DEF Owed
    <3>3. CASE /\ handle' = [handle EXCEPT ![s] = Holding(@, busy, NoFile)]
               /\ agenda' = IF aborted THEN Call("maybeResolve") ELSE Calls("dispatchNext", <<s>>)
      <4>1. (handle'[s].busy <=> busy) /\ handle'[s].active
        BY <1>1, <1>3, <2>1, <3>3, HoldingIsHandle DEF UiTypeOK
      <4>2. child'[s] # "gone"
        BY <1>2, <1>4
      <4>3. CASE aborted
        <5>1. c = [call |-> "maybeResolve", slot |-> 0]
          BY <1>0, <2>4, <3>3, <4>3
        <5>2. AgendaInv'
          BY <2>1, <2>3, <5>1, OneCallLeft
        <5>3. ~handle'[s].busy
          BY <4>1, <4>3 DEF busy
        <5>. QED  BY <1>7, <2>1, <3>1, <4>2, <5>2, <5>3 DEF Owed
      <4>4. CASE ~aborted
        <5>1. c = [call |-> "dispatchNext", slot |-> s]
          BY <1>0, <2>4, <3>3, <4>4
        <5>2. Offers(1, s)'
          BY <2>4, <5>1 DEF Offers
        <5>3. \A i \in Nat, x \in Slots : Offers(i, x)' => i = 1 /\ x = s
          BY <2>4, <5>1 DEF Offers
        <5>4. OffersInv'
          BY <1>2, <2>4, <3>1, <4>1, <4>4, <5>1, <5>3 DEF OffersInv
        <5>5. RetiresInv' /\ SettledInv'
          BY <2>1, <2>4, <5>1 DEF RetiresInv, SettledInv
        <5>. QED  BY <1>7, <2>1, <3>1, <4>1, <4>2, <5>2, <5>4, <5>5 DEF Owed, AgendaInv
      <4>. QED  BY <4>3, <4>4
    <3>. QED  BY <1>2, <1>10, <3>2, <3>3
  <2>7. ASSUME Clean', NEW x \in Slots, x # s PROVE Owed(x)'
    <3>1. Owed(x)
      BY <1>2, <2>7 DEF WorkerInv, Clean
    <3>. QED  BY <1>2, <1>6, <2>7, <3>1, QuietOwed
  <2>. QED  BY <2>5, <2>6, <2>7 DEF WorkerInv
<1>. QED  BY <1>2, <1>9, <1>10

LEMMA OneAfter ==
    ASSUME NEW S, NEW q \in Seq(S), NEW n \in Nat, Len(q) = n, NEW x \in S
    PROVE  /\ q \o <<x>> \in Seq(S) /\ Len(q \o <<x>>) = n + 1
           /\ \A i \in 1..n : (q \o <<x>>)[i] = q[i]
           /\ (q \o <<x>>)[n + 1] = x
<1>1. <<x>> \in Seq(S) /\ Len(<<x>>) = 1 /\ <<x>>[1] = x
  OBVIOUS
<1>. QED  BY <1>1, ConcatProperties

LEMMA OneBefore ==
    ASSUME NEW S, NEW q \in Seq(S), NEW x \in S
    PROVE  /\ <<x>> \o q \in Seq(S) /\ Len(<<x>> \o q) = Len(q) + 1 /\ Len(q) \in Nat
           /\ (<<x>> \o q)[1] = x
           /\ \A i \in 1..Len(q) : (<<x>> \o q)[i + 1] = q[i]
<1>1. <<x>> \in Seq(S) /\ Len(<<x>>) = 1 /\ <<x>>[1] = x
  OBVIOUS
<1>. QED  BY <1>1, ConcatProperties

\* dispatchFilesParallel: every live worker is offered a file, in turn.
LEMMA OpenKeepsWorkers ==
    ASSUME UiInv, WorkerInv, NEW r \in Requests, OpenDispatch(r)
    PROVE  WorkerInv'
<1>1. UiTypeOK /\ WorkerTypeOK /\ RunInv
  BY DEF UiInv, WorkerInv
<1>2. /\ agenda = <<>> /\ step[r] = "reviving" /\ UNCHANGED <<child, job, mail, aborted>>
      /\ corner \subseteq corner'
  BY DEF OpenDispatch
<1>3. dispatch = "none"
  BY <1>1, <1>2 DEF RunInv, RunSteps
<1>4. \/ UNCHANGED <<dispatch, agenda, handle>>
      \/ /\ dispatch' = "open"
         /\ handle' = [s \in Slots |-> [handle[s] EXCEPT !.active = s \in Live]]
         /\ \E order \in Ascending(Live) : agenda' = Calls("dispatchNext", order) \o Call("offered")
         /\ "closed" \notin corner' => ~\E s, t \in Live : s < t /\ child[s] = "closed"
  BY DEF OpenDispatch, NothingToDispatch
<1>5. CASE UNCHANGED <<dispatch, agenda, handle>>
  <2>1. WorkerTypeOK'
    BY <1>1, <1>2, <1>5 DEF WorkerTypeOK
  <2>2. \A s \in Slots : Unmoved(s)
    BY <1>2, <1>5 DEF Unmoved
  <2>. QED  BY <1>2, <1>5, <2>1, <2>2, QuietKeeps
<1>6. CASE /\ dispatch' = "open"
           /\ handle' = [s \in Slots |-> [handle[s] EXCEPT !.active = s \in Live]]
           /\ \E order \in Ascending(Live) : agenda' = Calls("dispatchNext", order) \o Call("offered")
           /\ "closed" \notin corner' => ~\E s, t \in Live : s < t /\ child[s] = "closed"
  <2>1. PICK order \in Ascending(Live) : agenda' = Calls("dispatchNext", order) \o Call("offered")
    BY <1>6
  <2>. DEFINE n == Cardinality(Live)
             offers == Calls("dispatchNext", order)
  <2>2. Live \in SUBSET Nat /\ n \in Nat
    <3>1. Live \subseteq Slots /\ Slots \subseteq Nat /\ IsFiniteSet(Slots)
      BY UiAssumption, FS_Interval DEF Live, Slots
    <3>. QED  BY <3>1, FS_Subset, FS_CardinalityType
  <2>. HIDE DEF n
  <2>3. order \in [1..n -> Live] /\ \A i, j \in 1..n : i < j => order[i] < order[j]
    BY <2>1 DEF Ascending, n
  <2>4. order \in Seq(Live) /\ Len(order) = n
    BY <2>2, <2>3
  <2>5. /\ offers = [i \in 1..n |-> [call |-> "dispatchNext", slot |-> order[i]]]
        /\ offers \in Seq(CallSet) /\ Len(offers) = n
    <3>1. offers = [i \in 1..n |-> [call |-> "dispatchNext", slot |-> order[i]]]
      BY <2>4 DEF Calls
    <3>2. offers \in [1..n -> CallSet]
      <4>1. ASSUME NEW i \in 1..n PROVE [call |-> "dispatchNext", slot |-> order[i]] \in CallSet
        <5>1. order[i] \in Nat
          BY <2>2, <2>3
        <5>. QED  BY <5>1 DEF CallSet
      <4>. QED  BY <3>1, <4>1
    <3>. QED  BY <2>2, <3>1, <3>2
  <2>. HIDE DEF offers
  <2>6. Call("offered") = <<[call |-> "offered", slot |-> 0]>> /\ [call |-> "offered", slot |-> 0] \in CallSet
    BY DEF Call, CallSet
  <2>7. /\ agenda' \in Seq(CallSet) /\ Len(agenda') = n + 1
        /\ \A i \in 1..n : agenda'[i] = [call |-> "dispatchNext", slot |-> order[i]]
        /\ agenda'[n + 1] = [call |-> "offered", slot |-> 0]
    <3>1. agenda' = offers \o <<[call |-> "offered", slot |-> 0]>>
      BY <2>1, <2>6 DEF offers
    <3>2. \A i \in 1..n : offers[i] = [call |-> "dispatchNext", slot |-> order[i]]
      BY <2>5
    <3>. QED  BY <2>2, <2>5, <2>6, <3>1, <3>2, OneAfter
  <2>8. WorkerTypeOK'
    BY <1>1, <1>2, <2>7 DEF WorkerTypeOK
  <2>9. ASSUME NEW s \in Slots
        PROVE  /\ handle'[s].there <=> handle[s].there
               /\ handle'[s].retired <=> handle[s].retired
               /\ handle'[s].busy <=> handle[s].busy
               /\ s \in Live => handle'[s].active
    <3>. DEFINE live == s \in Live
    <3>1. live \in BOOLEAN /\ handle'[s] = [handle[s] EXCEPT !.active = live] /\ IsHandle(handle[s])
      BY <1>1, <1>6 DEF UiTypeOK
    <3>2. s \in Live => live
      OBVIOUS
    <3>. HIDE DEF live
    <3>. QED  BY <3>1, <3>2 DEF IsHandle
  <2>10. ASSUME Clean', NEW s \in Slots
         PROVE  Owed(s)' /\ (s \in Live => Empty(s)' /\ ~handle'[s].busy)
    <3>1. Owed(s)
      BY <1>2, <2>10 DEF WorkerInv, Clean
    <3>2. s \in Live => ~handle[s].busy /\ Empty(s)
      BY <1>3, <3>1 DEF Owed
    <3>3. Unmoved(s)
      BY <1>2, <2>9, <3>2 DEF Unmoved
    <3>4. Owed(s)'
      BY <1>2, <3>1, <3>2, <3>3, QuietOwed
    <3>. QED  BY <1>2, <2>9, <3>2, <3>4 DEF Empty
  <2>11. agenda'[n + 1].call # "retireWorker" /\ \A i \in 1..n : agenda'[i].call # "retireWorker"
    <3>1. ASSUME NEW i \in 1..n PROVE agenda'[i].call # "retireWorker"
      <4>. DEFINE x == order[i]
      <4>1. agenda'[i] = [call |-> "dispatchNext", slot |-> x]
        BY <2>7
      <4>. HIDE DEF x
      <4>. QED  BY <4>1
    <3>. QED  BY <2>7, <3>1
  <2>12. ASSUME Clean' PROVE OffersInv'
    <3>1. ASSUME NEW i \in Nat, NEW s \in Slots, Offers(i, s)'
          PROVE  i \in 1..n /\ s = order[i] /\ s \in Live
      <4>1. i \in 1..n + 1 /\ agenda'[i] = [call |-> "dispatchNext", slot |-> s]
        BY <2>7, <3>1 DEF Offers
      <4>2. i # n + 1
        BY <2>7, <4>1
      <4>3. i \in 1..n
        BY <2>2, <4>1, <4>2
      <4>4. [call |-> "dispatchNext", slot |-> order[i]] = [call |-> "dispatchNext", slot |-> s]
        BY <2>7, <4>1, <4>3
      <4>5. order[i] = s
        BY <4>4
      <4>. QED  BY <2>3, <4>3, <4>5
    <3>2. ASSUME NEW i \in Nat, NEW s \in Slots, Offers(i, s)',
                 NEW j \in Nat, NEW u \in Slots, i < j, Offers(j, u)'
          PROVE  s # u /\ child'[s] # "closed"
      <4>0. i \in 1..n /\ j \in 1..n /\ s = order[i] /\ u = order[j]
        BY <3>1, <3>2
      <4>1. s \in Live /\ u \in Live /\ s < u
        BY <2>3, <3>2, <4>0
      <4>2. s # u
        BY <2>2, <4>1
      <4>. QED  BY <1>2, <1>6, <3>2, <4>1, <4>2, <2>12 DEF Clean
    <3>3. agenda'[1].call # "retireWorker"
      <4>1. 1 \in 1..n \/ 1 = n + 1
        BY <2>2
      <4>. QED  BY <2>11, <4>1
    <3>. QED  BY <2>9, <2>10, <2>12, <3>1, <3>2, <3>3 DEF OffersInv
  <2>13. RetiresInv' /\ SettledInv'
    <3>1. ASSUME NEW i \in 1..Len(agenda') PROVE agenda'[i].call # "retireWorker"
      <4>1. i \in 1..n \/ i = n + 1
        BY <2>2, <2>7
      <4>. QED  BY <2>11, <4>1
    <3>. QED  BY <1>6, <3>1 DEF RetiresInv, SettledInv
  <2>. QED  BY <2>8, <2>10, <2>12, <2>13 DEF WorkerInv, AgendaInv
<1>. QED  BY <1>4, <1>5, <1>6

-----------------------------------------------------------------------------
(* The calls the agenda consists of.                                       *)

LEMMA TailShifts ==
    ASSUME NEW S, NEW q \in Seq(S), q # <<>>
    PROVE  /\ Tail(q) \in Seq(S) /\ Len(q) \in Nat \ {0} /\ Len(Tail(q)) = Len(q) - 1
           /\ \A i \in 1..Len(q) - 1 : Tail(q)[i] = q[i + 1]
           /\ q[1] \in S /\ Head(q) = q[1]
BY EmptySeq, HeadTailProperties

\* A call is made; it may leave one to make in its place, which is no offer.
CallMade(c) ==
    /\ agenda # <<>> /\ agenda[1].call # "retireWorker"
    /\ c \in CallSet /\ c.call # "dispatchNext"
    /\ \/ agenda' = Tail(agenda)
       \/ /\ agenda' = <<c>> \o Tail(agenda)
          /\ c.call = "retireWorker" =>
                dispatch' = "open" /\ \A i \in Nat, s \in Slots : Offers(i, s) => i = 1

\* The agenda after the call: what came after it moves up by d.
Shifted(c, d) ==
    /\ agenda' \in Seq(CallSet) /\ Len(agenda) \in Nat \ {0} /\ Len(agenda') = Len(agenda) - d
    /\ \A i \in 2..Len(agenda) : i - d \in 1..Len(agenda') /\ agenda'[i - d] = agenda[i]
    /\ \A i \in 1..Len(agenda') : i + d \in 2..Len(agenda) \/ (i = 1 /\ d = 0)
    /\ d = 0 => /\ agenda'[1] = c
                /\ c.call = "retireWorker" =>
                      dispatch' = "open" /\ \A i \in Nat, s \in Slots : Offers(i, s) => i = 1

LEMMA CallShifts ==
    ASSUME WorkerTypeOK, NEW c, CallMade(c)
    PROVE  \E d \in {0, 1} : Shifted(c, d)
<1>. DEFINE q == Tail(agenda)
<1>1. /\ q \in Seq(CallSet) /\ Len(agenda) \in Nat \ {0} /\ Len(q) = Len(agenda) - 1
      /\ \A i \in 1..Len(agenda) - 1 : q[i] = agenda[i + 1]
  BY TailShifts DEF WorkerTypeOK, CallMade
<1>2. c \in CallSet
  BY DEF CallMade
<1>3. \/ agenda' = q
      \/ /\ agenda' = <<c>> \o q
         /\ c.call = "retireWorker" =>
               dispatch' = "open" /\ \A i \in Nat, s \in Slots : Offers(i, s) => i = 1
  BY DEF CallMade
<1>. HIDE DEF q
<1>4. CASE agenda' = q
  <2>1. \A i \in 2..Len(agenda) : i - 1 \in 1..Len(agenda') /\ agenda'[i - 1] = agenda[i]
    BY <1>1, <1>4
  <2>2. \A i \in 1..Len(agenda') : i + 1 \in 2..Len(agenda)
    BY <1>1, <1>4
  <2>3. Shifted(c, 1)
    BY <1>1, <1>4, <2>1, <2>2 DEF Shifted
  <2>. QED  BY <2>3
<1>5. CASE /\ agenda' = <<c>> \o q
           /\ c.call = "retireWorker" =>
                 dispatch' = "open" /\ \A i \in Nat, s \in Slots : Offers(i, s) => i = 1
  <2>1. /\ <<c>> \o q \in Seq(CallSet) /\ Len(<<c>> \o q) = Len(q) + 1 /\ (<<c>> \o q)[1] = c
        /\ \A i \in 1..Len(q) : (<<c>> \o q)[i + 1] = q[i]
    BY <1>1, <1>2, OneBefore
  <2>2. /\ agenda' \in Seq(CallSet) /\ Len(agenda') = Len(agenda) /\ agenda'[1] = c
        /\ \A i \in 1..Len(agenda) - 1 : agenda'[i + 1] = q[i]
    BY <1>1, <1>5, <2>1
  <2>3. ASSUME NEW i \in 2..Len(agenda) PROVE i \in 1..Len(agenda') /\ agenda'[i] = agenda[i]
    <3>1. i - 1 \in 1..Len(agenda) - 1 /\ (i - 1) + 1 = i
      BY <1>1
    <3>. QED  BY <1>1, <2>2, <3>1
  <2>4. \A i \in 2..Len(agenda) : i - 0 = i
    BY <1>1
  <2>5. \A i \in 1..Len(agenda') : i + 0 \in 2..Len(agenda) \/ i = 1
    BY <1>1, <2>2
  <2>6. Shifted(c, 0)
    BY <1>1, <1>5, <2>2, <2>3, <2>4, <2>5 DEF Shifted
  <2>. QED  BY <2>6
<1>. QED  BY <1>3, <1>4, <1>5

\* What is still to be offered is what was to be offered after the call.
LEMMA CallKeepsOffers ==
    ASSUME WorkerTypeOK, AgendaInv, NEW c, CallMade(c), UNCHANGED <<child, aborted>>,
           \A i \in Nat, s \in Slots : Offers(i, s) /\ i # 1 =>
               Unmoved(s) /\ (handle[s].active <=> handle'[s].active)
    PROVE  /\ WorkerTypeOK' <=> (DOMAIN mail' = Slots /\ \A s \in Slots : IsSeq(mail'[s]))
           /\ OffersInv' /\ RetiresInv'
           /\ \A i \in Nat, s \in Slots : Offers(i, s) /\ i # 1 => \E j \in Nat : Offers(j, s)'
<1>0. PICK d \in {0, 1} : Shifted(c, d)
  BY CallShifts
<1>1. /\ agenda' \in Seq(CallSet) /\ Len(agenda) \in Nat \ {0} /\ Len(agenda') = Len(agenda) - d
      /\ \A i \in 2..Len(agenda) : i - d \in 1..Len(agenda') /\ agenda'[i - d] = agenda[i]
      /\ \A i \in 1..Len(agenda') : i + d \in 2..Len(agenda) \/ (i = 1 /\ d = 0)
      /\ d = 0 => /\ agenda'[1] = c
                  /\ c.call = "retireWorker" =>
                        dispatch' = "open" /\ \A i \in Nat, s \in Slots : Offers(i, s) => i = 1
  BY <1>0 DEF Shifted
<1>2. \A i \in 1..Len(agenda') : i + d \in 2..Len(agenda) => agenda'[i] = agenda[i + d]
  <2>1. ASSUME NEW i \in 1..Len(agenda'), i + d \in 2..Len(agenda) PROVE agenda'[i] = agenda[i + d]
    <3>1. agenda'[(i + d) - d] = agenda[i + d]
      BY <1>1, <2>1
    <3>2. (i + d) - d = i
      BY <1>1
    <3>. QED  BY <3>1, <3>2
  <2>. QED  BY <2>1
<1>3. WorkerTypeOK' <=> (DOMAIN mail' = Slots /\ \A s \in Slots : IsSeq(mail'[s]))
  BY <1>1 DEF WorkerTypeOK
<1>4. ASSUME NEW i \in Nat, NEW s \in Slots, Offers(i, s)'
      PROVE  Offers(i + d, s) /\ i + d \in Nat /\ i + d # 1
  <2>1. i \in 1..Len(agenda') /\ agenda'[i] = [call |-> "dispatchNext", slot |-> s]
    BY <1>4 DEF Offers
  <2>2. ~(i = 1 /\ d = 0)
    <3>1. agenda'[i].call = "dispatchNext"
      BY <2>1
    <3>. QED  BY <1>1, <3>1 DEF CallMade
  <2>3. i + d \in 2..Len(agenda)
    BY <1>1, <2>1, <2>2
  <2>. QED  BY <1>1, <1>2, <2>1, <2>3 DEF Offers
<1>5. ASSUME NEW i \in Nat, NEW s \in Slots, Offers(i, s), i # 1 PROVE \E j \in Nat : Offers(j, s)'
  <2>1. i \in 2..Len(agenda) /\ agenda[i] = [call |-> "dispatchNext", slot |-> s]
    BY <1>1, <1>5 DEF Offers
  <2>2. i - d \in 1..Len(agenda') /\ agenda'[i - d] = [call |-> "dispatchNext", slot |-> s]
    BY <1>1, <2>1
  <2>3. Offers(i - d, s)' /\ i - d \in Nat
    BY <2>2 DEF Offers
  <2>. QED  BY <2>3
<1>6. OffersInv'
  <2>1. ASSUME NEW i \in Nat, NEW s \in Slots, Offers(i, s)', s \in Live'
        PROVE  handle'[s].active /\ Empty(s)' /\ (handle'[s].busy => ~aborted')
    <3>1. Offers(i + d, s) /\ i + d \in Nat /\ i + d # 1
      BY <1>4, <2>1
    <3>2. Unmoved(s) /\ (handle[s].active <=> handle'[s].active)
      BY <3>1
    <3>3. s \in Live
      BY <2>1, <3>2 DEF Unmoved, Live
    <3>4. handle[s].active /\ Empty(s) /\ (handle[s].busy => ~aborted)
      BY <3>1, <3>3 DEF AgendaInv, OffersInv
    <3>. QED  BY <3>2, <3>4 DEF Unmoved, Empty
  <2>2. ASSUME NEW i \in Nat, NEW s \in Slots, Offers(i, s)', NEW j \in Nat, NEW u \in Slots,
               i < j, Offers(j, u)'
        PROVE  s # u /\ child'[s] # "closed"
    <3>1. /\ Offers(i + d, s) /\ i + d \in Nat /\ Offers(j + d, u) /\ j + d \in Nat
          /\ i + d < j + d
      BY <1>4, <2>2
    <3>. QED  BY <3>1 DEF AgendaInv, OffersInv
  <2>3. ASSUME NEW i \in Nat, NEW s \in Slots, Offers(i, s)' PROVE agenda'[1].call # "retireWorker"
    <3>1. Offers(i + d, s) /\ i + d \in Nat /\ i + d # 1
      BY <1>4, <2>3
    <3>2. CASE d = 0
      BY <1>1, <3>1, <3>2
    <3>3. CASE d = 1
      <4>1. i \in 1..Len(agenda')
        BY <2>3 DEF Offers
      <4>2. 1 \in 1..Len(agenda') /\ 1 + d \in 2..Len(agenda) /\ 1 + d # 1
        BY <1>1, <3>3, <4>1
      <4>3. agenda'[1] = agenda[1 + d]
        BY <1>2, <4>2
      <4>. QED  BY <4>2, <4>3 DEF AgendaInv, RetiresInv
    <3>. QED  BY <3>2, <3>3
  <2>. QED  BY <2>1, <2>2, <2>3 DEF OffersInv
<1>7. RetiresInv'
  <2>. SUFFICES ASSUME NEW i \in 1..Len(agenda'), agenda'[i].call = "retireWorker"
                PROVE  i = 1 /\ dispatch' = "open"
    BY DEF RetiresInv
  <2>1. ~(i + d \in 2..Len(agenda))
    <3>. SUFFICES ASSUME i + d \in 2..Len(agenda) PROVE FALSE
      OBVIOUS
    <3>1. agenda[i + d].call = "retireWorker" /\ i + d \in 1..Len(agenda) /\ i + d # 1
      BY <1>1, <1>2
    <3>. QED  BY <3>1 DEF AgendaInv, RetiresInv
  <2>2. i = 1 /\ d = 0
    BY <1>1, <2>1
  <2>. QED  BY <1>1, <2>2
<1>. QED  BY <1>3, <1>5, <1>6, <1>7

LEMMA HeadCall ==
    ASSUME WorkerTypeOK, NEW name, Calling(name)
    PROVE  agenda # <<>> /\ agenda[1].call = name /\ Caller = agenda[1].slot /\ agenda[1] \in CallSet
           /\ Len(agenda) \in Nat \ {0}
BY TailShifts DEF WorkerTypeOK, Calling, Caller

\* maybeResolve, and what initialDispatchDone is set with.
LEMMA ResolvingKeepsWorkers ==
    ASSUME UiInv, WorkerInv, MaybeResolve \/ AllOffered
    PROVE  WorkerInv'
<1>1. UiTypeOK /\ WorkerTypeOK
  BY DEF UiInv, WorkerInv
<1>2. UNCHANGED <<handle, job, mail, child, aborted, corner>>
  BY DEF MaybeResolve, AllOffered, workerVars, ghostVars, runVars
<1>. DEFINE c == [call |-> "maybeResolve", slot |-> 0]
<1>3. CallMade(c) /\ Call("maybeResolve") = <<c>> /\ agenda # <<>> /\ c \in CallSet
  <2>1. agenda # <<>> /\ agenda[1].call \in {"maybeResolve", "offered"}
    BY <1>1, HeadCall DEF MaybeResolve, AllOffered
  <2>2. agenda' = Tail(agenda) \/ agenda' = Call("maybeResolve") \o Tail(agenda)
    BY DEF MaybeResolve, AllOffered
  <2>3. Call("maybeResolve") = <<c>> /\ c \in CallSet /\ c.call = "maybeResolve"
    BY DEF Call, CallSet
  <2>. QED  BY <2>1, <2>2, <2>3 DEF CallMade
<1>. HIDE DEF c
<1>4. \A s \in Slots : Unmoved(s) /\ (handle[s].active <=> handle'[s].active)
  BY <1>2 DEF Unmoved
<1>. SUFFICES ASSUME Clean PROVE WorkerTypeOK' /\ AgendaInv' /\ \A s \in Slots : Owed(s)'
  <2>1. ASSUME ~Clean PROVE WorkerInv'
    <3>1. PICK d \in {0, 1} : Shifted(c, d)
      BY <1>1, <1>3, CallShifts
    <3>2. WorkerTypeOK'
      BY <1>1, <1>2, <3>1 DEF WorkerTypeOK, Shifted
    <3>. QED  BY <1>2, <2>1, <3>2 DEF WorkerInv, Clean
  <2>. QED  BY <2>1 DEF WorkerInv
<1>5. AgendaInv /\ \A s \in Slots : Owed(s)
  BY DEF WorkerInv
<1>6. /\ WorkerTypeOK' /\ OffersInv' /\ RetiresInv'
      /\ \A i \in Nat, s \in Slots : Offers(i, s) /\ i # 1 => \E j \in Nat : Offers(j, s)'
  <2>1. UNCHANGED <<child, aborted>> /\ DOMAIN mail' = Slots /\ \A s \in Slots : IsSeq(mail'[s])
    BY <1>1, <1>2 DEF WorkerTypeOK
  <2>. QED  BY <1>1, <1>3, <1>4, <1>5, <2>1, CallKeepsOffers
<1>7. /\ agenda[1].call \in {"maybeResolve", "offered"}
      /\ \A s \in Slots : ~ToRetire(s) /\ ~Offers(1, s)
  <2>1. agenda[1].call \in {"maybeResolve", "offered"}
    BY <1>1, HeadCall DEF MaybeResolve, AllOffered
  <2>2. ASSUME NEW s \in Slots PROVE ~ToRetire(s) /\ ~Offers(1, s)
    BY <2>1 DEF ToRetire, Offers
  <2>. QED  BY <2>1, <2>2
<1>8. \/ dispatch' = dispatch /\ fileQueue' = fileQueue
      \/ /\ dispatch = "open" /\ AllDone
         /\ aborted \/ fileQueue' = <<>>
  <2>1. CASE AllOffered
    BY <2>1 DEF AllOffered
  <2>2. CASE MaybeResolve
    BY <2>2 DEF MaybeResolve
  <2>. QED  BY <2>1, <2>2
<1>9. SettledInv'
  <2>1. Remaining' = Remaining
    BY <1>2 DEF Remaining, Live
  <2>. QED  BY <1>2, <1>3, <1>5, <1>8, <2>1 DEF AgendaInv, SettledInv
<1>10. ASSUME NEW s \in Slots PROVE Owed(s)'
  <2>1. s \in Live /\ handle[s].busy => dispatch' = "open"
    <3>. SUFFICES ASSUME s \in Live, handle[s].busy PROVE dispatch' = "open"
      OBVIOUS
    <3>1. handle[s].active /\ dispatch = "open"
      BY <1>5 DEF Owed
    <3>2. ~AllDone
      BY <3>1 DEF AllDone, Remaining
    <3>. QED  BY <1>8, <3>1, <3>2
  <2>2. (\E i \in Nat : Offers(i, s)) => (\E i \in Nat : Offers(i, s)')
    BY <1>6, <1>7
  <2>. QED  BY <1>4, <1>5, <1>7, <2>1, <2>2, StillOwed
<1>. QED  BY <1>6, <1>9, <1>10 DEF AgendaInv

\* dispatchNext.
LEMMA DispatchNextKeepsWorkers ==
    ASSUME UiInv, WorkerInv, DispatchNext
    PROVE  WorkerInv'
<1>1. UiTypeOK /\ WorkerTypeOK
  BY DEF UiInv, WorkerInv
<1>a. PICK s : s = Caller
  OBVIOUS
<1>. DEFINE resolve == [call |-> "maybeResolve", slot |-> 0]
            retire == [call |-> "retireWorker", slot |-> s]
            gives(next) ==
                /\ handle' = [handle EXCEPT ![s] = Holding(@, TRUE, next)]
                /\ job' = [job EXCEPT ![s] = IF child[s] = "up" THEN Append(@, next) ELSE @]
<1>2. agenda # <<>> /\ agenda[1] = [call |-> "dispatchNext", slot |-> s] /\ s \in Nat
  <2>1. agenda # <<>> /\ agenda[1].call = "dispatchNext" /\ s = agenda[1].slot /\ agenda[1] \in CallSet
    BY <1>1, <1>a, HeadCall DEF DispatchNext
  <2>. QED  BY <2>1 DEF CallSet
<1>3. /\ UNCHANGED <<mail, child, aborted, dispatch, corner>>
      /\ \/ /\ s \notin Live \/ aborted
            /\ agenda' = Tail(agenda) /\ UNCHANGED <<handle, job, fileQueue>>
         \/ /\ s \in Live /\ ~aborted /\ agenda' = Call("maybeResolve") \o Tail(agenda)
            /\ handle' = [handle EXCEPT ![s] = Holding(@, FALSE, NoFile)] /\ UNCHANGED <<job, fileQueue>>
         \/ /\ s \in Live /\ ~aborted /\ Len(fileQueue) # 0 /\ \E next : gives(next)
            /\ agenda' = (IF child[s] = "closed" THEN Calls("retireWorker", <<s>>) ELSE <<>>) \o Tail(agenda)
  <2>1. ASSUME Len(fileQueue) = 0 PROVE {i \in 1..Len(fileQueue) : BucketOf(fileQueue[i]) = suite.device[s]} = {}
    BY <2>1
  <2>. QED  BY <1>a, <2>1 DEF DispatchNext, runVars, ghostVars
<1>4. /\ Call("maybeResolve") = <<resolve>> /\ resolve \in CallSet /\ retire \in CallSet
      /\ resolve.call = "maybeResolve" /\ retire.call = "retireWorker"
      /\ s \in Slots => Calls("retireWorker", <<s>>) = <<retire>>
      /\ Tail(agenda) \in Seq(CallSet) /\ <<>> \o Tail(agenda) = Tail(agenda)
  <2>1. Call("maybeResolve") = <<resolve>> /\ resolve \in CallSet /\ retire \in CallSet
    BY <1>2 DEF Call, CallSet
  <2>2. s \in Slots => Calls("retireWorker", <<s>>) = <<retire>>
    BY CallOfOne
  <2>3. Tail(agenda) \in Seq(CallSet)
    BY <1>1, <1>2, TailShifts DEF WorkerTypeOK
  <2>4. <<>> \o Tail(agenda) = Tail(agenda)
    BY <2>3, ConcatEmptySeq
  <2>. QED  BY <2>1, <2>2, <2>3, <2>4
<1>. HIDE DEF resolve, retire, gives
<1>5. Live \subseteq Slots
  BY DEF Live
<1>6. \/ agenda' = Tail(agenda)
      \/ agenda' = <<resolve>> \o Tail(agenda)
      \/ agenda' = <<retire>> \o Tail(agenda) /\ child[s] = "closed" /\ s \in Live /\ ~aborted /\ Len(fileQueue) # 0
  BY <1>3, <1>4, <1>5
<1>7. WorkerTypeOK'
  <2>1. agenda' \in Seq(CallSet)
    <3>1. CASE agenda' = Tail(agenda)
      BY <1>4, <3>1
    <3>2. CASE agenda' = <<resolve>> \o Tail(agenda)
      BY <1>4, <3>2, OneBefore
    <3>3. CASE agenda' = <<retire>> \o Tail(agenda)
      BY <1>4, <3>3, OneBefore
    <3>. QED  BY <1>6, <3>1, <3>2, <3>3
  <2>. QED  BY <1>1, <1>3, <2>1 DEF WorkerTypeOK
<1>8. \A x \in Slots \ {s} : handle'[x] = handle[x] /\ job'[x] = job[x] /\ mail'[x] = mail[x]
                              /\ child'[x] = child[x]
  BY <1>1, <1>3 DEF UiTypeOK, gives
<1>9. \A x \in Slots : /\ handle'[x].there <=> handle[x].there
                       /\ handle'[x].retired <=> handle[x].retired
                       /\ handle'[x].active <=> handle[x].active
  <2>1. ASSUME NEW x \in Slots, x = s
        PROVE  handle'[x] = handle[x] \/ \E b \in BOOLEAN : \E f : handle'[x] = Holding(handle[x], b, f)
    BY <1>1, <1>3, <2>1 DEF UiTypeOK, gives
  <2>. QED  BY <1>1, <1>8, <2>1, HoldingIsHandle DEF UiTypeOK
<1>. SUFFICES ASSUME Clean PROVE AgendaInv' /\ \A x \in Slots : Owed(x)'
  BY <1>3, <1>7 DEF WorkerInv, Clean
<1>10. AgendaInv /\ \A x \in Slots : Owed(x)
  BY DEF WorkerInv
<1>11. /\ s \in Slots => Offers(1, s) /\ 1 \in Nat
       /\ \A x \in Slots : ~ToRetire(x)
       /\ \A i \in Nat, x \in Slots : Offers(i, x) /\ i # 1 => x # s /\ (child[s] = "closed" => s \notin Slots)
       /\ \A i \in Nat, x \in Slots \ {s} : Offers(i, x) => i # 1
  <2>1. Len(agenda) \in Nat \ {0}
    BY <1>1, <1>2, TailShifts DEF WorkerTypeOK
  <2>2. s \in Slots => Offers(1, s)
    BY <1>2, <2>1 DEF Offers
  <2>3. \A x \in Slots : ~ToRetire(x)
    BY <1>2 DEF ToRetire
  <2>4. ASSUME NEW i \in Nat, NEW x \in Slots, Offers(i, x), i # 1
        PROVE  x # s /\ (child[s] = "closed" => s \notin Slots)
    <3>1. 1 < i
      BY <2>4 DEF Offers
    <3>. QED  BY <1>10, <2>2, <2>4, <3>1 DEF AgendaInv, OffersInv
  <2>5. ASSUME NEW i \in Nat, NEW x \in Slots \ {s}, Offers(i, x) PROVE i # 1
    <3>. DEFINE y == s
    <3>1. i = 1 => [call |-> "dispatchNext", slot |-> s] = [call |-> "dispatchNext", slot |-> x]
      BY <1>2, <2>5 DEF Offers
    <3>. QED  BY <2>5, <3>1
  <2>. QED  BY <2>2, <2>3, <2>4, <2>5
<1>12. s \in Live => /\ handle[s].active /\ job[s] = <<>> /\ mail[s] = <<>> /\ child[s] # "gone"
                     /\ (handle[s].busy => ~aborted)
                     /\ (~aborted /\ Len(fileQueue) # 0 => dispatch = "open")
  <2>. SUFFICES ASSUME s \in Live
                PROVE  /\ handle[s].active /\ job[s] = <<>> /\ mail[s] = <<>> /\ child[s] # "gone"
                       /\ (handle[s].busy => ~aborted)
                       /\ (~aborted /\ Len(fileQueue) # 0 => dispatch = "open")
    OBVIOUS
  <2>1. s \in Slots /\ Offers(1, s) /\ 1 \in Nat
    BY <1>5, <1>11
  <2>2. handle[s].active /\ Empty(s) /\ (handle[s].busy => ~aborted)
    BY <1>10, <2>1 DEF AgendaInv, OffersInv
  <2>3. child[s] # "gone"
    BY <1>10, <1>11, <2>1 DEF Owed
  <2>4. ~aborted /\ Len(fileQueue) # 0 => dispatch = "open"
    BY <1>2, <1>10, <2>2, EmptyIsSeq DEF AgendaInv, SettledInv, Remaining
  <2>. QED  BY <2>2, <2>3, <2>4 DEF Empty
<1>13. \E c : CallMade(c)
  <2>1. agenda # <<>> /\ agenda[1].call # "retireWorker"
    BY <1>2
  <2>2. CASE agenda' = Tail(agenda) \/ agenda' = <<resolve>> \o Tail(agenda)
    <3>1. CallMade(resolve)
      BY <1>4, <2>1, <2>2 DEF CallMade
    <3>. QED  BY <3>1
  <2>3. CASE agenda' = <<retire>> \o Tail(agenda) /\ child[s] = "closed" /\ s \in Live /\ ~aborted
             /\ Len(fileQueue) # 0
    <3>1. dispatch' = "open" /\ \A i \in Nat, x \in Slots : Offers(i, x) => i = 1
      BY <1>3, <1>5, <1>11, <1>12, <2>3
    <3>2. CallMade(retire)
      BY <1>4, <2>1, <2>3, <3>1 DEF CallMade
    <3>. QED  BY <3>2
  <2>. QED  BY <1>6, <2>2, <2>3
<1>14. \A x \in Slots \ {s} : Unmoved(x) /\ (handle[x].active <=> handle'[x].active)
  BY <1>8 DEF Unmoved
<1>15. /\ OffersInv' /\ RetiresInv'
       /\ \A i \in Nat, x \in Slots : Offers(i, x) /\ i # 1 => \E j \in Nat : Offers(j, x)'
  <2>1. PICK c : CallMade(c)
    BY <1>13
  <2>2. UNCHANGED <<child, aborted>>
    BY <1>3
  <2>3. \A i \in Nat, x \in Slots : Offers(i, x) /\ i # 1 =>
            Unmoved(x) /\ (handle[x].active <=> handle'[x].active)
    BY <1>11, <1>14
  <2>. QED  BY <1>1, <1>10, <2>1, <2>2, <2>3, CallKeepsOffers
<1>16. SettledInv'
  <2>1. Remaining' = Remaining
    BY <1>9 DEF Remaining, Live
  <2>2. fileQueue = <<>> => fileQueue' = <<>>
    BY <1>3, EmptyIsSeq
  <2>. QED  BY <1>2, <1>3, <1>10, <2>1, <2>2 DEF AgendaInv, SettledInv
<1>17. ASSUME NEW x \in Slots, x # s PROVE Owed(x)'
  <2>1. x \in Live /\ handle[x].busy => dispatch' = "open"
    BY <1>3, <1>10 DEF Owed
  <2>2. (\E i \in Nat : Offers(i, x)) => (\E i \in Nat : Offers(i, x)')
    BY <1>11, <1>15, <1>17
  <2>. QED  BY <1>10, <1>11, <1>14, <1>17, <2>1, <2>2, StillOwed
<1>18. ASSUME s \in Slots PROVE Owed(s)'
  <2>1. child'[s] = child[s] /\ mail'[s] = mail[s] /\ (s \in Live' <=> s \in Live)
    BY <1>3, <1>9, <1>18 DEF Live
  <2>2. CASE s \notin Live
    <3>1. job' = job
      BY <1>3, <2>2
    <3>2. s \notin Live' /\ (~handle'[s].there => ~handle[s].there)
      BY <1>9, <1>18, <2>1, <2>2
    <3>3. ~handle'[s].there => Empty(s)'
      BY <1>10, <1>18, <2>1, <3>1, <3>2 DEF Owed, Empty
    <3>. QED  BY <3>2, <3>3 DEF Owed
  <2>3. CASE s \in Live /\ job' = job /\ ~handle'[s].busy
    <3>1. Renewed(s)
      BY <1>12, <2>1, <2>3 DEF Renewed
    <3>. QED  BY <1>18, <3>1, RenewedOwed
  <2>4. ASSUME s \in Live, ~aborted, Len(fileQueue) # 0, NEW next, gives(next) PROVE Owed(s)'
    <3>1. job'[s] = IF child[s] = "up" THEN Append(<<>>, next) ELSE <<>>
      BY <1>1, <1>12, <1>18, <2>4 DEF gives, UiTypeOK
    <3>2. Len(Append(<<>>, next)) = 1 /\ Len(mail'[s]) = 0
      BY <1>12, <2>1, <2>4, EmptyIsSeq, AppendIsSeq
    <3>3. child[s] \in {"up", "dead", "closed"}
      BY <1>1, <1>12, <1>18, <2>4 DEF WorkerTypeOK
    <3>4. Len(job'[s]) + Len(mail'[s]) <= 1
      BY <3>1, <3>2, EmptyIsSeq
    <3>5. Len(job'[s]) + Len(mail'[s]) = 1 \/ child'[s] \in {"dead", "closed"}
      BY <2>1, <3>1, <3>2, <3>3
    <3>6. handle'[s].busy /\ handle'[s].active /\ handle'[s].there /\ dispatch' = "open"
      <4>1. handle'[s] = Holding(handle[s], TRUE, next)
        BY <1>1, <1>18, <2>4 DEF gives, UiTypeOK
      <4>2. handle'[s].busy
        <5>1. IsHandle(handle[s]) /\ TRUE \in BOOLEAN
          BY <1>1, <1>18 DEF UiTypeOK
        <5>2. Holding(handle[s], TRUE, next).busy = TRUE
          BY <5>1, HoldingIsHandle
        <5>. QED  BY <4>1, <5>2
      <4>. QED  BY <1>3, <1>9, <1>12, <1>18, <2>4, <4>2 DEF Live
    <3>. QED  BY <2>1, <3>3, <3>4, <3>5, <3>6 DEF Owed
  <2>5. CASE s \in Live /\ aborted /\ UNCHANGED <<handle, job>>
    BY <1>12, <2>3, <2>5
  <2>6. CASE s \in Live /\ handle' = [handle EXCEPT ![s] = Holding(@, FALSE, NoFile)] /\ job' = job
    <3>1. handle'[s] = Holding(handle[s], FALSE, NoFile)
      BY <1>1, <1>18, <2>6 DEF UiTypeOK
    <3>2. ~handle'[s].busy
      <4>1. IsHandle(handle[s])
        BY <1>1, <1>18 DEF UiTypeOK
      <4>2. ~Holding(handle[s], FALSE, NoFile).busy
        BY <4>1, HoldingIsHandle
      <4>. QED  BY <3>1, <4>2
    <3>. QED  BY <2>3, <2>6, <3>2
  <2>. QED  BY <1>3, <2>2, <2>4, <2>5, <2>6
<1>19. AgendaInv'
  BY <1>15, <1>16 DEF AgendaInv
<1>20. ASSUME NEW x \in Slots PROVE Owed(x)'
  <2>1. CASE x = s
    BY <1>18, <1>20, <2>1
  <2>. QED  BY <1>17, <1>20, <2>1
<1>. QED  BY <1>19, <1>20

\* A call by which nobody is retired, nor offered a file.
Plain(c) == c.call # "retireWorker" /\ \A x \in Slots : c # [call |-> "dispatchNext", slot |-> x]

LEMMA PlainBefore ==
    ASSUME NEW q \in Seq(CallSet), \A i \in 1..Len(q) : Plain(q[i]), NEW c \in CallSet
    PROVE  /\ <<c>> \o q \in Seq(CallSet) /\ (<<c>> \o q)[1] = c
           /\ \A i \in 1..Len(<<c>> \o q) : i = 1 \/ Plain((<<c>> \o q)[i])
<1>. DEFINE r == <<c>> \o q
<1>1. /\ r \in Seq(CallSet) /\ Len(r) = Len(q) + 1 /\ Len(q) \in Nat /\ r[1] = c
      /\ \A i \in 1..Len(q) : r[i + 1] = q[i]
  BY OneBefore
<1>. HIDE DEF r
<1>2. ASSUME NEW i \in 1..Len(r), i # 1 PROVE Plain(r[i])
  <2>1. i - 1 \in 1..Len(q) /\ (i - 1) + 1 = i
    BY <1>1, <1>2
  <2>2. r[i] = q[i - 1]
    BY <1>1, <2>1
  <2>. QED  BY <2>1, <2>2
<1>3. r \in Seq(CallSet) /\ r[1] = c /\ \A i \in 1..Len(r) : i = 1 \/ Plain(r[i])
  BY <1>1, <1>2
<1>. QED  BY <1>3 DEF r

\* retireWorker.
LEMMA RetiringKeepsWorkers ==
    ASSUME UiInv, WorkerInv, RetireWorker
    PROVE  WorkerInv'
<1>1. UiTypeOK /\ WorkerTypeOK
  BY DEF UiInv, WorkerInv
<1>a. PICK s : s = Caller
  OBVIOUS
<1>b. PICK q : q = Tail(agenda)
  OBVIOUS
<1>. DEFINE retire == [call |-> "retireWorker", slot |-> s]
            resolve == [call |-> "maybeResolve", slot |-> 0]
            offer(y) == [call |-> "dispatchNext", slot |-> y]
            rest == Remaining \ {s}
            idle == {x \in rest : ~handle[x].busy}
<1>2. agenda # <<>> /\ agenda[1] = retire /\ s \in Nat /\ Len(agenda) \in Nat \ {0}
  <2>1. /\ agenda # <<>> /\ agenda[1].call = "retireWorker" /\ s = agenda[1].slot /\ agenda[1] \in CallSet
        /\ Len(agenda) \in Nat \ {0}
    BY <1>1, <1>a, HeadCall DEF RetireWorker
  <2>. QED  BY <2>1 DEF CallSet
<1>3. /\ q \in Seq(CallSet) /\ Len(q) = Len(agenda) - 1
      /\ \A i \in 1..Len(agenda) - 1 : q[i] = agenda[i + 1]
  BY <1>1, <1>2, <1>b, TailShifts DEF WorkerTypeOK
<1>4. /\ UNCHANGED <<job, mail, child, aborted, corner>>
      /\ \/ s \notin Live /\ agenda' = q /\ UNCHANGED <<handle, dispatch>>
         \/ /\ s \in Live /\ handle' = [handle EXCEPT ![s] = GivenUp(@)]
            /\ \/ rest = {} /\ agenda' = q
               \/ /\ rest # {} /\ dispatch' = dispatch
                  /\ agenda' = (IF idle # {} THEN Calls("dispatchNext", <<Min(idle)>>) ELSE <<>>)
                               \o Call("maybeResolve") \o q
  BY <1>a, <1>b DEF RetireWorker, ghostVars
<1>5. /\ Call("maybeResolve") = <<resolve>> /\ resolve \in CallSet /\ resolve.call = "maybeResolve"
      /\ \A y \in Slots : Calls("dispatchNext", <<y>>) = <<offer(y)>> /\ offer(y) \in CallSet
  <2>1. Call("maybeResolve") = <<resolve>> /\ resolve \in CallSet
    BY DEF Call, CallSet
  <2>. QED  BY <2>1, CallOfOne
<1>6. idle # {} => Min(idle) \in idle
  <2>1. idle \subseteq Nat
    BY UiAssumption DEF Remaining, Live, Slots
  <2>. QED  BY <2>1, MinIsMember
<1>7. idle \subseteq Slots
  BY DEF Remaining, Live
<1>8. \/ agenda' = q
      \/ agenda' = <<resolve>> \o q
      \/ \E y \in idle : agenda' = <<offer(y)>> \o (<<resolve>> \o q)
  <2>1. ASSUME idle = {}, agenda' = <<>> \o Call("maybeResolve") \o q PROVE agenda' = <<resolve>> \o q
    <3>1. <<resolve>> \in Seq(CallSet)
      BY <1>5
    <3>. QED  BY <1>5, <2>1, <3>1, ConcatEmptySeq
  <2>2. ASSUME idle # {}, agenda' = Calls("dispatchNext", <<Min(idle)>>) \o Call("maybeResolve") \o q
        PROVE  \E y \in idle : agenda' = <<offer(y)>> \o (<<resolve>> \o q)
    <3>1. PICK y \in idle : y = Min(idle)
      BY <1>6, <2>2
    <3>2. agenda' = <<offer(y)>> \o <<resolve>> \o q /\ y \in Slots
      BY <1>5, <1>7, <2>2, <3>1
    <3>3. <<offer(y)>> \in Seq(CallSet) /\ <<resolve>> \in Seq(CallSet)
      <4>1. ASSUME NEW c \in CallSet PROVE <<c>> \in Seq(CallSet)
        OBVIOUS
      <4>2. offer(y) \in CallSet /\ resolve \in CallSet
        BY <1>5, <3>2
      <4>. HIDE DEF offer, resolve
      <4>. QED  BY <4>1, <4>2
    <3>4. agenda' = <<offer(y)>> \o (<<resolve>> \o q)
      BY <1>3, <3>2, <3>3, ConcatAssociative
    <3>. QED  BY <3>4
  <2>. QED  BY <1>4, <2>1, <2>2
<1>9. WorkerTypeOK'
  <2>1. <<resolve>> \o q \in Seq(CallSet)
    BY <1>3, <1>5, OneBefore
  <2>2. ASSUME NEW y \in idle PROVE <<offer(y)>> \o (<<resolve>> \o q) \in Seq(CallSet)
    BY <1>5, <1>7, <2>1, OneBefore
  <2>3. agenda' \in Seq(CallSet)
    BY <1>3, <1>8, <2>1, <2>2
  <2>. QED  BY <1>1, <1>4, <2>3 DEF WorkerTypeOK
<1>. SUFFICES ASSUME Clean PROVE AgendaInv' /\ \A x \in Slots : Owed(x)'
  BY <1>4, <1>9 DEF WorkerInv, Clean
<1>10. AgendaInv /\ \A x \in Slots : Owed(x)
  BY DEF WorkerInv
<1>11. dispatch = "open" /\ (\A i \in Nat, x \in Slots : ~Offers(i, x))
  <2>1. 1 \in 1..Len(agenda) /\ agenda[1].call = "retireWorker"
    BY <1>2
  <2>. QED  BY <1>10, <2>1 DEF AgendaInv, RetiresInv, OffersInv
<1>12. ASSUME NEW i \in 1..Len(q) PROVE Plain(q[i])
  <2>1. i + 1 \in 1..Len(agenda) /\ i + 1 # 1 /\ i + 1 \in Nat /\ q[i] = agenda[i + 1]
    BY <1>2, <1>3
  <2>2. agenda[i + 1].call # "retireWorker"
    BY <1>10, <2>1 DEF AgendaInv, RetiresInv
  <2>3. \A x \in Slots : agenda[i + 1] # [call |-> "dispatchNext", slot |-> x]
    BY <1>11, <2>1 DEF Offers
  <2>. QED  BY <2>1, <2>2, <2>3 DEF Plain
<1>13. \A i \in 1..Len(agenda') :
           \/ Plain(agenda'[i])
           \/ i = 1 /\ \E y \in idle : agenda'[1] = offer(y)
  <2>. DEFINE r == <<resolve>> \o q
  <2>1. Plain(resolve)
    BY DEF Plain
  <2>2. r \in Seq(CallSet) /\ r[1] = resolve /\ \A i \in 1..Len(r) : i = 1 \/ Plain(r[i])
    BY <1>3, <1>5, <1>12, PlainBefore
  <2>3. r \in Seq(CallSet) /\ \A i \in 1..Len(r) : Plain(r[i])
    BY <2>1, <2>2
  <2>. HIDE DEF r
  <2>4. ASSUME NEW y \in idle, agenda' = <<offer(y)>> \o r
        PROVE  \A i \in 1..Len(agenda') : Plain(agenda'[i]) \/ (i = 1 /\ agenda'[1] = offer(y))
    <3>1. offer(y) \in CallSet
      BY <1>5, <1>7
    <3>. QED  BY <2>3, <2>4, <3>1, PlainBefore
  <2>5. \/ agenda' = q
        \/ agenda' = r
        \/ \E y \in idle : agenda' = <<offer(y)>> \o r
    BY <1>8 DEF r
  <2>. QED  BY <1>12, <2>3, <2>4, <2>5
<1>14. \A i \in Nat, x \in Slots : Offers(i, x)' => i = 1 /\ x \in idle
  <2>. SUFFICES ASSUME NEW i \in Nat, NEW x \in Slots, Offers(i, x)' PROVE i = 1 /\ x \in idle
    OBVIOUS
  <2>1. i \in 1..Len(agenda') /\ agenda'[i] = offer(x)
    BY DEF Offers
  <2>2. ~Plain(agenda'[i])
    BY <2>1 DEF Plain
  <2>3. PICK y \in idle : i = 1 /\ agenda'[1] = offer(y)
    BY <1>13, <2>1, <2>2
  <2>4. [call |-> "dispatchNext", slot |-> x] = [call |-> "dispatchNext", slot |-> y]
    BY <2>1, <2>3
  <2>5. x = y
    BY <2>4
  <2>. QED  BY <2>3, <2>5
<1>15. \A i \in 1..Len(agenda') : agenda'[i].call # "retireWorker"
  <2>1. \A y : offer(y).call # "retireWorker"
    OBVIOUS
  <2>. HIDE DEF offer
  <2>. QED  BY <1>13, <2>1 DEF Plain
<1>16. ASSUME NEW x \in Slots, x # s \/ s \notin Live
       PROVE  Unmoved(x) /\ handle'[x] = handle[x] /\ (x \in Live => ~ToRetire(x))
  <2>1. handle'[x] = handle[x]
    BY <1>1, <1>4, <1>16 DEF UiTypeOK
  <2>2. Unmoved(x)
    BY <1>4, <2>1 DEF Unmoved
  <2>3. ToRetire(x) => x = s
    BY <1>2 DEF ToRetire
  <2>. QED  BY <1>16, <2>1, <2>2, <2>3
<1>17. rest # {} \/ s \notin Live => dispatch' = "open"
  BY <1>4, <1>11
<1>18. OffersInv'
  <2>1. ASSUME NEW x \in idle, x \in Slots
        PROVE  handle'[x].active /\ Empty(x)' /\ ~handle'[x].busy
    <3>1. x # s /\ x \in Live /\ handle[x].active /\ ~handle[x].busy
      BY <2>1 DEF Remaining
    <3>2. Empty(x)
      BY <1>10, <2>1, <3>1 DEF Owed
    <3>. QED  BY <1>4, <1>16, <2>1, <3>1, <3>2 DEF Empty
  <2>2. ASSUME NEW i \in Nat, NEW x \in Slots, Offers(i, x)' PROVE agenda'[1].call # "retireWorker"
    <3>1. i = 1 /\ i \in 1..Len(agenda')
      BY <1>14, <2>2 DEF Offers
    <3>. QED  BY <1>15, <3>1
  <2>3. ASSUME NEW i \in Nat, NEW x \in Slots, NEW j \in Nat, NEW y \in Slots,
               Offers(i, x)', Offers(j, y)'
        PROVE  ~(i < j)
    BY <1>14, <2>3
  <2>. QED  BY <1>14, <2>1, <2>2, <2>3 DEF OffersInv
<1>19. RetiresInv'
  BY <1>15 DEF RetiresInv
<1>20. SettledInv'
  <2>1. ASSUME s \in Live, rest = {} PROVE Remaining' = {}
    <3>1. handle'[s] = GivenUp(handle[s]) /\ IsHandle(handle[s])
      BY <1>1, <1>4, <2>1 DEF UiTypeOK, Live
    <3>2. handle'[s].retired
      BY <3>1, GivenUpIsHandle
    <3>3. ASSUME NEW x \in Slots, x # s PROVE x \notin Remaining'
      <4>1. x \notin Remaining
        BY <2>1, <3>3
      <4>. QED  BY <1>16, <3>3, <4>1 DEF Remaining, Live
    <3>. QED  BY <3>2, <3>3 DEF Remaining, Live
  <2>. QED  BY <1>17, <2>1 DEF SettledInv
<1>21. ASSUME NEW x \in Slots PROVE Owed(x)'
  <2>1. CASE x # s \/ s \notin Live
    <3>1. x \in Live /\ handle[x].busy => dispatch' = "open"
      <4>. SUFFICES ASSUME x \in Live, handle[x].busy PROVE dispatch' = "open"
        OBVIOUS
      <4>1. x \in Remaining
        BY <1>10 DEF Owed, Remaining
      <4>. QED  BY <1>17, <2>1, <4>1
    <3>. QED  BY <1>10, <1>11, <1>16, <2>1, <3>1, StillOwed
  <2>2. CASE x = s /\ s \in Live
    <3>1. handle'[s] = GivenUp(handle[s]) /\ IsHandle(handle[s])
      BY <1>1, <1>4, <1>21, <2>2 DEF UiTypeOK
    <3>2. LetGo(s)
      BY <1>4, <3>1, GivenUpIsHandle DEF LetGo
    <3>. QED  BY <1>10, <1>21, <2>2, <3>2, RenewedOwed
  <2>. QED  BY <2>1, <2>2
<1>. QED  BY <1>18, <1>19, <1>20, <1>21 DEF AgendaInv

LEMMA WorkerInvStep == UiInv /\ WorkerInv /\ [Next]_vars => WorkerInv'
<1>. SUFFICES ASSUME UiInv, WorkerInv, [Next]_vars PROVE WorkerInv'
  OBVIOUS
<1>1. CASE UNCHANGED vars
  <2>1. /\ UNCHANGED <<agenda, handle, child, job, mail, corner, dispatch, aborted, fileQueue>>
    BY <1>1 DEF vars, dispatchVars, workerVars, ghostVars, runVars
  <2>2. Live' = Live /\ Remaining' = Remaining
    BY <2>1 DEF Live, Remaining
  <2>3. WorkerTypeOK' <=> WorkerTypeOK
    BY <2>1 DEF WorkerTypeOK
  <2>4. AgendaInv' <=> AgendaInv
    BY <2>1, <2>2 DEF AgendaInv, OffersInv, RetiresInv, SettledInv, Offers, Empty
  <2>5. \A x \in Slots : Owed(x)' <=> Owed(x)
    BY <2>1, <2>2 DEF Owed, Empty, Offers, ToRetire
  <2>6. Clean' <=> Clean
    BY <2>1 DEF Clean
  <2>. QED  BY <2>3, <2>4, <2>5, <2>6 DEF WorkerInv
<1>2. CASE DispatchNext \/ RetireWorker \/ MaybeResolve \/ AllOffered
  BY <1>2, DispatchNextKeepsWorkers, RetiringKeepsWorkers, ResolvingKeepsWorkers
<1>3. CASE \/ Stop
           \/ \E r \in Requests : \/ Ask(r) \/ Proceed(r) \/ StartAll(r) \/ StartProject(r)
                                  \/ NextWave(r)
  BY <1>3, RequestsKeepWorkers
<1>4. CASE \E r \in Requests : OpenDispatch(r) \/ EndDispatch(r)
  BY <1>4, OpenKeepsWorkers, EndingsKeepWorkers
<1>5. CASE FinishStartup \/ Save \/ RecycleStale \/ Escalate
  BY <1>5, RecyclingKeepsWorkers, EndingsKeepWorkers
<1>6. CASE \E s \in Slots : \/ WorkerUp(s) \/ UserRespawn(s) \/ ChildEnds(s) \/ ChannelCloses(s)
                            \/ ChildAnswers(s) \/ Deliver(s) \/ ExitSeen(s)
  BY <1>6, RecyclingKeepsWorkers, EndingsKeepWorkers, DeliverKeepsWorkers, ExitKeepsWorkers
<1>7. CASE \E b \in Buckets : AttemptEnds(b)
  BY <1>7, RecyclingKeepsWorkers
<1>. QED  BY <1>1, <1>2, <1>3, <1>4, <1>5, <1>6, <1>7 DEF Next, Server

\* Between two events of the event loop a busy worker owes an answer, or its end is
\* still to be seen, and an idle one has no file left in it: dispatchFilesParallel
\* never waits for a worker that has nothing to say, and no answer to one run is
\* taken for another's.
THEOREM BusyWorkersOwe == Spec => []BusyMeansOwed
<1>1. WorkerInv => BusyMeansOwed
  <2>. SUFFICES ASSUME WorkerInv, agenda = <<>>, Clean, NEW s \in Live
                PROVE  IF handle[s].busy
                       THEN Len(job[s]) + Len(mail[s]) = 1 \/ child[s] \in {"dead", "closed"}
                       ELSE job[s] = <<>> /\ mail[s] = <<>>
    BY DEF BusyMeansOwed, Clean
  <2>1. Owed(s)
    BY DEF WorkerInv, Live
  <2>2. ~ToRetire(s) /\ \A i \in Nat : ~Offers(i, s)
    BY EmptyIsSeq DEF ToRetire, Offers
  <2>. QED  BY <2>1, <2>2 DEF Owed, Empty
<1>2. UiInv /\ WorkerInv /\ [Next]_vars => (UiInv /\ WorkerInv)'
  BY UiStep, WorkerInvStep
<1>. QED  BY <1>1, <1>2, UiInvInit, WorkerInvInit, PTL DEF Spec

-----------------------------------------------------------------------------
(* Where the files of the run are: each is in one place, in the queue or   *)
(* with one worker, and is reported when it leaves it; the others wait for *)
(* their wave or have been reported.                                       *)

\* A file of the run under way that is for its current wave.
Mine == IF want[runner] = "all" THEN Projects ELSE {want[runner]}
InRun(f) == suite.project[f] \in Mine
TurnOf(f) == IF want[runner] = "all" THEN suite.wave[suite.project[f]] ELSE 1

\* The wave has its files: they wait for their targets, or are dispatched.
Under == \E r \in Requests : step[r] \in {"reviving", "dispatching"}

\* The file is with a worker, or in the queue.
HeldBy(s, f) == s \in Live /\ handle[s].file = f
Waits(f) == f \in ToSet(fileQueue) \/ \E s \in Slots : HeldBy(s, f)

Pending(name) == \E i \in 1..Len(agenda) : agenda[i].call = name

AccountTypeOK ==
    /\ suite \in Suites /\ DOMAIN want = Requests /\ wave \in Nat \ {0}
    /\ fileQueue \in Seq(Files) /\ \A s \in Slots : handle[s].file \in Files \cup {NoFile}
    /\ outcome = [f \in Files |-> outcome[f]] /\ times \in [Files -> Nat]
    /\ \A s \in respawning : s \in Slots /\ handle[s].there /\ handle[s].retired
    /\ \A s \in Slots : handle[s].active => handle[s].there

\* A file is in one place.
PlaceInv ==
    /\ \A i, j \in DOMAIN fileQueue : fileQueue[i] = fileQueue[j] => i = j
    /\ \A s \in Slots, f \in Files : HeldBy(s, f) =>
          /\ handle[s].busy /\ f \notin ToSet(fileQueue)
          /\ \A t \in Slots : HeldBy(t, f) => t = s

\* What a worker is on and what it answers is the file it holds.
JobInv(s) == s \in Live =>
    /\ job[s] # <<>> => handle[s].file # NoFile /\ job[s] = <<handle[s].file>>
    /\ mail[s] # <<>> => /\ handle[s].file # NoFile
                         /\ \E x \in {"passed", "failed", "error", "interrupted"} :
                               /\ mail[s] = <<[file |-> handle[s].file, result |-> x]>>
                               /\ x = "interrupted" => aborted
    /\ handle[s].busy /\ handle[s].file = NoFile => Offers(1, s)

\* What waits has not been reported and is of the wave.
WaitInv == \A f \in Files : Waits(f) => Under /\ times[f] = 0 /\ InRun(f) /\ TurnOf(f) = wave

\* What does not wait has been reported, unless its wave is still to come.
TimesInv == runner # Nobody => \A f \in Files :
    /\ times[f] \in {0, 1}
    /\ times[f] = 1 => InRun(f) /\ (TurnOf(f) < wave \/ (Under /\ TurnOf(f) = wave))
    /\ times[f] = 0 /\ InRun(f) /\ ~aborted =>
          TurnOf(f) > wave \/ (TurnOf(f) = wave /\ (~Under \/ Waits(f)))

OutcomeInv ==
    /\ runner = Nobody => ~anyFailed
    /\ runner # Nobody /\ ~aborted =>
          /\ \A f \in Files : times[f] = 1 => outcome[f] = "passed" \/ anyFailed
          /\ anyFailed => \E f \in Files : times[f] = 1 /\ outcome[f] \in {"failed", "unservable"}
          /\ failedProjects # {} => anyFailed
          /\ dispatch = "rejected" => anyFailed

VerdictInv == Honest /\ (runner # Nobody => verdict = NoVerdict)

DispatchInv ==
    /\ dispatch = "open" =>
          /\ (\E s \in Remaining : handle[s].busy) \/ Pending("maybeResolve") \/ Pending("offered")
          /\ offered \/ Pending("offered")
    /\ \A s \in Slots : ToRetire(s) =>
          s \in Remaining /\ (~aborted => \E t \in Remaining : handle[t].file # NoFile)
    /\ dispatch \in {"settled", "rejected"} /\ ~aborted => fileQueue = <<>>
    /\ \A i \in 1..Len(agenda), s \in Slots : Offers(i, s) /\ s \in Live => handle[s].file = NoFile

\* The situations in which it does not hold.
Calm == corner \cap {"closed", "clicked"} = {}

AccountInv ==
    /\ AccountTypeOK
    /\ Calm => /\ PlaceInv /\ WaitInv /\ TimesInv /\ OutcomeInv /\ VerdictInv /\ DispatchInv
               /\ \A s \in Slots : JobInv(s)

-----------------------------------------------------------------------------
(* The queue of a dispatch.                                                *)

\* No file is in the list twice.
OnceEach(q) == \A i, j \in DOMAIN q : q[i] = q[j] => i = j

\* What InOrder takes from a list, keeps or loses.
LEMMA InOrderTakes ==
    ASSUME NEW S, NEW q \in Seq(S), NEW fs, NEW p \in InOrder(q, fs)
    PROVE  /\ p \in Seq(S) /\ ToSet(p) = ToSet(q) \cap fs
           /\ OnceEach(q) => OnceEach(p)
<1>. DEFINE ns == {i \in DOMAIN q : q[i] \in fs}
            n == Cardinality(ns)
<1>1. DOMAIN q = 1..Len(q) /\ Len(q) \in Nat /\ \A i \in DOMAIN q : q[i] \in S
  BY LenProperties, ElementOfSeq
<1>2. n \in Nat
  <2>1. IsFiniteSet(1..Len(q)) /\ ns \in SUBSET (1..Len(q))
    BY <1>1, FS_Interval
  <2>. HIDE DEF ns
  <2>. QED  BY <2>1, FS_Subset, FS_CardinalityType
<1>3. PICK order \in Ascending(ns) : p = [i \in DOMAIN order |-> q[order[i]]]
  BY DEF InOrder
<1>. HIDE DEF n
<1>4. /\ order \in [1..n -> ns] /\ \A i \in ns : \E j \in 1..n : order[j] = i
      /\ \A i, j \in 1..n : i < j => order[i] < order[j]
  <2>1. order \in [1..n -> ns] /\ DOMAIN order = 1..n
    BY <1>3 DEF Ascending, n
  <2>2. ToSet(order) = ns /\ \A i, j \in DOMAIN order : i < j => order[i] < order[j]
    BY <1>3 DEF Ascending
  <2>. QED  BY <2>1, <2>2 DEF ToSet
<1>5. p = [i \in 1..n |-> q[order[i]]] /\ \A i \in 1..n : order[i] \in ns
  BY <1>3, <1>4
<1>6. \A i, j \in 1..n : order[i] = order[j] => i = j
  <2>1. ASSUME NEW i \in 1..n, NEW j \in 1..n, order[i] = order[j] PROVE i = j
    <3>1. order[i] \in Nat /\ order[j] \in Nat
      BY <1>1, <1>5
    <3>2. ~(order[i] < order[j]) /\ ~(order[j] < order[i])
      BY <2>1, <3>1
    <3>3. ~(i < j) /\ ~(j < i)
      BY <1>4, <3>2
    <3>. QED  BY <1>2, <3>3
  <2>. QED  BY <2>1
<1>7. p \in Seq(S)
  BY <1>1, <1>2, <1>5
<1>8. ToSet(p) = ToSet(q) \cap fs
  BY <1>1, <1>4, <1>5 DEF ToSet
<1>9. ASSUME OnceEach(q) PROVE OnceEach(p)
  <2>1. ASSUME NEW i \in 1..n, NEW j \in 1..n, p[i] = p[j] PROVE i = j
    <3>1. q[order[i]] = q[order[j]] /\ order[i] \in DOMAIN q /\ order[j] \in DOMAIN q
      BY <1>5, <2>1
    <3>2. order[i] = order[j]
      BY <1>9, <3>1 DEF OnceEach
    <3>. QED  BY <1>6, <3>2
  <2>2. DOMAIN p = 1..n
    BY <1>5
  <2>. QED  BY <2>1, <2>2 DEF OnceEach
<1>. QED  BY <1>7, <1>8, <1>9

LEMMA RemoveAtTakes ==
    ASSUME NEW S, NEW q \in Seq(S), NEW k \in 1..Len(q)
    PROVE  /\ RemoveAt(q, k) \in Seq(S)
           /\ OnceEach(q) => /\ OnceEach(RemoveAt(q, k))
                             /\ ToSet(RemoveAt(q, k)) = ToSet(q) \ {q[k]}
<1>. DEFINE n == Len(q)
            a == SubSeq(q, 1, k - 1)
            b == SubSeq(q, k + 1, n)
            p == RemoveAt(q, k)
<1>1. n \in Nat /\ DOMAIN q = 1..n /\ (\A i \in 1..n : q[i] \in S) /\ k \in 1..n
  BY LenProperties, ElementOfSeq
<1>2. a \in Seq(S) /\ Len(a) = k - 1 /\ \A i \in 1..(k - 1) : a[i] = q[i]
  <2>1. 1 \in Int /\ k - 1 \in Int /\ (\A i \in 1..(k - 1) : q[i] \in S) /\ (k - 1) - 1 + 1 = k - 1
    BY <1>1
  <2>2. /\ a \in Seq(S) /\ Len(a) = IF 1 <= k - 1 THEN (k - 1) - 1 + 1 ELSE 0
        /\ \A i \in 1..((k - 1) - 1 + 1) : a[i] = q[1 + i - 1]
    BY <2>1, SubSeqProperties
  <2>3. \A i \in 1..(k - 1) : 1 + i - 1 = i
    BY <1>1
  <2>. HIDE DEF a
  <2>. QED  BY <1>1, <2>1, <2>2, <2>3
<1>3. b \in Seq(S) /\ Len(b) = n - k /\ \A i \in 1..(n - k) : b[i] = q[k + i]
  <2>1. k + 1 \in Int /\ n \in Int /\ (\A i \in (k + 1)..n : q[i] \in S) /\ n - (k + 1) + 1 = n - k
    BY <1>1
  <2>2. /\ b \in Seq(S) /\ Len(b) = IF k + 1 <= n THEN n - (k + 1) + 1 ELSE 0
        /\ \A i \in 1..(n - (k + 1) + 1) : b[i] = q[(k + 1) + i - 1]
    BY <2>1, SubSeqProperties
  <2>. HIDE DEF b
  <2>3. ASSUME NEW i \in 1..(n - k) PROVE b[i] = q[k + i]
    <3>1. (k + 1) + i - 1 = k + i /\ i \in 1..(n - (k + 1) + 1)
      BY <1>1, <2>1
    <3>2. b[i] = q[(k + 1) + i - 1]
      BY <2>2, <3>1
    <3>. QED  BY <3>1, <3>2
  <2>4. Len(b) = n - k
    <3>. HIDE DEF n
    <3>1. n \in Nat /\ k \in 1..n /\ Len(b) = IF k + 1 <= n THEN n - (k + 1) + 1 ELSE 0
      BY <1>1, <2>2
    <3>. QED  BY <3>1
  <2>. QED  BY <2>2, <2>3, <2>4
<1>4. /\ p \in Seq(S) /\ Len(p) = n - 1 /\ DOMAIN p = 1..(n - 1)
      /\ \A i \in 1..(n - 1) : p[i] = IF i < k THEN q[i] ELSE q[i + 1]
  <2>. HIDE DEF a, b
  <2>0. p = a \o b
    BY DEF RemoveAt, a, b
  <2>. HIDE DEF p
  <2>1. /\ p \in Seq(S) /\ Len(p) = Len(a) + Len(b)
        /\ \A i \in 1..(Len(a) + Len(b)) : p[i] = IF i <= Len(a) THEN a[i] ELSE b[i - Len(a)]
    BY <1>2, <1>3, <2>0, ConcatProperties
  <2>2. Len(p) = n - 1 /\ DOMAIN p = 1..(n - 1)
    <3>1. Len(p) = n - 1
      BY <1>1, <1>2, <1>3, <2>1
    <3>. QED  BY <2>1, <3>1, LenProperties
  <2>3. ASSUME NEW i \in 1..(n - 1), i < k PROVE p[i] = q[i]
    <3>1. i \in 1..(Len(a) + Len(b)) /\ i <= Len(a) /\ i \in 1..(k - 1)
      BY <1>1, <1>2, <1>3, <2>3
    <3>. QED  BY <1>2, <2>1, <3>1
  <2>4. ASSUME NEW i \in 1..(n - 1), ~(i < k) PROVE p[i] = q[i + 1]
    <3>1. /\ i \in 1..(Len(a) + Len(b)) /\ ~(i <= Len(a)) /\ i - Len(a) \in 1..(n - k)
          /\ k + (i - Len(a)) = i + 1
      BY <1>1, <1>2, <1>3, <2>4
    <3>. QED  BY <1>3, <2>1, <3>1
  <2>. QED  BY <2>1, <2>2, <2>3, <2>4
<1>. HIDE DEF p, n
<1>5. ASSUME NEW i \in 1..n, i # k PROVE \E j \in 1..(n - 1) : p[j] = q[i]
  <2>1. CASE i < k
    <3>1. i \in 1..(n - 1)
      BY <1>1, <2>1
    <3>. QED  BY <1>4, <2>1, <3>1
  <2>2. CASE ~(i < k)
    <3>1. i - 1 \in 1..(n - 1) /\ ~(i - 1 < k) /\ (i - 1) + 1 = i
      BY <1>1, <1>5, <2>2
    <3>. QED  BY <1>4, <3>1
  <2>. QED  BY <2>1, <2>2
<1>6. \A i \in 1..(n - 1) : \E j \in 1..n : p[i] = q[j] /\ j # k /\ j = IF i < k THEN i ELSE i + 1
  BY <1>1, <1>4
<1>7. ASSUME OnceEach(q) PROVE ToSet(p) = ToSet(q) \ {q[k]}
  <2>1. \A i \in 1..n : i # k => q[i] # q[k]
    BY <1>1, <1>7 DEF OnceEach
  <2>2. ToSet(p) = {p[i] : i \in 1..(n - 1)} /\ ToSet(q) = {q[i] : i \in 1..n}
    BY <1>1, <1>4 DEF ToSet
  <2>3. ToSet(p) \subseteq ToSet(q) \ {q[k]}
    BY <1>6, <2>1, <2>2
  <2>4. \A x \in ToSet(q) \ {q[k]} : \E i \in 1..n : i # k /\ x = q[i]
    BY <2>2
  <2>5. ToSet(q) \ {q[k]} \subseteq ToSet(p)
    BY <1>5, <2>2, <2>4
  <2>. QED  BY <2>3, <2>5
<1>8. ASSUME OnceEach(q) PROVE OnceEach(p)
  <2>1. ASSUME NEW i \in 1..(n - 1), NEW j \in 1..(n - 1), p[i] = p[j] PROVE i = j
    <3>1. PICK g \in 1..n : p[i] = q[g] /\ g = IF i < k THEN i ELSE i + 1
      BY <1>6
    <3>2. PICK h \in 1..n : p[j] = q[h] /\ h = IF j < k THEN j ELSE j + 1
      BY <1>6
    <3>3. g = h
      BY <1>1, <1>8, <2>1, <3>1, <3>2 DEF OnceEach
    <3>. QED  BY <1>1, <3>1, <3>2, <3>3
  <2>. QED  BY <1>4, <2>1 DEF OnceEach
<1>. QED  BY <1>4, <1>7, <1>8 DEF p

LEMMA PutBackTakes ==
    ASSUME NEW S, NEW q \in Seq(S), OnceEach(q), NEW x \in S, x \notin ToSet(q)
    PROVE  /\ <<x>> \o q \in Seq(S) /\ OnceEach(<<x>> \o q)
           /\ ToSet(<<x>> \o q) = ToSet(q) \cup {x}
<1>. DEFINE p == <<x>> \o q
            n == Len(q)
<1>1. /\ p \in Seq(S) /\ Len(p) = n + 1 /\ n \in Nat /\ p[1] = x /\ \A i \in 1..n : p[i + 1] = q[i]
  BY OneBefore
<1>. HIDE DEF p, n
<1>2. DOMAIN p = 1..(n + 1) /\ DOMAIN q = 1..n
  BY <1>1, LenProperties DEF n
<1>3. ASSUME NEW i \in 1..(n + 1), i # 1 PROVE i - 1 \in 1..n /\ p[i] = q[i - 1]
  <2>1. i - 1 \in 1..n /\ (i - 1) + 1 = i
    BY <1>1, <1>3
  <2>. QED  BY <1>1, <2>1
<1>4. \A i \in 1..n : i + 1 \in 1..(n + 1)
  BY <1>1
<1>5. 1 \in 1..(n + 1) /\ n + 1 \in Nat
  BY <1>1
<1>6. ToSet(p) = ToSet(q) \cup {x}
  <2>1. ToSet(p) = {p[i] : i \in 1..(n + 1)} /\ ToSet(q) = {q[i] : i \in 1..n}
    BY <1>2 DEF ToSet
  <2>2. ASSUME NEW i \in 1..(n + 1) PROVE p[i] \in ToSet(q) \cup {x}
    BY <1>1, <1>3, <2>1
  <2>3. ASSUME NEW i \in 1..n PROVE q[i] \in ToSet(p)
    BY <1>1, <1>4, <2>1
  <2>4. x \in ToSet(p)
    BY <1>1, <1>5, <2>1
  <2>. QED  BY <2>1, <2>2, <2>3, <2>4
<1>7. OnceEach(p)
  <2>1. ASSUME NEW i \in 1..(n + 1), NEW j \in 1..(n + 1), p[i] = p[j] PROVE i = j
    <3>1. \A k \in 1..(n + 1) : k # 1 => p[k] # x
      BY <1>2, <1>3 DEF ToSet
    <3>2. CASE i = 1 \/ j = 1
      BY <1>1, <2>1, <3>1, <3>2
    <3>3. CASE i # 1 /\ j # 1
      <4>1. i - 1 = j - 1
        BY <1>2, <1>3, <2>1, <3>3 DEF OnceEach
      <4>. QED  BY <1>1, <4>1
    <3>. QED  BY <3>2, <3>3
  <2>. QED  BY <1>2, <2>1 DEF OnceEach
<1>. QED  BY <1>1, <1>6, <1>7 DEF p

-----------------------------------------------------------------------------
(* The accounts of a run: what a step may do to them.                      *)

\* The run and its wave go on.
SameRun ==
    /\ UNCHANGED <<suite, runner, wave, verdict>> /\ (runner # Nobody => want'[runner] = want[runner])
    /\ Under' <=> Under
    /\ aborted => aborted'

LEMMA SameTurns ==
    ASSUME SameRun, runner # Nobody, NEW f
    PROVE  (InRun(f)' <=> InRun(f)) /\ TurnOf(f)' = TurnOf(f)
BY DEF SameRun, InRun, Mine, TurnOf

LEMMA UnderRuns ==
    ASSUME UiInv
    PROVE  /\ Under => runner # Nobody
           /\ \A r \in Requests : step[r] \in {"reviving", "dispatching"} => Under /\ runner = r
           /\ dispatch # "none" => Under
BY UiAssumption DEF UiInv, UiTypeOK, RunInv, RunSteps, Under

\* The failures that a report of fs as result is to leave behind.
Blamed(fs, result) ==
    /\ anyFailed => anyFailed'
    /\ anyFailed' => anyFailed \/ (fs # {} /\ result \in {"failed", "unservable"})
    /\ fs # {} => result = "passed" \/ anyFailed'
    /\ failedProjects' # {} => failedProjects # {} \/ anyFailed'
    /\ dispatch' = "rejected" => dispatch = "rejected" \/ anyFailed'

Accounts == WaitInv /\ TimesInv /\ OutcomeInv /\ VerdictInv

\* What is said of a report by a run that goes on: which files it counts, and, if
\* no stop is under way, as what.
Told(fs, result) ==
    /\ outcome' = [f \in Files |-> outcome'[f]]
    /\ times' = [f \in Files |-> IF f \in fs THEN times[f] + 1 ELSE times[f]]
    /\ \A f \in Files \ fs : outcome'[f] = outcome[f]
    /\ ~aborted' => \A f \in fs \cap Files : outcome'[f] = result

LEMMA LostAreTold ==
    ASSUME AccountTypeOK, NEW cut, NEW orphans, ReportLost(cut, orphans), cut \cap orphans = {},
           aborted' \/ cut = {}
    PROVE  Told(cut \cup orphans, "unservable")
<1>1. \A f \in Files : times[f] \in Nat
  BY DEF AccountTypeOK
<1>2. ASSUME NEW f \in Files
      PROVE  times'[f] = IF f \in cut \cup orphans THEN times[f] + 1 ELSE times[f]
  <2>1. times'[f] = times[f] + (IF f \in cut THEN 1 ELSE 0) + (IF f \in orphans THEN 1 ELSE 0)
    BY DEF ReportLost
  <2>2. ~(f \in cut /\ f \in orphans)
    OBVIOUS
  <2>. QED  BY <1>1, <2>1, <2>2
<1>3. times' = [f \in Files |-> IF f \in cut \cup orphans THEN times[f] + 1 ELSE times[f]]
  BY <1>2 DEF ReportLost
<1>4. /\ outcome' = [f \in Files |-> outcome'[f]]
      /\ \A f \in Files \ (cut \cup orphans) : outcome'[f] = outcome[f]
      /\ ~aborted' => \A f \in (cut \cup orphans) \cap Files : outcome'[f] = "unservable"
  BY DEF ReportLost
<1>. QED  BY <1>3, <1>4 DEF Told

\* Files that waited are reported, no file is lost, and none comes back.
LEMMA FilesMove ==
    ASSUME UiInv, AccountTypeOK, Accounts, SameRun, NEW fs \in SUBSET Files, NEW result,
           Report(fs, result) \/ Told(fs, result),
           \A f \in fs : Waits(f), \A f \in Files : Waits(f)' => Waits(f) /\ f \notin fs,
           ~aborted' => \A f \in Files : Waits(f) => Waits(f)' \/ f \in fs,
           ~aborted' => Blamed(fs, result), runner = Nobody => anyFailed' = anyFailed
    PROVE  Accounts'
<1>0. Told(fs, result)
  BY DEF Report, Told
<1>1. /\ \A f \in Files \ fs : outcome'[f] = outcome[f]
      /\ ~aborted' => \A f \in fs \cap Files : outcome'[f] = result
      /\ \A f \in Files : times'[f] = IF f \in fs THEN times[f] + 1 ELSE times[f]
      /\ \A f \in Files : times[f] \in Nat
  BY <1>0 DEF Told, AccountTypeOK
<1>2. \A f \in fs : times[f] = 0 /\ times'[f] = 1 /\ Under /\ InRun(f) /\ TurnOf(f) = wave
  BY <1>1 DEF Accounts, WaitInv
<1>3. Under => runner # Nobody
  BY UnderRuns
<1>4. UNCHANGED <<runner, wave, verdict>> /\ (Under' <=> Under) /\ (aborted => aborted')
  BY DEF SameRun
<1>5. WaitInv'
  <2>. SUFFICES ASSUME NEW f \in Files, Waits(f)'
                PROVE  Under' /\ times'[f] = 0 /\ InRun(f)' /\ TurnOf(f)' = wave'
    BY DEF WaitInv
  <2>1. Waits(f) /\ f \notin fs
    OBVIOUS
  <2>2. Under /\ times[f] = 0 /\ InRun(f) /\ TurnOf(f) = wave
    BY <2>1 DEF Accounts, WaitInv
  <2>. QED  BY <1>1, <1>3, <1>4, <2>1, <2>2, SameTurns
<1>6. TimesInv'
  <2>. SUFFICES ASSUME runner # Nobody, NEW f \in Files
                PROVE  /\ times'[f] \in {0, 1}
                       /\ times'[f] = 1 => InRun(f)' /\ (TurnOf(f)' < wave' \/ (Under' /\ TurnOf(f)' = wave'))
                       /\ times'[f] = 0 /\ InRun(f)' /\ ~aborted' =>
                             TurnOf(f)' > wave' \/ (TurnOf(f)' = wave' /\ (~Under' \/ Waits(f)'))
    BY <1>4 DEF TimesInv
  <2>1. (InRun(f)' <=> InRun(f)) /\ TurnOf(f)' = TurnOf(f)
    BY SameTurns
  <2>2. CASE f \in fs
    BY <1>2, <1>4, <2>1, <2>2
  <2>3. CASE f \notin fs
    <3>1. times'[f] = times[f]
      BY <1>1, <2>3
    <3>2. /\ times[f] \in {0, 1}
          /\ times[f] = 1 => InRun(f) /\ (TurnOf(f) < wave \/ (Under /\ TurnOf(f) = wave))
          /\ times[f] = 0 /\ InRun(f) /\ ~aborted =>
                TurnOf(f) > wave \/ (TurnOf(f) = wave /\ (~Under \/ Waits(f)))
      BY DEF Accounts, TimesInv
    <3>. QED  BY <1>4, <2>1, <2>3, <3>1, <3>2
  <2>. QED  BY <2>2, <2>3
<1>7. OutcomeInv'
  <2>1. runner' = Nobody => ~anyFailed'
    BY <1>4 DEF Accounts, OutcomeInv
  <2>. SUFFICES ASSUME runner # Nobody, ~aborted'
                PROVE  /\ \A f \in Files : times'[f] = 1 => outcome'[f] = "passed" \/ anyFailed'
                       /\ anyFailed' => \E f \in Files : times'[f] = 1 /\ outcome'[f] \in {"failed", "unservable"}
                       /\ failedProjects' # {} => anyFailed'
                       /\ dispatch' = "rejected" => anyFailed'
    BY <1>4, <2>1 DEF OutcomeInv
  <2>2. Blamed(fs, result) /\ ~aborted
    BY <1>4
  <2>3. /\ \A f \in Files : times[f] = 1 => outcome[f] = "passed" \/ anyFailed
        /\ anyFailed => \E f \in Files : times[f] = 1 /\ outcome[f] \in {"failed", "unservable"}
        /\ failedProjects # {} => anyFailed
        /\ dispatch = "rejected" => anyFailed
    BY <2>2 DEF Accounts, OutcomeInv
  <2>4. \A f \in Files : times'[f] = 1 => outcome'[f] = "passed" \/ anyFailed'
    BY <1>1, <2>2, <2>3 DEF Blamed
  <2>5. ASSUME anyFailed' PROVE \E f \in Files : times'[f] = 1 /\ outcome'[f] \in {"failed", "unservable"}
    <3>1. CASE anyFailed
      <4>1. PICK f \in Files : times[f] = 1 /\ outcome[f] \in {"failed", "unservable"}
        BY <2>3, <3>1
      <4>2. f \notin fs
        BY <1>2, <4>1
      <4>. QED  BY <1>1, <4>1, <4>2
    <3>2. CASE fs # {} /\ result \in {"failed", "unservable"}
      <4>1. PICK f \in fs : TRUE
        BY <3>2
      <4>. QED  BY <1>1, <1>2, <3>2, <4>1
    <3>. QED  BY <2>2, <2>5, <3>1, <3>2 DEF Blamed
  <2>6. (failedProjects' # {} => anyFailed') /\ (dispatch' = "rejected" => anyFailed')
    BY <2>2, <2>3 DEF Blamed
  <2>. QED  BY <2>4, <2>5, <2>6
<1>8. VerdictInv'
  <2>1. CASE runner # Nobody
    <3>1. verdict' = NoVerdict
      BY <1>4, <2>1 DEF Accounts, VerdictInv
    <3>. QED  BY <3>1 DEF VerdictInv, Honest, NoVerdict
  <2>2. CASE runner = Nobody
    <3>1. fs = {}
      BY <1>2, <1>3, <2>2
    <3>2. outcome' = outcome /\ times' = times
      BY <1>0, <3>1 DEF Told, AccountTypeOK
    <3>. QED  BY <1>4, <2>2, <3>2 DEF Accounts, VerdictInv, Honest
  <2>. QED  BY <2>1, <2>2
<1>. QED  BY <1>5, <1>6, <1>7, <1>8 DEF Accounts

\* Nothing is reported.
LEMMA FilesStay ==
    ASSUME UiInv, AccountTypeOK, Accounts, SameRun,
           UNCHANGED <<outcome, times, anyFailed, failedProjects>>,
           dispatch' = "rejected" => dispatch = "rejected",
           \A f \in Files : Waits(f)' <=> Waits(f)
    PROVE  Accounts'
<1>1. Report({}, "none") /\ {} \in SUBSET Files
  BY DEF Report, AccountTypeOK
<1>2. Blamed({}, "none")
  BY DEF Blamed
<1>. QED  BY <1>1, <1>2, FilesMove

\* A worker of which nothing is taken but what it does.
Stays(s) ==
    /\ s \in Live' <=> s \in Live
    /\ s \in Live' => /\ handle'[s].file = handle[s].file /\ (handle'[s].busy <=> handle[s].busy)
                      /\ handle'[s].active <=> handle[s].active
    /\ job'[s] \in {job[s], <<>>} /\ mail'[s] \in {mail[s], <<>>}

\* A worker that has no file, and has none after the step.
Leaves(s) ==
    /\ s \in Live => ~handle[s].busy
    /\ s \in Live' => ~handle'[s].busy /\ handle'[s].file = NoFile /\ job'[s] = <<>> /\ mail'[s] = <<>>

LEMMA HoldersStay ==
    ASSUME PlaceInv, NEW s \in Slots, Stays(s) \/ Leaves(s), NEW f \in Files
    PROVE  (HeldBy(s, f)' <=> HeldBy(s, f)) /\ (HeldBy(s, f) => handle'[s].busy)
BY UiAssumption DEF PlaceInv, Stays, Leaves, HeldBy

\* A step that leaves the files where they are.
LEMMA PlacesStay ==
    ASSUME PlaceInv, fileQueue' = fileQueue,
           \A s \in Slots, f \in Files : (HeldBy(s, f)' <=> HeldBy(s, f)) /\ (HeldBy(s, f) => handle'[s].busy)
    PROVE  PlaceInv' /\ \A f \in Files : Waits(f)' <=> Waits(f)
BY DEF PlaceInv, Waits

LEMMA QuietDispatch ==
    ASSUME DispatchInv, agenda = <<>>, agenda' = <<>>, UNCHANGED <<dispatch, offered, fileQueue>>,
           aborted => aborted', \A s \in Slots : Stays(s) \/ Leaves(s)
    PROVE  DispatchInv'
<1>1. Len(agenda) = 0 /\ Len(agenda') = 0
  BY EmptyIsSeq
<1>2. ~Pending("maybeResolve") /\ ~Pending("offered")
  BY <1>1 DEF Pending
<1>3. \A s \in Remaining : handle[s].busy => s \in Remaining' /\ handle'[s].busy
  <2>. SUFFICES ASSUME NEW s \in Slots, s \in Live, handle[s].active, handle[s].busy
                PROVE  s \in Live' /\ handle'[s].active /\ handle'[s].busy
    BY DEF Remaining, Live
  <2>. QED  BY DEF Stays, Leaves
<1>. QED  BY <1>1, <1>2, <1>3 DEF DispatchInv, ToRetire

LEMMA QuietJob ==
    ASSUME NEW s \in Slots, JobInv(s), Stays(s) \/ Leaves(s), aborted => aborted',
           handle[s].busy /\ handle[s].file = NoFile /\ s \in Live => agenda # <<>> /\ agenda' = agenda
    PROVE  JobInv(s)'
<1>1. CASE Stays(s)
  BY <1>1 DEF JobInv, Stays, Offers
<1>2. CASE Leaves(s)
  BY <1>2 DEF JobInv, Leaves
<1>. QED  BY <1>1, <1>2

AccountParts == PlaceInv /\ Accounts /\ DispatchInv /\ \A s \in Slots : JobInv(s)

\* An event that leaves the files and the calls where they are.
LEMMA QuietAccount ==
    ASSUME UiInv, AccountInv, AccountTypeOK', agenda = <<>>, agenda' = <<>>, corner \subseteq corner', SameRun,
           UNCHANGED <<dispatch, offered, fileQueue, outcome, times, anyFailed, failedProjects>>,
           Calm' => \A s \in Slots : Stays(s) \/ Leaves(s)
    PROVE  AccountInv'
<1>. SUFFICES ASSUME Calm' PROVE AccountParts'
  BY DEF AccountInv, AccountParts, Accounts
<1>1. AccountTypeOK /\ AccountParts /\ \A s \in Slots : Stays(s) \/ Leaves(s)
  BY DEF AccountInv, AccountParts, Accounts, Calm
<1>2. \A s \in Slots, f \in Files : (HeldBy(s, f)' <=> HeldBy(s, f)) /\ (HeldBy(s, f) => handle'[s].busy)
  BY <1>1, HoldersStay DEF AccountParts
<1>3. PlaceInv' /\ \A f \in Files : Waits(f)' <=> Waits(f)
  BY <1>1, <1>2, PlacesStay DEF AccountParts
<1>4. Accounts'
  BY <1>1, <1>3, FilesStay DEF AccountParts
<1>5. DispatchInv'
  BY <1>1, QuietDispatch DEF AccountParts, SameRun
<1>6. ASSUME NEW s \in Slots PROVE JobInv(s)'
  <2>1. s \in Live /\ handle[s].busy => handle[s].file # NoFile
    <3>1. JobInv(s)
      BY <1>1 DEF AccountParts
    <3>2. ~Offers(1, s)
      BY EmptyIsSeq DEF Offers
    <3>. QED  BY <3>1, <3>2 DEF JobInv
  <2>. QED  BY <1>1, <2>1, QuietJob DEF AccountParts, SameRun
<1>. QED  BY <1>3, <1>4, <1>5, <1>6 DEF AccountParts

-----------------------------------------------------------------------------
(* The accounts: asking for a run and taking it.                           *)

LEMMA TurnIsWave ==
    ASSUME AccountTypeOK, NEW f \in Files
    PROVE  TurnOf(f) \in 1..2 /\ suite.project[f] \in Projects
BY UiAssumption DEF AccountTypeOK, TurnOf

\* Nobody waits for a worker while there is no dispatch.
LEMMA IdleWorkers ==
    ASSUME WorkerInv, AccountTypeOK, Clean, PlaceInv, dispatch # "open", NEW s \in Slots, s \in Live
    PROVE  ~handle[s].busy /\ Empty(s) /\ handle[s].file = NoFile
<1>1. ~handle[s].busy /\ Empty(s)
  BY DEF WorkerInv, Owed
<1>2. handle[s].file \in Files => HeldBy(s, handle[s].file)
  BY DEF HeldBy
<1>. QED  BY <1>1, <1>2 DEF AccountTypeOK, PlaceInv

\* markRunStarted, at the end of another run's accounts.
LEMMA MarkAccounts ==
    ASSUME UiInv, WorkerInv, AccountInv, AccountTypeOK', NEW r \in Requests, Mark(r), runner = Nobody,
           agenda = <<>>, agenda' = <<>>, corner \subseteq corner', ~Under',
           UNCHANGED <<suite, dispatch, fileQueue, anyFailed>>, \A s \in Slots : Stays(s) \/ Leaves(s)
    PROVE  AccountInv'
<1>. SUFFICES ASSUME Calm' PROVE AccountParts'
  BY DEF AccountInv, AccountParts, Accounts
<1>1. AccountTypeOK /\ AccountParts /\ Clean
  BY DEF AccountInv, AccountParts, Accounts, Calm, Clean
<1>2. dispatch = "none" /\ ~Under
  BY UnderRuns
<1>3. \A s \in Slots, f \in Files : (HeldBy(s, f)' <=> HeldBy(s, f)) /\ (HeldBy(s, f) => handle'[s].busy)
  BY <1>1, HoldersStay DEF AccountParts
<1>4. PlaceInv' /\ \A f \in Files : Waits(f)' <=> Waits(f)
  BY <1>1, <1>3, PlacesStay DEF AccountParts
<1>5. \A f \in Files : ~Waits(f)'
  BY <1>1, <1>2, <1>4 DEF AccountParts, Accounts, WaitInv
<1>6. /\ runner' = r /\ r # Nobody /\ wave' = 1 /\ failedProjects' = {} /\ verdict' = NoVerdict
      /\ \A f \in Files : times'[f] = 0
  BY UiAssumption DEF Mark
<1>7. WaitInv'
  BY <1>5 DEF WaitInv
<1>8. TimesInv'
  <2>1. \A f \in Files : TurnOf(f)' \in 1..2
    BY TurnIsWave, UiAssumption DEF AccountTypeOK, TurnOf
  <2>. QED  BY <1>6, <2>1 DEF TimesInv
<1>9. OutcomeInv'
  BY <1>1, <1>2, <1>6 DEF AccountParts, Accounts, OutcomeInv
<1>10. VerdictInv'
  BY <1>6 DEF VerdictInv, Honest, NoVerdict
<1>11. DispatchInv'
  BY <1>2, EmptyIsSeq DEF DispatchInv, ToRetire
<1>12. ASSUME NEW s \in Slots PROVE JobInv(s)'
  <2>1. s \in Live => ~handle[s].busy /\ Empty(s)
    BY <1>1, <1>2, IdleWorkers DEF AccountParts
  <2>2. s \in Live' => ~handle'[s].busy /\ job'[s] = <<>> /\ mail'[s] = <<>>
    BY <2>1 DEF Stays, Leaves, Empty
  <2>. QED  BY <2>2 DEF JobInv
<1>. QED  BY <1>4, <1>7, <1>8, <1>9, <1>10, <1>11, <1>12 DEF AccountParts, Accounts

\* A request that is not the run leaves the run alone.
LEMMA AsideRun ==
    ASSUME UiInv, AccountTypeOK, NEW r \in Requests, step[r] \notin RunSteps,
           NEW to, to \notin {"reviving", "dispatching"}, step' = [step EXCEPT ![r] = to],
           want' = want \/ \E w : want' = [want EXCEPT ![r] = w],
           UNCHANGED <<suite, runner, wave, verdict, aborted>>
    PROVE  SameRun
<1>1. runner # r
  BY DEF UiInv, RunInv
<1>2. runner # Nobody => want'[runner] = want[runner]
  BY <1>1 DEF UiInv, UiTypeOK, AccountTypeOK
<1>3. \A q \in Requests : step'[q] = IF q = r THEN to ELSE step[q]
  BY DEF UiInv, UiTypeOK
<1>4. Under' <=> Under
  BY <1>3 DEF Under, RunSteps
<1>. QED  BY <1>2, <1>4 DEF SameRun

LEMMA RespawnAllKeeps ==
    ASSUME UiTypeOK, NEW ss, RespawnAll(ss), NEW s \in Slots
    PROVE  /\ handle'[s].file = handle[s].file /\ (handle'[s].there <=> handle[s].there)
           /\ handle'[s].busy <=> handle[s].busy
           /\ handle'[s].active <=> handle[s].active
           /\ s \notin ss => (handle'[s].retired <=> handle[s].retired)
           /\ s \in ss \/ handle[s].retired => handle'[s].retired
<1>1. handle'[s] = IF s \in ss THEN [handle[s] EXCEPT !.retired = TRUE] ELSE handle[s]
  BY DEF RespawnAll
<1>. QED  BY <1>1 DEF UiTypeOK, IsHandle

\* Idle workers are recycled, and dead ones replaced.
LEMMA RecyclingLeaves ==
    ASSUME UiTypeOK, AccountTypeOK, NEW ss, RespawnAll(ss), ss \subseteq {s \in Slots : handle[s].there},
           \A s \in ss : handle[s].retired \/ ~handle[s].busy, UNCHANGED <<job, mail>>
    PROVE  /\ \A s \in Slots : handle'[s].file \in Files \cup {NoFile}
           /\ \A s \in respawning' : s \in Slots /\ handle'[s].there /\ handle'[s].retired
           /\ \A s \in Slots : handle'[s].active => handle'[s].there
           /\ \A s \in Slots : Stays(s) \/ Leaves(s)
<1>1. \A s \in Slots : handle'[s].file \in Files \cup {NoFile} /\ (handle'[s].active => handle'[s].there)
  BY RespawnAllKeeps DEF AccountTypeOK
<1>2. ASSUME NEW s \in respawning' PROVE s \in Slots /\ handle'[s].there /\ handle'[s].retired
  <2>1. s \in Slots /\ handle[s].there /\ (s \in ss \/ handle[s].retired)
    <3>1. s \in respawning \/ s \in ss
      BY DEF RespawnAll
    <3>. QED  BY <3>1 DEF AccountTypeOK
  <2>. QED  BY <2>1, RespawnAllKeeps
<1>3. ASSUME NEW s \in Slots PROVE Stays(s) \/ Leaves(s)
  <2>1. CASE s \in ss
    <3>1. s \notin Live' /\ (s \in Live => ~handle[s].busy)
      BY <2>1, RespawnAllKeeps DEF Live
    <3>. QED  BY <3>1 DEF Leaves
  <2>2. CASE s \notin ss
    BY <2>2, RespawnAllKeeps DEF Stays, Live
  <2>. QED  BY <2>1, <2>2
<1>. QED  BY <1>1, <1>2, <1>3

\* ensureWorkersReady leaves the busy workers alone.
LEMMA EnteringAccounts ==
    ASSUME UiInv, AccountTypeOK, NEW r \in Requests, NEW what, NEW held, EnterRun(r, what, held),
           UNCHANGED <<suite, fileQueue, job, mail>>
    PROVE  /\ AccountTypeOK' /\ \A s \in Slots : Stays(s) \/ Leaves(s)
           /\ \/ Mark(r) /\ runner = Nobody /\ step' = [step EXCEPT ![r] = "marked"]
              \/ UNCHANGED <<runVars, outcome, times, verdict>>
           /\ \E to \in {"none", "readying", "marked"} : step' = [step EXCEPT ![r] = to]
           /\ \E w : want' = [want EXCEPT ![r] = w]
<1>1. UiTypeOK
  BY DEF UiInv
<1>2. /\ \/ Mark(r) /\ runner = Nobody /\ step' = [step EXCEPT ![r] = "marked"]
         \/ UNCHANGED <<runVars, outcome, times, verdict>>
      /\ \E to \in {"none", "readying", "marked"} : step' = [step EXCEPT ![r] = to]
      /\ \E w : want' = [want EXCEPT ![r] = w]
      /\ RespawnAll(Unready) \/ UNCHANGED <<handle, respawning>>
  BY DEF EnterRun, Goes, NoRun, EnsureReady
<1>3. /\ \A s \in Slots : handle'[s].file \in Files \cup {NoFile}
      /\ \A s \in respawning' : s \in Slots /\ handle'[s].there /\ handle'[s].retired
      /\ \A s \in Slots : handle'[s].active => handle'[s].there
      /\ \A s \in Slots : Stays(s) \/ Leaves(s)
  <2>1. CASE RespawnAll(Unready)
    <3>1. Unready \subseteq {s \in Slots : handle[s].there} /\ \A s \in Unready : handle[s].retired \/ ~handle[s].busy
      BY DEF Unready
    <3>. QED  BY <1>1, <2>1, <3>1, RecyclingLeaves
  <2>2. CASE UNCHANGED <<handle, respawning>>
    BY <2>2 DEF AccountTypeOK, Stays, Live
  <2>. QED  BY <1>2, <2>1, <2>2
<1>4. /\ outcome' = [f \in Files |-> outcome'[f]] /\ times' \in [Files -> Nat] /\ wave' \in Nat \ {0}
      /\ DOMAIN want' = Requests
  BY <1>2 DEF Mark, runVars, AccountTypeOK
<1>. QED  BY <1>2, <1>3, <1>4 DEF AccountTypeOK

\* No request is under way with its wave but the run.
LEMMA NotUnder ==
    ASSUME UiInv, runner = Nobody, NEW r \in Requests, NEW to, to \notin {"reviving", "dispatching"},
           step' = [step EXCEPT ![r] = to]
    PROVE  ~Under'
<1>1. \A q \in Requests : step'[q] = IF q = r THEN to ELSE step[q]
  BY DEF UiInv, UiTypeOK
<1>2. ~Under
  BY UnderRuns
<1>. QED  BY <1>1, <1>2 DEF Under

\* A request that is not the run moves on.
LEMMA AsideKeepsAccounts ==
    ASSUME UiInv, AccountInv, agenda = <<>>, corner \subseteq corner',
           UNCHANGED <<suite, agenda, job, mail, dispatch, offered, fileQueue, anyFailed>>,
           UNCHANGED <<handle, respawning, runner, aborted, wave, failedProjects, outcome, times, verdict>>,
           NEW q \in Requests, step[q] \notin RunSteps, NEW to, to \notin {"reviving", "dispatching"},
           step' = [step EXCEPT ![q] = to], want' = want \/ \E w : want' = [want EXCEPT ![q] = w]
    PROVE  AccountInv'
<1>1. AccountTypeOK
  BY DEF AccountInv
<1>2. SameRun
  BY <1>1, AsideRun
<1>3. AccountTypeOK' /\ \A s \in Slots : Stays(s)
  BY <1>1 DEF AccountTypeOK, Stays, Live
<1>. QED  BY <1>2, <1>3, QuietAccount

\* A request is made, released or turned away, or becomes the run.
LEMMA RequestsKeepAccounts ==
    ASSUME UiInv, WorkerInv, AccountInv, NEW r \in Requests,
           Ask(r) \/ Proceed(r) \/ StartAll(r) \/ StartProject(r)
    PROVE  AccountInv'
<1>1. UiTypeOK /\ RunInv /\ GateInv /\ AccountTypeOK
  BY DEF UiInv, AccountInv
<1>2. /\ agenda = <<>> /\ corner \subseteq corner'
      /\ UNCHANGED <<suite, agenda, job, mail, dispatch, offered, fileQueue, anyFailed>>
  BY DEF Ask, Proceed, StartAll, StartProject, Stop, Event, dispatchVars, workerVars, ghostVars
<1>3. ASSUME NEW what, NEW held, EnterRun(r, what, held), step[r] \notin RunSteps PROVE AccountInv'
  <2>1. /\ AccountTypeOK' /\ \A s \in Slots : Stays(s) \/ Leaves(s)
        /\ \/ Mark(r) /\ runner = Nobody /\ step' = [step EXCEPT ![r] = "marked"]
           \/ UNCHANGED <<runVars, outcome, times, verdict>>
        /\ \E to \in {"none", "readying", "marked"} : step' = [step EXCEPT ![r] = to]
        /\ \E w : want' = [want EXCEPT ![r] = w]
    BY <1>1, <1>2, <1>3, EnteringAccounts
  <2>2. CASE Mark(r) /\ runner = Nobody /\ step' = [step EXCEPT ![r] = "marked"]
    <3>1. ~Under'
      BY <2>2, NotUnder
    <3>. QED  BY <1>2, <2>1, <2>2, <3>1, MarkAccounts
  <2>3. CASE UNCHANGED <<runVars, outcome, times, verdict>>
    <3>1. PICK to \in {"none", "readying", "marked"} : step' = [step EXCEPT ![r] = to]
      BY <2>1
    <3>2. UNCHANGED <<runner, aborted, wave, failedProjects>>
      BY <2>3 DEF runVars
    <3>3. SameRun
      BY <1>1, <1>2, <1>3, <2>1, <2>3, <3>1, <3>2, AsideRun
    <3>. QED  BY <1>2, <2>1, <2>3, <3>2, <3>3, QuietAccount
  <2>. QED  BY <2>1, <2>2, <2>3
<1>4. ASSUME UNCHANGED <<handle, respawning>> PROVE \A s \in Slots : Stays(s) \/ Leaves(s)
  BY <1>2, <1>4 DEF Stays, Live
<1>5. ASSUME step[r] \notin RunSteps, NEW to, to \notin {"reviving", "dispatching"},
             step' = [step EXCEPT ![r] = to], want' = want \/ \E w : want' = [want EXCEPT ![r] = w],
             UNCHANGED <<handle, respawning, runner, aborted, wave, failedProjects, outcome, times, verdict>>
      PROVE  AccountInv'
  BY <1>2, <1>5, AsideKeepsAccounts
<1>6. CASE Ask(r)
  <2>1. step[r] = "none"
    BY <1>6 DEF Ask
  <2>2. PICK what : \/ /\ Goes(r, "waiting", what, TRUE)
                       /\ UNCHANGED <<handle, respawning, runVars, outcome, times, verdict>>
                    \/ EnterRun(r, what, FALSE)
    BY <1>6 DEF Ask
  <2>3. CASE Goes(r, "waiting", what, TRUE) /\ UNCHANGED <<handle, respawning, runVars, outcome, times, verdict>>
    BY <1>5, <2>1, <2>3 DEF Goes, runVars, RunSteps
  <2>. QED  BY <1>3, <2>1, <2>2, <2>3 DEF RunSteps
<1>7. CASE Proceed(r)
  <2>1. step[r] = "gated"
    BY <1>7 DEF Proceed
  <2>2. \/ NoRun(r) /\ UNCHANGED <<handle, respawning, runVars, outcome, times, verdict>>
        \/ EnterRun(r, want[r], TRUE)
    BY <1>7 DEF Proceed
  <2>3. CASE NoRun(r) /\ UNCHANGED <<handle, respawning, runVars, outcome, times, verdict>>
    BY <1>5, <2>1, <2>3 DEF NoRun, Goes, runVars, RunSteps
  <2>. QED  BY <1>3, <2>1, <2>2, <2>3 DEF RunSteps
<1>8. CASE StartAll(r)
  <2>1. step[r] = "readying" /\ UNCHANGED <<handle, respawning>>
    BY <1>8 DEF StartAll, workerVars
  <2>2. \/ runner = Nobody /\ Mark(r) /\ Goes(r, "between", want[r], waited[r])
        \/ NoRun(r) /\ UNCHANGED <<runVars, outcome, times, verdict>>
    BY <1>8 DEF StartAll
  <2>3. CASE runner = Nobody /\ Mark(r) /\ Goes(r, "between", want[r], waited[r])
    <3>1. ~Under'
      BY <2>3, NotUnder DEF Goes
    <3>2. AccountTypeOK'
      BY <1>1, <1>2, <2>1, <2>3 DEF AccountTypeOK, Mark, Goes
    <3>. QED  BY <1>2, <1>4, <2>1, <2>3, <3>1, <3>2, MarkAccounts
  <2>4. CASE NoRun(r) /\ UNCHANGED <<runVars, outcome, times, verdict>>
    BY <1>5, <2>1, <2>4 DEF NoRun, Goes, runVars, RunSteps
  <2>. QED  BY <2>2, <2>3, <2>4
<1>9. CASE StartProject(r)
  <2>1. /\ step[r] = "marked" /\ step' = [step EXCEPT ![r] = "between"]
        /\ UNCHANGED <<handle, respawning, want, runVars, outcome, times, verdict>>
    BY <1>9 DEF StartProject, workerVars
  <2>2. Under' <=> Under
    <3>1. \A q \in Requests : step'[q] = IF q = r THEN "between" ELSE step[q]
      BY <1>1, <2>1 DEF UiTypeOK
    <3>. QED  BY <2>1, <3>1 DEF Under
  <2>3. SameRun
    BY <1>2, <2>1, <2>2 DEF SameRun, runVars
  <2>4. AccountTypeOK'
    BY <1>1, <1>2, <2>1 DEF AccountTypeOK, runVars
  <2>. QED  BY <1>2, <1>4, <2>1, <2>3, <2>4, QuietAccount DEF runVars
<1>. QED  BY <1>6, <1>7, <1>8, <1>9

\* Stop.
LEMMA StopKeepsAccounts ==
    ASSUME UiInv, WorkerInv, AccountInv, Stop
    PROVE  AccountInv'
<1>1. UiTypeOK /\ GateInv /\ AccountTypeOK
  BY DEF UiInv, AccountInv
<1>2. /\ agenda = <<>> /\ corner \subseteq corner'
      /\ UNCHANGED <<suite, agenda, job, mail, dispatch, offered, fileQueue, anyFailed>>
      /\ UNCHANGED <<runner, wave, failedProjects, handle, respawning, outcome, times, verdict>>
  BY DEF Stop, Event, dispatchVars, workerVars
<1>3. \/ waiter # Nobody /\ NoRun(waiter) /\ aborted' = aborted
      \/ UNCHANGED <<step, want>> /\ (aborted => aborted')
  BY DEF Stop, Cancel
<1>4. CASE waiter # Nobody /\ NoRun(waiter) /\ aborted' = aborted
  <2>1. waiter \in Requests /\ step[waiter] \notin RunSteps
    BY <1>1, <1>4 DEF UiTypeOK, GateInv, RunSteps
  <2>2. step' = [step EXCEPT ![waiter] = "none"] /\ want' = [want EXCEPT ![waiter] = "all"]
    BY <1>4 DEF NoRun, Goes
  <2>. QED  BY <1>2, <1>4, <2>1, <2>2, AsideKeepsAccounts
<1>5. CASE UNCHANGED <<step, want>> /\ (aborted => aborted')
  <2>1. SameRun
    BY <1>2, <1>5 DEF SameRun, Under
  <2>2. AccountTypeOK' /\ \A s \in Slots : Stays(s)
    BY <1>1, <1>2, <1>5 DEF AccountTypeOK, Stays, Live
  <2>. QED  BY <1>2, <2>1, <2>2, QuietAccount
<1>. QED  BY <1>3, <1>4, <1>5

-----------------------------------------------------------------------------
(* The accounts: workers come and go.                                      *)

\* Between two events a busy worker holds a file.
LEMMA BusyHolds ==
    ASSUME agenda = <<>>, NEW s \in Slots, JobInv(s), s \in Live, handle[s].busy
    PROVE  handle[s].file # NoFile
<1>1. ~Offers(1, s)
  BY EmptyIsSeq DEF Offers
<1>. QED  BY <1>1 DEF JobInv

LEMMA RecyclingKeepsAccounts ==
    ASSUME UiInv, WorkerInv, AccountInv, \/ FinishStartup \/ Save \/ RecycleStale
                                         \/ \E s \in Slots : WorkerUp(s) \/ UserRespawn(s)
                                         \/ \E b \in Buckets : AttemptEnds(b)
    PROVE  AccountInv'
<1>1. UiTypeOK /\ WorkerTypeOK /\ AccountTypeOK
  BY DEF UiInv, WorkerInv, AccountInv
<1>2. Calm' /\ corner \subseteq corner' => Clean /\ \A s \in Slots : Owed(s)
  BY DEF WorkerInv, Clean, Calm
<1>3. CASE FinishStartup
  <2>1. PICK up \in SUBSET Slots : \E gone \in SUBSET up :
           /\ handle' = [s \in Slots |-> IF s \notin up THEN Absent
                                         ELSE [Fresh EXCEPT !.retired = s \in gone]]
           /\ IF waiter = Nobody
              THEN UNCHANGED <<step, respawning>>
              ELSE step' = [step EXCEPT ![waiter] = "gated"] /\ respawning' = gone
    BY <1>3 DEF FinishStartup
  <2>2. PICK gone \in SUBSET up :
           /\ handle' = [s \in Slots |-> IF s \notin up THEN Absent
                                         ELSE [Fresh EXCEPT !.retired = s \in gone]]
           /\ IF waiter = Nobody
              THEN UNCHANGED <<step, respawning>>
              ELSE step' = [step EXCEPT ![waiter] = "gated"] /\ respawning' = gone
    BY <2>1
  <2>3. /\ starting
        /\ UNCHANGED <<suite, want, runner, aborted, wave, failedProjects, dispatch, offered, fileQueue,
                       anyFailed, agenda, job, mail, outcome, times, verdict, corner>>
    BY <1>3 DEF FinishStartup, runVars, dispatchVars, reportVars, ghostVars
  <2>4. /\ agenda = <<>> /\ runner = Nobody /\ respawning = {}
        /\ \A s \in Slots : ~handle[s].there /\ s \notin Live
    BY <2>3, NothingYet
  <2>5. ASSUME NEW s \in Slots
        PROVE  /\ handle'[s].file = NoFile /\ ~handle'[s].busy /\ ~handle'[s].active
               /\ s \in gone => handle'[s].there /\ handle'[s].retired
    <3>. DEFINE b == s \in gone
    <3>1. handle'[s] = (IF s \notin up THEN Absent ELSE [Fresh EXCEPT !.retired = b]) /\ b \in BOOLEAN
      BY <2>2
    <3>2. b => s \in up
      OBVIOUS
    <3>. HIDE DEF b
    <3>3. handle'[s].file = NoFile /\ ~handle'[s].busy /\ ~handle'[s].active
      BY <3>1 DEF Fresh, Absent
    <3>4. b => handle'[s].there /\ handle'[s].retired
      BY <3>1, <3>2 DEF Fresh, Absent
    <3>. QED  BY <3>3, <3>4 DEF b
  <2>6. AccountTypeOK'
    BY <1>1, <2>2, <2>3, <2>4, <2>5 DEF AccountTypeOK
  <2>7. ~Under' /\ ~Under
    <3>1. ~Under
      BY <2>4, UnderRuns
    <3>2. CASE waiter = Nobody
      BY <2>2, <3>1, <3>2 DEF Under
    <3>3. CASE waiter # Nobody
      BY <1>1, <2>2, <2>4, <3>1, <3>3, NotUnder DEF UiTypeOK
    <3>. QED  BY <3>1, <3>2, <3>3
  <2>8. SameRun
    BY <2>3, <2>7 DEF SameRun
  <2>9. ASSUME Calm', NEW s \in Slots PROVE Leaves(s)
    <3>1. job'[s] = <<>> /\ mail'[s] = <<>>
      BY <1>2, <2>3, <2>4, <2>9 DEF Owed, Empty
    <3>. QED  BY <2>4, <2>5, <3>1 DEF Leaves
  <2>. QED  BY <2>3, <2>4, <2>6, <2>8, <2>9, QuietAccount
<1>4. ASSUME UNCHANGED <<suite, requestVars, runner, aborted, wave, failedProjects, dispatchVars, reportVars>>
      PROVE  /\ SameRun
             /\ UNCHANGED <<dispatch, offered, fileQueue, agenda, outcome, times, anyFailed, failedProjects>>
  BY <1>4 DEF SameRun, Under, requestVars, dispatchVars, reportVars
<1>5. ASSUME UNCHANGED <<suite, requestVars, runner, aborted, wave, failedProjects, dispatchVars, reportVars>>,
             \A s \in Slots : handle'[s].file \in Files \cup {NoFile},
             \A s \in respawning' : s \in Slots /\ handle'[s].there /\ handle'[s].retired,
             \A s \in Slots : handle'[s].active => handle'[s].there
      PROVE  AccountTypeOK'
  BY <1>1, <1>5 DEF AccountTypeOK, requestVars, dispatchVars, reportVars
<1>6. CASE Save
  <2>1. /\ handle' = [s \in Slots |-> IF s \in Live THEN [handle[s] EXCEPT !.stale = TRUE] ELSE handle[s]]
        /\ agenda = <<>> /\ UNCHANGED <<job, mail, corner, respawning>>
        /\ UNCHANGED <<suite, requestVars, runner, aborted, wave, failedProjects, dispatchVars, reportVars>>
    BY <1>6 DEF Save, Event, ghostVars, runVars
  <2>2. ASSUME NEW s \in Slots
        PROVE  /\ handle'[s].file = handle[s].file /\ (handle'[s].busy <=> handle[s].busy)
               /\ (handle'[s].there <=> handle[s].there) /\ (handle'[s].retired <=> handle[s].retired)
               /\ handle'[s].active <=> handle[s].active
    BY <1>1, <2>1 DEF UiTypeOK, IsHandle
  <2>3. AccountTypeOK'
    BY <1>1, <1>5, <2>1, <2>2 DEF AccountTypeOK
  <2>4. \A s \in Slots : Stays(s)
    BY <2>1, <2>2 DEF Stays, Live
  <2>. QED  BY <1>4, <2>1, <2>3, <2>4, QuietAccount
<1>7. CASE RecycleStale
  <2>1. PICK ss \in SUBSET {s \in Live : handle[s].stale /\ ~handle[s].busy} :
           RespawnAll(IF runner = Nobody THEN ss ELSE {})
    BY <1>7 DEF RecycleStale
  <2>2. /\ agenda = <<>> /\ UNCHANGED <<job, mail, corner>>
        /\ UNCHANGED <<suite, requestVars, runner, aborted, wave, failedProjects, dispatchVars, reportVars>>
    BY <1>7 DEF RecycleStale, Event, ghostVars, runVars
  <2>3. PICK tt : /\ RespawnAll(tt) /\ tt \subseteq {s \in Slots : handle[s].there}
                  /\ \A s \in tt : ~handle[s].busy
    BY <2>1 DEF Live
  <2>4. /\ \A s \in Slots : handle'[s].file \in Files \cup {NoFile}
        /\ \A s \in respawning' : s \in Slots /\ handle'[s].there /\ handle'[s].retired
        /\ \A s \in Slots : handle'[s].active => handle'[s].there
        /\ \A s \in Slots : Stays(s) \/ Leaves(s)
    BY <1>1, <2>2, <2>3, RecyclingLeaves
  <2>5. AccountTypeOK'
    BY <1>5, <2>2, <2>4
  <2>. QED  BY <1>4, <2>2, <2>4, <2>5, QuietAccount
<1>11. Fresh.file = NoFile /\ ~Fresh.active /\ Fresh.there
  BY DEF Fresh, Absent
<1>8. ASSUME NEW s \in Slots, WorkerUp(s) PROVE AccountInv'
  <2>1. /\ agenda = <<>> /\ UNCHANGED corner /\ s \in respawning /\ respawning' = respawning \ {s}
        /\ UNCHANGED <<suite, want, step, runner, aborted, wave, failedProjects, dispatchVars, reportVars>>
        /\ \/ UNCHANGED <<handle, job, mail>>
           \/ /\ handle' = [handle EXCEPT ![s] = Fresh]
              /\ job' = [job EXCEPT ![s] = <<>>] /\ mail' = [mail EXCEPT ![s] = <<>>]
    BY <1>8 DEF WorkerUp, RespawnReady, RespawnFails, Event, ghostVars, runVars
  <2>2. SameRun
    BY <2>1 DEF SameRun, Under, reportVars
  <2>3. s \notin Live
    BY <1>1, <2>1 DEF AccountTypeOK, Live
  <2>4. ASSUME NEW x \in Slots
        PROVE  \/ handle'[x] = handle[x] /\ job'[x] = job[x] /\ mail'[x] = mail[x]
               \/ x = s /\ handle'[x] = Fresh /\ job'[x] = <<>> /\ mail'[x] = <<>>
    BY <1>1, <2>1 DEF UiTypeOK, WorkerTypeOK
  <2>5. ASSUME NEW x \in Slots PROVE Stays(x) \/ Leaves(x)
    BY <2>3, <2>4 DEF Stays, Leaves, Live, Fresh, Absent
  <2>6. \A x \in Slots : handle'[x].file \in Files \cup {NoFile} /\ (handle'[x].active => handle'[x].there)
    BY <1>1, <1>11, <2>4 DEF AccountTypeOK
  <2>7. \A x \in respawning' : x \in Slots /\ handle'[x].there /\ handle'[x].retired
    BY <1>1, <2>1, <2>4 DEF AccountTypeOK
  <2>8. AccountTypeOK'
    BY <1>1, <2>1, <2>6, <2>7 DEF AccountTypeOK, dispatchVars, reportVars
  <2>. QED  BY <2>1, <2>2, <2>5, <2>8, QuietAccount DEF dispatchVars, reportVars
<1>9. ASSUME NEW s \in Slots, UserRespawn(s) PROVE AccountInv'
  <2>1. /\ handle' = [x \in Slots |->
              IF x = s /\ x \in Live THEN [handle[x] EXCEPT !.retired = TRUE, !.busy = FALSE]
              ELSE IF x \in {s} \cup Unready THEN [handle[x] EXCEPT !.retired = TRUE] ELSE handle[x]]
        /\ respawning' = respawning \cup ({s} \cup Unready) /\ handle[s].there
        /\ agenda = <<>> /\ UNCHANGED <<job, mail>> /\ corner \subseteq corner'
        /\ s \in Live /\ handle[s].busy => "clicked" \in corner'
        /\ UNCHANGED <<suite, requestVars, runner, aborted, wave, failedProjects, dispatchVars, reportVars>>
    BY <1>9 DEF UserRespawn, Event, runVars
  <2>2. ASSUME NEW x \in Slots
        PROVE  /\ handle'[x].file = handle[x].file /\ (handle'[x].there <=> handle[x].there)
               /\ handle'[x].active <=> handle[x].active
               /\ x \in {s} \cup Unready \/ handle[x].retired => handle'[x].retired
               /\ x \notin {s} \cup Unready => handle'[x] = handle[x]
    BY <1>1, <2>1 DEF UiTypeOK, IsHandle
  <2>3. AccountTypeOK'
    <3>1. ASSUME NEW x \in respawning' PROVE x \in Slots /\ handle'[x].there /\ handle'[x].retired
      <4>1. x \in Slots /\ handle[x].there /\ (x \in {s} \cup Unready \/ handle[x].retired)
        BY <1>1, <2>1, <3>1 DEF AccountTypeOK, Unready
      <4>. QED  BY <2>2, <4>1
    <3>. QED  BY <1>1, <1>5, <2>1, <2>2, <3>1 DEF AccountTypeOK
  <2>4. ASSUME Calm', NEW x \in Slots PROVE Stays(x) \/ Leaves(x)
    <3>1. CASE x \in {s} \cup Unready
      <4>1. x \notin Live'
        BY <2>2, <3>1 DEF Live
      <4>2. x \in Live => ~handle[x].busy
        BY <2>1, <2>4, <3>1 DEF Calm, Live, Unready
      <4>. QED  BY <4>1, <4>2 DEF Leaves
    <3>2. CASE x \notin {s} \cup Unready
      BY <2>1, <2>2, <3>2 DEF Stays, Live
    <3>. QED  BY <3>1, <3>2
  <2>. QED  BY <1>4, <2>1, <2>3, <2>4, QuietAccount
<1>10. ASSUME NEW b \in Buckets, AttemptEnds(b) PROVE AccountInv'
  <2>1. /\ agenda = <<>> /\ UNCHANGED <<job, mail, corner, respawning>>
        /\ UNCHANGED <<suite, requestVars, runner, aborted, wave, failedProjects, dispatchVars, reportVars>>
        /\ \/ handle' = handle
           \/ \E ss \in SUBSET {s \in Slots : suite.device[s] = b /\ ~handle[s].there} :
                 handle' = [s \in Slots |-> IF s \in ss THEN Fresh ELSE handle[s]]
    BY <1>10 DEF AttemptEnds, Event, ghostVars
  <2>2. ASSUME NEW x \in Slots
        PROVE  handle'[x] = handle[x] \/ (~handle[x].there /\ handle'[x] = Fresh)
    BY <2>1
  <2>3. AccountTypeOK'
    <3>1. \A x \in Slots : handle'[x].file \in Files \cup {NoFile} /\ (handle'[x].active => handle'[x].there)
      BY <1>1, <1>11, <2>2 DEF AccountTypeOK
    <3>2. \A x \in respawning' : x \in Slots /\ handle'[x].there /\ handle'[x].retired
      BY <1>1, <2>1, <2>2 DEF AccountTypeOK
    <3>. QED  BY <1>5, <2>1, <3>1, <3>2
  <2>4. ASSUME Calm', NEW x \in Slots PROVE Stays(x) \/ Leaves(x)
    <3>1. ~handle[x].there => job[x] = <<>> /\ mail[x] = <<>>
      BY <1>2, <2>1, <2>4 DEF Owed, Empty
    <3>2. CASE handle'[x] = handle[x]
      BY <2>1, <3>2 DEF Stays, Live
    <3>3. CASE ~handle[x].there /\ handle'[x] = Fresh
      BY <2>1, <3>1, <3>3 DEF Leaves, Live, Fresh, Absent
    <3>. QED  BY <2>2, <3>2, <3>3
  <2>. QED  BY <1>4, <2>1, <2>3, <2>4, QuietAccount
<1>. QED  BY <1>3, <1>6, <1>7, <1>8, <1>9, <1>10

-----------------------------------------------------------------------------
(* The accounts: workers answer, end or are killed.                        *)

\* An event of the dispatch that leaves a call and takes nothing from a worker
\* that goes on.
LEMMA CalledUponAccount ==
    ASSUME UiInv, AccountInv, agenda = <<>>, dispatch = "open", NEW c, agenda' = <<c>>,
           \A s \in Slots : c # [call |-> "dispatchNext", slot |-> s],
           \A s \in Slots : c = [call |-> "retireWorker", slot |-> s] => s \in Remaining,
           UNCHANGED <<suite, runner, wave, verdict, want, step, aborted, corner, handle, respawning, dispatch,
                       offered, fileQueue, outcome, times, anyFailed, failedProjects, job>>,
           Calm => \A s \in Slots : mail'[s] \in {mail[s], <<>>}
    PROVE  AccountInv'
<1>1. AccountTypeOK'
  BY DEF AccountInv, AccountTypeOK
<1>2. SameRun
  BY DEF SameRun, Under
<1>. SUFFICES ASSUME Calm' PROVE AccountParts'
  BY <1>1 DEF AccountInv, AccountParts, Accounts
<1>3. AccountTypeOK /\ AccountParts /\ \A s \in Slots : Stays(s)
  BY DEF AccountInv, AccountParts, Accounts, Calm, Stays, Live
<1>4. \A s \in Slots, f \in Files : (HeldBy(s, f)' <=> HeldBy(s, f)) /\ (HeldBy(s, f) => handle'[s].busy)
  BY <1>3, HoldersStay DEF AccountParts
<1>5. PlaceInv' /\ \A f \in Files : Waits(f)' <=> Waits(f)
  BY <1>3, <1>4, PlacesStay DEF AccountParts
<1>6. Accounts'
  BY <1>2, <1>3, <1>5, FilesStay DEF AccountParts
<1>7. \A s \in Slots : s \in Live /\ handle[s].busy => handle[s].file # NoFile
  BY <1>3, BusyHolds DEF AccountParts
<1>8. DispatchInv'
  <2>1. ~Pending("maybeResolve") /\ ~Pending("offered")
    BY EmptyIsSeq DEF Pending
  <2>2. offered /\ \E s \in Remaining : handle[s].busy
    BY <1>3, <2>1 DEF AccountParts, DispatchInv
  <2>3. Remaining' = Remaining
    BY DEF Remaining, Live
  <2>4. \A s \in Slots : ToRetire(s)' => c = [call |-> "retireWorker", slot |-> s]
    BY DEF ToRetire
  <2>5. \E t \in Remaining : handle[t].file # NoFile
    BY <1>7, <2>2 DEF Remaining, Live
  <2>6. \A i \in 1..Len(agenda'), s \in Slots : ~Offers(i, s)'
    BY DEF Offers
  <2>. QED  BY <2>2, <2>3, <2>4, <2>5, <2>6 DEF DispatchInv
<1>9. ASSUME NEW s \in Slots PROVE JobInv(s)'
  BY <1>3, <1>7, QuietJob DEF AccountParts
<1>. QED  BY <1>5, <1>6, <1>8, <1>9 DEF AccountParts

\* A worker's process ends, its channel closes, its exit is seen.
LEMMA EndsKeepAccounts ==
    ASSUME UiInv, WorkerInv, AccountInv, NEW s \in Slots, ChildEnds(s) \/ ChannelCloses(s) \/ ExitSeen(s)
    PROVE  AccountInv'
<1>1. UiTypeOK /\ WorkerTypeOK /\ AccountTypeOK
  BY DEF UiInv, WorkerInv, AccountInv
<1>2. CASE ChildEnds(s) \/ ChannelCloses(s)
  <2>1. /\ agenda = <<>>
        /\ UNCHANGED <<suite, requestVars, runVars, dispatchVars, handle, mail, respawning, reportVars, corner>>
        /\ job' = job \/ job' = [job EXCEPT ![s] = <<>>]
    BY <1>2 DEF ChildEnds, ChannelCloses, Event, ghostVars
  <2>2. SameRun /\ AccountTypeOK'
    BY <1>1, <2>1 DEF SameRun, Under, AccountTypeOK, requestVars, runVars, dispatchVars, reportVars
  <2>3. \A x \in Slots : Stays(x)
    BY <1>1, <2>1 DEF Stays, Live, UiTypeOK
  <2>. QED  BY <2>1, <2>2, <2>3, QuietAccount DEF runVars, dispatchVars, reportVars
<1>3. CASE ExitSeen(s)
  <2>. DEFINE attached == dispatch = "open" /\ handle[s].active
  <2>1. /\ agenda = <<>> /\ mail' = [mail EXCEPT ![s] = <<>>]
        /\ UNCHANGED <<suite, requestVars, runVars, dispatch, offered, fileQueue, anyFailed, job, respawning,
                       reportVars, corner>>
        /\ agenda' = IF ~attached THEN <<>>
                     ELSE IF handle[s].retired THEN Call("maybeResolve") ELSE Calls("retireWorker", <<s>>)
        /\ handle' = IF attached \/ handle[s].retired THEN handle
                     ELSE [handle EXCEPT ![s] = GivenUp(@)]
    BY <1>3 DEF ExitSeen, Event, ghostVars
  <2>. HIDE DEF attached
  <2>2. CASE ~attached
    <3>1. \A x \in Slots : x # s => handle'[x] = handle[x] /\ mail'[x] = mail[x]
      BY <1>1, <2>1 DEF UiTypeOK, WorkerTypeOK
    <3>2. \/ handle' = handle
          \/ /\ ~handle[s].retired /\ handle'[s].there = handle[s].there /\ handle'[s].active = handle[s].active
             /\ handle'[s].retired /\ ~handle'[s].busy /\ handle'[s].file = NoFile
      <4>1. handle' = handle \/ (~handle[s].retired /\ handle'[s] = GivenUp(handle[s]) /\ IsHandle(handle[s]))
        BY <1>1, <2>1 DEF UiTypeOK
      <4>. QED  BY <4>1, GivenUpIsHandle
    <3>3. AccountTypeOK'
      <4>1. \A x \in Slots : handle'[x].file \in Files \cup {NoFile} /\ (handle'[x].active => handle'[x].there)
        BY <1>1, <3>1, <3>2 DEF AccountTypeOK
      <4>2. \A x \in respawning' : x \in Slots /\ handle'[x].there /\ handle'[x].retired
        BY <1>1, <2>1, <3>1, <3>2 DEF AccountTypeOK
      <4>. QED  BY <1>1, <2>1, <4>1, <4>2 DEF AccountTypeOK, requestVars, runVars, reportVars
    <3>4. SameRun
      BY <2>1 DEF SameRun, Under, requestVars, runVars, reportVars
    <3>5. ASSUME Calm', NEW x \in Slots PROVE Stays(x) \/ Leaves(x)
      <4>1. CASE x # s
        BY <2>1, <3>1, <4>1 DEF Stays, Live
      <4>2. CASE handle' = handle /\ x = s
        BY <1>1, <2>1, <4>2 DEF Stays, Live, WorkerTypeOK
      <4>3. CASE handle'[s].retired /\ x = s
        <5>1. Owed(s)
          BY <2>1, <3>5 DEF WorkerInv, Calm, Clean
        <5>2. s \in Live => ~handle[s].busy
          BY <2>2, <5>1 DEF Owed, attached
        <5>. QED  BY <4>3, <5>2 DEF Leaves, Live
      <4>. QED  BY <3>2, <4>1, <4>2, <4>3
    <3>. QED  BY <2>1, <2>2, <3>3, <3>4, <3>5, QuietAccount DEF runVars, reportVars
  <2>3. CASE attached
    <3>1. dispatch = "open" /\ handle[s].active /\ handle[s].there /\ handle' = handle
      BY <1>1, <2>1, <2>3 DEF attached, AccountTypeOK
    <3>2. PICK c : /\ agenda' = <<c>>
                   /\ c = IF handle[s].retired THEN [call |-> "maybeResolve", slot |-> 0]
                          ELSE [call |-> "retireWorker", slot |-> s]
      BY <2>1, <2>3, CallOfOne
    <3>3. \A x \in Slots : c = [call |-> "retireWorker", slot |-> x] => x \in Remaining
      <4>. SUFFICES ASSUME NEW x \in Slots, c = [call |-> "retireWorker", slot |-> x] PROVE x \in Remaining
        OBVIOUS
      <4>1. ~handle[s].retired /\ c = [call |-> "retireWorker", slot |-> s]
        BY <3>2
      <4>2. x = s
        BY <4>1
      <4>. QED  BY <3>1, <4>1, <4>2 DEF Remaining, Live
    <3>4. \A x \in Slots : mail'[x] \in {mail[x], <<>>}
      BY <1>1, <2>1 DEF WorkerTypeOK
    <3>5. \A x \in Slots : c # [call |-> "dispatchNext", slot |-> x]
      BY <3>2
    <3>. QED  BY <2>1, <3>1, <3>2, <3>3, <3>4, <3>5, CalledUponAccount DEF requestVars, runVars, reportVars
  <2>. QED  BY <2>2, <2>3
<1>. QED  BY <1>2, <1>3

\* A worker that has a file in it: what it is on, or what it answers.
LEMMA HasOne ==
    ASSUME UiInv, WorkerInv, AccountInv, Calm, agenda = <<>>, NEW s \in Slots, s \in Live, ~Empty(s)
    PROVE  /\ handle[s].file \in Files /\ handle[s].busy /\ HeldBy(s, handle[s].file)
           /\ dispatch = "open" /\ handle[s].active
           /\ job[s] # <<>> => job[s] = <<handle[s].file>> /\ mail[s] = <<>>
           /\ mail[s] # <<>> =>
                 /\ job[s] = <<>> /\ Tail(mail[s]) = <<>>
                 /\ Head(mail[s]).file = handle[s].file
                 /\ Head(mail[s]).result \in {"passed", "failed", "error", "interrupted"}
                 /\ Head(mail[s]).result = "interrupted" => aborted
<1>1. Owed(s) /\ JobInv(s) /\ IsSeq(job[s]) /\ IsSeq(mail[s]) /\ handle[s].file \in Files \cup {NoFile}
  BY DEF WorkerInv, WorkerTypeOK, AccountInv, AccountTypeOK, UiInv, UiTypeOK, Calm, Clean
<1>2. handle[s].busy /\ dispatch = "open" /\ handle[s].active /\ Len(job[s]) + Len(mail[s]) <= 1
  BY <1>1 DEF Owed
<1>3. handle[s].file # NoFile
  BY <1>1 DEF JobInv, Empty
<1>4. ASSUME mail[s] # <<>>
      PROVE  /\ job[s] = <<>> /\ Tail(mail[s]) = <<>>
             /\ Head(mail[s]).file = handle[s].file
             /\ Head(mail[s]).result \in {"passed", "failed", "error", "interrupted"}
             /\ Head(mail[s]).result = "interrupted" => aborted
  <2>1. PICK x \in {"passed", "failed", "error", "interrupted"} :
           mail[s] = <<[file |-> handle[s].file, result |-> x]>> /\ (x = "interrupted" => aborted)
    BY <1>1, <1>4 DEF JobInv
  <2>2. \A m : Head(<<m>>) = m
    OBVIOUS
  <2>3. Head(mail[s]) = [file |-> handle[s].file, result |-> x]
    BY <2>1, <2>2
  <2>4. job[s] = <<>> /\ Tail(mail[s]) = <<>>
    BY <1>1, <1>2, <1>4, OneAndNone
  <2>. QED  BY <2>1, <2>3, <2>4
<1>5. ASSUME job[s] # <<>> PROVE job[s] = <<handle[s].file>> /\ mail[s] = <<>>
  BY <1>1, <1>4, <1>5 DEF JobInv
<1>. QED  BY <1>1, <1>2, <1>3, <1>4, <1>5 DEF HeldBy

\* file-done.
LEMMA AnswersKeepAccounts ==
    ASSUME UiInv, WorkerInv, AccountInv, NEW s \in Slots, ChildAnswers(s)
    PROVE  AccountInv'
<1>1. UiTypeOK /\ WorkerTypeOK /\ AccountTypeOK
  BY DEF UiInv, WorkerInv, AccountInv
<1>2. /\ agenda = <<>> /\ s \in Live /\ job[s] # <<>> /\ job' = [job EXCEPT ![s] = Tail(@)]
      /\ UNCHANGED <<suite, requestVars, runVars, dispatchVars, handle, respawning, reportVars, corner>>
  BY DEF ChildAnswers, Event, ghostVars
<1>3. SameRun /\ AccountTypeOK'
  BY <1>1, <1>2 DEF SameRun, Under, AccountTypeOK, requestVars, runVars, dispatchVars, reportVars
<1>. SUFFICES ASSUME Calm' PROVE AccountParts'
  BY <1>3 DEF AccountInv, AccountParts, Accounts
<1>4. AccountParts /\ Calm
  BY <1>2 DEF AccountInv, AccountParts, Accounts, Calm
<1>5. PlaceInv' /\ \A f \in Files : (Waits(f)' <=> Waits(f))
  BY <1>2, <1>4 DEF AccountParts, PlaceInv, Waits, HeldBy, Live, dispatchVars
<1>6. Accounts'
  BY <1>1, <1>2, <1>3, <1>4, <1>5, FilesStay DEF AccountParts, reportVars, dispatchVars, runVars
<1>7. DispatchInv'
  BY <1>2, <1>4 DEF AccountParts, DispatchInv, Remaining, Live, Pending, ToRetire, Offers, runVars, dispatchVars
<1>8. job[s] = <<handle[s].file>> /\ mail[s] = <<>> /\ handle[s].file \in Files
  BY <1>2, <1>4, HasOne DEF Empty
<1>9. ASSUME NEW x \in Slots, x # s PROVE JobInv(x)'
  <2>1. job'[x] = job[x] /\ mail'[x] = mail[x]
    BY <1>1, <1>2, <1>9 DEF UiTypeOK, WorkerTypeOK, ChildAnswers
  <2>. QED  BY <1>2, <1>4, <2>1 DEF AccountParts, JobInv, Live, Offers, runVars, dispatchVars
<1>10. JobInv(s)'
  <2>1. \A m : Head(<<m>>) = m /\ Tail(<<m>>) = <<>> /\ Append(<<>>, m) = <<m>>
    OBVIOUS
  <2>2. PICK result \in {"passed", "failed", "error"} \cup (IF aborted THEN {"interrupted"} ELSE {}) :
           mail' = [mail EXCEPT ![s] = Append(@, [file |-> Head(job[s]), result |-> result])]
    BY DEF ChildAnswers
  <2>3. job'[s] = <<>> /\ mail'[s] = <<[file |-> handle[s].file, result |-> result]>>
    BY <1>1, <1>2, <1>8, <2>1, <2>2 DEF UiTypeOK, WorkerTypeOK
  <2>4. handle' = handle /\ aborted' = aborted /\ agenda' = agenda
    BY <1>2 DEF runVars, dispatchVars
  <2>5. handle[s].file # NoFile
    BY <1>8, UiAssumption
  <2>6. result \in {"passed", "failed", "error", "interrupted"} /\ (result = "interrupted" => aborted)
    BY <2>2
  <2>. QED  BY <2>3, <2>4, <2>5, <2>6 DEF JobInv
<1>. QED  BY <1>5, <1>6, <1>7, <1>9, <1>10 DEF AccountParts

\* escalateStop: what a killed worker had counts as interrupted.
LEMMA EscalateKeepsAccounts ==
    ASSUME UiInv, WorkerInv, AccountInv, Escalate
    PROVE  AccountInv'
<1>1. UiTypeOK /\ WorkerTypeOK /\ AccountTypeOK
  BY DEF UiInv, WorkerInv, AccountInv
<1>. DEFINE wedged == {s \in Live : handle[s].busy}
            fs == {handle[s].file : s \in wedged} \ {NoFile}
<1>2. /\ agenda = <<>>
      /\ UNCHANGED <<suite, requestVars, runner, aborted, wave, failedProjects, offered, fileQueue, anyFailed,
                     agenda, mail, respawning, page, verdict, corner>>
  BY DEF Escalate, Event, ghostVars
<1>3. \/ UNCHANGED <<handle, job, outcome, times, dispatch>>
      \/ /\ aborted /\ Report(fs, "interrupted") /\ Settle
         /\ handle' = [s \in Slots |-> IF s \in wedged THEN GivenUp(handle[s]) ELSE handle[s]]
         /\ job' = [s \in Slots |-> IF s \in wedged THEN <<>> ELSE job[s]]
  BY DEF Escalate
<1>4. SameRun
  BY <1>2 DEF SameRun, Under, requestVars
<1>5. CASE UNCHANGED <<handle, job, outcome, times, dispatch>>
  <2>1. AccountTypeOK' /\ \A s \in Slots : Stays(s)
    BY <1>1, <1>2, <1>5 DEF AccountTypeOK, requestVars, Stays, Live
  <2>. QED  BY <1>2, <1>4, <1>5, <2>1, QuietAccount
<1>6. CASE /\ aborted /\ Report(fs, "interrupted") /\ Settle
           /\ handle' = [s \in Slots |-> IF s \in wedged THEN GivenUp(handle[s]) ELSE handle[s]]
           /\ job' = [s \in Slots |-> IF s \in wedged THEN <<>> ELSE job[s]]
  <2>1. ASSUME NEW s \in Slots
        PROVE  \/ s \in wedged /\ s \notin Live' /\ handle'[s].file = NoFile
                  /\ handle'[s].there = handle[s].there /\ handle'[s].active = handle[s].active
                  /\ handle'[s].retired
               \/ s \notin wedged /\ handle'[s] = handle[s] /\ job'[s] = job[s]
    <3>1. CASE s \in wedged
      <4>1. handle'[s] = GivenUp(handle[s]) /\ IsHandle(handle[s])
        BY <1>1, <1>6, <3>1 DEF UiTypeOK
      <4>. QED  BY <3>1, <4>1, GivenUpIsHandle DEF Live
    <3>2. CASE s \notin wedged
      BY <1>6, <3>2
    <3>. QED  BY <3>1, <3>2
  <2>2. AccountTypeOK'
    <3>1. \A s \in Slots : handle'[s].file \in Files \cup {NoFile} /\ (handle'[s].active => handle'[s].there)
      BY <1>1, <2>1 DEF AccountTypeOK
    <3>2. \A s \in respawning' : s \in Slots /\ handle'[s].there /\ handle'[s].retired
      BY <1>1, <1>2, <2>1 DEF AccountTypeOK
    <3>3. outcome' = [f \in Files |-> outcome'[f]] /\ times' \in [Files -> Nat]
      BY <1>1, <1>6 DEF Report, AccountTypeOK
    <3>. QED  BY <1>1, <1>2, <3>1, <3>2, <3>3 DEF AccountTypeOK, requestVars
  <2>. SUFFICES ASSUME Calm' PROVE AccountParts'
    BY <2>2 DEF AccountInv, AccountParts, Accounts
  <2>3. AccountParts
    BY <1>2 DEF AccountInv, AccountParts, Accounts, Calm
  <2>4. \A s \in Live, f \in Files : HeldBy(s, f) => s \in wedged /\ f \in fs /\ f \notin ToSet(fileQueue)
    BY <2>3, UiAssumption DEF AccountParts, PlaceInv, HeldBy, Live
  <2>5. \A s \in Slots, f \in Files : ~HeldBy(s, f)'
    <3>. SUFFICES ASSUME NEW s \in Slots, NEW f \in Files, HeldBy(s, f)' PROVE FALSE
      OBVIOUS
    <3>1. s \notin wedged /\ HeldBy(s, f) /\ s \in Live
      BY <2>1 DEF HeldBy, Live
    <3>. QED  BY <2>4, <3>1
  <2>6. \A f \in Files : Waits(f)' <=> f \in ToSet(fileQueue)
    BY <1>2, <2>5 DEF Waits
  <2>7. fs \in SUBSET Files /\ \A f \in fs : Waits(f) /\ f \notin ToSet(fileQueue)
    <3>1. ASSUME NEW f \in fs PROVE f \in Files /\ Waits(f) /\ f \notin ToSet(fileQueue)
      <4>1. PICK s \in wedged : f = handle[s].file /\ f # NoFile
        OBVIOUS
      <4>2. s \in Slots /\ f \in Files /\ HeldBy(s, f)
        BY <1>1, <4>1 DEF AccountTypeOK, HeldBy, Live
      <4>. QED  BY <2>4, <4>2 DEF Waits, HeldBy
    <3>. QED  BY <3>1
  <2>. HIDE DEF wedged, fs
  <2>8. Accounts'
    <3>1. AccountTypeOK /\ Accounts /\ Report(fs, "interrupted")
      BY <1>1, <1>6, <2>3 DEF AccountParts
    <3>2. \A f \in Files : Waits(f)' => Waits(f) /\ f \notin fs
      BY <2>6, <2>7 DEF Waits
    <3>. QED  BY <1>2, <1>4, <1>6, <2>7, <3>1, <3>2, FilesMove
  <2>9. PlaceInv'
    BY <1>2, <2>3, <2>5 DEF AccountParts, PlaceInv
  <2>10. DispatchInv'
    BY <1>2, <1>6, EmptyIsSeq DEF DispatchInv, Settle, ToRetire
  <2>11. ASSUME NEW s \in Slots PROVE JobInv(s)'
    <3>1. CASE s \notin Live'
      BY <3>1 DEF JobInv
    <3>2. CASE handle'[s] = handle[s] /\ job'[s] = job[s]
      <4>1. s \in Live => ~(handle[s].busy /\ handle[s].file = NoFile)
        BY <1>2, <2>3, BusyHolds DEF AccountParts
      <4>2. Stays(s)
        BY <1>2, <3>2 DEF Stays, Live
      <4>. QED  BY <1>2, <2>3, <4>1, <4>2, QuietJob DEF AccountParts
    <3>. QED  BY <2>1, <3>1, <3>2
  <2>. QED  BY <2>8, <2>9, <2>10, <2>11 DEF AccountParts
<1>. QED  BY <1>3, <1>5, <1>6

\* messageHandler: the results of the file a worker had.
LEMMA DeliverKeepsAccounts ==
    ASSUME UiInv, WorkerInv, AccountInv, NEW s \in Slots, Deliver(s)
    PROVE  AccountInv'
<1>1. UiTypeOK /\ WorkerTypeOK /\ AccountTypeOK
  BY DEF UiInv, WorkerInv, AccountInv
<1>. DEFINE m == Head(mail[s])
            f == m.file
            heard == dispatch = "open" /\ s \in Remaining
            busy == handle[s].busy /\ ~aborted
<1>2. /\ agenda = <<>> /\ mail[s] # <<>> /\ mail' = [mail EXCEPT ![s] = Tail(@)]
      /\ UNCHANGED <<suite, requestVars, runner, aborted, wave, dispatch, offered, fileQueue, job,
                     respawning, verdict, corner>>
  BY DEF Deliver, Event, ghostVars
<1>3. \/ ~heard /\ UNCHANGED <<handle, agenda, anyFailed, failedProjects, outcome, times>>
      \/ /\ heard /\ agenda' = Calls("retireWorker", <<s>>)
         /\ UNCHANGED <<handle, anyFailed, failedProjects, outcome, times>>
      \/ /\ heard /\ m.result # "error" /\ Report({f}, m.result)
         /\ anyFailed' = (anyFailed \/ m.result = "failed")
         /\ failedProjects' # {} => failedProjects # {} \/ m.result \in {"failed", "interrupted"}
         /\ handle' = [handle EXCEPT ![s] = Holding(@, busy, NoFile)]
         /\ agenda' = IF aborted THEN Call("maybeResolve") ELSE Calls("dispatchNext", <<s>>)
  BY DEF Deliver
<1>4. SameRun
  BY <1>2 DEF SameRun, Under, requestVars
<1>5. busy \in BOOLEAN
  OBVIOUS
<1>6. ASSUME Calm, s \in Live
      PROVE  /\ heard /\ f = handle[s].file /\ f \in Files /\ HeldBy(s, f) /\ handle[s].busy
             /\ job[s] = <<>> /\ mail'[s] = <<>>
             /\ m.result \in {"passed", "failed", "error", "interrupted"}
             /\ m.result = "interrupted" => aborted
  <2>1. mail'[s] = Tail(mail[s])
    BY <1>1, <1>2 DEF WorkerTypeOK
  <2>. QED  BY <1>2, <1>6, <2>1, HasOne DEF Empty, Remaining
<1>. HIDE DEF busy
<1>7. \A x \in Slots : x # s => mail'[x] = mail[x]
  BY <1>1, <1>2 DEF WorkerTypeOK
<1>8. CASE ~heard /\ UNCHANGED <<handle, agenda, anyFailed, failedProjects, outcome, times>>
  <2>1. AccountTypeOK'
    BY <1>1, <1>2, <1>8 DEF AccountTypeOK, requestVars
  <2>2. ASSUME Calm', NEW x \in Slots PROVE Stays(x) \/ Leaves(x)
    <3>1. CASE x # s
      BY <1>2, <1>7, <1>8, <3>1 DEF Stays, Live
    <3>2. CASE x = s
      BY <1>2, <1>6, <1>8, <2>2, <3>2 DEF Leaves, Live, Calm
    <3>. QED  BY <3>1, <3>2
  <2>. QED  BY <1>2, <1>4, <1>8, <2>1, <2>2, QuietAccount
<1>9. CASE heard /\ agenda' = Calls("retireWorker", <<s>>)
           /\ UNCHANGED <<handle, anyFailed, failedProjects, outcome, times>>
  <2>1. PICK c : c = [call |-> "retireWorker", slot |-> s] /\ agenda' = <<c>>
    BY <1>9, CallOfOne
  <2>2. \A x \in Slots : c = [call |-> "retireWorker", slot |-> x] => x \in Remaining
    <3>. SUFFICES ASSUME NEW x \in Slots, c = [call |-> "retireWorker", slot |-> x] PROVE x \in Remaining
      OBVIOUS
    <3>1. x = s
      BY <2>1
    <3>. QED  BY <1>9, <3>1
  <2>3. Calm => \A x \in Slots : mail'[x] \in {mail[x], <<>>}
    BY <1>6, <1>7, <1>9 DEF Remaining
  <2>4. \A x \in Slots : c # [call |-> "dispatchNext", slot |-> x]
    BY <2>1
  <2>. QED  BY <1>2, <1>9, <2>1, <2>2, <2>3, <2>4, CalledUponAccount DEF requestVars
<1>10. CASE /\ heard /\ m.result # "error" /\ Report({f}, m.result)
            /\ anyFailed' = (anyFailed \/ m.result = "failed")
            /\ failedProjects' # {} => failedProjects # {} \/ m.result \in {"failed", "interrupted"}
            /\ handle' = [handle EXCEPT ![s] = Holding(@, busy, NoFile)]
            /\ agenda' = IF aborted THEN Call("maybeResolve") ELSE Calls("dispatchNext", <<s>>)
  <2>1. s \in Live /\ s \in Remaining /\ dispatch = "open" /\ dispatch' = "open"
    BY <1>2, <1>10 DEF Remaining
  <2>2. /\ \A x \in Slots : x # s => handle'[x] = handle[x]
        /\ handle'[s].there = handle[s].there /\ handle'[s].retired = handle[s].retired
        /\ handle'[s].active = handle[s].active /\ handle'[s].busy = busy /\ handle'[s].file = NoFile
    <3>1. handle'[s] = Holding(handle[s], busy, NoFile) /\ IsHandle(handle[s])
      BY <1>1, <1>10 DEF UiTypeOK
    <3>2. \A x \in Slots : x # s => handle'[x] = handle[x]
      BY <1>1, <1>10 DEF UiTypeOK
    <3>. QED  BY <1>5, <3>1, <3>2, HoldingIsHandle
  <2>3. AccountTypeOK'
    <3>1. \A x \in Slots : handle'[x].file \in Files \cup {NoFile} /\ (handle'[x].active => handle'[x].there)
      BY <1>1, <2>2 DEF AccountTypeOK
    <3>2. \A x \in respawning' : x \in Slots /\ handle'[x].there /\ handle'[x].retired
      BY <1>1, <1>2, <2>2 DEF AccountTypeOK
    <3>3. outcome' = [g \in Files |-> outcome'[g]] /\ times' \in [Files -> Nat]
      BY <1>1, <1>10 DEF Report, AccountTypeOK
    <3>. QED  BY <1>1, <1>2, <3>1, <3>2, <3>3 DEF AccountTypeOK, requestVars
  <2>. SUFFICES ASSUME Calm' PROVE AccountParts'
    BY <2>3 DEF AccountInv, AccountParts, Accounts
  <2>4. AccountParts /\ Calm
    BY <1>2 DEF AccountInv, AccountParts, Accounts, Calm
  <2>5. /\ f = handle[s].file /\ f \in Files /\ HeldBy(s, f) /\ handle[s].busy
        /\ job[s] = <<>> /\ mail'[s] = <<>> /\ m.result \in {"passed", "failed", "interrupted"}
        /\ m.result = "interrupted" => aborted
    BY <1>6, <1>10, <2>1, <2>4
  <2>. HIDE DEF f, m
  <2>6. \A x \in Slots, g \in Files : HeldBy(x, g)' <=> HeldBy(x, g) /\ x # s
    <3>1. \A x \in Slots : x # s => (x \in Live' <=> x \in Live)
      BY <2>2 DEF Live
    <3>. QED  BY <2>2, <3>1, UiAssumption DEF HeldBy
  <2>7. PlaceInv'
    BY <1>2, <2>2, <2>4, <2>6 DEF AccountParts, PlaceInv
  <2>8. \A g \in Files : Waits(g)' <=> Waits(g) /\ g # f
    <3>1. f \notin ToSet(fileQueue) /\ \A x \in Slots : HeldBy(x, f) => x = s
      BY <2>1, <2>4, <2>5 DEF AccountParts, PlaceInv, Live
    <3>2. \A g \in Files : HeldBy(s, g) => g = f
      BY <2>5 DEF HeldBy
    <3>. QED  BY <1>2, <2>6, <3>1, <3>2 DEF Waits
  <2>9. Waits(f)
    BY <2>1, <2>5 DEF Waits, Live
  <2>10. Accounts'
    <3>1. Accounts /\ {f} \in SUBSET Files /\ Report({f}, m.result)
      BY <1>10, <2>4, <2>5 DEF AccountParts
    <3>2. ~aborted' => Blamed({f}, m.result)
      BY <1>2, <1>10, <2>5 DEF Blamed
    <3>3. runner = Nobody => anyFailed' = anyFailed
      BY <2>1, UnderRuns
    <3>. QED  BY <1>1, <1>2, <1>4, <2>8, <2>9, <3>1, <3>2, <3>3, FilesMove
  <2>11. /\ aborted => agenda' = <<[call |-> "maybeResolve", slot |-> 0]>>
         /\ ~aborted => agenda' = <<[call |-> "dispatchNext", slot |-> s]>>
    BY <1>10, CallOfOne
  <2>12. DispatchInv'
    <3>1. offered'
      BY <1>2, <2>1, <2>4, EmptyIsSeq DEF AccountParts, DispatchInv, Pending
    <3>2. aborted => Pending("maybeResolve")'
      <4>. SUFFICES ASSUME aborted PROVE Pending("maybeResolve")'
        OBVIOUS
      <4>1. Len(agenda') = 1 /\ agenda'[1].call = "maybeResolve"
        BY <2>11
      <4>. QED  BY <4>1 DEF Pending
    <3>3. ~aborted => s \in Remaining' /\ handle'[s].busy
      BY <2>1, <2>2, <2>5 DEF Remaining, Live, busy
    <3>4. \A x \in Slots : ~ToRetire(x)'
      <4>1. agenda'[1].call # "retireWorker"
        BY <2>11
      <4>. QED  BY <4>1 DEF ToRetire
    <3>5. \A i \in 1..Len(agenda'), x \in Slots : Offers(i, x)' => handle'[x].file = NoFile
      <4>. SUFFICES ASSUME NEW i \in 1..Len(agenda'), NEW x \in Slots, Offers(i, x)' PROVE x = s
        BY <2>2
      <4>1. agenda'[i] = agenda'[1] /\ agenda'[i] = [call |-> "dispatchNext", slot |-> x]
        BY <2>11 DEF Offers
      <4>2. agenda'[1] = [call |-> "dispatchNext", slot |-> s] \/ agenda'[1] = [call |-> "maybeResolve", slot |-> 0]
        BY <2>11
      <4>. QED  BY <4>1, <4>2
    <3>. QED  BY <2>1, <3>1, <3>2, <3>3, <3>4, <3>5 DEF DispatchInv
  <2>13. JobInv(s)'
    <3>1. ~aborted => Offers(1, s)'
      <4>. SUFFICES ASSUME ~aborted PROVE Offers(1, s)'
        OBVIOUS
      <4>1. Len(agenda') = 1 /\ agenda'[1] = [call |-> "dispatchNext", slot |-> s]
        BY <2>11
      <4>. QED  BY <4>1 DEF Offers
    <3>2. job'[s] = <<>> /\ (handle'[s].busy => ~aborted)
      BY <1>2, <2>2, <2>5 DEF busy
    <3>. QED  BY <2>5, <3>1, <3>2 DEF JobInv
  <2>14. ASSUME NEW x \in Slots, x # s PROVE JobInv(x)'
    <3>1. Stays(x)
      BY <1>2, <1>7, <2>2, <2>14 DEF Stays, Live
    <3>2. x \in Live => ~(handle[x].busy /\ handle[x].file = NoFile)
      BY <1>2, <2>4, BusyHolds DEF AccountParts
    <3>. QED  BY <1>2, <2>4, <3>1, <3>2, QuietJob DEF AccountParts
  <2>. QED  BY <2>7, <2>10, <2>12, <2>13, <2>14 DEF AccountParts
<1>. QED  BY <1>3, <1>8, <1>9, <1>10

-----------------------------------------------------------------------------
(* The accounts: the calls of the agenda.                                  *)

\* A call is made and leaves those of p in its place.
LEMMA CallsMove ==
    ASSUME WorkerInv, Clean, agenda # <<>>, NEW p \in Seq(CallSet), agenda' = p \o Tail(agenda)
    PROVE  /\ agenda' # <<>> => Len(agenda') \in Nat \ {0}
           /\ \A i \in 1..Len(p) : i \in 1..Len(agenda') /\ agenda'[i] = p[i]
           /\ \A name : Pending(name) /\ agenda[1].call # name => Pending(name)'
           /\ \A s : ToRetire(s)' => p # <<>> /\ p[1] = [call |-> "retireWorker", slot |-> s]
           /\ \A s : \A i \in 1..Len(agenda') : Offers(i, s)' =>
                 \/ i \in 1..Len(p) /\ p[i] = [call |-> "dispatchNext", slot |-> s]
                 \/ \E j \in 2..Len(agenda) : Offers(j, s)
<1>. DEFINE q == Tail(agenda)
            n == Len(agenda)
            m == Len(p)
<1>1. /\ q \in Seq(CallSet) /\ n \in Nat \ {0} /\ Len(q) = n - 1 /\ m \in Nat
      /\ \A i \in 1..n - 1 : q[i] = agenda[i + 1]
  BY TailShifts, LenProperties DEF WorkerInv, WorkerTypeOK
<1>2. /\ agenda' \in Seq(CallSet) /\ Len(agenda') = m + (n - 1)
      /\ \A i \in 1..m + (n - 1) : agenda'[i] = IF i <= m THEN p[i] ELSE q[i - m]
  BY <1>1, ConcatProperties
<1>. HIDE DEF q, n, m
<1>3. \A i \in 1..m : i \in 1..Len(agenda') /\ agenda'[i] = p[i]
  BY <1>1, <1>2
<1>4. \A j \in 2..n : m + (j - 1) \in 1..Len(agenda') /\ agenda'[m + (j - 1)] = agenda[j]
  <2>. SUFFICES ASSUME NEW j \in 2..n
                PROVE  m + (j - 1) \in 1..Len(agenda') /\ agenda'[m + (j - 1)] = agenda[j]
    OBVIOUS
  <2>1. m + (j - 1) \in 1..m + (n - 1) /\ ~(m + (j - 1) <= m) /\ (m + (j - 1)) - m = j - 1
    BY <1>1
  <2>2. j - 1 \in 1..n - 1 /\ (j - 1) + 1 = j
    BY <1>1
  <2>. QED  BY <1>1, <1>2, <2>1, <2>2
<1>5. \A i \in 1..Len(agenda') : i \in 1..m \/ \E j \in 2..n : agenda'[i] = agenda[j]
  <2>. SUFFICES ASSUME NEW i \in 1..Len(agenda'), i \notin 1..m PROVE \E j \in 2..n : agenda'[i] = agenda[j]
    OBVIOUS
  <2>1. ~(i <= m) /\ i - m \in 1..n - 1 /\ (i - m) + 1 \in 2..n
    BY <1>1, <1>2
  <2>2. agenda'[i] = agenda[(i - m) + 1]
    BY <1>1, <1>2, <2>1
  <2>. QED  BY <2>1, <2>2
<1>6. ASSUME NEW name, Pending(name), agenda[1].call # name PROVE Pending(name)'
  <2>1. PICK j \in 1..n : agenda[j].call = name
    BY <1>6 DEF Pending, n
  <2>2. j \in 2..n
    BY <1>1, <1>6, <2>1
  <2>. QED  BY <1>4, <2>1, <2>2 DEF Pending
<1>7. ASSUME NEW s, ToRetire(s)' PROVE p # <<>> /\ p[1] = [call |-> "retireWorker", slot |-> s]
  <2>1. agenda'[1] = [call |-> "retireWorker", slot |-> s] /\ 1 \in 1..Len(agenda')
    BY <1>2, <1>7, EmptySeq DEF ToRetire
  <2>2. ASSUME NEW j \in 2..n PROVE agenda'[1] # agenda[j]
    <3>1. agenda[j].call # "retireWorker"
      BY <1>1 DEF WorkerInv, AgendaInv, RetiresInv, n
    <3>. QED  BY <2>1, <3>1
  <2>3. 1 \in 1..m
    BY <1>5, <2>1, <2>2
  <2>4. m # 0
    BY <1>1, <2>3
  <2>. QED  BY <1>3, <2>1, <2>3, <2>4, EmptySeq DEF m
<1>8. ASSUME NEW i \in 1..Len(agenda'), NEW s, Offers(i, s)'
      PROVE  \/ i \in 1..m /\ p[i] = [call |-> "dispatchNext", slot |-> s]
             \/ \E j \in 2..n : Offers(j, s)
  <2>1. agenda'[i] = [call |-> "dispatchNext", slot |-> s]
    BY <1>8 DEF Offers
  <2>2. \A j \in 2..n : j \in 1..n
    BY <1>1
  <2>. QED  BY <1>3, <1>5, <2>1, <2>2 DEF Offers, n
<1>9. agenda' # <<>> => Len(agenda') \in Nat \ {0}
  BY <1>2, EmptySeq
<1>. QED  BY <1>3, <1>6, <1>7, <1>8, <1>9 DEF m, n

LEMMA NoCallLeft ==
    ASSUME WorkerInv, Clean, agenda # <<>>, agenda' = Tail(agenda)
    PROVE  /\ \A name : Pending(name) /\ agenda[1].call # name => Pending(name)'
           /\ \A s : ~ToRetire(s)'
           /\ \A s : \A i \in 1..Len(agenda') : Offers(i, s)' => \E j \in 2..Len(agenda) : Offers(j, s)
<1>1. PICK p \in Seq(CallSet) : p = <<>> /\ agenda' = p \o Tail(agenda)
  <2>1. Tail(agenda) \in Seq(CallSet) /\ <<>> \in Seq(CallSet)
    BY TailShifts DEF WorkerInv, WorkerTypeOK
  <2>. QED  BY <2>1, ConcatEmptySeq
<1>2. \A i : i \notin 1..Len(p)
  BY <1>1
<1>3. /\ \A name : Pending(name) /\ agenda[1].call # name => Pending(name)'
      /\ \A s : ToRetire(s)' => p # <<>>
      /\ \A s : \A i \in 1..Len(agenda') : Offers(i, s)' =>
            i \in 1..Len(p) \/ \E j \in 2..Len(agenda) : Offers(j, s)
  <2>. HIDE <1>2
  <2>. QED  BY <1>1, CallsMove
<1>. QED  BY <1>1, <1>2, <1>3

LEMMA OneCallMore ==
    ASSUME WorkerInv, Clean, agenda # <<>>, NEW c \in CallSet, agenda' = <<c>> \o Tail(agenda)
    PROVE  /\ Pending(c.call)' /\ \A name : Pending(name) /\ agenda[1].call # name => Pending(name)'
           /\ \A s : ToRetire(s)' => c = [call |-> "retireWorker", slot |-> s]
           /\ \A s : \A i \in 1..Len(agenda') : Offers(i, s)' =>
                 c = [call |-> "dispatchNext", slot |-> s] \/ \E j \in 2..Len(agenda) : Offers(j, s)
<1>1. PICK p \in Seq(CallSet) : Len(p) = 1 /\ p[1] = c /\ agenda' = p \o Tail(agenda)
  <2>1. <<c>> \in Seq(CallSet) /\ Len(<<c>>) = 1 /\ <<c>>[1] = c
    OBVIOUS
  <2>. QED  BY <2>1
<1>2. 1 \in 1..Len(p) /\ \A i \in 1..Len(p) : i = 1
  BY <1>1
<1>3. /\ \A i \in 1..Len(p) : i \in 1..Len(agenda') /\ agenda'[i] = p[i]
      /\ \A name : Pending(name) /\ agenda[1].call # name => Pending(name)'
      /\ \A s : ToRetire(s)' => p[1] = [call |-> "retireWorker", slot |-> s]
      /\ \A s : \A i \in 1..Len(agenda') : Offers(i, s)' =>
            \/ i \in 1..Len(p) /\ p[i] = [call |-> "dispatchNext", slot |-> s]
            \/ \E j \in 2..Len(agenda) : Offers(j, s)
  BY <1>1, CallsMove
<1>4. Pending(c.call)'
  BY <1>1, <1>2, <1>3 DEF Pending
<1>. QED  BY <1>1, <1>2, <1>3, <1>4

Resolve == [call |-> "maybeResolve", slot |-> 0]

\* A call that leaves the workers and the files as they are.
LEMMA QuietCall ==
    ASSUME UiInv, WorkerInv, AccountInv, agenda # <<>>, NEW p \in {<<>>, <<Resolve>>},
           agenda' = p \o Tail(agenda),
           UNCHANGED <<suite, runner, wave, verdict, want, step, aborted, corner, handle, respawning, dispatch,
                       fileQueue, outcome, times, anyFailed, failedProjects, job, mail>>,
           \A s \in Live : Calm /\ Offers(1, s) => ~handle[s].busy,
           Calm /\ dispatch = "open" =>
               /\ (\E s \in Remaining : handle[s].busy) \/ Pending("maybeResolve")' \/ Pending("offered")'
               /\ offered' \/ Pending("offered")'
    PROVE  AccountInv'
<1>1. AccountTypeOK'
  BY DEF AccountInv, AccountTypeOK
<1>2. SameRun
  BY DEF SameRun, Under
<1>. SUFFICES ASSUME Calm' PROVE AccountParts'
  BY <1>1 DEF AccountInv, AccountParts, Accounts
<1>3. AccountTypeOK /\ AccountParts /\ Calm /\ Clean
  BY DEF AccountInv, AccountParts, Accounts, Calm, Clean
<1>4. PlaceInv' /\ \A f \in Files : Waits(f)' <=> Waits(f)
  BY <1>3 DEF AccountParts, PlaceInv, Waits, HeldBy, Live
<1>5. Accounts'
  BY <1>2, <1>3, <1>4, FilesStay DEF AccountParts
<1>6. /\ \A s \in Slots : ~ToRetire(s)'
      /\ \A i \in 1..Len(agenda'), s \in Slots : Offers(i, s)' => \E j \in 2..Len(agenda) : Offers(j, s)
  <2>1. p \in Seq(CallSet) /\ \A i \in 1..Len(p) : p[i] = Resolve
    <3>1. Resolve \in CallSet
      BY DEF Resolve, CallSet
    <3>2. CASE p = <<>>
      BY <3>2
    <3>3. CASE p = <<Resolve>>
      BY <3>1, <3>3
    <3>. QED  BY <3>2, <3>3
  <2>2. \A s : Resolve # [call |-> "retireWorker", slot |-> s] /\ Resolve # [call |-> "dispatchNext", slot |-> s]
    BY DEF Resolve
  <2>3. p # <<>> => p[1] = Resolve
    OBVIOUS
  <2>4. \A s : ToRetire(s)' => p # <<>> /\ p[1] = [call |-> "retireWorker", slot |-> s]
    BY <1>3, <2>1, CallsMove
  <2>5. \A s : \A i \in 1..Len(agenda') : Offers(i, s)' =>
            \/ i \in 1..Len(p) /\ p[i] = [call |-> "dispatchNext", slot |-> s]
            \/ \E j \in 2..Len(agenda) : Offers(j, s)
    BY <1>3, <2>1, CallsMove
  <2>6. \A s \in Slots : ~ToRetire(s)'
    BY <2>2, <2>3, <2>4
  <2>. QED  BY <2>1, <2>2, <2>5, <2>6
<1>7. DispatchInv'
  <2>1. Remaining' = Remaining /\ Live' = Live
    BY DEF Remaining, Live
  <2>2. \A j \in 2..Len(agenda) : j \in 1..Len(agenda)
    BY LenProperties DEF WorkerInv, WorkerTypeOK
  <2>. QED  BY <1>3, <1>6, <2>1, <2>2 DEF AccountParts, DispatchInv
<1>8. ASSUME NEW s \in Slots PROVE JobInv(s)'
  BY <1>3 DEF AccountParts, JobInv, Live
<1>. QED  BY <1>4, <1>5, <1>7, <1>8 DEF AccountParts

LEMMA AllOfferedKeepsAccounts ==
    ASSUME UiInv, WorkerInv, AccountInv, AllOffered
    PROVE  AccountInv'
<1>1. /\ agenda' = Call("maybeResolve") \o Tail(agenda) /\ offered'
      /\ UNCHANGED <<suite, runner, wave, verdict, want, step, aborted, corner, handle, respawning, dispatch,
                     fileQueue, outcome, times, anyFailed, failedProjects, job, mail>>
  BY DEF AllOffered, requestVars, runVars, workerVars, reportVars, ghostVars
<1>2. Call("maybeResolve") = <<Resolve>> /\ Resolve \in CallSet /\ Resolve.call = "maybeResolve"
  BY DEF Call, Resolve, CallSet
<1>3. agenda # <<>> /\ agenda[1].call = "offered"
  BY HeadCall DEF AllOffered, WorkerInv
<1>4. Calm => Pending("maybeResolve")'
  <2>1. <<Resolve>> \in Seq(CallSet) /\ Len(<<Resolve>>) = 1 /\ <<Resolve>>[1] = Resolve
    BY <1>2
  <2>2. Calm => 1 \in 1..Len(agenda') /\ agenda'[1] = Resolve
    BY <1>1, <1>2, <1>3, <2>1, CallsMove DEF Calm, Clean
  <2>. QED  BY <1>2, <2>2 DEF Pending
<1>5. \A s : ~Offers(1, s)
  BY <1>3 DEF Offers
<1>. QED  BY <1>1, <1>2, <1>3, <1>4, <1>5, QuietCall

\* maybeResolve: what no worker will take fails.
LEMMA ResolveKeepsAccounts ==
    ASSUME UiInv, WorkerInv, AccountInv, MaybeResolve
    PROVE  AccountInv'
<1>. DEFINE stuck == ~aborted /\ fileQueue # <<>>
            fs == IF stuck THEN ToSet(fileQueue) ELSE {}
<1>1. UiTypeOK /\ WorkerTypeOK /\ AccountTypeOK
  BY DEF UiInv, WorkerInv, AccountInv
<1>2. /\ agenda' = Tail(agenda)
      /\ UNCHANGED <<suite, runner, wave, verdict, want, step, aborted, corner, handle, respawning,
                     offered, job, mail>>
  BY DEF MaybeResolve, requestVars, workerVars, ghostVars
<1>3. agenda # <<>> /\ agenda[1].call = "maybeResolve"
  BY <1>1, HeadCall DEF MaybeResolve
<1>4. agenda' = <<>> \o Tail(agenda) /\ <<>> \in Seq(CallSet)
  BY <1>1, <1>2, <1>3, TailShifts, ConcatEmptySeq DEF WorkerTypeOK
<1>5. \A s : ~Offers(1, s)
  BY <1>3 DEF Offers
<1>6. CASE /\ dispatch # "open" \/ ~AllDone \/ (stuck /\ ~offered)
           /\ UNCHANGED <<dispatch, fileQueue, anyFailed, failedProjects, outcome, times>>
  <2>1. ASSUME Calm, dispatch = "open"
        PROVE  /\ (\E s \in Remaining : handle[s].busy) \/ Pending("maybeResolve")' \/ Pending("offered")'
               /\ offered' \/ Pending("offered")'
    <3>1. offered \/ Pending("offered")
      BY <2>1 DEF AccountInv, DispatchInv
    <3>2. Pending("offered") => Pending("offered")'
      BY <1>3, <1>4, <2>1, CallsMove DEF Calm, Clean
    <3>. QED  BY <1>2, <1>6, <2>1, <3>1, <3>2 DEF AllDone
  <2>. QED  BY <1>2, <1>3, <1>4, <1>5, <1>6, <2>1, QuietCall
<1>7. CASE /\ dispatch = "open" /\ AllDone /\ Settle /\ Report(fs, "unservable")
           /\ anyFailed' = (anyFailed \/ stuck)
           /\ stuck \/ failedProjects' = failedProjects
           /\ fileQueue' = IF stuck THEN <<>> ELSE fileQueue
  <2>1. fs \in SUBSET Files /\ (stuck => fs # {}) /\ (stuck \/ fs = {})
    <3>1. Len(fileQueue) \in Nat /\ \A i \in 1..Len(fileQueue) : fileQueue[i] \in Files
      BY <1>1 DEF AccountTypeOK
    <3>2. stuck => Len(fileQueue) # 0
      BY <1>1, EmptySeq DEF AccountTypeOK
    <3>3. ToSet(fileQueue) = {fileQueue[i] : i \in 1..Len(fileQueue)}
      <4>1. DOMAIN fileQueue = 1..Len(fileQueue)
        BY <1>1, LenProperties DEF AccountTypeOK
      <4>. QED  BY <4>1 DEF ToSet
    <3>4. stuck => fileQueue[1] \in ToSet(fileQueue)
      BY <3>1, <3>2, <3>3
    <3>. QED  BY <3>1, <3>3, <3>4
  <2>2. SameRun
    BY <1>2 DEF SameRun, Under
  <2>3. AccountTypeOK'
    <3>1. outcome' = [g \in Files |-> outcome'[g]] /\ times' \in [Files -> Nat]
      BY <1>1, <1>7 DEF Report, AccountTypeOK
    <3>2. fileQueue' \in Seq(Files)
      BY <1>1, <1>7 DEF AccountTypeOK
    <3>. QED  BY <1>1, <1>2, <3>1, <3>2 DEF AccountTypeOK
  <2>. SUFFICES ASSUME Calm' PROVE AccountParts'
    BY <2>3 DEF AccountInv, AccountParts, Accounts
  <2>4. AccountParts /\ Calm /\ Clean
    BY <1>2 DEF AccountInv, AccountParts, Accounts, Calm, Clean
  <2>5. ToSet(<<>>) = {} /\ DOMAIN <<>> = {}
    BY DEF ToSet
  <2>6. \A s \in Slots, g \in Files : HeldBy(s, g)' <=> HeldBy(s, g)
    BY <1>2 DEF HeldBy, Live
  <2>7. PlaceInv'
    BY <1>2, <1>7, <2>4, <2>5, <2>6 DEF AccountParts, PlaceInv
  <2>8. \A g \in Files : (Waits(g)' => Waits(g) /\ g \notin fs) /\ (Waits(g) => Waits(g)' \/ g \in fs)
    BY <1>7, <2>4, <2>5, <2>6 DEF AccountParts, PlaceInv, Waits
  <2>9. \A g \in fs : Waits(g)
    BY DEF Waits
  <2>. HIDE DEF fs
  <2>10. Accounts'
    <3>1. dispatch' = "settled"
      BY <1>7 DEF Settle
    <3>2. Blamed(fs, "unservable")
      BY <1>7, <2>1, <3>1 DEF Blamed
    <3>3. runner = Nobody => anyFailed' = anyFailed
      BY <1>7, UnderRuns
    <3>. QED  BY <1>1, <1>7, <2>1, <2>2, <2>4, <2>8, <2>9, <3>2, <3>3, FilesMove DEF AccountParts
  <2>11. DispatchInv'
    <3>1. dispatch' = "settled" /\ (~aborted => fileQueue' = <<>>)
      BY <1>7 DEF Settle
    <3>2. /\ \A s \in Slots : ~ToRetire(s)'
          /\ \A i \in 1..Len(agenda'), s \in Slots : Offers(i, s)' => \E j \in 2..Len(agenda) : Offers(j, s)
      <4>1. PICK p \in Seq(CallSet) : p = <<>> /\ agenda' = p \o Tail(agenda)
        BY <1>4
      <4>2. \A i : i \notin 1..Len(p)
        BY <4>1
      <4>. QED  BY <1>3, <2>4, <4>1, <4>2, CallsMove
    <3>3. \A j \in 2..Len(agenda) : j \in 1..Len(agenda)
      BY <1>1 DEF WorkerTypeOK
    <3>. QED  BY <1>2, <2>4, <3>1, <3>2, <3>3 DEF AccountParts, DispatchInv, Live
  <2>12. ASSUME NEW s \in Slots PROVE JobInv(s)'
    BY <1>2, <1>5, <2>4 DEF AccountParts, JobInv, Live
  <2>. QED  BY <2>7, <2>10, <2>11, <2>12 DEF AccountParts
<1>8. \/ /\ dispatch # "open" \/ ~AllDone \/ (stuck /\ ~offered)
         /\ UNCHANGED <<dispatch, fileQueue, anyFailed, failedProjects, outcome, times>>
      \/ /\ dispatch = "open" /\ AllDone /\ Settle /\ Report(fs, "unservable")
         /\ anyFailed' = (anyFailed \/ stuck)
         /\ stuck \/ failedProjects' = failedProjects
         /\ fileQueue' = IF stuck THEN <<>> ELSE fileQueue
  BY DEF MaybeResolve
<1>. QED  BY <1>6, <1>7, <1>8

\* dispatchNext: a file goes from the queue to a worker that had none.
LEMMA DispatchNextKeepsAccounts ==
    ASSUME UiInv, WorkerInv, AccountInv, DispatchNext
    PROVE  AccountInv'
<1>1. UiTypeOK /\ WorkerTypeOK /\ AccountTypeOK
  BY DEF UiInv, WorkerInv, AccountInv
<1>a. PICK s : s = Caller
  OBVIOUS
<1>. DEFINE fits == {i \in 1..Len(fileQueue) : BucketOf(fileQueue[i]) = suite.device[s]}
            retire == [call |-> "retireWorker", slot |-> s]
<1>2. /\ UNCHANGED <<suite, runner, wave, verdict, want, step, aborted, corner, respawning, dispatch, offered,
                     outcome, times, anyFailed, failedProjects, mail, child>>
      /\ \/ /\ s \notin Live \/ aborted
            /\ agenda' = Tail(agenda) /\ UNCHANGED <<handle, job, fileQueue>>
         \/ /\ s \in Live /\ ~aborted
            /\ handle' = [handle EXCEPT ![s] = Holding(@, FALSE, NoFile)]
            /\ agenda' = Call("maybeResolve") \o Tail(agenda)
            /\ UNCHANGED <<job, fileQueue>>
         \/ /\ s \in Live /\ ~aborted /\ fits # {}
            /\ fileQueue' = RemoveAt(fileQueue, Min(fits))
            /\ handle' = [handle EXCEPT ![s] = Holding(@, TRUE, fileQueue[Min(fits)])]
            /\ job' = [job EXCEPT ![s] = IF child[s] = "up" THEN Append(@, fileQueue[Min(fits)]) ELSE @]
            /\ agenda' = (IF child[s] = "closed" THEN Calls("retireWorker", <<s>>) ELSE <<>>) \o Tail(agenda)
  BY <1>a DEF DispatchNext, requestVars, runVars, reportVars, ghostVars
<1>3. /\ agenda # <<>> /\ agenda[1] = [call |-> "dispatchNext", slot |-> s] /\ s \in Nat
      /\ agenda[1].call = "dispatchNext" /\ Tail(agenda) \in Seq(CallSet) /\ Len(agenda) \in Nat \ {0}
  <2>1. /\ agenda # <<>> /\ agenda[1].call = "dispatchNext" /\ s = agenda[1].slot /\ agenda[1] \in CallSet
        /\ Tail(agenda) \in Seq(CallSet) /\ Len(agenda) \in Nat \ {0}
    BY <1>1, <1>a, HeadCall, TailShifts DEF DispatchNext, WorkerTypeOK
  <2>. QED  BY <2>1 DEF CallSet
<1>4. SameRun
  BY <1>2 DEF SameRun, Under
<1>5. \A x \in Slots : Offers(1, x) => x = s
  <2>. SUFFICES ASSUME NEW x \in Slots, Offers(1, x) PROVE x = s
    OBVIOUS
  <2>1. [call |-> "dispatchNext", slot |-> x] = [call |-> "dispatchNext", slot |-> s]
    BY <1>3 DEF Offers
  <2>. QED  BY <2>1
<1>6. ASSUME Calm, s \in Live
      PROVE  /\ s \in Slots /\ handle[s].active /\ handle[s].file = NoFile /\ job[s] = <<>> /\ mail[s] = <<>>
             /\ handle[s].busy => ~aborted
             /\ \A i \in 2..Len(agenda), x \in Slots : Offers(i, x) => x # s
  <2>1. s \in Slots /\ Offers(1, s) /\ 1 \in Nat /\ 1 \in 1..Len(agenda)
    BY <1>3, <1>6 DEF Live, Offers
  <2>2. OffersInv /\ DispatchInv
    BY <1>6 DEF WorkerInv, AccountInv, AgendaInv, Calm, Clean
  <2>3. handle[s].active /\ Empty(s) /\ (handle[s].busy => ~aborted)
    BY <1>6, <2>1, <2>2 DEF OffersInv
  <2>4. handle[s].file = NoFile
    BY <1>6, <2>1, <2>2 DEF DispatchInv
  <2>5. ASSUME NEW i \in 2..Len(agenda), NEW x \in Slots, Offers(i, x) PROVE x # s
    <3>1. i \in Nat /\ 1 < i
      BY <1>3
    <3>. QED  BY <2>1, <2>2, <2>5, <3>1 DEF OffersInv
  <2>. QED  BY <2>1, <2>3, <2>4, <2>5 DEF Empty
<1>7. <<>> \o Tail(agenda) = Tail(agenda) /\ Call("maybeResolve") = <<Resolve>> /\ Resolve \in CallSet
  BY <1>3, ConcatEmptySeq DEF Call, Resolve, CallSet
<1>8. CASE /\ s \notin Live \/ aborted
           /\ agenda' = Tail(agenda) /\ UNCHANGED <<handle, job, fileQueue>>
  <2>1. \A x \in Live : Calm /\ Offers(1, x) => ~handle[x].busy
    BY <1>5, <1>6, <1>8 DEF Live
  <2>2. ASSUME Calm, dispatch = "open"
        PROVE  /\ (\E x \in Remaining : handle[x].busy) \/ Pending("maybeResolve")' \/ Pending("offered")'
               /\ offered' \/ Pending("offered")'
    <3>1. \A name \in {"maybeResolve", "offered"} : Pending(name) => Pending(name)'
      BY <1>3, <1>8, <2>2, NoCallLeft DEF Calm, Clean
    <3>. QED  BY <1>2, <2>2, <3>1 DEF AccountInv, DispatchInv
  <2>. QED  BY <1>2, <1>3, <1>7, <1>8, <2>1, <2>2, QuietCall
<1>9. ASSUME s \in Live, NEW busy \in BOOLEAN, NEW f \in Files \cup {NoFile},
             handle' = [handle EXCEPT ![s] = Holding(@, busy, f)], fileQueue' \in Seq(Files)
      PROVE  /\ \A x \in Slots : x # s => handle'[x] = handle[x]
             /\ handle'[s].there = handle[s].there /\ handle'[s].retired = handle[s].retired
             /\ handle'[s].active = handle[s].active /\ handle'[s].busy = busy /\ handle'[s].file = f
             /\ Live' = Live /\ Remaining' = Remaining /\ AccountTypeOK'
  <2>1. s \in Slots /\ handle'[s] = Holding(handle[s], busy, f) /\ IsHandle(handle[s])
    BY <1>1, <1>9 DEF UiTypeOK, Live
  <2>2. \A x \in Slots : x # s => handle'[x] = handle[x]
    BY <1>1, <1>9 DEF UiTypeOK
  <2>3. /\ handle'[s].there = handle[s].there /\ handle'[s].retired = handle[s].retired
        /\ handle'[s].active = handle[s].active /\ handle'[s].busy = busy /\ handle'[s].file = f
    BY <2>1, HoldingIsHandle
  <2>4. Live' = Live /\ Remaining' = Remaining
    <3>1. \A x \in Slots : (x \in Live' <=> x \in Live) /\ (handle'[x].active <=> handle[x].active)
      BY <2>2, <2>3 DEF Live
    <3>. QED  BY <3>1 DEF Live, Remaining
  <2>5. AccountTypeOK'
    <3>1. \A x \in Slots : handle'[x].file \in Files \cup {NoFile} /\ (handle'[x].active => handle'[x].there)
      BY <1>1, <2>2, <2>3 DEF AccountTypeOK
    <3>2. \A x \in respawning' : x \in Slots /\ handle'[x].there /\ handle'[x].retired
      BY <1>1, <1>2, <2>2, <2>3 DEF AccountTypeOK
    <3>. QED  BY <1>1, <1>2, <1>9, <3>1, <3>2 DEF AccountTypeOK
  <2>. QED  BY <2>2, <2>3, <2>4, <2>5
<1>10. ASSUME NEW x \in Slots, x # s, Calm, handle'[x] = handle[x], Live' = Live, job'[x] = job[x]
       PROVE  JobInv(x)'
  <2>1. JobInv(x)
    BY <1>10 DEF AccountInv
  <2>2. ~Offers(1, x)
    BY <1>5, <1>10
  <2>. QED  BY <1>2, <1>10, <2>1, <2>2 DEF JobInv
<1>11. CASE /\ s \in Live /\ ~aborted
            /\ handle' = [handle EXCEPT ![s] = Holding(@, FALSE, NoFile)]
            /\ agenda' = Call("maybeResolve") \o Tail(agenda)
            /\ UNCHANGED <<job, fileQueue>>
  <2>1. /\ \A x \in Slots : x # s => handle'[x] = handle[x]
        /\ ~handle'[s].busy /\ handle'[s].file = NoFile
        /\ Live' = Live /\ Remaining' = Remaining /\ AccountTypeOK'
    <3>1. fileQueue' \in Seq(Files)
      BY <1>1, <1>11 DEF AccountTypeOK
    <3>. QED  BY <1>9, <1>11, <3>1
  <2>. SUFFICES ASSUME Calm' PROVE AccountParts'
    BY <2>1 DEF AccountInv, AccountParts, Accounts
  <2>2. AccountParts /\ Calm /\ Clean
    BY <1>2 DEF AccountInv, AccountParts, Accounts, Calm, Clean
  <2>3. \A x \in Slots, g \in Files : (HeldBy(x, g)' <=> HeldBy(x, g)) /\ (HeldBy(x, g) => handle'[x].busy)
    <3>1. \A g \in Files : ~HeldBy(s, g) /\ ~HeldBy(s, g)'
      BY <1>6, <1>11, <2>1, <2>2, UiAssumption DEF HeldBy
    <3>. QED  BY <2>1, <2>2, <3>1 DEF HeldBy, AccountParts, PlaceInv
  <2>4. PlaceInv' /\ \A g \in Files : Waits(g)' <=> Waits(g)
    BY <1>11, <2>2, <2>3, PlacesStay DEF AccountParts
  <2>5. Accounts'
    BY <1>1, <1>2, <1>4, <2>2, <2>4, FilesStay DEF AccountParts
  <2>7. /\ Pending("maybeResolve")' /\ (Pending("offered") => Pending("offered")')
        /\ \A x : ToRetire(x)' => Resolve = [call |-> "retireWorker", slot |-> x]
        /\ \A x : \A i \in 1..Len(agenda') : Offers(i, x)' =>
              \/ Resolve = [call |-> "dispatchNext", slot |-> x]
              \/ \E j \in 2..Len(agenda) : Offers(j, x)
    <3>1. Resolve.call = "maybeResolve"
      BY DEF Resolve
    <3>2. agenda' = <<Resolve>> \o Tail(agenda)
      BY <1>7, <1>11
    <3>3. /\ Pending(Resolve.call)' /\ (Pending("offered") => Pending("offered")')
          /\ \A x : ToRetire(x)' => Resolve = [call |-> "retireWorker", slot |-> x]
          /\ \A x : \A i \in 1..Len(agenda') : Offers(i, x)' =>
                \/ Resolve = [call |-> "dispatchNext", slot |-> x]
                \/ \E j \in 2..Len(agenda) : Offers(j, x)
      BY <1>3, <1>7, <2>2, <3>2, OneCallMore
    <3>. QED  BY <3>1, <3>3
  <2>8. DispatchInv'
    <3>2. \A x : Resolve # [call |-> "retireWorker", slot |-> x] /\ Resolve # [call |-> "dispatchNext", slot |-> x]
      BY DEF Resolve
    <3>3. \A j \in 2..Len(agenda) : j \in 1..Len(agenda)
      BY <1>3
    <3>4. \A i \in 1..Len(agenda'), x \in Slots : Offers(i, x)' /\ x \in Live' => handle'[x].file = NoFile
      BY <2>1, <2>2, <2>7, <3>2, <3>3 DEF AccountParts, DispatchInv
    <3>. QED  BY <1>2, <1>11, <2>2, <2>7, <3>2, <3>4 DEF AccountParts, DispatchInv
  <2>9. JobInv(s)'
    BY <1>2, <1>6, <1>11, <2>1, <2>2 DEF JobInv
  <2>10. ASSUME NEW x \in Slots PROVE JobInv(x)'
    BY <1>10, <1>11, <2>1, <2>2, <2>9
  <2>. QED  BY <2>4, <2>5, <2>8, <2>10 DEF AccountParts
<1>12. CASE /\ s \in Live /\ ~aborted /\ fits # {}
            /\ fileQueue' = RemoveAt(fileQueue, Min(fits))
            /\ handle' = [handle EXCEPT ![s] = Holding(@, TRUE, fileQueue[Min(fits)])]
            /\ job' = [job EXCEPT ![s] = IF child[s] = "up" THEN Append(@, fileQueue[Min(fits)]) ELSE @]
            /\ agenda' = (IF child[s] = "closed" THEN Calls("retireWorker", <<s>>) ELSE <<>>) \o Tail(agenda)
  <2>1. PICK k : k = Min(fits) /\ k \in 1..Len(fileQueue)
    <3>1. fits \in SUBSET Nat
      OBVIOUS
    <3>2. Min(fits) \in fits
      BY <1>12, <3>1, MinIsMember
    <3>. QED  BY <3>2
  <2>2. PICK next \in Files : next = fileQueue[k]
    <3>1. \A i \in 1..Len(fileQueue) : fileQueue[i] \in Files
      BY <1>1 DEF AccountTypeOK
    <3>. QED  BY <2>1, <3>1
  <2>3. /\ fileQueue' = RemoveAt(fileQueue, k) /\ handle' = [handle EXCEPT ![s] = Holding(@, TRUE, next)]
        /\ job' = [job EXCEPT ![s] = IF child[s] = "up" THEN Append(@, next) ELSE @]
    BY <1>12, <2>1, <2>2
  <2>4. fileQueue' \in Seq(Files)
    BY <1>1, <2>1, <2>3, RemoveAtTakes DEF AccountTypeOK
  <2>5. /\ \A x \in Slots : x # s => handle'[x] = handle[x] /\ job'[x] = job[x]
        /\ handle'[s].active = handle[s].active /\ handle'[s].busy /\ handle'[s].file = next
        /\ Live' = Live /\ Remaining' = Remaining /\ AccountTypeOK'
    <3>1. \A x \in Slots : x # s => job'[x] = job[x]
      BY <1>1, <2>3 DEF UiTypeOK
    <3>2. handle'[s].busy = TRUE /\ handle'[s].file = next /\ handle'[s].active = handle[s].active
          /\ (\A x \in Slots : x # s => handle'[x] = handle[x])
          /\ Live' = Live /\ Remaining' = Remaining /\ AccountTypeOK'
      BY <1>9, <1>12, <2>2, <2>3, <2>4
    <3>. QED  BY <3>1, <3>2
  <2>. HIDE DEF fits
  <2>. SUFFICES ASSUME Calm' PROVE AccountParts'
    BY <2>5 DEF AccountInv, AccountParts, Accounts
  <2>6. AccountParts /\ Calm /\ Clean
    BY <1>2 DEF AccountInv, AccountParts, Accounts, Calm, Clean
  <2>7. OnceEach(fileQueue') /\ ToSet(fileQueue') = ToSet(fileQueue) \ {next} /\ next \in ToSet(fileQueue)
    <3>1. OnceEach(fileQueue) /\ fileQueue \in Seq(Files)
      BY <1>1, <2>6 DEF AccountParts, PlaceInv, OnceEach, AccountTypeOK
    <3>2. DOMAIN fileQueue = 1..Len(fileQueue)
      BY <3>1, LenProperties
    <3>3. next \in ToSet(fileQueue)
      BY <2>1, <2>2, <3>2 DEF ToSet
    <3>. QED  BY <2>1, <2>2, <2>3, <3>1, <3>3, RemoveAtTakes
  <2>8. \A x \in Slots, g \in Files : HeldBy(x, g)' <=> IF x = s THEN g = next ELSE HeldBy(x, g)
    BY <1>12, <2>5 DEF HeldBy
  <2>9. \A g \in Files : ~HeldBy(s, g)
    BY <1>6, <1>12, <2>6, UiAssumption DEF HeldBy
  <2>10. s \in Slots /\ s \in Remaining /\ next # NoFile
    BY <1>6, <1>12, <2>2, <2>6, UiAssumption DEF Remaining
  <2>11. PlaceInv'
    <3>1. ASSUME NEW x \in Slots, NEW g \in Files, HeldBy(x, g)'
          PROVE  /\ handle'[x].busy /\ g \notin ToSet(fileQueue')
                 /\ \A y \in Slots : HeldBy(y, g)' => y = x
      <4>1. CASE x = s
        BY <2>5, <2>6, <2>7, <2>8, <3>1, <4>1 DEF AccountParts, PlaceInv
      <4>2. CASE x # s
        BY <2>5, <2>6, <2>7, <2>8, <3>1, <4>2 DEF AccountParts, PlaceInv
      <4>. QED  BY <4>1, <4>2
    <3>. QED  BY <2>7, <3>1 DEF PlaceInv, OnceEach
  <2>12. \A g \in Files : Waits(g)' <=> Waits(g)
    BY <2>7, <2>8, <2>9, <2>10 DEF Waits
  <2>13. Accounts'
    BY <1>1, <1>2, <1>4, <2>6, <2>12, FilesStay DEF AccountParts
  <2>14. retire \in CallSet /\ (agenda' = <<retire>> \o Tail(agenda) \/ agenda' = Tail(agenda))
    BY <1>7, <1>12, <2>10, CallOfOne
  <2>16. /\ Pending("offered") => Pending("offered")'
         /\ \A x : ToRetire(x)' => retire = [call |-> "retireWorker", slot |-> x]
         /\ \A x : \A i \in 1..Len(agenda') : Offers(i, x)' =>
               \/ retire = [call |-> "dispatchNext", slot |-> x]
               \/ \E j \in 2..Len(agenda) : Offers(j, x)
    <3>. HIDE DEF retire
    <3>1. CASE agenda' = <<retire>> \o Tail(agenda)
      BY <1>3, <2>6, <2>14, <3>1, OneCallMore
    <3>2. CASE agenda' = Tail(agenda)
      BY <1>3, <2>6, <3>2, NoCallLeft
    <3>. QED  BY <2>14, <3>1, <3>2
  <2>17. DispatchInv'
    <3>1. \A x : (retire = [call |-> "retireWorker", slot |-> x] => x = s)
                 /\ retire # [call |-> "dispatchNext", slot |-> x]
      OBVIOUS
    <3>2. \A j \in 2..Len(agenda) : j \in 1..Len(agenda)
      BY <1>3
    <3>. HIDE DEF retire
    <3>3. \A i \in 1..Len(agenda'), x \in Slots : Offers(i, x)' /\ x \in Live' => handle'[x].file = NoFile
      <4>. SUFFICES ASSUME NEW i \in 1..Len(agenda'), NEW x \in Slots, Offers(i, x)', x \in Live'
                    PROVE  handle'[x].file = NoFile
        OBVIOUS
      <4>1. PICK j \in 2..Len(agenda) : Offers(j, x)
        BY <2>16, <3>1
      <4>2. x # s /\ x \in Live /\ j \in 1..Len(agenda)
        BY <1>6, <1>12, <2>5, <2>6, <3>2, <4>1
      <4>. QED  BY <2>5, <2>6, <4>1, <4>2 DEF AccountParts, DispatchInv
    <3>4. dispatch \in {"settled", "rejected"} /\ ~aborted => FALSE
      <4>1. Len(fileQueue) # 0
        BY <2>1
      <4>. QED  BY <2>6, <4>1, EmptyIsSeq DEF AccountParts, DispatchInv
    <3>5. dispatch = "open" => offered \/ Pending("offered")'
      BY <2>6, <2>16 DEF AccountParts, DispatchInv
    <3>6. \A x \in Slots : ToRetire(x)' => x \in Remaining' /\ \E t \in Remaining' : handle'[t].file # NoFile
      BY <2>5, <2>10, <2>16, <3>1
    <3>7. s \in Remaining' /\ handle'[s].busy
      BY <2>5, <2>10
    <3>. QED  BY <1>2, <3>3, <3>4, <3>5, <3>6, <3>7 DEF DispatchInv
  <2>18. JobInv(s)'
    <3>1. job'[s] = <<next>> \/ job'[s] = <<>>
      <4>1. Append(<<>>, next) = <<next>>
        OBVIOUS
      <4>2. job'[s] = IF child[s] = "up" THEN Append(job[s], next) ELSE job[s]
        BY <1>1, <2>3, <2>10 DEF UiTypeOK
      <4>. QED  BY <1>6, <1>12, <2>6, <4>1, <4>2
    <3>. QED  BY <1>2, <1>6, <1>12, <2>5, <2>6, <2>10, <3>1 DEF JobInv
  <2>19. ASSUME NEW x \in Slots PROVE JobInv(x)'
    BY <1>10, <2>5, <2>6, <2>18
  <2>. QED  BY <2>11, <2>13, <2>17, <2>19 DEF AccountParts
<1>. QED  BY <1>2, <1>8, <1>11, <1>12

\* retireWorker: the file of a worker that is given up is interrupted, goes back to
\* the queue, or fails with those that no worker is left for.
LEMMA RetireKeepsAccounts ==
    ASSUME UiInv, WorkerInv, AccountInv, RetireWorker
    PROVE  AccountInv'
<1>1. UiTypeOK /\ WorkerTypeOK /\ AccountTypeOK
  BY DEF UiInv, WorkerInv, AccountInv
<1>a. PICK s : s = Caller
  OBVIOUS
<1>b. PICK f : f = handle[s].file
  OBVIOUS
<1>c. PICK queue : queue = (IF f # NoFile /\ ~aborted THEN <<f>> ELSE <<>>) \o fileQueue
  OBVIOUS
<1>d. PICK rest : rest = Remaining \ {s}
  OBVIOUS
<1>. DEFINE orphans == {g \in ToSet(queue) : \A x \in rest : suite.device[x] # BucketOf(g)}
            idle == {x \in rest : ~handle[x].busy}
            cut == IF aborted THEN {f} \ {NoFile} ELSE {}
            offer(y) == [call |-> "dispatchNext", slot |-> y]
<1>2. UNCHANGED <<suite, runner, wave, verdict, want, step, aborted, corner, respawning, offered, job, mail>>
  BY DEF RetireWorker, requestVars, ghostVars
<1>3. \/ s \notin Live /\ agenda' = Tail(agenda)
         /\ UNCHANGED <<handle, fileQueue, dispatch, anyFailed, failedProjects, outcome, times>>
      \/ /\ s \in Live /\ handle' = [handle EXCEPT ![s] = GivenUp(@)]
         /\ ReportLost(cut, orphans)
         /\ fileQueue' \in InOrder(queue, ToSet(queue) \ orphans)
         /\ anyFailed' = (anyFailed \/ orphans # {})
         /\ failedProjects' = failedProjects \cup {suite.project[g] : g \in orphans}
         /\ \/ /\ rest = {} /\ agenda' = Tail(agenda)
               /\ dispatch' = IF dispatch # "open" THEN dispatch
                              ELSE IF aborted THEN "settled" ELSE "rejected"
            \/ /\ rest # {} /\ dispatch' = dispatch
               /\ agenda' = (IF idle # {} THEN Calls("dispatchNext", <<Min(idle)>>) ELSE <<>>)
                            \o Call("maybeResolve") \o Tail(agenda)
  BY <1>a, <1>b, <1>c, <1>d DEF RetireWorker
<1>4. /\ agenda # <<>> /\ agenda[1] = [call |-> "retireWorker", slot |-> s]
      /\ agenda[1].call = "retireWorker" /\ Tail(agenda) \in Seq(CallSet) /\ Len(agenda) \in Nat \ {0}
  <2>1. /\ agenda # <<>> /\ agenda[1].call = "retireWorker" /\ s = agenda[1].slot /\ agenda[1] \in CallSet
        /\ Tail(agenda) \in Seq(CallSet) /\ Len(agenda) \in Nat \ {0}
    BY <1>1, <1>a, HeadCall, TailShifts DEF RetireWorker, WorkerTypeOK
  <2>. QED  BY <2>1 DEF CallSet
<1>5. SameRun
  BY <1>2 DEF SameRun, Under
<1>6. CASE s \notin Live /\ agenda' = Tail(agenda)
           /\ UNCHANGED <<handle, fileQueue, dispatch, anyFailed, failedProjects, outcome, times>>
  <2>1. \A x : ~Offers(1, x)
    BY <1>4 DEF Offers
  <2>2. ASSUME Calm, dispatch = "open"
        PROVE  /\ (\E x \in Remaining : handle[x].busy) \/ Pending("maybeResolve")' \/ Pending("offered")'
               /\ offered' \/ Pending("offered")'
    <3>1. \A name \in {"maybeResolve", "offered"} : Pending(name) => Pending(name)'
      BY <1>4, <1>6, <2>2, NoCallLeft DEF Calm, Clean
    <3>. QED  BY <1>2, <2>2, <3>1 DEF AccountInv, DispatchInv
  <2>3. agenda' = <<>> \o Tail(agenda)
    BY <1>4, <1>6, ConcatEmptySeq
  <2>. QED  BY <1>2, <1>4, <1>6, <2>1, <2>2, <2>3, QuietCall
<1>7. CASE /\ s \in Live /\ handle' = [handle EXCEPT ![s] = GivenUp(@)]
           /\ ReportLost(cut, orphans)
           /\ fileQueue' \in InOrder(queue, ToSet(queue) \ orphans)
           /\ anyFailed' = (anyFailed \/ orphans # {})
           /\ failedProjects' = failedProjects \cup {suite.project[g] : g \in orphans}
           /\ \/ /\ rest = {} /\ agenda' = Tail(agenda)
                 /\ dispatch' = IF dispatch # "open" THEN dispatch
                                ELSE IF aborted THEN "settled" ELSE "rejected"
              \/ /\ rest # {} /\ dispatch' = dispatch
                 /\ agenda' = (IF idle # {} THEN Calls("dispatchNext", <<Min(idle)>>) ELSE <<>>)
                              \o Call("maybeResolve") \o Tail(agenda)
  <2>1. s \in Slots /\ f \in Files \cup {NoFile} /\ handle[s].there /\ ~handle[s].retired
    BY <1>1, <1>7, <1>b DEF AccountTypeOK, Live
  <2>2. /\ \A x \in Slots : x # s => handle'[x] = handle[x]
        /\ handle'[s].there = handle[s].there /\ handle'[s].active = handle[s].active
        /\ handle'[s].retired /\ handle'[s].file = NoFile
    <3>1. handle'[s] = GivenUp(handle[s]) /\ IsHandle(handle[s])
      BY <1>1, <1>7, <2>1 DEF UiTypeOK
    <3>2. \A x \in Slots : x # s => handle'[x] = handle[x]
      BY <1>1, <1>7 DEF UiTypeOK
    <3>. QED  BY <3>1, <3>2, GivenUpIsHandle
  <2>3. Live' = Live \ {s} /\ Remaining' = rest
    <3>1. \A x \in Slots : x \in Live' <=> x \in Live /\ x # s
      BY <2>2 DEF Live
    <3>2. \A x \in Slots : x \in Remaining' <=> x \in Remaining /\ x # s
      BY <2>2, <3>1 DEF Remaining
    <3>. QED  BY <1>d, <3>1, <3>2 DEF Live, Remaining
  <2>4. queue \in Seq(Files) /\ fileQueue' \in Seq(Files) /\ ToSet(fileQueue') = ToSet(queue) \ orphans
        /\ (OnceEach(queue) => OnceEach(fileQueue'))
    <3>1. fileQueue \in Seq(Files) /\ <<>> \o fileQueue = fileQueue
      BY <1>1, ConcatEmptySeq DEF AccountTypeOK
    <3>2. f # NoFile => <<f>> \o fileQueue \in Seq(Files)
      BY <2>1, <3>1, OneBefore
    <3>3. queue \in Seq(Files)
      BY <1>c, <3>1, <3>2
    <3>. HIDE DEF orphans
    <3>4. PICK p \in InOrder(queue, ToSet(queue) \ orphans) : fileQueue' = p
      BY <1>7
    <3>. QED  BY <3>3, <3>4, InOrderTakes
  <2>5. AccountTypeOK'
    <3>1. \A x \in Slots : handle'[x].file \in Files \cup {NoFile} /\ (handle'[x].active => handle'[x].there)
      BY <1>1, <2>1, <2>2 DEF AccountTypeOK
    <3>2. \A x \in respawning' : x \in Slots /\ handle'[x].there /\ handle'[x].retired
      BY <1>1, <1>2, <2>1, <2>2 DEF AccountTypeOK
    <3>3. outcome' = [g \in Files |-> outcome'[g]] /\ times' \in [Files -> Nat]
      <4>. HIDE DEF orphans, cut
      <4>. QED  BY <1>1, <1>7 DEF ReportLost, AccountTypeOK
    <3>. QED  BY <1>1, <1>2, <2>4, <3>1, <3>2, <3>3 DEF AccountTypeOK
  <2>. SUFFICES ASSUME Calm' PROVE AccountParts'
    BY <2>5 DEF AccountInv, AccountParts, Accounts
  <2>6. AccountParts /\ Calm /\ Clean
    BY <1>2 DEF AccountInv, AccountParts, Accounts, Calm, Clean
  <2>7. /\ dispatch = "open" /\ s \in Remaining /\ runner # Nobody
        /\ ~aborted => \E t \in Remaining : handle[t].file # NoFile
        /\ \A i \in 1..Len(agenda), x \in Slots : ~Offers(i, x)
    <3>1. AgendaInv /\ 1 \in 1..Len(agenda) /\ \A i \in 1..Len(agenda) : i \in Nat
      BY <1>4, <2>6 DEF WorkerInv
    <3>2. dispatch = "open"
      BY <1>4, <3>1 DEF AgendaInv, RetiresInv
    <3>3. \A i \in 1..Len(agenda), x \in Slots : ~Offers(i, x)
      BY <1>4, <3>1 DEF AgendaInv, OffersInv
    <3>4. ToRetire(s)
      BY <1>4 DEF ToRetire
    <3>. QED  BY <2>1, <2>6, <3>2, <3>3, <3>4, UnderRuns DEF AccountParts, DispatchInv
  <2>8. \A x \in Slots, g \in Files : HeldBy(x, g)' <=> HeldBy(x, g) /\ x # s
    BY <2>2, <2>3 DEF HeldBy
  <2>9. /\ \A g \in Files : HeldBy(s, g) <=> g = f
        /\ f # NoFile => f \in Files /\ f \notin ToSet(fileQueue) /\ \A x \in Slots : HeldBy(x, f) => x = s
    <3>1. \A g \in Files : HeldBy(s, g) <=> g = f
      BY <1>7, <1>b DEF HeldBy
    <3>. QED  BY <2>1, <2>6, <3>1 DEF AccountParts, PlaceInv
  <2>10. OnceEach(fileQueue')
    /\ ToSet(queue) = IF f # NoFile /\ ~aborted THEN ToSet(fileQueue) \cup {f} ELSE ToSet(fileQueue)
    <3>1. fileQueue \in Seq(Files) /\ OnceEach(fileQueue) /\ <<>> \o fileQueue = fileQueue
      BY <1>1, <2>6, ConcatEmptySeq DEF AccountTypeOK, AccountParts, PlaceInv, OnceEach
    <3>2. f # NoFile => /\ OnceEach(<<f>> \o fileQueue)
                        /\ ToSet(<<f>> \o fileQueue) = ToSet(fileQueue) \cup {f}
      BY <2>9, <3>1, PutBackTakes
    <3>. QED  BY <1>c, <2>4, <3>1, <3>2
  <2>11. ToSet(queue) \subseteq Files /\ ToSet(fileQueue) \subseteq Files
    <3>1. \A q \in Seq(Files) : ToSet(q) \subseteq Files
      BY DEF ToSet
    <3>. QED  BY <1>1, <2>4, <3>1 DEF AccountTypeOK
  <2>12. orphans \subseteq ToSet(queue) /\ (rest = {} => orphans = ToSet(queue))
    OBVIOUS
  <2>13. failedProjects' # {} => failedProjects # {} \/ orphans # {}
    BY <1>7
  <2>. HIDE DEF orphans
  <2>14. PlaceInv'
    <3>1. ASSUME NEW x \in Slots, NEW g \in Files, HeldBy(x, g)'
          PROVE  /\ handle'[x].busy /\ g \notin ToSet(fileQueue')
                 /\ \A y \in Slots : HeldBy(y, g)' => y = x
      <4>1. HeldBy(x, g) /\ x # s /\ g # f
        BY <2>1, <2>8, <2>9, <3>1, UiAssumption
      <4>2. g \notin ToSet(fileQueue')
        BY <2>4, <2>6, <2>10, <4>1 DEF AccountParts, PlaceInv
      <4>. QED  BY <2>2, <2>6, <2>8, <4>1, <4>2 DEF AccountParts, PlaceInv
    <3>. QED  BY <2>10, <3>1 DEF PlaceInv, OnceEach
  <2>. DEFINE fs == cut \cup orphans
  <2>15. fs \in SUBSET Files /\ \A g \in fs : Waits(g)
    <3>1. \A g \in orphans : g \in Files /\ (g \in ToSet(fileQueue) \/ HeldBy(s, g))
      BY <2>9, <2>10, <2>11, <2>12
    <3>. QED  BY <2>1, <2>9, <3>1 DEF Waits
  <2>16. \A g \in Files : /\ Waits(g)' => Waits(g) /\ g \notin fs
                          /\ ~aborted /\ Waits(g) => Waits(g)' \/ g \in fs
    <3>. SUFFICES ASSUME NEW g \in Files
                  PROVE  /\ Waits(g)' => Waits(g) /\ g \notin fs
                         /\ ~aborted /\ Waits(g) => Waits(g)' \/ g \in fs
      OBVIOUS
    <3>1. Waits(g) <=> g \in ToSet(fileQueue) \/ g = f \/ \E x \in Slots : HeldBy(x, g) /\ x # s
      BY <2>1, <2>9 DEF Waits
    <3>2. Waits(g)' <=> g \in ToSet(queue) \ orphans \/ \E x \in Slots : HeldBy(x, g) /\ x # s
      BY <2>4, <2>8 DEF Waits
    <3>3. g # NoFile
      BY UiAssumption
    <3>4. \A x \in Slots : HeldBy(x, g) => g \notin ToSet(fileQueue) /\ (x # s => g # f)
      <4>1. \A x \in Slots : HeldBy(x, g) => g \notin ToSet(fileQueue)
        BY <2>6 DEF AccountParts, PlaceInv
      <4>2. \A x \in Slots : HeldBy(x, g) /\ x # s => g # f
        BY <2>9, <3>3
      <4>. QED  BY <4>1, <4>2
    <3>. QED  BY <2>9, <2>10, <2>12, <3>1, <3>2, <3>3, <3>4
  <2>17. Accounts'
    <3>1. Told(fs, "unservable") /\ AccountTypeOK /\ Accounts
      <4>1. cut \cap orphans = {} /\ (~aborted => cut = {})
        BY <2>9, <2>10, <2>12
      <4>. HIDE DEF cut
      <4>2. Told(cut \cup orphans, "unservable")
        BY <1>1, <1>2, <1>7, <4>1, LostAreTold
      <4>. QED  BY <1>1, <2>6, <4>2 DEF AccountParts
    <3>2. ~aborted' => Blamed(fs, "unservable")
      <4>. SUFFICES ASSUME ~aborted PROVE Blamed(fs, "unservable")
        BY <1>2
      <4>1. fs = orphans
        OBVIOUS
      <4>2. rest = {} => orphans # {}
        <5>. SUFFICES ASSUME rest = {} PROVE f # NoFile
          BY <2>10, <2>12
        <5>1. \A t \in Remaining : t = s
          BY <1>d
        <5>. QED  BY <1>b, <2>7, <5>1
      <4>. QED  BY <1>7, <2>7, <2>13, <4>1, <4>2 DEF Blamed
    <3>3. \A g \in Files : Waits(g)' => Waits(g) /\ g \notin fs
      BY <2>16
    <3>4. ~aborted' => \A g \in Files : Waits(g) => Waits(g)' \/ g \in fs
      BY <1>2, <2>16
    <3>. HIDE DEF fs
    <3>. QED  BY <1>5, <2>7, <2>15, <3>1, <3>2, <3>3, <3>4, FilesMove
  <2>18. /\ Call("maybeResolve") = <<Resolve>> /\ Resolve \in CallSet
         /\ \A y \in Slots : Calls("dispatchNext", <<y>>) = <<offer(y)>> /\ offer(y) \in CallSet
    <3>1. Call("maybeResolve") = <<Resolve>> /\ Resolve \in CallSet
      BY DEF Call, CallSet, Resolve
    <3>. QED  BY <3>1, CallOfOne
  <2>19. idle \subseteq Slots /\ (idle # {} => Min(idle) \in idle)
    <3>1. idle \subseteq Slots /\ idle \subseteq Nat
      BY <1>d, UiAssumption DEF Remaining, Live, Slots
    <3>. QED  BY <3>1, MinIsMember
  <2>20. \E p \in Seq(CallSet) :
           /\ agenda' = p \o Tail(agenda)
           /\ rest # {} => \E i \in 1..Len(p) : p[i] = Resolve
           /\ \A i \in 1..Len(p) : p[i] = Resolve \/ \E y \in idle : p[i] = offer(y)
    <3>1. ASSUME NEW c \in CallSet PROVE <<c>> \in Seq(CallSet) /\ Len(<<c>>) = 1 /\ <<c>>[1] = c
      OBVIOUS
    <3>2. <<Resolve>> \in Seq(CallSet) /\ Len(<<Resolve>>) = 1 /\ <<Resolve>>[1] = Resolve
      BY <2>18, <3>1
    <3>3. CASE rest = {}
      <4>1. agenda' = <<>> \o Tail(agenda) /\ <<>> \in Seq(CallSet)
        BY <1>4, <1>7, <3>3, ConcatEmptySeq
      <4>2. \A i : i \notin 1..Len(<<>>)
        OBVIOUS
      <4>. QED  BY <3>3, <4>1, <4>2
    <3>4. CASE rest # {} /\ idle = {}
      <4>1. agenda' = <<>> \o Call("maybeResolve") \o Tail(agenda)
        BY <1>7, <3>4
      <4>2. agenda' = <<Resolve>> \o Tail(agenda)
        BY <2>18, <3>2, <4>1, ConcatEmptySeq
      <4>3. 1 \in 1..Len(<<Resolve>>) /\ \A i \in 1..Len(<<Resolve>>) : <<Resolve>>[i] = Resolve
        BY <3>2
      <4>. QED  BY <3>2, <4>2, <4>3
    <3>5. CASE rest # {} /\ idle # {}
      <4>1. PICK y \in idle : y = Min(idle)
        BY <2>19, <3>5
      <4>2. agenda' = <<offer(y)>> \o <<Resolve>> \o Tail(agenda) /\ y \in Slots
        BY <1>7, <2>18, <2>19, <3>5, <4>1
      <4>3. <<offer(y)>> \in Seq(CallSet) /\ Len(<<offer(y)>>) = 1 /\ <<offer(y)>>[1] = offer(y)
        <5>1. offer(y) \in CallSet
          BY <2>18, <4>2
        <5>. HIDE DEF offer
        <5>. QED  BY <3>1, <5>1
      <4>. HIDE DEF offer
      <4>4. PICK p \in Seq(CallSet) : p = <<offer(y)>> \o <<Resolve>> /\ Len(p) = 2
                                      /\ p[1] = offer(y) /\ p[2] = Resolve
        <5>1. 1 \in 1..Len(<<Resolve>>) /\ 1 + 1 = 2
          BY <3>2
        <5>2. offer(y) \in CallSet
          BY <2>18, <4>2
        <5>3. /\ <<offer(y)>> \o <<Resolve>> \in Seq(CallSet)
              /\ Len(<<offer(y)>> \o <<Resolve>>) = Len(<<Resolve>>) + 1
              /\ (<<offer(y)>> \o <<Resolve>>)[1] = offer(y)
              /\ \A i \in 1..Len(<<Resolve>>) : (<<offer(y)>> \o <<Resolve>>)[i + 1] = <<Resolve>>[i]
          BY <3>2, <5>2, OneBefore
        <5>4. (<<offer(y)>> \o <<Resolve>>)[2] = Resolve
          BY <3>2, <5>1, <5>3
        <5>. DEFINE both == <<offer(y)>> \o <<Resolve>>
        <5>5. both \in Seq(CallSet) /\ Len(both) = 2 /\ both[1] = offer(y) /\ both[2] = Resolve
          <6>1. Len(both) = 2
            BY <3>2, <5>1, <5>3
          <6>. QED  BY <5>3, <5>4, <6>1
        <5>. HIDE DEF both
        <5>6. \E p \in Seq(CallSet) : p = both /\ Len(p) = 2 /\ p[1] = offer(y) /\ p[2] = Resolve
          BY <5>5
        <5>. QED  BY <5>6 DEF both
      <4>5. agenda' = p \o Tail(agenda)
        BY <4>2, <4>4
      <4>6. 2 \in 1..Len(p) /\ \A i \in 1..Len(p) : i = 1 \/ i = 2
        BY <4>4
      <4>. QED  BY <4>4, <4>5, <4>6
    <3>. QED  BY <3>3, <3>4, <3>5
  <2>. HIDE DEF idle, offer
  <2>21. PICK p \in Seq(CallSet) :
           /\ agenda' = p \o Tail(agenda)
           /\ rest # {} => \E i \in 1..Len(p) : p[i] = Resolve
           /\ \A i \in 1..Len(p) : p[i] = Resolve \/ \E y \in idle : p[i] = offer(y)
    BY <2>20
  <2>22. /\ \A i \in 1..Len(p) : i \in 1..Len(agenda') /\ agenda'[i] = p[i]
         /\ Pending("offered") => Pending("offered")'
         /\ \A x : ToRetire(x)' => p # <<>> /\ p[1] = [call |-> "retireWorker", slot |-> x]
         /\ \A x : \A i \in 1..Len(agenda') : Offers(i, x)' =>
               \/ i \in 1..Len(p) /\ p[i] = offer(x)
               \/ \E j \in 2..Len(agenda) : Offers(j, x)
    BY <1>4, <2>6, <2>21, CallsMove DEF offer
  <2>23. rest # {} => Pending("maybeResolve")'
    <3>1. Resolve.call = "maybeResolve"
      BY DEF Resolve
    <3>. QED  BY <2>21, <2>22, <3>1 DEF Pending
  <2>24. \A x \in Slots : ~ToRetire(x)'
    <3>. SUFFICES ASSUME NEW x \in Slots, ToRetire(x)' PROVE FALSE
      OBVIOUS
    <3>1. 1 \in 1..Len(p) /\ p[1].call = "retireWorker"
      <4>1. p # <<>> /\ p[1] = [call |-> "retireWorker", slot |-> x]
        BY <2>22
      <4>. QED  BY <4>1, EmptySeq
    <3>2. Resolve.call # "retireWorker" /\ \A y : offer(y).call # "retireWorker"
      BY DEF Resolve, offer
    <3>. QED  BY <2>21, <3>1, <3>2
  <2>25. ASSUME NEW i \in 1..Len(agenda'), NEW x \in Slots, Offers(i, x)', x \in Live'
         PROVE  handle'[x].file = NoFile
    <3>1. \A j \in 2..Len(agenda) : j \in 1..Len(agenda)
      BY <1>4
    <3>2. i \in 1..Len(p) /\ p[i] = offer(x)
      BY <2>7, <2>22, <2>25, <3>1
    <3>3. Resolve # offer(x) /\ \A y : offer(y) = offer(x) => y = x
      BY DEF Resolve, offer
    <3>4. x \in idle
      BY <2>21, <3>2, <3>3
    <3>5. x \in Live /\ ~handle[x].busy /\ handle'[x] = handle[x]
      BY <1>d, <2>2, <2>3, <2>25, <3>4 DEF idle
    <3>6. handle[x].file \in Files => HeldBy(x, handle[x].file)
      BY <3>5 DEF HeldBy
    <3>. QED  BY <1>1, <2>6, <3>5, <3>6 DEF AccountTypeOK, AccountParts, PlaceInv
  <2>26. rest = {} => fileQueue' = <<>>
    <3>. SUFFICES ASSUME rest = {} PROVE fileQueue' = <<>>
      OBVIOUS
    <3>1. ToSet(fileQueue') = {}
      BY <2>4, <2>12
    <3>2. DOMAIN fileQueue' = 1..Len(fileQueue') /\ Len(fileQueue') \in Nat
      BY <2>4, LenProperties
    <3>3. Len(fileQueue') = 0
      <4>. SUFFICES ASSUME Len(fileQueue') # 0 PROVE FALSE
        OBVIOUS
      <4>1. 1 \in DOMAIN fileQueue'
        BY <3>2
      <4>. QED  BY <3>1, <4>1 DEF ToSet
    <3>. QED  BY <2>4, <3>3, EmptySeq
  <2>27. DispatchInv'
    <3>1. (dispatch' = "open" => rest # {}) /\ (dispatch' \in {"settled", "rejected"} => rest = {})
      BY <1>7, <2>7
    <3>2. offered' \/ Pending("offered")'
      BY <1>2, <2>6, <2>7, <2>22 DEF AccountParts, DispatchInv
    <3>. QED  BY <2>23, <2>24, <2>25, <2>26, <3>1, <3>2 DEF DispatchInv
  <2>28. ASSUME NEW x \in Slots PROVE JobInv(x)'
    <3>1. CASE x = s
      BY <2>3, <3>1 DEF JobInv
    <3>2. CASE x # s
      <4>1. JobInv(x) /\ ~Offers(1, x)
        <5>1. 1 \in 1..Len(agenda)
          BY <1>4
        <5>. QED  BY <2>6, <2>7, <5>1 DEF AccountParts
      <4>. QED  BY <1>2, <2>2, <2>3, <3>2, <4>1 DEF JobInv
    <3>. QED  BY <3>1, <3>2
  <2>. QED  BY <2>14, <2>17, <2>27, <2>28 DEF AccountParts
<1>. QED  BY <1>3, <1>6, <1>7

-----------------------------------------------------------------------------
(* The accounts: the waves.                                                *)

\* Nobody has a file between two dispatches.
LEMMA BetweenDispatches ==
    ASSUME WorkerInv, AccountInv, Calm, dispatch # "open", UNCHANGED <<job, mail>>,
           \A s \in Slots : /\ s \in Live' <=> s \in Live
                            /\ handle'[s].file = handle[s].file /\ (handle'[s].busy <=> handle[s].busy)
    PROVE  \A s \in Slots : /\ \A f \in Files : ~HeldBy(s, f) /\ ~HeldBy(s, f)'
                            /\ JobInv(s)' /\ (s \in Live' => handle'[s].file = NoFile)
<1>. SUFFICES ASSUME NEW s \in Slots
              PROVE  /\ \A f \in Files : ~HeldBy(s, f) /\ ~HeldBy(s, f)'
                     /\ JobInv(s)' /\ (s \in Live' => handle'[s].file = NoFile)
  OBVIOUS
<1>1. s \in Live => ~handle[s].busy /\ Empty(s) /\ handle[s].file = NoFile
  BY IdleWorkers DEF AccountInv, Calm, Clean
<1>. QED  BY <1>1, UiAssumption DEF HeldBy, JobInv, Empty

\* Only the runner's step says whether the wave is under way.
LEMMA UnderIs ==
    ASSUME UiInv, NEW r \in Requests, runner = r, \A q \in Requests \ {r} : step'[q] = step[q]
    PROVE  /\ Under <=> step[r] \in {"reviving", "dispatching"}
           /\ Under' <=> step'[r] \in {"reviving", "dispatching"}
<1>1. \A q \in Requests \ {r} : step[q] \notin {"reviving", "dispatching"}
  BY DEF UiInv, RunInv, RunSteps
<1>. QED  BY <1>1 DEF Under

\* Files of the wave are reported; the others of it wait, or it is over.
LEMMA WaveTurns ==
    ASSUME UiInv, AccountTypeOK, Accounts, runner # Nobody, UNCHANGED <<suite, runner, verdict, aborted>>,
           want'[runner] = want[runner], (wave' = wave + 1 /\ ~Under') \/ (wave' = wave /\ Under'),
           NEW fs \in SUBSET Files, NEW result, Report(fs, result),
           \A f \in fs : times[f] = 0 /\ InRun(f) /\ TurnOf(f) = wave,
           \A f \in Files : Waits(f)' =>
               Under' /\ f \notin fs /\ times[f] = 0 /\ InRun(f) /\ TurnOf(f) = wave,
           ~aborted => \A f \in Files : times[f] = 0 /\ InRun(f) /\ TurnOf(f) = wave => f \in fs \/ Waits(f)',
           ~aborted => Blamed(fs, result)
    PROVE  Accounts'
<1>1. /\ \A f \in Files : outcome'[f] = IF f \in fs THEN result ELSE outcome[f]
      /\ \A f \in Files : times'[f] = IF f \in fs THEN times[f] + 1 ELSE times[f]
      /\ \A f \in Files : times[f] \in Nat
  BY DEF Report, AccountTypeOK
<1>2. \A f \in Files : (InRun(f)' <=> InRun(f)) /\ TurnOf(f)' = TurnOf(f) /\ TurnOf(f) \in 1..2
  BY TurnIsWave DEF InRun, TurnOf, Mine
<1>3. wave \in Nat \ {0} /\ wave' \in Nat
  BY DEF AccountTypeOK
<1>4. \A f \in fs : times'[f] = 1
  BY <1>1
<1>5. WaitInv'
  <2>. SUFFICES ASSUME NEW f \in Files, Waits(f)'
                PROVE  Under' /\ times'[f] = 0 /\ InRun(f)' /\ TurnOf(f)' = wave'
    BY DEF WaitInv
  <2>. QED  BY <1>1, <1>2
<1>6. TimesInv'
  <2>. SUFFICES ASSUME NEW f \in Files
                PROVE  /\ times'[f] \in {0, 1}
                       /\ times'[f] = 1 => InRun(f)' /\ (TurnOf(f)' < wave' \/ (Under' /\ TurnOf(f)' = wave'))
                       /\ times'[f] = 0 /\ InRun(f)' /\ ~aborted' =>
                             TurnOf(f)' > wave' \/ (TurnOf(f)' = wave' /\ (~Under' \/ Waits(f)'))
    BY DEF TimesInv
  <2>1. CASE f \in fs
    <3>1. InRun(f)' /\ TurnOf(f)' = wave
      BY <1>2, <2>1
    <3>. QED  BY <1>3, <1>4, <2>1, <3>1
  <2>2. CASE f \notin fs
    <3>1. times'[f] = times[f]
      BY <1>1, <2>2
    <3>2. /\ times[f] \in {0, 1}
          /\ times[f] = 1 => InRun(f) /\ (TurnOf(f) < wave \/ (Under /\ TurnOf(f) = wave))
          /\ times[f] = 0 /\ InRun(f) /\ ~aborted =>
                TurnOf(f) > wave \/ (TurnOf(f) = wave /\ (~Under \/ Waits(f)))
      BY DEF Accounts, TimesInv
    <3>3. ASSUME times[f] = 0, InRun(f), ~aborted
          PROVE  TurnOf(f) > wave' \/ (TurnOf(f) = wave' /\ (~Under' \/ Waits(f)'))
      <4>1. CASE TurnOf(f) = wave
        BY <2>2, <3>3, <4>1
      <4>2. CASE TurnOf(f) > wave
        BY <1>2, <1>3, <4>2
      <4>. QED  BY <3>2, <3>3, <4>1, <4>2
    <3>4. ASSUME times[f] = 1 PROVE TurnOf(f) < wave' \/ (Under' /\ TurnOf(f) = wave')
      BY <1>2, <1>3, <3>2, <3>4
    <3>. QED  BY <1>2, <3>1, <3>2, <3>3, <3>4
  <2>. QED  BY <2>1, <2>2
<1>7. OutcomeInv'
  <2>. SUFFICES ASSUME ~aborted
                PROVE  /\ \A f \in Files : times'[f] = 1 => outcome'[f] = "passed" \/ anyFailed'
                       /\ anyFailed' => \E f \in Files : times'[f] = 1 /\ outcome'[f] \in {"failed", "unservable"}
                       /\ failedProjects' # {} => anyFailed'
                       /\ dispatch' = "rejected" => anyFailed'
    BY DEF OutcomeInv
  <2>1. Blamed(fs, result)
    OBVIOUS
  <2>2. /\ \A f \in Files : times[f] = 1 => outcome[f] = "passed" \/ anyFailed
        /\ anyFailed => \E f \in Files : times[f] = 1 /\ outcome[f] \in {"failed", "unservable"}
        /\ failedProjects # {} => anyFailed
        /\ dispatch = "rejected" => anyFailed
    BY DEF Accounts, OutcomeInv
  <2>3. \A f \in Files : times'[f] = 1 => outcome'[f] = "passed" \/ anyFailed'
    BY <1>1, <2>1, <2>2 DEF Blamed
  <2>4. ASSUME anyFailed' PROVE \E f \in Files : times'[f] = 1 /\ outcome'[f] \in {"failed", "unservable"}
    <3>1. CASE anyFailed
      <4>1. PICK f \in Files : times[f] = 1 /\ outcome[f] \in {"failed", "unservable"}
        BY <2>2, <3>1
      <4>2. f \notin fs
        BY <4>1
      <4>. QED  BY <1>1, <4>1, <4>2
    <3>2. CASE fs # {} /\ result \in {"failed", "unservable"}
      <4>1. PICK f \in fs : TRUE
        BY <3>2
      <4>. QED  BY <1>1, <1>4, <3>2, <4>1
    <3>. QED  BY <2>1, <2>4, <3>1, <3>2 DEF Blamed
  <2>5. (failedProjects' # {} => anyFailed') /\ (dispatch' = "rejected" => anyFailed')
    BY <2>1, <2>2 DEF Blamed
  <2>. QED  BY <2>3, <2>4, <2>5
<1>8. VerdictInv'
  BY DEF Accounts, VerdictInv, Honest, NoVerdict
<1>. QED  BY <1>5, <1>6, <1>7, <1>8 DEF Accounts

\* endRun: every file the run came to has been reported, and the verdict says how.
LEMMA EndedAccounts ==
    ASSUME UiInv, AccountTypeOK, Accounts, NEW r \in Requests, runner = r, NEW rejected \in BOOLEAN,
           EndRun(r, rejected), UNCHANGED <<outcome, times>>, \A f \in Files : ~Waits(f)',
           ~aborted => IF rejected THEN dispatch = "rejected" /\ Under /\ \A f \in Files : ~Waits(f)
                       ELSE wave > 2
    PROVE  Accounts'
<1>. DEFINE came == verdict'.files
<1>1. r # Nobody /\ \A f \in Files : TurnOf(f) \in 1..2 /\ suite.project[f] \in Projects
  BY TurnIsWave, UiAssumption
<1>2. /\ runner' = Nobody /\ anyFailed' = FALSE
      /\ verdict'.files = FilesOf(IF want[r] = "all"
                                  THEN {p \in Projects : rejected => suite.wave[p] <= wave}
                                  ELSE {want[r]})
      /\ verdict'.status = IF aborted THEN "stopped" ELSE IF rejected \/ anyFailed THEN "failed" ELSE "passed"
  BY DEF EndRun
<1>3. wave \in Nat \ {0}
  BY DEF AccountTypeOK
<1>4. \A f \in Files : f \in came <=> InRun(f) /\ (rejected => TurnOf(f) <= wave)
  <2>1. CASE want[r] = "all"
    BY <1>1, <1>2, <2>1 DEF FilesOf, InRun, Mine, TurnOf
  <2>2. CASE want[r] # "all"
    BY <1>1, <1>2, <1>3, <2>2 DEF FilesOf, InRun, Mine, TurnOf
  <2>. QED  BY <2>1, <2>2
<1>5. came \subseteq Files
  BY <1>2 DEF FilesOf
<1>. HIDE DEF came
<1>6. \A f \in Files : times[f] \in {0, 1}
  BY <1>1 DEF Accounts, TimesInv
<1>7. ASSUME ~aborted
      PROVE  /\ \A f \in came : times[f] = 1
             /\ \A f \in Files : times[f] = 1 => outcome[f] = "passed" \/ anyFailed
             /\ rejected => anyFailed
             /\ anyFailed => \E f \in came : outcome[f] \in {"failed", "unservable"}
  <2>1. /\ \A f \in Files : times[f] = 1 => outcome[f] = "passed" \/ anyFailed
        /\ anyFailed => \E f \in Files : times[f] = 1 /\ outcome[f] \in {"failed", "unservable"}
        /\ dispatch = "rejected" => anyFailed
    BY <1>1, <1>7 DEF Accounts, OutcomeInv
  <2>2. \A f \in Files : /\ times[f] = 1 => InRun(f) /\ TurnOf(f) <= wave
                         /\ times[f] = 0 /\ InRun(f) =>
                               TurnOf(f) > wave \/ (TurnOf(f) = wave /\ (~Under \/ Waits(f)))
    BY <1>1, <1>3, <1>7 DEF Accounts, TimesInv
  <2>3. ASSUME NEW f \in came PROVE times[f] = 1
    <3>1. f \in Files /\ InRun(f) /\ (rejected => TurnOf(f) <= wave) /\ TurnOf(f) \in 1..2
      BY <1>1, <1>4, <1>5, <2>3
    <3>2. times[f] # 0
      BY <1>3, <1>7, <2>2, <3>1
    <3>. QED  BY <1>6, <3>1, <3>2
  <2>4. \A f \in Files : times[f] = 1 => f \in came
    BY <1>4, <2>2
  <2>. QED  BY <1>7, <2>1, <2>3, <2>4
<1>8. Honest'
  <2>. DEFINE with == {outcome[f] : f \in came}
              status == verdict'.status
  <2>1. status = "passed" => with \subseteq {"passed"}
    BY <1>2, <1>5, <1>7
  <2>2. status = "failed" => with \cap {"failed", "unservable"} # {}
    <3>. SUFFICES ASSUME status = "failed" PROVE with \cap {"failed", "unservable"} # {}
      OBVIOUS
    <3>1. ~aborted /\ anyFailed
      BY <1>2, <1>7
    <3>2. PICK f \in came : outcome[f] \in {"failed", "unservable"}
      BY <1>7, <3>1
    <3>. QED  BY <3>2
  <2>3. \A f \in came : times[f] <= 1 /\ (status # "stopped" => times[f] = 1)
    BY <1>2, <1>5, <1>6, <1>7
  <2>. QED  BY <2>1, <2>2, <2>3 DEF Honest, came
<1>. QED  BY <1>2, <1>8 DEF Accounts, WaitInv, TimesInv, OutcomeInv, VerdictInv

\* The files of a wave, or what is left of it, in the order of the config.
LEMMA WaveInOrder ==
    ASSUME NEW fs \in SUBSET Files, NEW p \in InOrder(FileOrder, fs)
    PROVE  p \in Seq(Files) /\ ToSet(p) = fs /\ OnceEach(p)
<1>1. FileOrder \in Seq(Files) /\ OnceEach(FileOrder)
  BY UiAssumption DEF OnceEach
<1>2. \A f \in Files : f \in ToSet(FileOrder)
  BY UiAssumption DEF ToSet
<1>3. /\ p \in Seq(Files) /\ ToSet(p) = ToSet(FileOrder) \cap fs
      /\ OnceEach(FileOrder) => OnceEach(p)
  BY <1>1, InOrderTakes
<1>. QED  BY <1>1, <1>2, <1>3

\* The next wave begins, has no files, or was the last.
LEMMA NextWaveKeepsAccounts ==
    ASSUME UiInv, WorkerInv, AccountInv, NEW r \in Requests, NextWave(r)
    PROVE  AccountInv'
<1>1. UiTypeOK /\ WorkerTypeOK /\ AccountTypeOK /\ RunInv
  BY DEF UiInv, WorkerInv, AccountInv
<1>2. /\ agenda = <<>> /\ step[r] = "between" /\ dispatch = "none"
      /\ UNCHANGED <<suite, dispatch, offered, agenda, handle, child, job, mail, respawning>>
  BY DEF NextWave, workerVars
<1>3. runner = r /\ r # Nobody
  BY <1>1, <1>2, UiAssumption DEF RunInv, RunSteps
<1>. DEFINE mine == IF want[r] = "all" THEN {p \in Projects : suite.wave[p] = wave}
                    ELSE IF wave = 1 THEN {want[r]} ELSE {}
            blocked == {p \in mine : want[r] = "all" /\ suite.needs[p] \cap failedProjects # {}}
            files == FilesOf(mine \ blocked)
            skipped == FilesOf(blocked)
<1>4. \/ /\ wave > 2 \/ aborted
         /\ EndRun(r, FALSE) /\ UNCHANGED <<aborted, fileQueue, outcome, times>>
      \/ /\ ~(wave > 2 \/ aborted) /\ Report(skipped, "skipped")
         /\ failedProjects' = failedProjects \cup blocked /\ anyFailed' = (anyFailed /\ wave > 1)
         /\ UNCHANGED <<runner, want, aborted, verdict, corner>>
         /\ \/ files = {} /\ wave' = wave + 1 /\ UNCHANGED <<step, fileQueue>>
            \/ /\ step' = [step EXCEPT ![r] = "reviving"] /\ wave' = wave
               /\ fileQueue' \in InOrder(FileOrder, files)
  BY DEF NextWave
<1>5. Calm' => Calm
  BY <1>4 DEF Calm, EndRun
<1>6. ASSUME Calm
      PROVE  /\ AccountParts
             /\ \A s \in Slots : /\ \A f \in Files : ~HeldBy(s, f) /\ ~HeldBy(s, f)'
                                 /\ JobInv(s)' /\ (s \in Live' => handle'[s].file = NoFile)
  <2>1. \A s \in Slots : /\ s \in Live' <=> s \in Live
                         /\ handle'[s].file = handle[s].file /\ (handle'[s].busy <=> handle[s].busy)
    BY <1>2 DEF Live
  <2>2. dispatch # "open"
    BY <1>2
  <2>. QED  BY <1>2, <1>6, <2>1, <2>2, BetweenDispatches DEF AccountInv, AccountParts, Accounts
<1>7. DispatchInv'
  <2>1. Len(agenda') = 0 /\ agenda' = <<>> /\ dispatch' = "none"
    BY <1>2
  <2>. QED  BY <2>1 DEF DispatchInv, ToRetire
<1>8. ~Under
  BY <1>1, <1>2, <1>3 DEF Under, RunInv, RunSteps
<1>9. CASE /\ wave > 2 \/ aborted
           /\ EndRun(r, FALSE) /\ UNCHANGED <<aborted, fileQueue, outcome, times>>
  <2>1. AccountTypeOK'
    <3>1. want' = [want EXCEPT ![r] = "all"] /\ wave' = 1
      BY <1>9 DEF EndRun, NoRun, Goes
    <3>. QED  BY <1>1, <1>2, <1>9, <3>1 DEF AccountTypeOK
  <2>. SUFFICES ASSUME Calm' PROVE AccountParts'
    BY <2>1 DEF AccountInv, AccountParts, Accounts
  <2>2. \A f \in Files : ~Waits(f)'
    <3>1. \A f \in Files : ~Waits(f)
      BY <1>5, <1>6, <1>8 DEF AccountParts, Accounts, WaitInv
    <3>. QED  BY <1>5, <1>6, <1>9, <3>1 DEF Waits
  <2>3. Accounts'
    BY <1>1, <1>3, <1>5, <1>6, <1>9, <2>2, EndedAccounts DEF AccountParts
  <2>4. PlaceInv'
    BY <1>5, <1>6, <1>9 DEF AccountParts, PlaceInv
  <2>. QED  BY <1>5, <1>6, <1>7, <2>3, <2>4 DEF AccountParts
<1>10. CASE /\ ~(wave > 2 \/ aborted) /\ Report(skipped, "skipped")
            /\ failedProjects' = failedProjects \cup blocked /\ anyFailed' = (anyFailed /\ wave > 1)
            /\ UNCHANGED <<runner, want, aborted, verdict, corner>>
            /\ \/ files = {} /\ wave' = wave + 1 /\ UNCHANGED <<step, fileQueue>>
               \/ /\ step' = [step EXCEPT ![r] = "reviving"] /\ wave' = wave
                  /\ fileQueue' \in InOrder(FileOrder, files)
  <2>1. skipped \in SUBSET Files /\ files \in SUBSET Files
    BY DEF FilesOf
  <2>2. \A f \in Files : /\ f \in skipped \/ f \in files <=> InRun(f) /\ TurnOf(f) = wave
                         /\ ~(f \in skipped /\ f \in files)
    <3>. SUFFICES ASSUME NEW f \in Files
                  PROVE  /\ f \in skipped \/ f \in files <=> suite.project[f] \in mine
                         /\ ~(f \in skipped /\ f \in files)
                         /\ suite.project[f] \in mine <=> InRun(f) /\ TurnOf(f) = wave
      OBVIOUS
    <3>1. suite.project[f] \in Projects
      BY <1>1, TurnIsWave
    <3>2. suite.project[f] \in mine <=> InRun(f) /\ TurnOf(f) = wave
      BY <1>3, <3>1 DEF InRun, Mine, TurnOf
    <3>3. blocked \subseteq mine
      OBVIOUS
    <3>. HIDE DEF mine, blocked
    <3>. QED  BY <3>2, <3>3 DEF FilesOf
  <2>3. skipped # {} => failedProjects # {}
    BY DEF FilesOf
  <2>4. blocked # {} => failedProjects # {}
    OBVIOUS
  <2>. HIDE DEF mine, blocked, files, skipped
  <2>5. fileQueue' \in Seq(Files)
    BY <1>1, <1>10, <2>1, WaveInOrder DEF AccountTypeOK
  <2>6. AccountTypeOK'
    <3>1. outcome' = [f \in Files |-> outcome'[f]] /\ times' \in [Files -> Nat]
      BY <1>1, <1>10 DEF Report, AccountTypeOK
    <3>2. wave' \in Nat \ {0}
      BY <1>1, <1>10 DEF AccountTypeOK
    <3>. QED  BY <1>1, <1>2, <1>10, <2>5, <3>1, <3>2 DEF AccountTypeOK
  <2>. SUFFICES ASSUME Calm' PROVE AccountParts'
    BY <2>6 DEF AccountInv, AccountParts, Accounts
  <2>7. AccountParts /\ Accounts /\ \A s \in Slots, f \in Files : ~HeldBy(s, f) /\ ~HeldBy(s, f)'
    BY <1>5, <1>6 DEF AccountParts
  <2>8. \A f \in Files : ~Waits(f) /\ f \notin ToSet(fileQueue)
    BY <1>8, <2>7 DEF Accounts, WaitInv, Waits
  <2>9. PlaceInv'
    <3>1. OnceEach(fileQueue')
      <4>1. OnceEach(fileQueue)
        BY <2>7 DEF AccountParts, PlaceInv, OnceEach
      <4>. QED  BY <1>10, <2>1, <4>1, WaveInOrder
    <3>. QED  BY <2>7, <3>1 DEF PlaceInv, OnceEach
  <2>10. /\ (wave' = wave + 1 /\ ~Under') \/ (wave' = wave /\ Under')
         /\ Under' <=> wave' = wave
         /\ \A f \in Files : Waits(f)' <=> f \in files /\ Under'
    <3>0. wave \in Nat /\ wave + 1 # wave
      BY <1>1 DEF AccountTypeOK
    <3>1. CASE files = {} /\ wave' = wave + 1 /\ UNCHANGED <<step, fileQueue>>
      <4>1. ~Under'
        BY <1>8, <3>1 DEF Under
      <4>. QED  BY <2>7, <2>8, <3>0, <3>1, <4>1 DEF Waits
    <3>2. CASE /\ step' = [step EXCEPT ![r] = "reviving"] /\ wave' = wave
               /\ fileQueue' \in InOrder(FileOrder, files)
      <4>1. Under'
        BY <1>1, <3>2 DEF Under, UiTypeOK
      <4>2. ToSet(fileQueue') = files
        BY <2>1, <3>2, WaveInOrder
      <4>. QED  BY <2>7, <3>2, <4>1, <4>2 DEF Waits
    <3>. QED  BY <1>10, <3>1, <3>2
  <2>11. \A f \in Files : /\ times[f] = 1 => TurnOf(f) < wave /\ TurnOf(f) \in 1..2
                          /\ InRun(f) /\ TurnOf(f) = wave => times[f] = 0
    <3>. SUFFICES ASSUME NEW f \in Files
                  PROVE  /\ times[f] = 1 => TurnOf(f) < wave /\ TurnOf(f) \in 1..2
                         /\ InRun(f) /\ TurnOf(f) = wave => times[f] = 0
      OBVIOUS
    <3>1. TurnOf(f) \in 1..2 /\ wave \in Nat
      BY <1>1, TurnIsWave DEF AccountTypeOK
    <3>2. times[f] \in {0, 1} /\ (times[f] = 1 => TurnOf(f) < wave)
      BY <1>3, <1>8, <2>7 DEF Accounts, TimesInv
    <3>. QED  BY <3>1, <3>2
  <2>12. (anyFailed' <=> anyFailed) /\ (failedProjects # {} => anyFailed)
    <3>1. /\ anyFailed => \E f \in Files : times[f] = 1
          /\ failedProjects # {} => anyFailed
      BY <1>3, <1>10, <2>7 DEF Accounts, OutcomeInv
    <3>2. anyFailed => wave > 1
      <4>1. wave \in Nat
        BY <1>1 DEF AccountTypeOK
      <4>. QED  BY <2>11, <3>1, <4>1
    <3>. QED  BY <1>10, <3>1, <3>2
  <2>13. Blamed(skipped, "skipped")
    BY <1>2, <1>10, <2>3, <2>4, <2>12 DEF Blamed
  <2>14. Accounts'
    <3>1. \A f \in skipped : times[f] = 0 /\ InRun(f) /\ TurnOf(f) = wave
      BY <2>1, <2>2, <2>11
    <3>2. \A f \in Files : Waits(f)' =>
              Under' /\ f \notin skipped /\ times[f] = 0 /\ InRun(f) /\ TurnOf(f) = wave
      BY <2>2, <2>10, <2>11
    <3>3. \A f \in Files : times[f] = 0 /\ InRun(f) /\ TurnOf(f) = wave => f \in skipped \/ Waits(f)'
      <4>1. ~Under' => files = {}
        <5>1. wave + 1 # wave
          BY <1>1 DEF AccountTypeOK
        <5>. QED  BY <1>10, <2>10, <5>1
      <4>. QED  BY <2>2, <2>10, <4>1
    <3>4. /\ runner # Nobody /\ UNCHANGED <<suite, runner, verdict, aborted>> /\ want'[runner] = want[runner]
          /\ Report(skipped, "skipped")
      BY <1>2, <1>3, <1>10
    <3>. QED  BY <1>1, <2>1, <2>7, <2>10, <2>13, <3>1, <3>2, <3>3, <3>4, WaveTurns
  <2>. QED  BY <1>5, <1>6, <1>7, <2>9, <2>14 DEF AccountParts
<1>. QED  BY <1>4, <1>9, <1>10

\* dispatchFilesParallel: the files that no target can run fail, and every live
\* worker is about to be offered one of the others.
LEMMA OpenKeepsAccounts ==
    ASSUME UiInv, WorkerInv, AccountInv, NEW r \in Requests, OpenDispatch(r)
    PROVE  AccountInv'
<1>1. UiTypeOK /\ WorkerTypeOK /\ AccountTypeOK /\ RunInv
  BY DEF UiInv, WorkerInv, AccountInv
<1>2. /\ agenda = <<>> /\ step[r] = "reviving"
      /\ UNCHANGED <<suite, want, runner, aborted, child, job, mail, respawning, verdict>>
  BY DEF OpenDispatch
<1>3. runner = r /\ r # Nobody /\ dispatch = "none" /\ Under
  <2>1. runner = r /\ r # Nobody
    BY <1>1, <1>2, UiAssumption DEF RunInv, RunSteps
  <2>2. dispatch = "none"
    BY <1>1, <1>2, <2>1 DEF RunInv, RunSteps
  <2>. QED  BY <1>2, <2>1, <2>2 DEF Under
<1>. DEFINE files == ToSet(fileQueue)
            lost == IF Live = {} THEN files ELSE {f \in files : BucketOf(f) \in down}
            rest == files \ lost
            over == /\ step' = [step EXCEPT ![r] = "between"] /\ wave' = wave + 1 /\ fileQueue' = <<>>
                    /\ UNCHANGED <<dispatch, offered, agenda, handle, corner>>
            opened == /\ dispatch' = "open" /\ fileQueue' \in InOrder(FileOrder, rest)
                      /\ step' = [step EXCEPT ![r] = "dispatching"] /\ wave' = wave
                      /\ handle' = [s \in Slots |-> [handle[s] EXCEPT !.active = s \in Live]]
                      /\ \E order \in Ascending(Live) :
                            agenda' = Calls("dispatchNext", order) \o Call("offered")
                      /\ corner \subseteq corner'
<1>4. PICK fs \in {{}, lost} :
        /\ Report(fs, "unservable") /\ (anyFailed' <=> anyFailed \/ fs # {})
        /\ failedProjects' = failedProjects \cup {suite.project[f] : f \in fs}
        /\ \/ over /\ (~aborted => fs = files)
           \/ opened /\ fs = lost
  <2>1. CASE aborted
    <3>1. UNCHANGED <<failedProjects, anyFailed, outcome, times>> /\ over
      BY <2>1 DEF OpenDispatch, NothingToDispatch
    <3>2. Report({}, "unservable")
      BY <1>1, <3>1 DEF Report, AccountTypeOK
    <3>3. failedProjects' = failedProjects \cup {suite.project[f] : f \in {}}
      BY <3>1
    <3>4. {} \in {{}, lost}
      OBVIOUS
    <3>. HIDE DEF over, lost, opened
    <3>. QED  BY <2>1, <3>1, <3>2, <3>3, <3>4
  <2>2. CASE ~aborted
    <3>1. /\ Report(lost, "unservable") /\ (anyFailed' <=> anyFailed \/ lost # {})
          /\ failedProjects' = failedProjects \cup {suite.project[f] : f \in lost}
          /\ (rest = {} /\ over) \/ opened
      BY <2>2 DEF OpenDispatch, NothingToDispatch
    <3>2. rest = {} => lost = files
      OBVIOUS
    <3>3. lost \in {{}, lost}
      OBVIOUS
    <3>. HIDE DEF over, lost, opened, rest
    <3>. QED  BY <2>2, <3>1, <3>2, <3>3
  <2>. QED  BY <2>1, <2>2
<1>5. files \in SUBSET Files /\ fs \subseteq files
  <2>1. \A q \in Seq(Files) : ToSet(q) \subseteq Files
    BY DEF ToSet
  <2>2. lost \subseteq files
    OBVIOUS
  <2>. HIDE DEF lost
  <2>. QED  BY <1>1, <2>1, <2>2 DEF AccountTypeOK
<1>. HIDE DEF lost
<1>6. \A s \in Slots : /\ s \in Live' <=> s \in Live
                       /\ handle'[s].there = handle[s].there /\ handle'[s].retired = handle[s].retired
                       /\ handle'[s].file = handle[s].file /\ (handle'[s].busy <=> handle[s].busy)
                       /\ handle'[s].active => handle[s].active \/ s \in Live
  <2>1. CASE handle' = handle
    BY <2>1 DEF Live
  <2>2. CASE handle' = [s \in Slots |-> [handle[s] EXCEPT !.active = s \in Live]]
    <3>. SUFFICES ASSUME NEW s \in Slots
                  PROVE  /\ handle'[s].there = handle[s].there /\ handle'[s].retired = handle[s].retired
                         /\ handle'[s].file = handle[s].file /\ handle'[s].busy = handle[s].busy
                         /\ handle'[s].active => s \in Live
      BY DEF Live
    <3>. DEFINE live == s \in Live
    <3>1. handle'[s] = [handle[s] EXCEPT !.active = live] /\ IsHandle(handle[s])
      BY <1>1, <2>2 DEF UiTypeOK
    <3>2. live => s \in Live
      OBVIOUS
    <3>. HIDE DEF live
    <3>. QED  BY <3>1, <3>2 DEF IsHandle
  <2>. QED  BY <1>4, <2>1, <2>2
<1>7. fileQueue' \in Seq(Files) /\ OnceEach(fileQueue') /\ (opened => ToSet(fileQueue') = rest)
      /\ (over => ToSet(fileQueue') = {})
  <2>1. CASE over
    <3>1. <<>> \in Seq(Files) /\ OnceEach(<<>>) /\ ToSet(<<>>) = {} /\ "dispatching" # "between"
      BY DEF OnceEach, ToSet
    <3>2. ~opened
      <4>1. over => step'[r] = "between"
        BY <1>1 DEF UiTypeOK
      <4>2. opened => step'[r] = "dispatching"
        BY <1>1 DEF UiTypeOK
      <4>. QED  BY <2>1, <4>1, <4>2
    <3>. QED  BY <2>1, <3>1, <3>2
  <2>2. CASE opened
    <3>1. rest \in SUBSET Files /\ fileQueue' \in InOrder(FileOrder, rest)
      BY <1>5, <2>2
    <3>2. ~over
      <4>1. over => step'[r] = "between"
        BY <1>1 DEF UiTypeOK
      <4>2. opened => step'[r] = "dispatching"
        BY <1>1 DEF UiTypeOK
      <4>. QED  BY <2>2, <4>1, <4>2
    <3>. HIDE DEF rest, over
    <3>. QED  BY <3>1, <3>2, WaveInOrder
  <2>. QED  BY <1>4, <2>1, <2>2
<1>8. AccountTypeOK'
  <2>1. \A s \in Slots : handle'[s].file \in Files \cup {NoFile} /\ (handle'[s].active => handle'[s].there)
    BY <1>1, <1>6 DEF AccountTypeOK, Live
  <2>2. \A s \in respawning' : s \in Slots /\ handle'[s].there /\ handle'[s].retired
    BY <1>1, <1>2, <1>6 DEF AccountTypeOK
  <2>3. outcome' = [f \in Files |-> outcome'[f]] /\ times' \in [Files -> Nat]
    BY <1>1, <1>4 DEF Report, AccountTypeOK
  <2>4. wave' \in Nat \ {0}
    BY <1>1, <1>4 DEF AccountTypeOK
  <2>. QED  BY <1>1, <1>2, <1>7, <2>1, <2>2, <2>3, <2>4 DEF AccountTypeOK
<1>. SUFFICES ASSUME Calm' PROVE AccountParts'
  BY <1>8 DEF AccountInv, AccountParts, Accounts
<1>9. AccountParts /\ Accounts /\ Calm
  BY <1>4 DEF AccountInv, AccountParts, Accounts, Calm
<1>10. \A s \in Slots : /\ \A f \in Files : ~HeldBy(s, f) /\ ~HeldBy(s, f)'
                        /\ JobInv(s)' /\ (s \in Live' => handle'[s].file = NoFile)
  BY <1>2, <1>3, <1>6, <1>9, BetweenDispatches
<1>11. PlaceInv'
  BY <1>7, <1>10 DEF PlaceInv, OnceEach
<1>12. /\ \A f \in Files : Waits(f) <=> f \in files
       /\ \A f \in Files : Waits(f)' <=> f \in ToSet(fileQueue')
  BY <1>10 DEF Waits
<1>13. (over => ~Under') /\ (opened => Under')
  <2>1. \A q \in Requests \ {r} : step[q] \notin {"reviving", "dispatching"}
    BY <1>1, <1>3 DEF RunInv, RunSteps
  <2>2. over => ~Under'
    <3>1. over => step' = [step EXCEPT ![r] = "between"]
      OBVIOUS
    <3>. HIDE DEF over
    <3>. QED  BY <1>1, <2>1, <3>1 DEF Under, UiTypeOK
  <2>3. opened => Under'
    <3>1. opened => step' = [step EXCEPT ![r] = "dispatching"]
      OBVIOUS
    <3>. HIDE DEF opened
    <3>. QED  BY <1>1, <3>1 DEF Under, UiTypeOK
  <2>. QED  BY <2>2, <2>3
<1>14. Accounts'
  <2>1. (wave' = wave + 1 /\ ~Under') \/ (wave' = wave /\ Under')
    BY <1>4, <1>13
  <2>2. \A f \in files : times[f] = 0 /\ InRun(f) /\ TurnOf(f) = wave
    BY <1>5, <1>9, <1>12 DEF Accounts, WaitInv
  <2>3. \A f \in Files : ~aborted /\ times[f] = 0 /\ InRun(f) /\ TurnOf(f) = wave => f \in files
    <3>. SUFFICES ASSUME NEW f \in Files, ~aborted, times[f] = 0, InRun(f), TurnOf(f) = wave PROVE Waits(f)
      BY <1>12
    <3>1. ~(TurnOf(f) > wave)
      BY <1>1 DEF AccountTypeOK
    <3>. QED  BY <1>3, <1>9, <3>1 DEF Accounts, TimesInv
  <2>4. opened => (fs = lost /\ wave' = wave) \/ ~Under'
    BY <1>4, <1>13
  <2>5. \A f \in Files : Waits(f)' => Under' /\ f \in files /\ f \notin fs
    BY <1>4, <1>7, <1>12, <1>13
  <2>6. ~aborted => \A f \in files : f \in fs \/ Waits(f)'
    BY <1>4, <1>5, <1>7, <1>12
  <2>7. Blamed(fs, "unservable")
    <3>1. dispatch' # "rejected"
      BY <1>3, <1>4
    <3>2. failedProjects' # {} => failedProjects # {} \/ fs # {}
      BY <1>4
    <3>. QED  BY <1>4, <3>1, <3>2 DEF Blamed
  <2>8. fs \in SUBSET Files /\ \A f \in fs : f \in files
    BY <1>5
  <2>9. Report(fs, "unservable") /\ UNCHANGED <<suite, runner, verdict, aborted>> /\ want'[runner] = want[runner]
        /\ runner # Nobody
    BY <1>2, <1>3, <1>4
  <2>. HIDE DEF over, opened, files, rest
  <2>. QED  BY <1>1, <1>9, <2>1, <2>2, <2>3, <2>5, <2>6, <2>7, <2>8, <2>9, WaveTurns
<1>15. DispatchInv'
  <2>1. CASE over
    <3>1. dispatch' = "none" /\ agenda' = <<>> /\ Len(agenda') = 0
      BY <1>2, <1>3, <2>1
    <3>. QED  BY <3>1 DEF DispatchInv, ToRetire
  <2>2. CASE opened
    <3>1. Pending("offered")' /\ \A s : ~ToRetire(s)'
      <4>1. PICK order \in Ascending(Live) : agenda' = Calls("dispatchNext", order) \o Call("offered")
        BY <2>2
      <4>2. PICK n \in Nat : order \in [1..n -> Slots]
        <5>1. Cardinality(Live) \in Nat /\ Live \subseteq Slots
          <6>1. Live \subseteq Slots /\ IsFiniteSet(Slots)
            BY UiAssumption, FS_Interval DEF Live, Slots
          <6>. QED  BY <6>1, FS_Subset, FS_CardinalityType
        <5>. QED  BY <4>1, <5>1 DEF Ascending
      <4>. DEFINE offers == Calls("dispatchNext", order)
                  last == [call |-> "offered", slot |-> 0]
      <4>3. offers = [i \in 1..n |-> [call |-> "dispatchNext", slot |-> order[i]]]
        <5>1. order \in Seq(Slots) /\ Len(order) = n
          BY <4>2
        <5>. QED  BY <5>1 DEF Calls
      <4>4. ASSUME NEW i \in 1..n PROVE offers[i] \in CallSet /\ offers[i].call = "dispatchNext"
        <5>1. order[i] \in Nat
          BY <4>2, UiAssumption DEF Slots
        <5>2. offers[i] = [call |-> "dispatchNext", slot |-> order[i]]
          BY <4>3
        <5>. QED  BY <5>1, <5>2 DEF CallSet
      <4>5. offers \in Seq(CallSet) /\ Len(offers) = n
        <5>1. offers \in [1..n -> CallSet]
          BY <4>3, <4>4
        <5>. HIDE DEF offers
        <5>. QED  BY <5>1
      <4>6. Call("offered") = <<last>> /\ last \in CallSet /\ last.call = "offered"
        BY DEF Call, CallSet
      <4>. HIDE DEF offers, last
      <4>7. agenda' = offers \o <<last>>
        BY <4>1, <4>6 DEF offers
      <4>8. /\ Len(agenda') = n + 1 /\ agenda'[n + 1] = last /\ \A i \in 1..n : agenda'[i] = offers[i]
        BY <4>5, <4>6, <4>7, OneAfter
      <4>9. n + 1 \in 1..Len(agenda') /\ (1 \in 1..n \/ 1 = n + 1)
        BY <4>8
      <4>10. agenda'[1].call # "retireWorker"
        BY <4>4, <4>6, <4>8, <4>9
      <4>. QED  BY <4>6, <4>8, <4>9, <4>10 DEF Pending, ToRetire
    <3>. QED  BY <1>10, <2>2, <3>1 DEF DispatchInv
  <2>. QED  BY <1>4, <2>1, <2>2
<1>. QED  BY <1>10, <1>11, <1>14, <1>15 DEF AccountParts

\* The promise of the dispatch settles, and the wave or the run is over.
LEMMA EndDispatchKeepsAccounts ==
    ASSUME UiInv, WorkerInv, AccountInv, NEW r \in Requests, EndDispatch(r)
    PROVE  AccountInv'
<1>1. UiTypeOK /\ WorkerTypeOK /\ AccountTypeOK /\ RunInv
  BY DEF UiInv, WorkerInv, AccountInv
<1>2. /\ agenda = <<>> /\ dispatch \in {"settled", "rejected"} /\ step[r] = "dispatching"
      /\ dispatch' = "none" /\ fileQueue' = <<>>
      /\ handle' = [s \in Slots |-> [handle[s] EXCEPT !.active = FALSE]]
      /\ UNCHANGED <<suite, aborted, agenda, child, job, mail, respawning, outcome, times>>
  BY DEF EndDispatch
<1>3. \/ /\ dispatch = "settled" /\ step' = [step EXCEPT ![r] = "between"] /\ wave' = wave + 1
         /\ UNCHANGED <<runner, want, failedProjects, anyFailed, verdict, corner>>
      \/ dispatch = "rejected" /\ EndRun(r, TRUE)
  BY DEF EndDispatch
<1>4. runner = r /\ r # Nobody /\ Under
  BY <1>1, <1>2, UiAssumption DEF RunInv, RunSteps, Under
<1>5. \A s \in Slots : /\ s \in Live' <=> s \in Live
                       /\ handle'[s].there = handle[s].there /\ handle'[s].retired = handle[s].retired
                       /\ handle'[s].file = handle[s].file /\ (handle'[s].busy <=> handle[s].busy)
                       /\ ~handle'[s].active
  <2>. SUFFICES ASSUME NEW s \in Slots
                PROVE  /\ handle'[s].there = handle[s].there /\ handle'[s].retired = handle[s].retired
                       /\ handle'[s].file = handle[s].file /\ handle'[s].busy = handle[s].busy
                       /\ ~handle'[s].active
    BY DEF Live
  <2>1. handle'[s] = [handle[s] EXCEPT !.active = FALSE] /\ IsHandle(handle[s])
    BY <1>1, <1>2 DEF UiTypeOK
  <2>. QED  BY <2>1 DEF IsHandle
<1>6. AccountTypeOK'
  <2>1. \A s \in Slots : handle'[s].file \in Files \cup {NoFile} /\ (handle'[s].active => handle'[s].there)
    BY <1>1, <1>5 DEF AccountTypeOK
  <2>2. \A s \in respawning' : s \in Slots /\ handle'[s].there /\ handle'[s].retired
    BY <1>1, <1>2, <1>5 DEF AccountTypeOK
  <2>3. DOMAIN want' = Requests
    <3>1. want' = want \/ want' = [want EXCEPT ![r] = "all"]
      BY <1>3 DEF EndRun, NoRun, Goes
    <3>. QED  BY <1>1, <3>1 DEF AccountTypeOK
  <2>4. wave' \in Nat \ {0} /\ fileQueue' \in Seq(Files)
    <3>1. wave' = wave + 1 \/ wave' = 1
      BY <1>3 DEF EndRun
    <3>. QED  BY <1>1, <1>2, <3>1 DEF AccountTypeOK
  <2>. QED  BY <1>1, <1>2, <2>1, <2>2, <2>3, <2>4 DEF AccountTypeOK
<1>. SUFFICES ASSUME Calm' PROVE AccountParts'
  BY <1>6 DEF AccountInv, AccountParts, Accounts
<1>7. AccountParts /\ Accounts /\ Calm
  BY <1>3 DEF AccountInv, AccountParts, Accounts, Calm, EndRun
<1>8. \A s \in Slots : /\ \A f \in Files : ~HeldBy(s, f) /\ ~HeldBy(s, f)'
                       /\ JobInv(s)' /\ (s \in Live' => handle'[s].file = NoFile)
  <2>1. dispatch # "open"
    BY <1>2
  <2>. QED  BY <1>2, <1>5, <1>7, <2>1, BetweenDispatches
<1>9. ToSet(<<>>) = {} /\ OnceEach(<<>>)
  BY DEF ToSet, OnceEach
<1>10. PlaceInv' /\ \A f \in Files : ~Waits(f)'
  BY <1>2, <1>8, <1>9 DEF PlaceInv, Waits, OnceEach
<1>11. ~aborted => \A f \in Files : ~Waits(f)
  <2>1. ~aborted => fileQueue = <<>>
    BY <1>2, <1>7 DEF AccountParts, DispatchInv
  <2>. QED  BY <1>8, <1>9, <2>1 DEF Waits
<1>12. Accounts'
  <2>1. CASE /\ dispatch = "settled" /\ step' = [step EXCEPT ![r] = "between"] /\ wave' = wave + 1
             /\ UNCHANGED <<runner, want, failedProjects, anyFailed, verdict, corner>>
    <3>1. ~Under'
      <4>1. \A q \in Requests \ {r} : step[q] \notin {"reviving", "dispatching"}
        BY <1>1, <1>4 DEF RunInv, RunSteps
      <4>. QED  BY <1>1, <2>1, <4>1 DEF Under, UiTypeOK
    <3>2. Report({}, "none") /\ {} \in SUBSET Files
      BY <1>1, <1>2 DEF Report, AccountTypeOK
    <3>3. Blamed({}, "none")
      BY <1>2, <2>1 DEF Blamed
    <3>4. ASSUME ~aborted, NEW f \in Files PROVE ~(times[f] = 0 /\ InRun(f) /\ TurnOf(f) = wave)
      <4>1. wave \in Nat /\ ~(wave > wave)
        BY <1>1 DEF AccountTypeOK
      <4>. QED  BY <1>4, <1>7, <1>11, <3>4, <4>1 DEF Accounts, TimesInv
    <3>5. UNCHANGED <<suite, runner, verdict, aborted>> /\ want'[runner] = want[runner] /\ runner # Nobody
      BY <1>2, <1>4, <2>1
    <3>. QED  BY <1>1, <1>7, <1>10, <2>1, <3>1, <3>2, <3>3, <3>4, <3>5, WaveTurns
  <2>2. CASE dispatch = "rejected" /\ EndRun(r, TRUE)
    BY <1>1, <1>2, <1>4, <1>7, <1>10, <1>11, <2>2, EndedAccounts
  <2>. QED  BY <1>3, <2>1, <2>2
<1>13. DispatchInv'
  <2>1. agenda' = <<>> /\ Len(agenda') = 0
    BY <1>2
  <2>. QED  BY <1>2, <2>1 DEF DispatchInv, ToRetire
<1>. QED  BY <1>8, <1>10, <1>12, <1>13 DEF AccountParts

-----------------------------------------------------------------------------
(* The accounts hold in every behaviour.                                   *)

LEMMA AccountInvInit == Init => AccountInv
<1>. SUFFICES ASSUME Init PROVE AccountInv
  OBVIOUS
<1>1. \A s \in Slots : handle[s] = Absent /\ s \notin Live
  BY DEF Init, Live, Absent
<1>2. AccountTypeOK
  <2>1. \A s \in Slots : handle[s].file = NoFile /\ ~handle[s].active
    BY <1>1 DEF Absent
  <2>. QED  BY <2>1 DEF Init, AccountTypeOK
<1>3. fileQueue = <<>> /\ agenda = <<>> /\ Len(agenda) = 0 /\ ToSet(<<>>) = {} /\ DOMAIN <<>> = {}
  BY DEF Init, ToSet
<1>4. PlaceInv /\ WaitInv
  BY <1>1, <1>3 DEF PlaceInv, WaitInv, Waits, HeldBy
<1>5. TimesInv /\ OutcomeInv /\ VerdictInv
  BY DEF Init, TimesInv, OutcomeInv, VerdictInv, Honest, NoVerdict
<1>6. DispatchInv
  BY <1>3 DEF Init, DispatchInv, ToRetire
<1>7. \A s \in Slots : JobInv(s)
  BY <1>1 DEF JobInv
<1>. QED  BY <1>2, <1>4, <1>5, <1>6, <1>7 DEF AccountInv

LEMMA AccountStep == UiInv /\ WorkerInv /\ AccountInv /\ [Next]_vars => AccountInv'
<1>. SUFFICES ASSUME UiInv, WorkerInv, AccountInv, [Next]_vars PROVE AccountInv'
  OBVIOUS
<1>1. CASE UNCHANGED vars
  <2>1. UNCHANGED <<suite, step, want, runner, aborted, wave, failedProjects, dispatch, offered, fileQueue,
                    anyFailed, agenda, handle, job, mail, respawning, outcome, times, verdict, corner>>
    BY <1>1 DEF vars, requestVars, runVars, dispatchVars, workerVars, reportVars, ghostVars
  <2>2. Live' = Live /\ Remaining' = Remaining /\ (Under' <=> Under) /\ (Calm' <=> Calm)
    BY <2>1 DEF Live, Remaining, Under, Calm
  <2>3. \A f : /\ (InRun(f)' <=> InRun(f)) /\ TurnOf(f)' = TurnOf(f) /\ (Waits(f)' <=> Waits(f))
               /\ \A s : HeldBy(s, f)' <=> HeldBy(s, f)
    BY <2>1, <2>2 DEF InRun, TurnOf, Mine, Waits, HeldBy
  <2>4. /\ AccountTypeOK' <=> AccountTypeOK
        /\ PlaceInv' <=> PlaceInv
    BY <2>1, <2>3 DEF AccountTypeOK, PlaceInv
  <2>5. (WaitInv' <=> WaitInv) /\ (TimesInv' <=> TimesInv)
    BY <2>1, <2>2, <2>3 DEF WaitInv, TimesInv
  <2>6. (OutcomeInv' <=> OutcomeInv) /\ (VerdictInv' <=> VerdictInv)
    BY <2>1 DEF OutcomeInv, VerdictInv, Honest
  <2>7. /\ DispatchInv' <=> DispatchInv
        /\ \A s \in Slots : JobInv(s)' <=> JobInv(s)
    BY <2>1, <2>2 DEF DispatchInv, JobInv, Pending, ToRetire, Offers
  <2>. QED  BY <2>2, <2>4, <2>5, <2>6, <2>7 DEF AccountInv
<1>2. CASE DispatchNext \/ RetireWorker \/ MaybeResolve \/ AllOffered
  BY <1>2, DispatchNextKeepsAccounts, RetireKeepsAccounts, ResolveKeepsAccounts, AllOfferedKeepsAccounts
<1>3. CASE Stop \/ \E r \in Requests : Ask(r) \/ Proceed(r) \/ StartAll(r) \/ StartProject(r)
  BY <1>3, RequestsKeepAccounts, StopKeepsAccounts
<1>4. CASE \E r \in Requests : NextWave(r) \/ OpenDispatch(r) \/ EndDispatch(r)
  BY <1>4, NextWaveKeepsAccounts, OpenKeepsAccounts, EndDispatchKeepsAccounts
<1>5. CASE FinishStartup \/ Save \/ RecycleStale \/ Escalate
  BY <1>5, RecyclingKeepsAccounts, EscalateKeepsAccounts
<1>6. CASE \E s \in Slots : \/ WorkerUp(s) \/ UserRespawn(s) \/ ChildEnds(s) \/ ChannelCloses(s)
                            \/ ChildAnswers(s) \/ Deliver(s) \/ ExitSeen(s)
  BY <1>6, RecyclingKeepsAccounts, EndsKeepAccounts, AnswersKeepAccounts, DeliverKeepsAccounts
<1>7. CASE \E b \in Buckets : AttemptEnds(b)
  BY <1>7, RecyclingKeepsAccounts
<1>. QED  BY <1>1, <1>2, <1>3, <1>4, <1>5, <1>6, <1>7 DEF Next, Server

\* A run that was not stopped has reported each of its files exactly once, its
\* verdict is "passed" only if every file passed and "failed" only if one did not:
\* whatever dies, is retired, recycled or revived while it runs, runAllFiles and
\* runProjectOnlyNow lose no file and count none twice.  Excepted are a worker whose
\* channel is closed when the dispatch begins, and a click on "Respawn worker" that
\* crosses a file on its way to the worker.
THEOREM FilesAccounted == Spec => []Accounted
<1>1. AccountInv => Accounted
  BY DEF AccountInv, VerdictInv, Accounted, Calm
<1>2. /\ Init => UiInv /\ WorkerInv /\ AccountInv
      /\ UiInv /\ WorkerInv /\ AccountInv /\ [Next]_vars => (UiInv /\ WorkerInv /\ AccountInv)'
  BY UiInvInit, WorkerInvInit, AccountInvInit, UiStep, WorkerInvStep, AccountStep
<1>. QED  BY <1>1, <1>2, PTL DEF Spec
=============================================================================
