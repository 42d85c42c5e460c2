-------------------------- MODULE DispatcherProofs --------------------------
(***************************************************************************)
(* Why a dispatched file is never lost and never counted twice, and why    *)
(* the dispatcher implements a run without workers (WaveRun), for any      *)
(* number of workers, files, projects and waves.                           *)
(*                                                                         *)
(* ExactlyOnce is not inductive: a 'file-done' in a channel must be about  *)
(* the file its worker still holds.  The strengthening says what is in     *)
(* flight between the main process and a worker it has not retired.        *)
(***************************************************************************)
EXTENDS Dispatcher, TLAPS, SequenceTheorems

\* A worker process that is executing something executes a file.
RunInv == \A w \in Workers : run[w] # Idle => run[w].file \in Files

\* The handles of the main process agree with the state of the wave.
HandleInv ==
    /\ \A w \in Workers : busy[w] <=> currentFile[w] # NoFile
    /\ settled = "resolved" =>
          /\ fileQueue = <<>>
          /\ \A w \in Workers : retired[w] \/ ~busy[w]
    /\ settled = "rejected" => \A w \in Workers : retired[w]
    /\ ~shuttingDown => \A w \in Workers : retired[w] => currentFile[w] = NoFile
    /\ phase \in {"closing", "returned"} =>
          settled = "rejected" \/ (settled = "resolved" /\ wave = WaveCount)

\* Main and a worker it trusts talk about one file at a time, the one assigned:
\* an undelivered order excludes everything else, and a final message is the
\* last one and leaves the worker idle.
Conversation(current, r, sent, orders) ==
    /\ r # Idle => r.file = current
    /\ \A i \in DOMAIN sent :
          /\ sent[i].file = current
          /\ sent[i].type \in {"file-done", "error"} => i = Len(sent) /\ r = Idle
    /\ \A i \in DOMAIN orders : orders[i] = [type |-> "run-file", file |-> current]
    /\ orders # <<>> => Len(orders) = 1 /\ sent = <<>> /\ r = Idle

ChannelInv(w) == Conversation(currentFile[w], run[w], toMain[w], toWorker[w])

ChannelsInv == \A w \in Workers : ~retired[w] => ChannelInv(w)

\* Files of the waves that have begun, and files with an outcome.
Begun == {f \in Files : \E i \in 1..WaveCount : i <= wave /\ ProjectOf[f] \in ProjectWaves[i]}
Done == {f \in Files : Len(allResults[f]) = 1}

\* The files begun are split among the queue q, the assignment c and done.
Placed(q, c, done, begun) ==
    /\ IsInjective1(q)
    /\ \A v, w \in Workers : c[v] = c[w] /\ c[v] # NoFile => v = w
    /\ \A f \in Files :
          /\ ~((\E i \in DOMAIN q : q[i] = f) /\ (\E w \in Workers : c[w] = f))
          /\ f \in done => ~(\E i \in DOMAIN q : q[i] = f) /\ ~(\E w \in Workers : c[w] = f)
          /\ f \in begun <=> \/ \E i \in DOMAIN q : q[i] = f
                             \/ \E w \in Workers : c[w] = f
                             \/ f \in done

\* The inductive form of ExactlyOnce.
PlacementInv ==
    /\ \A f \in Files : Len(allResults[f]) \in {0, 1}
    /\ Placed(fileQueue, currentFile, Done, Begun)

IInv == TypeOK /\ RunInv /\ HandleInv /\ ChannelsInv /\ PlacementInv

-----------------------------------------------------------------------------
TypeInv == TypeOK /\ RunInv

\* A prefix of a channel holds messages too.
LEMMA PrefixTyped ==
    ASSUME NEW S, NEW s \in Seq(S), NEW k \in 0..Len(s)
    PROVE  /\ SubSeq(s, 1, k) \in Seq(S)
           /\ Len(SubSeq(s, 1, k)) = k
           /\ \A i \in 1..k : SubSeq(s, 1, k)[i] = s[i]
<1>1. \A i \in 1..k : s[i] \in S
  BY LenProperties, ElementOfSeq
<1>2. CASE k = 0
  BY <1>2, SubSeqProperties
<1>3. CASE k # 0
  BY <1>1, <1>3, SubSeqProperties
<1>. QED  BY <1>2, <1>3

\* The queue after the first k elements were handed out.
LEMMA SuffixTyped ==
    ASSUME NEW S, NEW s \in Seq(S), NEW k \in Nat
    PROVE  /\ SubSeq(s, k + 1, Len(s)) \in Seq(S)
           /\ Len(SubSeq(s, k + 1, Len(s))) = IF k < Len(s) THEN Len(s) - k ELSE 0
           /\ \A i \in 1..(Len(s) - k) : SubSeq(s, k + 1, Len(s))[i] = s[k + i]
<1>1. \A i \in 1..Len(s) : s[i] \in S
  BY LenProperties, ElementOfSeq
<1>2. CASE k < Len(s)
  BY <1>1, <1>2, SubSeqProperties
<1>3. CASE ~(k < Len(s))
  BY <1>3, SubSeqProperties
<1>. QED  BY <1>2, <1>3

LEMMA MessageTyped ==
    ASSUME NEW w \in Workers, TypeOK, toMain[w] # <<>>
    PROVE  /\ Head(toMain[w]) \in Message
           /\ Head(toMain[w]).file \in Files
           /\ Tail(toMain[w]) \in Seq(Message)
           /\ Head(toMain[w]).type = "file-done" => Head(toMain[w]).status \in {"passed", "failed"}
BY HeadTailProperties DEF TypeOK, Message

LEMMA NextMessageType ==
    ASSUME NEW w \in Workers, NEW type, TypeOK, NextMessage(w, type)
    PROVE  /\ toMain' \in [Workers -> Seq(Message)]
           /\ Head(toMain[w]).file \in Files
BY MessageTyped DEF TypeOK, NextMessage

\* dispatchNext keeps the handles, the queue and the channels well typed.
LEMMA DispatchNextType ==
    ASSUME NEW w \in Workers, NEW q \in Seq(Files), NEW b \in [Workers -> BOOLEAN],
           NEW c \in [Workers -> Files \cup {NoFile}], TypeOK, DispatchNext(w, q, b, c)
    PROVE  /\ fileQueue' \in Seq(Files)
           /\ busy' \in [Workers -> BOOLEAN]
           /\ currentFile' \in [Workers -> Files \cup {NoFile}]
           /\ toWorker' \in [Workers -> Seq(Order)]
<1>1. CASE q = <<>>
  BY <1>1 DEF DispatchNext, TypeOK
<1>2. CASE q # <<>>
  <2>1. Head(q) \in Files /\ Tail(q) \in Seq(Files)
    BY <1>2, HeadTailProperties
  <2>2. [type |-> "run-file", file |-> Head(q)] \in Order
    BY <2>1 DEF Order
  <2>3. /\ fileQueue' = Tail(q)
        /\ busy' = [b EXCEPT ![w] = TRUE]
        /\ currentFile' = [c EXCEPT ![w] = Head(q)]
        /\ toWorker' = [toWorker EXCEPT ![w] = Append(@, [type |-> "run-file", file |-> Head(q)])]
    BY <1>2 DEF DispatchNext
  <2>4. toWorker \in [Workers -> Seq(Order)]
    BY DEF TypeOK
  <2>5. toWorker' \in [Workers -> Seq(Order)]
    BY <2>2, <2>3, <2>4, AppendProperties
  <2>. QED  BY <2>1, <2>3, <2>5
<1>. QED  BY <1>1, <1>2

\* retireWorker does too.
LEMMA RetireType ==
    ASSUME NEW w \in Workers, TypeOK, RetireAndRequeue(w)
    PROVE  /\ settled' \in {"pending", "resolved", "rejected"}
           /\ fileQueue' \in Seq(Files)
           /\ retired' \in [Workers -> BOOLEAN]
           /\ busy' \in [Workers -> BOOLEAN]
           /\ currentFile' \in [Workers -> Files \cup {NoFile}]
           /\ workerTestCounts' \in [Workers -> Nat]
           /\ reported' \in [Files -> Int]
           /\ daemons' \subseteq Workers \X (0..GroupMembers)
           /\ proc' \in [Workers -> {"running", "killed", "exited"}]
           /\ toWorker' \in [Workers -> Seq(Order)]
<1>. DEFINE f       == currentFile[w]
            queue   == IF f = NoFile THEN fileQueue ELSE <<f>> \o fileQueue
            isBusy  == [busy EXCEPT ![w] = FALSE]
            current == [currentFile EXCEPT ![w] = NoFile]
            active  == {v \in Workers : v # w /\ ~retired[v]}
            idle    == {v \in active : ~busy[v]}
<1>1. queue \in Seq(Files) /\ isBusy \in [Workers -> BOOLEAN]
      /\ current \in [Workers -> Files \cup {NoFile}]
  <2>1. f \in Files => <<f>> \in Seq(Files)
    OBVIOUS
  <2>. QED  BY <2>1, ConcatProperties DEF TypeOK
<1>2. /\ retired' \in [Workers -> BOOLEAN]
      /\ daemons' \subseteq Workers \X (0..GroupMembers)
      /\ proc' \in [Workers -> {"running", "killed", "exited"}]
  BY DEF RetireAndRequeue, CleanupWorkerResources, TypeOK
<1>3. workerTestCounts' \in [Workers -> Nat] /\ reported' \in [Files -> Int]
  <2>1. CASE f = NoFile
    BY <2>1 DEF RetireAndRequeue, reportVars, TypeOK
  <2>2. CASE f # NoFile
    <3>1. /\ reported' = [reported EXCEPT ![f] = @ - workerTestCounts[w]]
          /\ workerTestCounts' = [workerTestCounts EXCEPT ![w] = 0]
      BY <2>2 DEF RetireAndRequeue
    <3>2. f \in Files /\ reported[f] - workerTestCounts[w] \in Int
      BY <2>2 DEF TypeOK
    <3>. QED  BY <3>1, <3>2 DEF TypeOK
  <2>. QED  BY <2>1, <2>2
<1>4. \/ /\ fileQueue' = queue /\ busy' = isBusy /\ currentFile' = current
         /\ settled' = "rejected" \/ MaybeResolve
         /\ UNCHANGED toWorker
      \/ \E v \in Workers : DispatchNext(v, queue, isBusy, current) /\ MaybeResolve
  BY DEF RetireAndRequeue
<1>5. settled' \in {"pending", "resolved", "rejected"}
  BY <1>4 DEF MaybeResolve, TypeOK
<1>6. CASE /\ fileQueue' = queue /\ busy' = isBusy /\ currentFile' = current
           /\ UNCHANGED toWorker
  BY <1>1, <1>2, <1>3, <1>5, <1>6 DEF TypeOK
<1>7. ASSUME NEW v \in Workers, DispatchNext(v, queue, isBusy, current)
      PROVE  /\ fileQueue' \in Seq(Files)
             /\ busy' \in [Workers -> BOOLEAN]
             /\ currentFile' \in [Workers -> Files \cup {NoFile}]
             /\ toWorker' \in [Workers -> Seq(Order)]
  <2>. HIDE DEF queue, isBusy, current
  <2>. QED  BY <1>1, <1>7, DispatchNextType
<1>. QED  BY <1>2, <1>3, <1>4, <1>5, <1>6, <1>7

\* Entering a wave hands out well-typed files.
LEMMA DispatchToAllType ==
    ASSUME NEW q \in Seq(Files), TypeOK, DispatchToAll(q)
    PROVE  /\ fileQueue' \in Seq(Files)
           /\ busy' \in [Workers -> BOOLEAN]
           /\ currentFile' \in [Workers -> Files \cup {NoFile}]
           /\ toWorker' \in [Workers -> Seq(Order)]
<1>1. PICK turn \in [Workers -> 0..N], last \in 1..N :
        /\ VisitingOrder(turn)
        /\ fileQueue' = SubSeq(q, last + 1, Len(q))
        /\ busy' = [w \in Workers |-> IF retired[w] THEN busy[w] ELSE turn[w] <= Len(q)]
        /\ currentFile' = [w \in Workers |->
              IF retired[w] THEN currentFile[w]
              ELSE IF turn[w] <= Len(q) THEN q[turn[w]] ELSE NoFile]
        /\ toWorker' = [w \in Workers |->
              IF ~retired[w] /\ turn[w] <= Len(q)
              THEN Append(toWorker[w], [type |-> "run-file", file |-> q[turn[w]]])
              ELSE toWorker[w]]
  BY DEF DispatchToAll
<1>2. ASSUME NEW w \in Workers, ~retired[w], turn[w] <= Len(q)
      PROVE  q[turn[w]] \in Files
  <2>1. turn[w] \in 1..Len(q)
    BY <1>1, <1>2 DEF VisitingOrder
  <2>. QED  BY <2>1, ElementOfSeq
<1>3. fileQueue' \in Seq(Files)
  BY <1>1, SuffixTyped
<1>4. busy' \in [Workers -> BOOLEAN]
  <2>1. \A w \in Workers : busy[w] \in BOOLEAN
    BY DEF TypeOK
  <2>2. \A w \in Workers : (turn[w] <= Len(q)) \in BOOLEAN
    OBVIOUS
  <2>3. \A w \in Workers : (IF retired[w] THEN busy[w] ELSE turn[w] <= Len(q)) \in BOOLEAN
    BY <2>1, <2>2, Zenon
  <2>. QED  BY <1>1, <2>3, Zenon
<1>5. currentFile' \in [Workers -> Files \cup {NoFile}]
  BY <1>1, <1>2 DEF TypeOK
<1>6. toWorker' \in [Workers -> Seq(Order)]
  <2>1. ASSUME NEW w \in Workers, ~retired[w], turn[w] <= Len(q)
        PROVE  Append(toWorker[w], [type |-> "run-file", file |-> q[turn[w]]]) \in Seq(Order)
    <3>1. [type |-> "run-file", file |-> q[turn[w]]] \in Order
      BY <1>2, <2>1 DEF Order
    <3>2. toWorker[w] \in Seq(Order)
      BY DEF TypeOK
    <3>. QED  BY <3>1, <3>2, AppendProperties
  <2>2. \A w \in Workers : toWorker[w] \in Seq(Order)
    BY DEF TypeOK
  <2>. QED  BY <1>1, <2>1, <2>2
<1>. QED  BY <1>3, <1>4, <1>5, <1>6

LEMMA EnterWaveType == TypeInv /\ EnterWave => TypeInv'
<1>. SUFFICES ASSUME TypeInv, EnterWave PROVE TypeInv'
  OBVIOUS
<1>. DEFINE next    == wave + 1
            blocked == Blocked(next, FailedAfterWave)
            skipped == {f \in Files : ProjectOf[f] \in blocked}
<1>0. next \in 1..WaveCount /\ WaveCount \in Nat
  BY WavesAssumption, LenProperties DEF EnterWave, TypeInv, TypeOK, WaveCount
<1>1. /\ wave' = next
      /\ failedProjects' = FailedAfterWave \cup blocked
      /\ allResults' = [f \in Files |->
            IF f \in skipped THEN Append(allResults[f], "skipped") ELSE allResults[f]]
      /\ reported' = [f \in Files |-> IF f \in skipped THEN reported[f] + 1 ELSE reported[f]]
      /\ workerTestCounts' = [w \in Workers |-> 0]
      /\ UNCHANGED <<phase, shuttingDown, retired, daemons, proc, toMain, run>>
  BY DEF EnterWave
<1>2. PICK n \in 0..Len(WaveFiles[next]) : \E q \in [1..n -> Files] :
        \/ UNCHANGED <<settled, fileQueue, busy, currentFile, toWorker>>
        \/ /\ settled' = "rejected"
           /\ fileQueue' = q
           /\ UNCHANGED <<busy, currentFile, toWorker>>
        \/ settled' = "pending" /\ DispatchToAll(q)
  BY DEF EnterWave
<1>3. PICK q \in [1..n -> Files] :
        \/ UNCHANGED <<settled, fileQueue, busy, currentFile, toWorker>>
        \/ /\ settled' = "rejected"
           /\ fileQueue' = q
           /\ UNCHANGED <<busy, currentFile, toWorker>>
        \/ settled' = "pending" /\ DispatchToAll(q)
  BY <1>2
<1>4. n \in Nat /\ q \in Seq(Files)
  <2>1. WaveFiles[next] \in Seq(Files)
    BY <1>0, WavesAssumption, ElementOfSeq DEF WaveCount
  <2>2. n \in Nat
    BY <2>1, LenProperties
  <2>. QED  BY <2>2
<1>5. /\ fileQueue' \in Seq(Files)
      /\ busy' \in [Workers -> BOOLEAN]
      /\ currentFile' \in [Workers -> Files \cup {NoFile}]
      /\ toWorker' \in [Workers -> Seq(Order)]
      /\ settled' \in {"pending", "resolved", "rejected"}
  BY <1>3, <1>4, DispatchToAllType DEF TypeInv, TypeOK
<1>6. failedProjects' \subseteq Projects
  <2>1. \A i \in 1..WaveCount : ProjectWaves[i] \subseteq Projects
    BY WavesAssumption, ElementOfSeq DEF WaveCount
  <2>2. FailedAfterWave \subseteq Projects
    <3>1. wave # 0 => wave \in 1..WaveCount
      BY <1>0 DEF TypeInv, TypeOK
    <3>. QED  BY <2>1, <3>1 DEF FailedAfterWave, TypeInv, TypeOK
  <2>3. blocked \subseteq Projects
    BY <1>0, <2>1 DEF Blocked
  <2>. QED  BY <1>1, <2>2, <2>3
<1>7. allResults' \in [Files -> Seq(Status)]
  <2>1. \A f \in Files : /\ allResults[f] \in Seq(Status)
                         /\ Append(allResults[f], "skipped") \in Seq(Status)
    BY AppendProperties DEF TypeInv, TypeOK, Status
  <2>. QED  BY <1>1, <2>1
<1>8. reported' \in [Files -> Int] /\ workerTestCounts' \in [Workers -> Nat]
  BY <1>1 DEF TypeInv, TypeOK
<1>9. wave' \in 0..WaveCount
  BY <1>0, <1>1
<1>10. RunInv'
  BY <1>1 DEF TypeInv, RunInv
<1>. QED  BY <1>1, <1>5, <1>6, <1>7, <1>8, <1>9, <1>10 DEF TypeInv, TypeOK

\* What a worker sends is a message about the file it runs.
LEMMA SendType ==
    ASSUME NEW w \in Workers, TypeOK, NEW m \in Message, Send(w, m)
    PROVE  toMain' \in [Workers -> Seq(Message)]
<1>1. toMain[w] \in Seq(Message)
  BY DEF TypeOK
<1>2. Append(toMain[w], m) \in Seq(Message)
  BY <1>1, AppendProperties
<1>. QED  BY <1>2 DEF Send, TypeOK

LEMMA ExitType ==
    ASSUME NEW w \in Workers, TypeInv, Exit(w)
    PROVE  TypeInv'
<1>1. PICK k \in 0..Len(toMain[w]) : toMain' = [toMain EXCEPT ![w] = SubSeq(@, 1, k)]
  BY DEF Exit
<1>2. SubSeq(toMain[w], 1, k) \in Seq(Message)
  BY PrefixTyped DEF TypeInv, TypeOK
<1>3. Idle \in [file : Files \cup {NoFile}, attempt : 0..2, ended : Nat, retries : Nat]
  BY DEF Idle
<1>4. UNCHANGED <<mainVars, handleVars, reportVars, daemons>> /\ UNCHANGED toWorker
      /\ run' = [run EXCEPT ![w] = Idle] /\ proc' = [proc EXCEPT ![w] = "exited"]
  BY DEF Exit, WorkerOnly
<1>5. RunInv'
  BY <1>4 DEF RunInv, TypeInv, TypeOK
<1>6. toMain' \in [Workers -> Seq(Message)] /\ proc' \in [Workers -> {"running", "killed", "exited"}]
      /\ run' \in [Workers -> [file : Files \cup {NoFile}, attempt : 0..2, ended : Nat, retries : Nat]]
  BY <1>1, <1>2, <1>3, <1>4 DEF TypeInv, TypeOK
<1>. QED  BY <1>4, <1>5, <1>6 DEF TypeInv, TypeOK, mainVars, handleVars, reportVars

LEMMA RunFileType ==
    ASSUME NEW w \in Workers, TypeInv, RunFile(w)
    PROVE  TypeInv'
<1>. DEFINE f == Head(toWorker[w]).file
            r == [file |-> f, attempt |-> 1, ended |-> 0, retries |-> 0]
<1>1. f \in Files /\ Tail(toWorker[w]) \in Seq(Order)
  BY HeadTailProperties DEF TypeInv, TypeOK, RunFile, Order
<1>2. [type |-> "file-start", file |-> f] \in Message
  BY <1>1 DEF Message
<1>3. toMain' \in [Workers -> Seq(Message)]
  BY <1>2, SendType DEF RunFile, TypeInv
<1>4. r \in [file : Files \cup {NoFile}, attempt : 0..2, ended : Nat, retries : Nat]
  BY <1>1
<1>5. run' \in [Workers -> [file : Files \cup {NoFile}, attempt : 0..2, ended : Nat, retries : Nat]]
      /\ toWorker' \in [Workers -> Seq(Order)]
  BY <1>1, <1>4 DEF RunFile, TypeInv, TypeOK
<1>6. RunInv'
  BY <1>1 DEF RunFile, RunInv, TypeInv, TypeOK
<1>. QED
  BY <1>3, <1>5, <1>6 DEF RunFile, WorkerOnly, TypeInv, TypeOK, mainVars, handleVars, reportVars

LEMMA RunningType ==
    ASSUME NEW w \in Workers, TypeInv,
           TestEnd(w) \/ TestWillRetry(w) \/ FileRetry(w) \/ FileDone(w) \/ FileError(w)
    PROVE  TypeInv'
<1>1. run[w].file \in Files
  BY DEF TypeInv, RunInv, TestEnd, TestWillRetry, FileRetry, FileDone, FileError, Running
<1>2. \E m \in Message : Send(w, m)
  <2>1. \A type \in {"test-end", "test-will-retry", "file-retry", "error"} :
           [type |-> type, file |-> run[w].file] \in Message
    BY <1>1 DEF Message
  <2>2. \A status \in {"passed", "failed"} :
           [type |-> "file-done", file |-> run[w].file, status |-> status] \in Message
    BY <1>1 DEF Message
  <2>3. CASE TestEnd(w)
    BY <2>1, <2>3 DEF TestEnd
  <2>4. CASE TestWillRetry(w)
    BY <2>1, <2>4 DEF TestWillRetry
  <2>5. CASE FileRetry(w)
    BY <2>1, <2>5 DEF FileRetry
  <2>6. CASE FileDone(w)
    BY <2>2, <2>6 DEF FileDone
  <2>7. CASE FileError(w)
    BY <2>1, <2>7 DEF FileError
  <2>. QED  BY <2>3, <2>4, <2>5, <2>6, <2>7
<1>3. toMain' \in [Workers -> Seq(Message)]
  BY <1>2, SendType DEF TypeInv
<1>4. \E r \in [file : Files \cup {NoFile}, attempt : 0..2, ended : Nat, retries : Nat] :
         run' = [run EXCEPT ![w] = r] /\ (r # Idle => r.file \in Files)
  <2>1. run[w] \in [file : Files \cup {NoFile}, attempt : 0..2, ended : Nat, retries : Nat]
    BY DEF TypeInv, TypeOK
  <2>2. CASE TestEnd(w)
    <3>. DEFINE r == [file |-> run[w].file, attempt |-> run[w].attempt,
                  ended |-> run[w].ended + 1, retries |-> 0]
    <3>1. run' = [run EXCEPT ![w] = r]
      BY <2>2 DEF TestEnd, TypeInv, TypeOK
    <3>2. r \in [file : Files \cup {NoFile}, attempt : 0..2, ended : Nat, retries : Nat]
          /\ r.file \in Files
      BY <1>1, <2>1
    <3>. QED  BY <3>1, <3>2
  <2>3. CASE TestWillRetry(w)
    <3>. DEFINE r == [run[w] EXCEPT !.retries = run[w].retries + 1]
    <3>1. run' = [run EXCEPT ![w] = r]
      BY <2>3 DEF TestWillRetry, TypeInv, TypeOK
    <3>2. r \in [file : Files \cup {NoFile}, attempt : 0..2, ended : Nat, retries : Nat]
          /\ r.file \in Files
      BY <1>1, <2>1
    <3>. QED  BY <3>1, <3>2
  <2>4. CASE FileRetry(w)
    <3>. DEFINE r == [file |-> run[w].file, attempt |-> 2, ended |-> 0, retries |-> 0]
    <3>1. run' = [run EXCEPT ![w] = r]
      BY <2>4 DEF FileRetry, TypeInv, TypeOK
    <3>2. r \in [file : Files \cup {NoFile}, attempt : 0..2, ended : Nat, retries : Nat]
          /\ r.file \in Files
      BY <1>1
    <3>. QED  BY <3>1, <3>2
  <2>5. CASE FileDone(w) \/ FileError(w)
    <3>1. Idle \in [file : Files \cup {NoFile}, attempt : 0..2, ended : Nat, retries : Nat]
      BY DEF Idle
    <3>2. run' = [run EXCEPT ![w] = Idle]
      BY <2>5 DEF FileDone, FileError
    <3>. QED  BY <3>1, <3>2
  <2>. QED  BY <2>2, <2>3, <2>4, <2>5
<1>5. /\ run' \in [Workers -> [file : Files \cup {NoFile}, attempt : 0..2, ended : Nat, retries : Nat]]
      /\ RunInv'
  BY <1>4 DEF TypeInv, TypeOK, RunInv
<1>6. UNCHANGED <<mainVars, handleVars, reportVars, daemons>> /\ UNCHANGED <<proc, toWorker>>
  BY DEF TestEnd, TestWillRetry, FileRetry, FileDone, FileError, WorkerOnly
<1>. QED  BY <1>3, <1>5, <1>6 DEF TypeInv, TypeOK, mainVars, handleVars, reportVars

LEMMA RetireEventType ==
    ASSUME NEW w \in Workers, TypeInv, OnError(w) \/ OnExit(w) \/ OnChannelFailure(w)
    PROVE  TypeInv'
<1>1. toMain' \in [Workers -> Seq(Message)]
  BY NextMessageType DEF OnError, OnExit, OnChannelFailure, TypeInv, TypeOK
<1>2. UNCHANGED <<phase, wave, shuttingDown, failedProjects, allResults, run>>
  BY DEF OnError, OnExit, OnChannelFailure
<1>3. CASE RetireAndRequeue(w)
  BY <1>1, <1>2, <1>3, RetireType DEF TypeInv, TypeOK, RunInv
<1>4. CASE /\ retired' = [retired EXCEPT ![w] = TRUE]
           /\ UNCHANGED <<settled, fileQueue, busy, currentFile, reportVars, daemons, proc, toWorker>>
  BY <1>1, <1>2, <1>4 DEF TypeInv, TypeOK, RunInv, reportVars
<1>. QED  BY <1>3, <1>4 DEF OnError, OnExit, OnChannelFailure, RetireWorker

LEMMA ReportType ==
    ASSUME NEW w \in Workers, TypeInv,
           OnFileStart(w) \/ OnTestEnd(w) \/ OnTestWillRetry(w) \/ OnFileRetry(w)
    PROVE  TypeInv'
<1>1. toMain' \in [Workers -> Seq(Message)] /\ Head(toMain[w]).file \in Files
  BY NextMessageType DEF OnFileStart, OnTestEnd, OnTestWillRetry, OnFileRetry, TypeInv
<1>. DEFINE f == Head(toMain[w]).file
<1>2. /\ workerTestCounts[w] + 1 \in Nat
      /\ reported[f] + 1 \in Int /\ reported[f] - workerTestCounts[w] \in Int
  <2>1. workerTestCounts[w] \in Nat /\ f \in Files
    BY <1>1 DEF TypeInv, TypeOK
  <2>2. reported[f] \in Int
    BY <2>1 DEF TypeInv, TypeOK
  <2>. HIDE DEF f
  <2>. QED  BY <2>1, <2>2
<1>3. workerTestCounts' \in [Workers -> Nat] /\ reported' \in [Files -> Int]
  <2>1. CASE OnFileStart(w) \/ OnTestWillRetry(w)
    BY <2>1 DEF OnFileStart, OnTestWillRetry, reportVars, TypeInv, TypeOK
  <2>2. CASE OnTestEnd(w)
    BY <1>1, <1>2, <2>2 DEF OnTestEnd, TypeInv, TypeOK
  <2>3. CASE OnFileRetry(w)
    BY <1>1, <1>2, <2>3 DEF OnFileRetry, TypeInv, TypeOK
  <2>. QED  BY <2>1, <2>2, <2>3
<1>4. UNCHANGED <<mainVars, handleVars, daemons, proc, toWorker, run>>
  BY DEF OnFileStart, OnTestEnd, OnTestWillRetry, OnFileRetry, ReportOnly
<1>. QED  BY <1>1, <1>3, <1>4 DEF TypeInv, TypeOK, RunInv, mainVars, handleVars

LEMMA FileDoneType ==
    ASSUME NEW w \in Workers, TypeInv, OnFileDone(w)
    PROVE  TypeInv'
<1>1. toMain' \in [Workers -> Seq(Message)] /\ Head(toMain[w]).file \in Files
  BY NextMessageType DEF OnFileDone, TypeInv
<1>2. Head(toMain[w]).status \in Status
  BY MessageTyped DEF OnFileDone, NextMessage, TypeInv, Status
<1>3. allResults' \in [Files -> Seq(Status)]
  <2>. DEFINE m == Head(toMain[w])
  <2>1. Append(allResults[m.file], m.status) \in Seq(Status)
    BY <1>1, <1>2, AppendProperties DEF TypeInv, TypeOK
  <2>. QED  BY <1>1, <2>1 DEF OnFileDone, TypeInv, TypeOK
<1>4. /\ fileQueue' \in Seq(Files)
      /\ busy' \in [Workers -> BOOLEAN]
      /\ currentFile' \in [Workers -> Files \cup {NoFile}]
      /\ toWorker' \in [Workers -> Seq(Order)]
  <2>. DEFINE c == [currentFile EXCEPT ![w] = NoFile]
  <2>1. fileQueue \in Seq(Files) /\ busy \in [Workers -> BOOLEAN]
        /\ c \in [Workers -> Files \cup {NoFile}]
    BY DEF TypeInv, TypeOK
  <2>2. DispatchNext(w, fileQueue, busy, c)
    BY DEF OnFileDone
  <2>. HIDE DEF c
  <2>. QED  BY <2>1, <2>2, DispatchNextType DEF TypeInv
<1>5. settled' \in {"pending", "resolved", "rejected"}
  BY DEF OnFileDone, MaybeResolve, TypeInv, TypeOK
<1>6. workerTestCounts' \in [Workers -> Nat]
  BY DEF OnFileDone, TypeInv, TypeOK
<1>. QED  BY <1>1, <1>3, <1>4, <1>5, <1>6 DEF OnFileDone, TypeInv, TypeOK, RunInv

LEMMA TypeStep == TypeInv /\ [Next]_vars => TypeInv'
<1>. SUFFICES ASSUME TypeInv, [Next]_vars PROVE TypeInv'
  OBVIOUS
<1>1. CASE UNCHANGED vars
  BY <1>1 DEF TypeInv, TypeOK, RunInv, vars, mainVars, handleVars, reportVars, workerVars
<1>2. ASSUME NEW w \in Workers, MainEvent(w) \/ OnChannelFailure(w) PROVE TypeInv'
  <2>1. CASE DropMessage(w)
    <3>1. toMain' \in [Workers -> Seq(Message)]
      BY <2>1, MessageTyped DEF DropMessage, TypeInv, TypeOK
    <3>. QED  BY <2>1, <3>1 DEF DropMessage, TypeInv, TypeOK, RunInv, mainVars, handleVars, reportVars
  <2>. QED  BY <1>2, <2>1, RetireEventType, ReportType, FileDoneType DEF MainEvent
<1>3. ASSUME NEW w \in Workers, ShutdownTimeout(w) PROVE TypeInv'
  BY <1>3 DEF ShutdownTimeout, TypeInv, TypeOK, RunInv, mainVars, handleVars, reportVars
<1>4. ASSUME NEW w \in Workers, WorkerStep(w) \/ TestWillRetry(w) \/ Crash(w) PROVE TypeInv'
  BY <1>4, RunFileType, RunningType, ExitType DEF WorkerStep, Crash, KilledExit, Shutdown
<1>5. CASE Finally
  <2>1. \A w \in Workers : Append(toWorker[w], [type |-> "shutdown"]) \in Seq(Order)
    <3>1. [type |-> "shutdown"] \in Order
      BY DEF Order
    <3>2. \A w \in Workers : toWorker[w] \in Seq(Order)
      BY DEF TypeInv, TypeOK
    <3>. QED  BY <3>1, <3>2, AppendProperties
  <2>2. toWorker' \in [Workers -> Seq(Order)] /\ retired' \in [Workers -> BOOLEAN]
    BY <1>5, <2>1 DEF Finally, TypeInv, TypeOK
  <2>. QED  BY <1>5, <2>2 DEF Finally, TypeInv, TypeOK, RunInv, reportVars
<1>6. CASE Return \/ ExitProcess
  BY <1>6 DEF MemberDaemons, Return, ExitProcess, TypeInv, TypeOK, RunInv, handleVars, reportVars, workerVars
<1>7. CASE Interrupt
  BY <1>7 DEF MemberDaemons, Interrupt, TypeInv, TypeOK, RunInv, handleVars, reportVars
<1>. QED  BY <1>1, <1>2, <1>3, <1>4, <1>5, <1>6, <1>7, EnterWaveType DEF Next, Terminated

LEMMA TypeInit == Init => TypeInv
<1>1. Idle \in [file : Files \cup {NoFile}, attempt : 0..2, ended : Nat, retries : Nat]
  BY DEF Idle
<1>2. 0 \in 0..WaveCount
  BY WavesAssumption, LenProperties DEF WaveCount
<1>3. <<>> \in Seq(Files) /\ <<>> \in Seq(Status) /\ <<>> \in Seq(Order) /\ <<>> \in Seq(Message)
  BY EmptySeq
<1>. SUFFICES ASSUME Init PROVE TypeInv
  OBVIOUS
<1>4. RunInv
  BY DEF Init, RunInv
<1>5. /\ fileQueue \in Seq(Files)
      /\ allResults \in [Files -> Seq(Status)]
      /\ toWorker \in [Workers -> Seq(Order)]
      /\ toMain \in [Workers -> Seq(Message)]
      /\ run \in [Workers -> [file : Files \cup {NoFile}, attempt : 0..2, ended : Nat, retries : Nat]]
  BY <1>1, <1>3 DEF Init
<1>6. /\ shuttingDown \in BOOLEAN
      /\ retired \in [Workers -> BOOLEAN]
      /\ busy \in [Workers -> BOOLEAN]
      /\ currentFile \in [Workers -> Files \cup {NoFile}]
      /\ proc \in [Workers -> {"running", "killed", "exited"}]
      /\ failedProjects \subseteq Projects
  BY Zenon DEF Init
<1>8. daemons \subseteq Workers \X (0..GroupMembers)
  BY DEF Init, DaemonsOf
<1>7. workerTestCounts \in [Workers -> Nat] /\ reported \in [Files -> Int]
  BY DEF Init
<1>. QED  BY <1>2, <1>4, <1>5, <1>6, <1>7, <1>8 DEF Init, TypeInv, TypeOK

\* Every variable of the dispatcher keeps its type in every reachable state, for
\* any number of workers, files and waves.
THEOREM TypeCorrect == Spec => []TypeOK
<1>1. TypeInv => TypeOK
  BY DEF TypeInv
<1>. QED  BY <1>1, TypeInit, TypeStep, PTL DEF Spec

-----------------------------------------------------------------------------
(* Moving a file from one place to another keeps Placed.                   *)

\* dispatchNext moves the head of the queue to an idle worker.
LEMMA DispatchPlaced ==
    ASSUME NEW w \in Workers, NEW q \in Seq(Files), NEW b,
           NEW c \in [Workers -> Files \cup {NoFile}], NEW done, NEW begun,
           c[w] = NoFile, Placed(q, c, done, begun), DispatchNext(w, q, b, c)
    PROVE  Placed(fileQueue', currentFile', done, begun)
<1>1. CASE q = <<>>
  <2>1. fileQueue' = q /\ currentFile' = c
    BY <1>1 DEF DispatchNext
  <2>. QED  BY <2>1
<1>2. CASE q # <<>>
  <2>. DEFINE t == Tail(q)
              d == [c EXCEPT ![w] = Head(q)]
  <2>1. fileQueue' = t /\ currentFile' = d
    BY <1>2 DEF DispatchNext
  <2>2. /\ Head(q) = q[1] /\ q[1] \in Files
        /\ DOMAIN q = 1..Len(q) /\ Len(q) \in Nat \ {0}
        /\ DOMAIN t = 1..(Len(q) - 1)
        /\ \A i \in DOMAIN t : t[i] = q[i + 1]
    BY <1>2, HeadTailProperties, LenProperties, EmptySeq
  <2>3. \A f : (\E i \in DOMAIN q : q[i] = f) <=> (f = q[1] \/ \E i \in DOMAIN t : t[i] = f)
    <3>1. ASSUME NEW i \in DOMAIN q PROVE i = 1 \/ (i - 1 \in DOMAIN t /\ t[i - 1] = q[i])
      BY <2>2
    <3>2. ASSUME NEW i \in DOMAIN t PROVE i + 1 \in DOMAIN q /\ t[i] = q[i + 1]
      BY <2>2
    <3>3. 1 \in DOMAIN q
      BY <2>2
    <3>. QED  BY <3>1, <3>2, <3>3
  <2>4. IsInjective1(t)
    <3>1. ASSUME NEW i \in DOMAIN t, NEW j \in DOMAIN t, t[i] = t[j] PROVE i = j
      <4>1. i + 1 \in DOMAIN q /\ j + 1 \in DOMAIN q /\ q[i + 1] = q[j + 1]
        BY <2>2, <3>1
      <4>2. i + 1 = j + 1
        BY <4>1 DEF Placed, IsInjective1
      <4>. QED  BY <2>2, <4>2
    <3>. QED  BY <3>1 DEF IsInjective1
  <2>5. ~\E i \in DOMAIN t : t[i] = q[1]
    <3>1. ASSUME NEW i \in DOMAIN t, t[i] = q[1] PROVE FALSE
      <4>1. i + 1 \in DOMAIN q /\ 1 \in DOMAIN q /\ q[i + 1] = q[1] /\ i + 1 # 1
        BY <2>2, <3>1
      <4>. QED  BY <4>1 DEF Placed, IsInjective1
    <3>. QED  BY <3>1
  <2>6. ~\E v \in Workers : c[v] = q[1]
    BY <2>2, <2>3 DEF Placed
  <2>7. \A f \in Files : (\E v \in Workers : d[v] = f) <=> (f = q[1] \/ \E v \in Workers : c[v] = f)
    BY <2>2, FilesAssumption
  <2>8. \A u, v \in Workers : d[u] = d[v] /\ d[u] # NoFile => u = v
    BY <2>2, <2>6 DEF Placed
  <2>9. q[1] \notin done
    BY <2>2, <2>3 DEF Placed
  <2>. HIDE DEF t, d
  <2>10. ASSUME NEW f \in Files
         PROVE  /\ ~((\E i \in DOMAIN t : t[i] = f) /\ (\E v \in Workers : d[v] = f))
                /\ f \in done => ~(\E i \in DOMAIN t : t[i] = f) /\ ~(\E v \in Workers : d[v] = f)
                /\ f \in begun <=> \/ \E i \in DOMAIN t : t[i] = f
                                   \/ \E v \in Workers : d[v] = f
                                   \/ f \in done
    BY <2>3, <2>5, <2>7, <2>9 DEF Placed
  <2>. QED  BY <2>1, <2>4, <2>8, <2>10 DEF Placed
<1>. QED  BY <1>1, <1>2

\* retireWorker moves a worker's file to the head of the queue.
LEMMA RequeuePlaced ==
    ASSUME NEW w \in Workers, NEW q \in Seq(Files),
           NEW c \in [Workers -> Files \cup {NoFile}], NEW done, NEW begun,
           c[w] # NoFile, Placed(q, c, done, begun)
    PROVE  Placed(<<c[w]>> \o q, [c EXCEPT ![w] = NoFile], done, begun)
<1>. DEFINE g == c[w]
            p == <<g>> \o q
            d == [c EXCEPT ![w] = NoFile]
<1>1. g \in Files
  OBVIOUS
<1>2. /\ DOMAIN p = 1..(Len(q) + 1) /\ Len(q) \in Nat /\ DOMAIN q = 1..Len(q)
      /\ p[1] = g
      /\ \A i \in DOMAIN q : p[i + 1] = q[i]
  <2>1. <<g>> \in Seq(Files) /\ Len(<<g>>) = 1 /\ <<g>>[1] = g
    BY <1>1
  <2>2. p \in Seq(Files) /\ Len(p) = 1 + Len(q)
        /\ \A i \in 1..(1 + Len(q)) : p[i] = IF i <= 1 THEN <<g>>[i] ELSE q[i - 1]
    BY <2>1, ConcatProperties
  <2>3. Len(q) \in Nat /\ DOMAIN q = 1..Len(q) /\ DOMAIN p = 1..Len(p)
    BY <2>2, LenProperties
  <2>. HIDE DEF p
  <2>. QED  BY <2>1, <2>2, <2>3
<1>. HIDE DEF p
<1>3. \A f : (\E i \in DOMAIN p : p[i] = f) <=> (f = g \/ \E i \in DOMAIN q : q[i] = f)
  <2>1. ASSUME NEW i \in DOMAIN p PROVE i = 1 \/ (i - 1 \in DOMAIN q /\ q[i - 1] = p[i])
    BY <1>2
  <2>2. ASSUME NEW i \in DOMAIN q PROVE i + 1 \in DOMAIN p /\ p[i + 1] = q[i]
    BY <1>2
  <2>3. 1 \in DOMAIN p
    BY <1>2
  <2>. QED  BY <1>2, <2>1, <2>2, <2>3
<1>4. ~\E i \in DOMAIN q : q[i] = g
  BY <1>1 DEF Placed
<1>5. IsInjective1(p)
  <2>1. ASSUME NEW i \in DOMAIN p, NEW j \in DOMAIN p, p[i] = p[j], i # 1, j # 1 PROVE i = j
    <3>1. /\ i - 1 \in DOMAIN q /\ j - 1 \in DOMAIN q
          /\ q[i - 1] = p[i] /\ q[j - 1] = p[j]
      BY <1>2, <2>1
    <3>2. i - 1 = j - 1
      BY <2>1, <3>1 DEF Placed, IsInjective1
    <3>. QED  BY <1>2, <3>2
  <2>2. ASSUME NEW i \in DOMAIN p, p[i] = p[1] PROVE i = 1
    <3>1. i # 1 => i - 1 \in DOMAIN q /\ q[i - 1] = g
      BY <1>2, <2>2
    <3>. QED  BY <1>4, <3>1
  <2>. QED  BY <2>1, <2>2 DEF IsInjective1
<1>6. \A f \in Files : (\E v \in Workers : d[v] = f) <=> (f # g /\ \E v \in Workers : c[v] = f)
  BY <1>1, FilesAssumption DEF Placed
<1>7. \A u, v \in Workers : d[u] = d[v] /\ d[u] # NoFile => u = v
  BY DEF Placed
<1>8. g \notin done
  BY <1>1 DEF Placed
<1>. HIDE DEF d
<1>9. ASSUME NEW f \in Files
      PROVE  /\ ~((\E i \in DOMAIN p : p[i] = f) /\ (\E v \in Workers : d[v] = f))
             /\ f \in done => ~(\E i \in DOMAIN p : p[i] = f) /\ ~(\E v \in Workers : d[v] = f)
             /\ f \in begun <=> \/ \E i \in DOMAIN p : p[i] = f
                                \/ \E v \in Workers : d[v] = f
                                \/ f \in done
  BY <1>3, <1>6, <1>8 DEF Placed
<1>10. Placed(p, d, done, begun)
  BY <1>5, <1>7, <1>9 DEF Placed
<1>. QED  BY <1>10 DEF p, d

\* file-done moves a worker's file to the results.
LEMMA FinishPlaced ==
    ASSUME NEW w \in Workers, NEW q, NEW c \in [Workers -> Files \cup {NoFile}],
           NEW done, NEW begun, c[w] # NoFile, Placed(q, c, done, begun)
    PROVE  Placed(q, [c EXCEPT ![w] = NoFile], done \cup {c[w]}, begun)
<1>. DEFINE d == [c EXCEPT ![w] = NoFile]
<1>1. \A f \in Files : (\E v \in Workers : d[v] = f) <=> (f # c[w] /\ \E v \in Workers : c[v] = f)
  BY FilesAssumption DEF Placed
<1>2. \A u, v \in Workers : d[u] = d[v] /\ d[u] # NoFile => u = v
  BY DEF Placed
<1>. HIDE DEF d
<1>3. Placed(q, d, done \cup {c[w]}, begun)
  BY <1>1, <1>2 DEF Placed
<1>. QED  BY <1>3 DEF d

-----------------------------------------------------------------------------
(* The conversation between the main process and one worker.               *)

\* The main process takes a message that is not final.
LEMMA TakeMessage ==
    ASSUME NEW cf, NEW r, NEW sent \in Seq(Message), NEW orders,
           sent # <<>>, Conversation(cf, r, sent, orders)
    PROVE  Conversation(cf, r, Tail(sent), orders)
<1>1. /\ DOMAIN sent = 1..Len(sent) /\ Len(sent) \in Nat \ {0}
      /\ DOMAIN Tail(sent) = 1..(Len(sent) - 1) /\ Len(Tail(sent)) = Len(sent) - 1
      /\ \A i \in DOMAIN Tail(sent) : Tail(sent)[i] = sent[i + 1]
  BY HeadTailProperties, LenProperties, EmptySeq
<1>2. orders = <<>>
  BY DEF Conversation
<1>3. \A i \in DOMAIN Tail(sent) :
         /\ Tail(sent)[i].file = cf
         /\ Tail(sent)[i].type \in {"file-done", "error"} => i = Len(Tail(sent)) /\ r = Idle
  <2>. SUFFICES ASSUME NEW i \in DOMAIN Tail(sent)
                PROVE  /\ Tail(sent)[i].file = cf
                       /\ Tail(sent)[i].type \in {"file-done", "error"} => i = Len(Tail(sent)) /\ r = Idle
    OBVIOUS
  <2>1. i + 1 \in DOMAIN sent /\ Tail(sent)[i] = sent[i + 1]
    BY <1>1
  <2>2. /\ sent[i + 1].file = cf
        /\ sent[i + 1].type \in {"file-done", "error"} => i + 1 = Len(sent) /\ r = Idle
    BY <2>1 DEF Conversation
  <2>. QED  BY <1>1, <2>1, <2>2
<1>. QED  BY <1>2, <1>3 DEF Conversation

\* A final message is the only one: nothing is left of the conversation.
LEMMA FinalMessage ==
    ASSUME NEW cf, NEW r, NEW sent \in Seq(Message), NEW orders,
           sent # <<>>, Head(sent).type \in {"file-done", "error"},
           Conversation(cf, r, sent, orders)
    PROVE  Head(sent).file = cf /\ Tail(sent) = <<>> /\ r = Idle /\ orders = <<>>
<1>1. /\ DOMAIN sent = 1..Len(sent) /\ Len(sent) \in Nat \ {0} /\ Head(sent) = sent[1]
      /\ Tail(sent) \in Seq(Message) /\ Len(Tail(sent)) = Len(sent) - 1
  BY HeadTailProperties, LenProperties, EmptySeq
<1>2. 1 \in DOMAIN sent
  BY <1>1
<1>3. Len(sent) = 1 /\ r = Idle /\ sent[1].file = cf
  BY <1>1, <1>2 DEF Conversation
<1>4. Tail(sent) = <<>>
  <2>1. \A s \in Seq(Message) : s # <<>> => Len(s) # 0
    BY EmptySeq
  <2>2. Tail(sent) \in Seq(Message) /\ Len(Tail(sent)) = 0
    BY <1>1, <1>3
  <2>. QED  BY <2>1, <2>2, Zenon
<1>. QED  BY <1>1, <1>3, <1>4 DEF Conversation

\* A worker that runs the assigned file reports on it.
LEMMA Report ==
    ASSUME NEW cf, NEW r, NEW r2, NEW sent \in Seq(Message), NEW orders, NEW m \in Message,
           r # Idle, m.file = r.file, Conversation(cf, r, sent, orders),
           r2 # Idle => r2.file = r.file,
           m.type \in {"file-done", "error"} => r2 = Idle
    PROVE  Conversation(cf, r2, Append(sent, m), orders)
<1>1. orders = <<>> /\ r.file = cf
  BY DEF Conversation
<1>2. /\ DOMAIN sent = 1..Len(sent) /\ Len(sent) \in Nat
      /\ DOMAIN Append(sent, m) = 1..(Len(sent) + 1) /\ Len(Append(sent, m)) = Len(sent) + 1
      /\ \A i \in DOMAIN sent : Append(sent, m)[i] = sent[i]
      /\ Append(sent, m)[Len(sent) + 1] = m
  BY AppendProperties, LenProperties
<1>3. ASSUME NEW i \in DOMAIN Append(sent, m)
      PROVE  /\ Append(sent, m)[i].file = cf
             /\ Append(sent, m)[i].type \in {"file-done", "error"} =>
                   i = Len(Append(sent, m)) /\ r2 = Idle
  <2>1. CASE i \in DOMAIN sent
    BY <1>2, <2>1 DEF Conversation
  <2>2. CASE i = Len(sent) + 1
    BY <1>1, <1>2, <2>2
  <2>. QED  BY <1>2, <1>3, <2>1, <2>2
<1>. QED  BY <1>1, <1>3 DEF Conversation

\* The worker takes its order and starts the file.
LEMMA TakeOrder ==
    ASSUME NEW cf, NEW r, NEW r2, NEW sent \in Seq(Message), NEW orders \in Seq(Order),
           orders # <<>>, Conversation(cf, r, sent, orders), NEW m \in Message,
           m.type = "file-start", m.file = Head(orders).file, r2.file = Head(orders).file
    PROVE  Conversation(cf, r2, Append(sent, m), Tail(orders))
<1>1. sent = <<>> /\ Len(orders) = 1
  BY DEF Conversation
<1>2. Head(orders) = orders[1] /\ Tail(orders) \in Seq(Order) /\ Len(Tail(orders)) = 0
      /\ 1 \in DOMAIN orders
  BY <1>1, HeadTailProperties, LenProperties
<1>3. Tail(orders) = <<>>
  BY <1>2, EmptySeq
<1>4. Head(orders).file = cf
  BY <1>2 DEF Conversation
<1>5. /\ DOMAIN Append(sent, m) = 1..1
      /\ Append(sent, m)[1] = m
  <2>1. Len(sent) = 0
    BY <1>1
  <2>. QED  BY <2>1, AppendProperties, LenProperties
<1>. QED  BY <1>3, <1>4, <1>5 DEF Conversation

\* The process ends; the channel keeps a prefix of what it sent.
LEMMA Truncate ==
    ASSUME NEW cf, NEW r, NEW sent \in Seq(Message), NEW orders, NEW k \in 0..Len(sent),
           Conversation(cf, r, sent, orders)
    PROVE  Conversation(cf, Idle, SubSeq(sent, 1, k), orders)
<1>1. /\ DOMAIN sent = 1..Len(sent) /\ Len(sent) \in Nat
      /\ SubSeq(sent, 1, k) \in Seq(Message)
      /\ DOMAIN SubSeq(sent, 1, k) = 1..k /\ Len(SubSeq(sent, 1, k)) = k
      /\ \A i \in 1..k : SubSeq(sent, 1, k)[i] = sent[i]
  BY PrefixTyped, LenProperties
<1>. DEFINE cut == SubSeq(sent, 1, k)
<1>. HIDE DEF cut
<1>2. \A i \in DOMAIN cut : /\ cut[i].file = cf
                            /\ cut[i].type \in {"file-done", "error"} => i = Len(cut)
  BY <1>1 DEF Conversation, cut
<1>3. sent = <<>> => cut = <<>>
  <2>1. sent = <<>> => Len(cut) = 0 /\ cut \in Seq(Message)
    BY <1>1 DEF cut
  <2>. QED  BY <2>1, EmptySeq
<1>4. Conversation(cf, Idle, cut, orders)
  BY <1>2, <1>3 DEF Conversation
<1>. QED  BY <1>4 DEF cut

\* An idle worker gets an order.
LEMMA GiveOrder ==
    ASSUME NEW f \in Files, NEW r, NEW sent \in Seq(Message), NEW orders \in Seq(Order),
           Conversation(NoFile, r, sent, orders), r # Idle => r.file \in Files
    PROVE  /\ sent = <<>> /\ r = Idle /\ orders = <<>>
           /\ Conversation(f, r, sent, Append(orders, [type |-> "run-file", file |-> f]))
<1>. DEFINE o == [type |-> "run-file", file |-> f]
<1>1. r = Idle
  BY FilesAssumption DEF Conversation
<1>2. sent = <<>>
  <2>1. \A i \in DOMAIN sent : sent[i].file \in Files
    BY ElementOfSeq, LenProperties DEF Message
  <2>2. DOMAIN sent = {}
    BY <2>1, FilesAssumption DEF Conversation
  <2>. QED  BY <2>2, LenProperties, EmptySeq
<1>3. orders = <<>>
  <2>1. \A i \in DOMAIN orders : orders[i].type = "run-file" => orders[i].file \in Files
    BY ElementOfSeq, LenProperties DEF Order
  <2>2. DOMAIN orders = {}
    BY <2>1, FilesAssumption DEF Conversation
  <2>. QED  BY <2>2, LenProperties, EmptySeq
<1>4. o \in Order
  BY DEF Order
<1>5. DOMAIN Append(orders, o) = 1..1 /\ Append(orders, o)[1] = o /\ Len(Append(orders, o)) = 1
  <2>1. Len(orders) = 0
    BY <1>3
  <2>. QED  BY <1>4, <2>1, AppendProperties, LenProperties
<1>. HIDE DEF o
<1>6. Conversation(f, r, sent, Append(orders, o))
  BY <1>1, <1>2, <1>5 DEF Conversation, o
<1>. QED  BY <1>1, <1>2, <1>3, <1>6 DEF o

-----------------------------------------------------------------------------
(* Each action keeps the inductive invariant.                              *)

LEMMA Unmoved ==
    ASSUME IInv, UNCHANGED <<mainVars, handleVars>>
    PROVE  HandleInv' /\ PlacementInv'
<1>1. HandleInv'
  BY DEF IInv, HandleInv, mainVars, handleVars
<1>2. PlacementInv'
  BY DEF IInv, PlacementInv, Placed, Done, Begun, IsInjective1, mainVars, handleVars
<1>. QED  BY <1>1, <1>2

\* Only worker w's side of its channel changed, and the conversation goes on.
LEMMA OneConversation ==
    ASSUME NEW w \in Workers, ChannelsInv, UNCHANGED handleVars,
           \A v \in Workers \ {w} : /\ run'[v] = run[v] /\ toMain'[v] = toMain[v]
                                    /\ toWorker'[v] = toWorker[v],
           ~retired[w] => Conversation(currentFile[w], run'[w], toMain'[w], toWorker'[w])
    PROVE  ChannelsInv'
BY DEF ChannelsInv, ChannelInv, handleVars, Conversation

LEMMA RunFileInv ==
    ASSUME NEW w \in Workers, IInv, RunFile(w)
    PROVE  ChannelsInv'
<1>. DEFINE f == Head(toWorker[w]).file
            r == [file |-> f, attempt |-> 1, ended |-> 0, retries |-> 0]
            m == [type |-> "file-start", file |-> f]
<1>1. /\ run' = [run EXCEPT ![w] = r]
      /\ toMain' = [toMain EXCEPT ![w] = Append(toMain[w], m)]
      /\ toWorker' = [toWorker EXCEPT ![w] = Tail(toWorker[w])]
      /\ UNCHANGED handleVars /\ toWorker[w] # <<>>
  BY DEF RunFile, Send, WorkerOnly
<1>2. toMain[w] \in Seq(Message) /\ toWorker[w] \in Seq(Order)
  BY DEF IInv, TypeOK
<1>3. f \in Files
  BY HeadTailProperties DEF IInv, TypeOK, RunFile, Order
<1>4. m \in Message /\ m.type = "file-start" /\ m.file = f /\ r.file = f
  BY <1>3 DEF Message
<1>5. run'[w] = r /\ toMain'[w] = Append(toMain[w], m) /\ toWorker'[w] = Tail(toWorker[w])
      /\ \A v \in Workers \ {w} : /\ run'[v] = run[v] /\ toMain'[v] = toMain[v]
                                  /\ toWorker'[v] = toWorker[v]
  BY <1>1 DEF IInv, TypeOK
<1>. HIDE DEF r, m
<1>6. ~retired[w] => Conversation(currentFile[w], run[w], toMain[w], toWorker[w])
  BY DEF IInv, ChannelsInv, ChannelInv
<1>7. ~retired[w] => Conversation(currentFile[w], r, Append(toMain[w], m), Tail(toWorker[w]))
  BY <1>1, <1>2, <1>4, <1>6, TakeOrder
<1>. QED  BY <1>1, <1>5, <1>7, OneConversation DEF IInv

LEMMA RunningInv ==
    ASSUME NEW w \in Workers, IInv,
           TestEnd(w) \/ TestWillRetry(w) \/ FileRetry(w) \/ FileDone(w) \/ FileError(w)
    PROVE  ChannelsInv'
<1>1. run[w].file \in Files /\ run[w] # Idle
  BY DEF IInv, RunInv, TestEnd, TestWillRetry, FileRetry, FileDone, FileError, Running
<1>2. \E m \in Message :
        /\ m.file = run[w].file
        /\ toMain' = [toMain EXCEPT ![w] = Append(toMain[w], m)]
        /\ m.type \in {"file-done", "error"} => run'[w] = Idle
  <2>1. \A type \in {"test-end", "test-will-retry", "file-retry", "error"} :
           [type |-> type, file |-> run[w].file] \in Message
    BY <1>1 DEF Message
  <2>2. \A status \in {"passed", "failed"} :
           [type |-> "file-done", file |-> run[w].file, status |-> status] \in Message
    BY <1>1 DEF Message
  <2>3. CASE TestEnd(w)
    BY <2>1, <2>3 DEF TestEnd, Send
  <2>4. CASE TestWillRetry(w)
    BY <2>1, <2>4 DEF TestWillRetry, Send
  <2>5. CASE FileRetry(w)
    BY <2>1, <2>5 DEF FileRetry, Send
  <2>6. CASE FileDone(w)
    BY <2>2, <2>6 DEF FileDone, Send, IInv, TypeOK
  <2>7. CASE FileError(w)
    BY <2>1, <2>7 DEF FileError, Send, IInv, TypeOK
  <2>. QED  BY <2>3, <2>4, <2>5, <2>6, <2>7
<1>3. PICK m \in Message :
        /\ m.file = run[w].file
        /\ toMain' = [toMain EXCEPT ![w] = Append(toMain[w], m)]
        /\ m.type \in {"file-done", "error"} => run'[w] = Idle
  BY <1>2
<1>4. /\ run'[w] # Idle => run'[w].file = run[w].file
      /\ \A v \in Workers \ {w} : run'[v] = run[v]
      /\ UNCHANGED <<handleVars, toWorker>>
  <2>1. run[w] \in [file : Files \cup {NoFile}, attempt : 0..2, ended : Nat, retries : Nat]
        /\ run = [v \in Workers |-> run[v]]
    BY DEF IInv, TypeOK
  <2>2. CASE TestEnd(w)
    BY <2>1, <2>2 DEF TestEnd, WorkerOnly
  <2>3. CASE TestWillRetry(w)
    BY <2>1, <2>3 DEF TestWillRetry, WorkerOnly
  <2>4. CASE FileRetry(w)
    BY <2>1, <2>4 DEF FileRetry, WorkerOnly
  <2>5. CASE FileDone(w) \/ FileError(w)
    BY <2>1, <2>5 DEF FileDone, FileError, WorkerOnly
  <2>. QED  BY <2>2, <2>3, <2>4, <2>5
<1>5. toMain[w] \in Seq(Message) /\ toMain'[w] = Append(toMain[w], m)
      /\ \A v \in Workers \ {w} : toMain'[v] = toMain[v]
  BY <1>3 DEF IInv, TypeOK
<1>6. ~retired[w] => Conversation(currentFile[w], run[w], toMain[w], toWorker[w])
  BY DEF IInv, ChannelsInv, ChannelInv
<1>7. ~retired[w] => Conversation(currentFile[w], run'[w], Append(toMain[w], m), toWorker[w])
  BY <1>1, <1>3, <1>4, <1>5, <1>6, Report
<1>. QED  BY <1>4, <1>5, <1>7, OneConversation DEF IInv

LEMMA ExitInv ==
    ASSUME NEW w \in Workers, IInv, Exit(w)
    PROVE  ChannelsInv'
<1>1. PICK k \in 0..Len(toMain[w]) : toMain' = [toMain EXCEPT ![w] = SubSeq(toMain[w], 1, k)]
  BY DEF Exit
<1>2. /\ run'[w] = Idle /\ toMain'[w] = SubSeq(toMain[w], 1, k) /\ toMain[w] \in Seq(Message)
      /\ \A v \in Workers \ {w} : run'[v] = run[v] /\ toMain'[v] = toMain[v]
      /\ UNCHANGED <<handleVars, toWorker>>
  BY <1>1 DEF Exit, WorkerOnly, IInv, TypeOK
<1>3. ~retired[w] => Conversation(currentFile[w], run[w], toMain[w], toWorker[w])
  BY DEF IInv, ChannelsInv, ChannelInv
<1>4. ~retired[w] => Conversation(currentFile[w], Idle, SubSeq(toMain[w], 1, k), toWorker[w])
  BY <1>2, <1>3, Truncate
<1>. QED  BY <1>2, <1>4, OneConversation DEF IInv

LEMMA ReportInv ==
    ASSUME NEW w \in Workers, IInv,
           OnFileStart(w) \/ OnTestEnd(w) \/ OnTestWillRetry(w) \/ OnFileRetry(w) \/ DropMessage(w)
    PROVE  ChannelsInv'
<1>1. /\ toMain[w] # <<>> /\ toMain' = [toMain EXCEPT ![w] = Tail(toMain[w])]
      /\ UNCHANGED <<handleVars, toWorker, run>>
  BY DEF OnFileStart, OnTestEnd, OnTestWillRetry, OnFileRetry, DropMessage, NextMessage, ReportOnly
<1>2. toMain[w] \in Seq(Message) /\ toMain'[w] = Tail(toMain[w])
      /\ \A v \in Workers \ {w} : toMain'[v] = toMain[v]
  BY <1>1 DEF IInv, TypeOK
<1>3. ~retired[w] => Conversation(currentFile[w], run[w], Tail(toMain[w]), toWorker[w])
  BY <1>1, <1>2, TakeMessage DEF IInv, ChannelsInv, ChannelInv
<1>. QED  BY <1>1, <1>2, <1>3, OneConversation DEF IInv

\* What dispatchNext does to an idle worker and leaves alone of the others.
LEMMA DispatchEffect ==
    ASSUME NEW v \in Workers, NEW q \in Seq(Files), NEW b \in [Workers -> BOOLEAN],
           NEW c \in [Workers -> Files \cup {NoFile}], c[v] = NoFile,
           TypeOK, RunInv, NEW sent \in Seq(Message),
           Conversation(NoFile, run[v], sent, toWorker[v]), DispatchNext(v, q, b, c)
    PROVE  /\ Conversation(currentFile'[v], run[v], sent, toWorker'[v])
           /\ busy'[v] <=> currentFile'[v] # NoFile
           /\ \A u \in Workers \ {v} : /\ currentFile'[u] = c[u] /\ busy'[u] = b[u]
                                       /\ toWorker'[u] = toWorker[u]
<1>1. CASE q = <<>>
  BY <1>1 DEF DispatchNext, TypeOK
<1>2. CASE q # <<>>
  <2>. DEFINE o == [type |-> "run-file", file |-> Head(q)]
  <2>1. Head(q) \in Files
    BY <1>2, HeadTailProperties
  <2>2. /\ busy' = [b EXCEPT ![v] = TRUE]
        /\ currentFile' = [c EXCEPT ![v] = Head(q)]
        /\ toWorker' = [toWorker EXCEPT ![v] = Append(toWorker[v], o)]
    BY <1>2 DEF DispatchNext
  <2>3. toWorker \in [Workers -> Seq(Order)]
    BY DEF TypeOK
  <2>4. Conversation(Head(q), run[v], sent, Append(toWorker[v], o))
    <3>1. run[v] # Idle => run[v].file \in Files
      BY DEF RunInv
    <3>. QED  BY <2>1, <2>3, <3>1, GiveOrder
  <2>5. /\ currentFile'[v] = Head(q) /\ busy'[v] /\ toWorker'[v] = Append(toWorker[v], o)
        /\ \A u \in Workers \ {v} : /\ currentFile'[u] = c[u] /\ busy'[u] = b[u]
                                    /\ toWorker'[u] = toWorker[u]
    BY <2>2, <2>3
  <2>. HIDE DEF o
  <2>. QED  BY <2>1, <2>4, <2>5, FilesAssumption
<1>. QED  BY <1>1, <1>2

LEMMA FileDoneInv ==
    ASSUME NEW w \in Workers, IInv, OnFileDone(w)
    PROVE  HandleInv' /\ ChannelsInv' /\ PlacementInv'
<1>. DEFINE m == Head(toMain[w])
            f == currentFile[w]
            c == [currentFile EXCEPT ![w] = NoFile]
<1>1. /\ phase = "dispatching" /\ settled = "pending" /\ ~retired[w]
      /\ toMain[w] # <<>> /\ m.type = "file-done"
      /\ toMain' = [toMain EXCEPT ![w] = Tail(toMain[w])]
      /\ allResults' = [allResults EXCEPT ![m.file] = Append(@, m.status)]
      /\ DispatchNext(w, fileQueue, busy, c)
      /\ UNCHANGED <<phase, wave, shuttingDown, retired, run>>
      /\ MaybeResolve
  BY DEF OnFileDone, NextMessage, MainIdle
<1>2. toMain[w] \in Seq(Message) /\ fileQueue \in Seq(Files) /\ busy \in [Workers -> BOOLEAN]
      /\ c \in [Workers -> Files \cup {NoFile}] /\ c[w] = NoFile
      /\ currentFile \in [Workers -> Files \cup {NoFile}]
      /\ \A v \in Workers \ {w} : c[v] = currentFile[v]
  BY DEF IInv, TypeOK
<1>3. Conversation(f, run[w], toMain[w], toWorker[w])
  BY <1>1 DEF IInv, ChannelsInv, ChannelInv
<1>4. m.file = f /\ Tail(toMain[w]) = <<>> /\ run[w] = Idle /\ toWorker[w] = <<>>
  BY <1>1, <1>2, <1>3, FinalMessage
<1>5. f \in Files /\ m.status \in Status
  BY <1>1, <1>4, MessageTyped DEF IInv, Status
<1>6. toMain'[w] = <<>> /\ \A v \in Workers \ {w} : toMain'[v] = toMain[v]
  BY <1>1, <1>4 DEF IInv, TypeOK
<1>7. /\ Conversation(currentFile'[w], run[w], <<>>, toWorker'[w])
      /\ busy'[w] <=> currentFile'[w] # NoFile
      /\ \A u \in Workers \ {w} : /\ currentFile'[u] = c[u] /\ busy'[u] = busy[u]
                                  /\ toWorker'[u] = toWorker[u]
  <2>1. Conversation(NoFile, run[w], <<>>, toWorker[w])
    BY <1>4 DEF Conversation
  <2>2. <<>> \in Seq(Message)
    BY EmptySeq
  <2>3. /\ TypeOK /\ RunInv
        /\ fileQueue \in Seq(Files) /\ busy \in [Workers -> BOOLEAN]
        /\ c \in [Workers -> Files \cup {NoFile}] /\ c[w] = NoFile
    BY <1>2 DEF IInv
  <2>4. DispatchNext(w, fileQueue, busy, c)
    BY <1>1
  <2>. HIDE DEF c
  <2>. QED  BY <2>1, <2>2, <2>3, <2>4, DispatchEffect
<1>8. HandleInv'
  <2>1. \A v \in Workers : busy'[v] <=> currentFile'[v] # NoFile
    BY <1>2, <1>7 DEF IInv, HandleInv
  <2>2. settled' # "rejected"
        /\ (settled' = "resolved" => /\ fileQueue' = <<>>
                                     /\ \A v \in Workers : retired'[v] \/ ~busy'[v])
    BY <1>1 DEF MaybeResolve
  <2>3. ~shuttingDown' => \A v \in Workers : retired'[v] => currentFile'[v] = NoFile
    BY <1>1, <1>2, <1>7 DEF IInv, HandleInv
  <2>4. phase' = "dispatching"
    BY <1>1
  <2>. QED  BY <2>1, <2>2, <2>3, <2>4 DEF HandleInv
<1>9. ChannelsInv'
  <2>1. ASSUME NEW v \in Workers, ~retired[v], v # w
        PROVE  Conversation(currentFile'[v], run[v], toMain'[v], toWorker'[v])
    BY <1>2, <1>6, <1>7, <2>1 DEF IInv, ChannelsInv, ChannelInv
  <2>. QED  BY <1>1, <1>6, <1>7, <2>1 DEF ChannelsInv, ChannelInv
<1>10. PlacementInv'
  <2>1. Placed(fileQueue, currentFile, Done, Begun)
    BY DEF IInv, PlacementInv
  <2>2. f # NoFile
    BY <1>5, FilesAssumption
  <2>3. Placed(fileQueue, c, Done \cup {f}, Begun)
    BY <1>2, <2>1, <2>2, FinishPlaced
  <2>4. Placed(fileQueue', currentFile', Done \cup {f}, Begun)
    <3>. HIDE DEF c, f
    <3>. QED  BY <1>1, <1>2, <2>3, DispatchPlaced
  <2>5. Begun' = Begun
    BY <1>1 DEF Begun
  <2>6. Len(allResults[f]) = 0 /\ allResults[f] \in Seq(Status)
    BY <1>5, <2>1 DEF IInv, PlacementInv, Placed, Done, TypeOK
  <2>7. Len(allResults'[f]) = 1 /\ \A g \in Files \ {f} : allResults'[g] = allResults[g]
    <3>1. Len(Append(allResults[f], m.status)) = 1
      BY <1>5, <2>6, AppendProperties
    <3>. QED  BY <1>1, <1>4, <1>5, <3>1 DEF IInv, TypeOK
  <2>8. Done' = Done \cup {f} /\ \A g \in Files : Len(allResults'[g]) \in {0, 1}
    BY <1>5, <2>7 DEF Done, IInv, PlacementInv
  <2>. QED  BY <2>4, <2>5, <2>8 DEF PlacementInv
<1>. QED  BY <1>8, <1>9, <1>10

LEMMA RetireInv ==
    ASSUME NEW w \in Workers, IInv, RetireAndRequeue(w),
           ~retired[w], ~shuttingDown, phase = "dispatching", settled = "pending",
           UNCHANGED <<phase, wave, shuttingDown, allResults, run>>,
           \A v \in Workers \ {w} : toMain'[v] = toMain[v]
    PROVE  HandleInv' /\ ChannelsInv' /\ PlacementInv'
<1>. DEFINE f       == currentFile[w]
            queue   == IF f = NoFile THEN fileQueue ELSE <<f>> \o fileQueue
            isBusy  == [busy EXCEPT ![w] = FALSE]
            current == [currentFile EXCEPT ![w] = NoFile]
            active  == {v \in Workers : v # w /\ ~retired[v]}
            idle    == {v \in active : ~busy[v]}
            Kept    == fileQueue' = queue /\ busy' = isBusy /\ currentFile' = current
                       /\ UNCHANGED toWorker
<1>1. retired' = [retired EXCEPT ![w] = TRUE]
  BY DEF RetireAndRequeue
<1>2. \/ active = {} /\ Kept /\ settled' = "rejected"
      \/ Kept /\ MaybeResolve
      \/ \E v \in idle : DispatchNext(v, queue, isBusy, current) /\ MaybeResolve
  BY DEF RetireAndRequeue
<1>3. /\ queue \in Seq(Files) /\ isBusy \in [Workers -> BOOLEAN]
      /\ current \in [Workers -> Files \cup {NoFile}]
  <2>1. f \in Files => <<f>> \in Seq(Files)
    OBVIOUS
  <2>. QED  BY <2>1, ConcatProperties DEF IInv, TypeOK
<1>4. Placed(queue, current, Done, Begun)
  <2>1. Placed(fileQueue, currentFile, Done, Begun) /\ fileQueue \in Seq(Files)
        /\ currentFile \in [Workers -> Files \cup {NoFile}]
    BY DEF IInv, PlacementInv, TypeOK
  <2>2. CASE f = NoFile
    <3>1. current = currentFile /\ queue = fileQueue
      BY <2>1, <2>2
    <3>. QED  BY <2>1, <3>1
  <2>3. CASE f # NoFile
    BY <2>1, <2>3, RequeuePlaced
  <2>. QED  BY <2>2, <2>3
<1>5. /\ current[w] = NoFile /\ ~isBusy[w] /\ retired'[w]
      /\ \A v \in Workers \ {w} : /\ current[v] = currentFile[v] /\ isBusy[v] = busy[v]
                                  /\ retired'[v] = retired[v]
  BY <1>1 DEF IInv, TypeOK
<1>6. /\ Begun' = Begun /\ Done' = Done
      /\ \A g \in Files : Len(allResults'[g]) \in {0, 1}
  BY DEF Begun, Done, IInv, PlacementInv
<1>7. \A v \in Workers : isBusy[v] <=> current[v] # NoFile
  BY <1>5 DEF IInv, HandleInv
<1>8. \A v \in Workers : retired'[v] => current[v] = NoFile
  BY <1>5 DEF IInv, HandleInv
<1>9. MaybeResolve => /\ settled' # "rejected"
                      /\ settled' = "resolved" => /\ fileQueue' = <<>>
                                                  /\ \A v \in Workers : retired'[v] \/ ~busy'[v]
  BY DEF MaybeResolve
<1>10. active = {} => \A v \in Workers : retired'[v]
  BY <1>5
<1>11. \A v \in idle : v \in Workers /\ v # w /\ ~retired[v] /\ current[v] = NoFile
  BY <1>5, <1>7
<1>12. CASE Kept
  <2>1. HandleInv'
    BY <1>2, <1>7, <1>8, <1>9, <1>10, <1>11, <1>12 DEF HandleInv, DispatchNext
  <2>2. ChannelsInv'
    BY <1>5, <1>12 DEF IInv, ChannelsInv, ChannelInv
  <2>3. PlacementInv'
    BY <1>4, <1>6, <1>12 DEF PlacementInv
  <2>. QED  BY <2>1, <2>2, <2>3
<1>13. ASSUME NEW v \in idle, DispatchNext(v, queue, isBusy, current), MaybeResolve
       PROVE  HandleInv' /\ ChannelsInv' /\ PlacementInv'
  <2>1. v \in Workers /\ v # w /\ ~retired[v] /\ current[v] = NoFile /\ currentFile[v] = NoFile
        /\ toMain[v] \in Seq(Message)
    BY <1>5, <1>11 DEF IInv, TypeOK
  <2>2. Conversation(NoFile, run[v], toMain[v], toWorker[v])
    BY <2>1 DEF IInv, ChannelsInv, ChannelInv
  <2>. HIDE DEF queue, isBusy, current, idle, active
  <2>3. /\ Conversation(currentFile'[v], run[v], toMain[v], toWorker'[v])
        /\ busy'[v] <=> currentFile'[v] # NoFile
        /\ \A u \in Workers \ {v} : /\ currentFile'[u] = current[u] /\ busy'[u] = isBusy[u]
                                    /\ toWorker'[u] = toWorker[u]
    BY <1>3, <1>13, <2>1, <2>2, DispatchEffect DEF IInv
  <2>4. HandleInv'
    <3>1. \A u \in Workers : busy'[u] <=> currentFile'[u] # NoFile
      BY <1>7, <2>3
    <3>2. \A u \in Workers : retired'[u] => currentFile'[u] = NoFile
      BY <1>5, <1>8, <2>1, <2>3
    <3>. QED  BY <1>9, <1>13, <3>1, <3>2 DEF HandleInv
  <2>5. ChannelsInv'
    <3>1. ASSUME NEW u \in Workers, ~retired'[u]
          PROVE  Conversation(currentFile'[u], run[u], toMain'[u], toWorker'[u])
      <4>1. u # w /\ ~retired[u] /\ toMain'[u] = toMain[u] /\ current[u] = currentFile[u]
        BY <1>5, <3>1
      <4>. QED  BY <2>3, <4>1 DEF IInv, ChannelsInv, ChannelInv
    <3>. QED  BY <3>1 DEF ChannelsInv, ChannelInv
  <2>6. PlacementInv'
    <3>1. Placed(fileQueue', currentFile', Done, Begun)
      BY <1>3, <1>4, <1>13, <2>1, DispatchPlaced
    <3>. QED  BY <1>6, <3>1 DEF PlacementInv
  <2>. QED  BY <2>4, <2>5, <2>6
<1>. QED  BY <1>2, <1>12, <1>13

\* A new wave's files are put in the queue, the skipped ones among the results.
LEMMA WavePlaced ==
    ASSUME NEW q \in Seq(Files), NEW c \in [Workers -> Files \cup {NoFile}],
           NEW done, NEW begun, NEW skipped, Placed(<<>>, c, done, begun),
           IsInjective1(q), Range1(q) \cap begun = {}, skipped \cap begun = {},
           skipped \cap Range1(q) = {}
    PROVE  Placed(q, c, done \cup skipped, begun \cup Range1(q) \cup skipped)
<1>1. \A f : (\E i \in DOMAIN q : q[i] = f) <=> f \in Range1(q)
  BY DEF Range1
<1>2. \A f \in Files : /\ f \in begun <=> (\E w \in Workers : c[w] = f) \/ f \in done
                       /\ f \in done => ~\E w \in Workers : c[w] = f
  BY DEF Placed
<1>3. ASSUME NEW f \in Files
      PROVE  /\ ~((\E i \in DOMAIN q : q[i] = f) /\ (\E w \in Workers : c[w] = f))
             /\ f \in done \cup skipped =>
                   ~(\E i \in DOMAIN q : q[i] = f) /\ ~(\E w \in Workers : c[w] = f)
             /\ f \in begun \cup Range1(q) \cup skipped <=>
                   \/ \E i \in DOMAIN q : q[i] = f
                   \/ \E w \in Workers : c[w] = f
                   \/ f \in done \cup skipped
  BY <1>1, <1>2
<1>. QED  BY <1>3 DEF Placed

\* The first files of the queue go to the active workers, one each.
LEMMA HandOutPlaced ==
    ASSUME NEW q \in Seq(Files), NEW done, NEW begun, TypeOK,
           Placed(q, currentFile, done, begun), DispatchToAll(q),
           \A w \in Workers : ~retired[w] => currentFile[w] = NoFile
    PROVE  Placed(fileQueue', currentFile', done, begun)
<1>1. PICK turn \in [Workers -> 0..N], last \in 1..N :
        /\ VisitingOrder(turn)
        /\ \A w \in Workers : turn[w] <= last
        /\ \E w \in Workers : turn[w] = last
        /\ fileQueue' = SubSeq(q, last + 1, Len(q))
        /\ currentFile' = [w \in Workers |->
              IF retired[w] THEN currentFile[w]
              ELSE IF turn[w] <= Len(q) THEN q[turn[w]] ELSE NoFile]
  BY DEF DispatchToAll
<1>. DEFINE rest == SubSeq(q, last + 1, Len(q))
            d == currentFile'
<1>2. /\ DOMAIN q = 1..Len(q) /\ Len(q) \in Nat /\ last \in Nat /\ last >= 1
      /\ DOMAIN rest = 1..(IF last < Len(q) THEN Len(q) - last ELSE 0)
      /\ \A i \in DOMAIN rest : rest[i] = q[last + i] /\ last + i \in DOMAIN q
  <2>1. last \in Nat /\ last >= 1 /\ Len(q) \in Nat
    BY LenProperties, WorkersAssumption
  <2>2. /\ rest \in Seq(Files) /\ Len(rest) = IF last < Len(q) THEN Len(q) - last ELSE 0
        /\ \A i \in 1..(Len(q) - last) : rest[i] = q[last + i]
    BY <2>1, SuffixTyped
  <2>3. DOMAIN rest = 1..Len(rest) /\ DOMAIN q = 1..Len(q)
    BY <2>2, LenProperties
  <2>. HIDE DEF rest
  <2>4. CASE last < Len(q)
    <3>1. DOMAIN rest = 1..(Len(q) - last)
      BY <2>2, <2>3, <2>4
    <3>2. \A i \in 1..(Len(q) - last) : last + i \in 1..Len(q)
      BY <2>1, <2>4
    <3>. QED  BY <2>1, <2>2, <2>3, <2>4, <3>1, <3>2
  <2>5. CASE ~(last < Len(q))
    <3>1. DOMAIN rest = 1..0
      BY <2>2, <2>3, <2>5
    <3>. QED  BY <2>1, <2>3, <2>5, <3>1
  <2>. QED  BY <2>4, <2>5
<1>. HIDE DEF rest
<1>3. \A w \in Workers : /\ ~retired[w] => turn[w] \in 1..last
                         /\ turn[w] # 0 => ~retired[w]
  BY <1>1, <1>2 DEF VisitingOrder
<1>4. \A k \in 1..last : \E w \in Workers : turn[w] = k /\ ~retired[w]
  <2>1. PICK x \in Workers : turn[x] = last
    BY <1>1
  <2>2. \A k \in 1..last : \E w \in Workers : turn[w] = k
    BY <1>1, <2>1 DEF VisitingOrder
  <2>3. \A k \in 1..last : k # 0
    BY <1>2
  <2>. QED  BY <1>3, <2>2, <2>3
<1>5. \A v, w \in Workers : ~retired[v] /\ ~retired[w] /\ turn[v] = turn[w] => v = w
  <2>1. \A v, w \in Workers : v \in Int /\ w \in Int
    BY WorkersAssumption DEF Workers
  <2>2. \A v, w \in Workers : ~retired[v] /\ ~retired[w] /\ v < w => turn[v] < turn[w]
    BY <1>1, <1>3 DEF VisitingOrder
  <2>3. \A v \in Workers : turn[v] \in Int
    OBVIOUS
  <2>. QED  BY <2>1, <2>2, <2>3
<1>6. \A w \in Workers :
         d[w] = IF retired[w] THEN currentFile[w]
                ELSE IF turn[w] <= Len(q) THEN q[turn[w]] ELSE NoFile
  BY <1>1
<1>7. \A f \in Files : (\E w \in Workers : d[w] = f) <=>
         \/ \E w \in Workers : currentFile[w] = f
         \/ \E i \in DOMAIN q : i <= last /\ q[i] = f
  <2>. SUFFICES ASSUME NEW f \in Files
                PROVE (\E w \in Workers : d[w] = f) <=>
                         \/ \E w \in Workers : currentFile[w] = f
                         \/ \E i \in DOMAIN q : i <= last /\ q[i] = f
    OBVIOUS
  <2>0. f # NoFile
    BY FilesAssumption
  <2>1. ASSUME NEW w \in Workers, d[w] = f
        PROVE  \/ \E v \in Workers : currentFile[v] = f
               \/ \E i \in DOMAIN q : i <= last /\ q[i] = f
    <3>1. CASE retired[w]
      BY <1>6, <2>1, <3>1
    <3>2. CASE ~retired[w]
      <4>1. turn[w] \in 1..last /\ turn[w] <= Len(q) /\ q[turn[w]] = f
        BY <1>3, <1>6, <2>0, <2>1, <3>2
      <4>. QED  BY <1>2, <4>1
    <3>. QED  BY <3>1, <3>2
  <2>2. ASSUME NEW w \in Workers, currentFile[w] = f PROVE d[w] = f
    BY <1>6, <2>0, <2>2
  <2>3. ASSUME NEW i \in DOMAIN q, i <= last, q[i] = f PROVE \E w \in Workers : d[w] = f
    <3>1. i \in 1..last
      BY <1>2, <2>3
    <3>2. PICK w \in Workers : turn[w] = i /\ ~retired[w]
      BY <1>4, <3>1
    <3>. QED  BY <1>2, <1>6, <2>3, <3>2
  <2>. QED  BY <2>1, <2>2, <2>3
<1>8. \A f : (\E i \in DOMAIN rest : rest[i] = f) <=> \E i \in DOMAIN q : i > last /\ q[i] = f
  <2>1. ASSUME NEW i \in DOMAIN rest PROVE last + i \in DOMAIN q /\ last + i > last /\ q[last + i] = rest[i]
    BY <1>2
  <2>2. ASSUME NEW i \in DOMAIN q, i > last PROVE i - last \in DOMAIN rest /\ rest[i - last] = q[i]
    BY <1>2, <2>2
  <2>. QED  BY <2>1, <2>2
<1>9. IsInjective1(rest)
  <2>1. ASSUME NEW i \in DOMAIN rest, NEW j \in DOMAIN rest, rest[i] = rest[j] PROVE i = j
    <3>1. last + i = last + j
      BY <1>2, <2>1 DEF Placed, IsInjective1
    <3>. QED  BY <1>2, <3>1
  <2>. QED  BY <2>1 DEF IsInjective1
<1>10. ASSUME NEW u \in Workers, NEW v \in Workers, d[u] = d[v], d[u] # NoFile PROVE u = v
  <2>1. CASE retired[u] /\ retired[v]
    BY <1>6, <1>10, <2>1 DEF Placed
  <2>2. CASE ~retired[u] /\ ~retired[v]
    <3>1. /\ turn[u] \in DOMAIN q /\ turn[v] \in DOMAIN q /\ q[turn[u]] = q[turn[v]]
      BY <1>2, <1>3, <1>6, <1>10, <2>2
    <3>2. turn[u] = turn[v]
      BY <3>1 DEF Placed, IsInjective1
    <3>. QED  BY <1>5, <2>2, <3>2
  <2>3. ASSUME NEW x \in Workers, NEW y \in Workers, retired[x], ~retired[y], d[x] = d[y], d[x] # NoFile
        PROVE  FALSE
    <3>1. turn[y] \in DOMAIN q /\ q[turn[y]] = d[x] /\ d[x] = currentFile[x]
      BY <1>2, <1>3, <1>6, <2>3
    <3>2. d[x] \in Files
      BY <2>3, <3>1 DEF TypeOK
    <3>. QED  BY <2>3, <3>1, <3>2 DEF Placed
  <2>. QED  BY <1>10, <2>1, <2>2, <2>3
<1>11. ASSUME NEW f \in Files
       PROVE  (\E i \in DOMAIN q : q[i] = f) <=> \/ \E i \in DOMAIN q : i <= last /\ q[i] = f
                                                 \/ \E i \in DOMAIN q : i > last /\ q[i] = f
  BY <1>2
<1>12. ASSUME NEW f \in Files
       PROVE  ~((\E i \in DOMAIN q : i <= last /\ q[i] = f) /\ (\E i \in DOMAIN q : i > last /\ q[i] = f))
  BY <1>2 DEF Placed, IsInjective1
<1>. HIDE DEF d
<1>13. ASSUME NEW f \in Files
       PROVE  /\ ~((\E i \in DOMAIN rest : rest[i] = f) /\ (\E w \in Workers : d[w] = f))
              /\ f \in done => ~(\E i \in DOMAIN rest : rest[i] = f) /\ ~(\E w \in Workers : d[w] = f)
              /\ f \in begun <=> \/ \E i \in DOMAIN rest : rest[i] = f
                                 \/ \E w \in Workers : d[w] = f
                                 \/ f \in done
  BY <1>7, <1>8, <1>11, <1>12 DEF Placed
<1>14. Placed(rest, d, done, begun)
  BY <1>9, <1>10, <1>13 DEF Placed
<1>. QED  BY <1>1, <1>14 DEF rest, d

LEMMA EnterWaveInv ==
    ASSUME IInv, EnterWave
    PROVE  HandleInv' /\ ChannelsInv' /\ PlacementInv'
<1>. DEFINE next    == wave + 1
            blocked == Blocked(next, FailedAfterWave)
            skipped == {f \in Files : ProjectOf[f] \in blocked}
            fresh   == {f \in Files : ProjectOf[f] \in ProjectWaves[next]}
<1>1. /\ phase = "dispatching" /\ settled = "resolved"
      /\ wave' = next
      /\ allResults' = [f \in Files |->
            IF f \in skipped THEN Append(allResults[f], "skipped") ELSE allResults[f]]
      /\ UNCHANGED <<phase, shuttingDown, retired, toMain, run>>
  BY DEF EnterWave
<1>2. WaveCount \in Nat /\ wave \in 0..WaveCount /\ next \in 1..WaveCount
  BY WavesAssumption, LenProperties DEF EnterWave, IInv, TypeOK, WaveCount
<1>3. PICK n \in 0..Len(WaveFiles[next]) : \E q \in [1..n -> Files] :
        /\ KeptInOrder(q, WaveFiles[next], Files \ skipped)
        /\ \/ UNCHANGED <<settled, fileQueue, busy, currentFile, toWorker>> /\ q = <<>>
           \/ /\ \A w \in Workers : retired[w]
              /\ settled' = "rejected"
              /\ fileQueue' = q
              /\ UNCHANGED <<busy, currentFile, toWorker>>
           \/ settled' = "pending" /\ DispatchToAll(q)
  BY DEF EnterWave
<1>4. PICK q \in [1..n -> Files] :
        /\ KeptInOrder(q, WaveFiles[next], Files \ skipped)
        /\ \/ UNCHANGED <<settled, fileQueue, busy, currentFile, toWorker>> /\ q = <<>>
           \/ /\ \A w \in Workers : retired[w]
              /\ settled' = "rejected"
              /\ fileQueue' = q
              /\ UNCHANGED <<busy, currentFile, toWorker>>
           \/ settled' = "pending" /\ DispatchToAll(q)
  BY <1>3
<1>5. q \in Seq(Files)
  <2>1. WaveFiles[next] \in Seq(Files)
    BY <1>2, WavesAssumption, ElementOfSeq DEF WaveCount
  <2>2. n \in Nat
    BY <2>1, LenProperties
  <2>. QED  BY <2>2
<1>6. IsInjective1(q) /\ Range1(q) = fresh \ skipped
  <2>1. Range1(WaveFiles[next]) = fresh
    BY <1>2, WavesAssumption
  <2>. QED  BY <1>4, <2>1 DEF KeptInOrder
<1>7. skipped \subseteq fresh
  BY DEF Blocked
<1>8. fresh \cap Begun = {} /\ Begun' = Begun \cup fresh
  <2>1. \A i \in 1..WaveCount : i <= wave => i # next
    BY <1>2
  <2>2. fresh \cap Begun = {}
    BY <1>2, <2>1, WavesAssumption DEF Begun
  <2>3. \A i \in 1..WaveCount : i <= next <=> i <= wave \/ i = next
    BY <1>2
  <2>4. Begun' = {f \in Files : \E i \in 1..WaveCount : i <= next /\ ProjectOf[f] \in ProjectWaves[i]}
    BY <1>1 DEF Begun
  <2>5. Begun' = Begun \cup fresh
    BY <1>2, <2>3, <2>4 DEF Begun
  <2>. QED  BY <2>2, <2>5
<1>9. fileQueue = <<>> /\ \A w \in Workers : ~retired[w] => currentFile[w] = NoFile
  BY <1>1 DEF IInv, HandleInv
<1>. HIDE DEF next, skipped, fresh, blocked
<1>10. Placed(q, currentFile, Done \cup skipped, Begun \cup fresh)
  <2>1. Placed(<<>>, currentFile, Done, Begun) /\ currentFile \in [Workers -> Files \cup {NoFile}]
    BY <1>9 DEF IInv, PlacementInv, TypeOK
  <2>2. /\ Range1(q) \cap Begun = {} /\ skipped \cap Begun = {} /\ skipped \cap Range1(q) = {}
        /\ Begun \cup Range1(q) \cup skipped = Begun \cup fresh
    BY <1>6, <1>7, <1>8
  <2>3. Placed(q, currentFile, Done \cup skipped, Begun \cup Range1(q) \cup skipped)
    BY <1>5, <1>6, <2>1, <2>2, WavePlaced
  <2>. QED  BY <2>2, <2>3
<1>11. Done' = Done \cup skipped /\ \A f \in Files : Len(allResults'[f]) \in {0, 1}
  <2>1. \A f \in Files : Len(allResults[f]) \in {0, 1} /\ allResults[f] \in Seq(Status)
    BY DEF IInv, PlacementInv, TypeOK
  <2>2. skipped \subseteq Files
    BY DEF skipped
  <2>3. \A f \in skipped : f \notin Begun
    BY <1>7, <1>8
  <2>4. \A f \in skipped : Len(allResults[f]) = 0
    <3>1. \A f \in Files : f \in Done => f \in Begun
      BY DEF IInv, PlacementInv, Placed
    <3>. QED  BY <2>1, <2>2, <2>3, <3>1 DEF Done
  <2>5. \A f \in skipped : Len(allResults'[f]) = 1
    <3>. SUFFICES ASSUME NEW f \in skipped PROVE Len(allResults'[f]) = 1
      OBVIOUS
    <3>1. allResults'[f] = Append(allResults[f], "skipped") /\ "skipped" \in Status
      BY <1>1, <2>2 DEF Status
    <3>. QED  BY <2>1, <2>2, <2>4, <3>1, AppendProperties
  <2>6. \A f \in Files \ skipped : allResults'[f] = allResults[f]
    BY <1>1
  <2>. QED  BY <2>1, <2>2, <2>4, <2>5, <2>6 DEF Done
<1>12. CASE UNCHANGED <<settled, fileQueue, busy, currentFile, toWorker>> /\ q = <<>>
  <2>1. HandleInv'
    BY <1>1, <1>12 DEF IInv, HandleInv
  <2>2. ChannelsInv'
    BY <1>1, <1>12 DEF IInv, ChannelsInv, ChannelInv
  <2>3. PlacementInv'
    BY <1>8, <1>9, <1>10, <1>11, <1>12 DEF PlacementInv
  <2>. QED  BY <2>1, <2>2, <2>3
<1>13. CASE /\ \A w \in Workers : retired[w]
            /\ settled' = "rejected"
            /\ fileQueue' = q
            /\ UNCHANGED <<busy, currentFile, toWorker>>
  <2>1. HandleInv'
    BY <1>1, <1>13 DEF IInv, HandleInv
  <2>2. ChannelsInv'
    BY <1>1, <1>13 DEF ChannelsInv
  <2>3. PlacementInv'
    BY <1>8, <1>10, <1>11, <1>13 DEF PlacementInv
  <2>. QED  BY <2>1, <2>2, <2>3
<1>14. CASE settled' = "pending" /\ DispatchToAll(q)
  <2>1. PICK turn \in [Workers -> 0..N], last \in 1..N :
          /\ VisitingOrder(turn)
          /\ busy' = [w \in Workers |-> IF retired[w] THEN busy[w] ELSE turn[w] <= Len(q)]
          /\ currentFile' = [w \in Workers |->
                IF retired[w] THEN currentFile[w]
                ELSE IF turn[w] <= Len(q) THEN q[turn[w]] ELSE NoFile]
          /\ toWorker' = [w \in Workers |->
                IF ~retired[w] /\ turn[w] <= Len(q)
                THEN Append(toWorker[w], [type |-> "run-file", file |-> q[turn[w]]])
                ELSE toWorker[w]]
    BY <1>14 DEF DispatchToAll
  <2>2. ASSUME NEW w \in Workers, ~retired[w], turn[w] <= Len(q) PROVE q[turn[w]] \in Files
    <3>1. turn[w] \in 1..Len(q)
      BY <2>1, <2>2, <1>5, LenProperties DEF VisitingOrder
    <3>. QED  BY <1>5, <3>1, ElementOfSeq
  <2>3. \A w \in Workers : busy'[w] <=> currentFile'[w] # NoFile
    <3>1. ASSUME NEW w \in Workers, retired[w] PROVE busy'[w] <=> currentFile'[w] # NoFile
      <4>1. busy'[w] = busy[w] /\ currentFile'[w] = currentFile[w]
        BY <2>1, <3>1
      <4>. QED  BY <4>1 DEF IInv, HandleInv
    <3>2. ASSUME NEW w \in Workers, ~retired[w] PROVE busy'[w] <=> currentFile'[w] # NoFile
      <4>1. busy'[w] = (turn[w] <= Len(q))
        BY <2>1, <3>2
      <4>2. currentFile'[w] = IF turn[w] <= Len(q) THEN q[turn[w]] ELSE NoFile
        BY <2>1, <3>2
      <4>. QED  BY <2>2, <3>2, <4>1, <4>2, FilesAssumption
    <3>. QED  BY <3>1, <3>2
  <2>4. HandleInv'
    <3>1. ~shuttingDown' => \A w \in Workers : retired'[w] => currentFile'[w] = NoFile
      BY <1>1, <2>1 DEF IInv, HandleInv
    <3>. QED  BY <1>1, <1>14, <2>3, <3>1 DEF HandleInv
  <2>5. ChannelsInv'
    <3>. SUFFICES ASSUME NEW w \in Workers, ~retired[w]
                  PROVE  Conversation(currentFile'[w], run[w], toMain[w], toWorker'[w])
      BY <1>1 DEF ChannelsInv, ChannelInv
    <3>1. Conversation(NoFile, run[w], toMain[w], toWorker[w])
      BY <1>9 DEF IInv, ChannelsInv, ChannelInv
    <3>2. toMain[w] \in Seq(Message) /\ toWorker[w] \in Seq(Order)
          /\ (run[w] # Idle => run[w].file \in Files)
      BY DEF IInv, TypeOK, RunInv
    <3>3. CASE turn[w] <= Len(q)
      <4>1. currentFile'[w] = q[turn[w]]
            /\ toWorker'[w] = Append(toWorker[w], [type |-> "run-file", file |-> q[turn[w]]])
        BY <2>1, <3>3
      <4>2. q[turn[w]] \in Files
        BY <2>2, <3>3
      <4>3. Conversation(q[turn[w]], run[w], toMain[w],
                         Append(toWorker[w], [type |-> "run-file", file |-> q[turn[w]]]))
        BY <3>1, <3>2, <4>2, GiveOrder
      <4>. QED  BY <4>1, <4>3
    <3>4. CASE ~(turn[w] <= Len(q))
      <4>1. currentFile'[w] = NoFile /\ toWorker'[w] = toWorker[w]
        BY <2>1, <3>4
      <4>. QED  BY <3>1, <4>1
    <3>. QED  BY <3>3, <3>4
  <2>6. PlacementInv'
    <3>1. Placed(fileQueue', currentFile', Done \cup skipped, Begun \cup fresh)
      BY <1>5, <1>9, <1>10, <1>14, HandOutPlaced DEF IInv
    <3>. QED  BY <1>8, <1>11, <3>1 DEF PlacementInv
  <2>. QED  BY <2>4, <2>5, <2>6
<1>. QED  BY <1>4, <1>12, <1>13, <1>14

LEMMA RetireEventInv ==
    ASSUME NEW w \in Workers, IInv, OnError(w) \/ OnExit(w) \/ OnChannelFailure(w)
    PROVE  HandleInv' /\ ChannelsInv' /\ PlacementInv'
<1>1. /\ phase = "dispatching" /\ settled = "pending" /\ ~retired[w]
      /\ UNCHANGED <<phase, wave, shuttingDown, allResults, run>>
  BY DEF OnError, OnExit, OnChannelFailure, NextMessage, MainIdle
<1>2. \A v \in Workers \ {w} : toMain'[v] = toMain[v]
  BY DEF OnError, OnExit, OnChannelFailure, NextMessage, IInv, TypeOK
<1>3. CASE ~shuttingDown
  <2>1. RetireAndRequeue(w)
    BY <1>3 DEF OnError, OnExit, OnChannelFailure, RetireWorker
  <2>. QED  BY <1>1, <1>2, <1>3, <2>1, RetireInv
<1>4. CASE shuttingDown
  <2>1. /\ retired' = [retired EXCEPT ![w] = TRUE]
        /\ UNCHANGED <<settled, fileQueue, busy, currentFile, toWorker>>
    BY <1>4 DEF OnError, OnExit, OnChannelFailure, RetireWorker
  <2>2. \A v \in Workers \ {w} : retired'[v] = retired[v]
    BY <2>1 DEF IInv, TypeOK
  <2>3. retired'[w]
    BY <2>1 DEF IInv, TypeOK
  <2>4. HandleInv'
    BY <1>1, <1>4, <2>1 DEF IInv, HandleInv
  <2>5. ChannelsInv'
    BY <1>1, <1>2, <2>1, <2>2, <2>3 DEF IInv, ChannelsInv, ChannelInv
  <2>6. PlacementInv'
    BY <1>1, <2>1 DEF IInv, PlacementInv, Placed, Done, Begun, IsInjective1
  <2>. QED  BY <2>4, <2>5, <2>6
<1>. QED  BY <1>3, <1>4

LEMMA InductiveStep == IInv /\ [Next]_vars => IInv'
<1>. SUFFICES ASSUME IInv, [Next]_vars PROVE IInv'
  OBVIOUS
<1>0. TypeOK' /\ RunInv'
  BY TypeStep DEF IInv, TypeInv
<1>. SUFFICES HandleInv' /\ ChannelsInv' /\ PlacementInv'
  BY <1>0 DEF IInv
<1>1. CASE UNCHANGED vars
  <2>1. UNCHANGED <<mainVars, handleVars>>
    BY <1>1 DEF vars
  <2>2. ChannelsInv'
    BY <1>1 DEF vars, workerVars, handleVars, IInv, ChannelsInv, ChannelInv
  <2>. QED  BY <2>1, <2>2, Unmoved
<1>2. ASSUME NEW w \in Workers,
             OnFileStart(w) \/ OnTestEnd(w) \/ OnTestWillRetry(w) \/ OnFileRetry(w) \/ DropMessage(w)
      PROVE  HandleInv' /\ ChannelsInv' /\ PlacementInv'
  <2>1. UNCHANGED <<mainVars, handleVars>>
    BY <1>2 DEF OnFileStart, OnTestEnd, OnTestWillRetry, OnFileRetry, DropMessage, ReportOnly
  <2>. QED  BY <1>2, <2>1, Unmoved, ReportInv
<1>3. ASSUME NEW w \in Workers, MainEvent(w) \/ OnChannelFailure(w)
      PROVE  HandleInv' /\ ChannelsInv' /\ PlacementInv'
  BY <1>2, <1>3, FileDoneInv, RetireEventInv DEF MainEvent
<1>4. ASSUME NEW w \in Workers, WorkerStep(w) \/ TestWillRetry(w) \/ Crash(w)
      PROVE  HandleInv' /\ ChannelsInv' /\ PlacementInv'
  <2>1. UNCHANGED <<mainVars, handleVars>>
    BY <1>4 DEF WorkerStep, Crash, RunFile, TestEnd, TestWillRetry, FileRetry, FileDone, FileError,
                KilledExit, Shutdown, Exit, WorkerOnly
  <2>2. ChannelsInv'
    BY <1>4, RunFileInv, RunningInv, ExitInv DEF WorkerStep, Crash, KilledExit, Shutdown
  <2>. QED  BY <2>1, <2>2, Unmoved
<1>5. ASSUME NEW w \in Workers, ShutdownTimeout(w)
      PROVE  HandleInv' /\ ChannelsInv' /\ PlacementInv'
  <2>1. UNCHANGED <<mainVars, handleVars>>
    BY <1>5 DEF ShutdownTimeout
  <2>2. ChannelsInv'
    BY <1>5 DEF ShutdownTimeout, handleVars, IInv, ChannelsInv, ChannelInv
  <2>. QED  BY <2>1, <2>2, Unmoved
<1>6. CASE Finally
  <2>1. \A w \in Workers : retired'[w]
    BY <1>6 DEF Finally
  <2>2. HandleInv'
    BY <1>6, <2>1 DEF Finally, IInv, HandleInv
  <2>3. ChannelsInv'
    BY <2>1 DEF ChannelsInv
  <2>4. PlacementInv'
    BY <1>6 DEF Finally, IInv, PlacementInv, Placed, Done, Begun, IsInjective1
  <2>. QED  BY <2>2, <2>3, <2>4
<1>7. CASE Return \/ ExitProcess \/ Interrupt
  <2>1. HandleInv'
    BY <1>7 DEF Return, ExitProcess, Interrupt, MainIdle, handleVars, IInv, HandleInv
  <2>2. ChannelsInv'
    BY <1>7 DEF Return, ExitProcess, Interrupt, handleVars, workerVars, IInv, ChannelsInv, ChannelInv
  <2>3. PlacementInv'
    BY <1>7 DEF Return, ExitProcess, Interrupt, handleVars, IInv, PlacementInv, Placed, Done, Begun, IsInjective1
  <2>. QED  BY <2>1, <2>2, <2>3
<1>. QED
  BY <1>1, <1>3, <1>4, <1>5, <1>6, <1>7, EnterWaveInv DEF Next, Terminated

LEMMA InductiveInit == Init => IInv
<1>. SUFFICES ASSUME Init PROVE IInv
  OBVIOUS
<1>1. TypeOK /\ RunInv
  BY TypeInit DEF TypeInv
<1>2. HandleInv
  BY DEF Init, HandleInv
<1>3. ChannelsInv
  BY EmptySeq DEF Init, ChannelsInv, ChannelInv, Conversation
<1>4. PlacementInv
  <2>1. \A f \in Files : Len(allResults[f]) = 0
    BY DEF Init
  <2>2. Done = {} /\ Begun = {}
    <3>1. ~\E i \in 1..WaveCount : i <= 0
      BY WavesAssumption, LenProperties DEF WaveCount
    <3>. QED  BY <2>1, <3>1 DEF Done, Begun, Init
  <2>3. Placed(fileQueue, currentFile, {}, {})
    BY FilesAssumption DEF Init, Placed, IsInjective1
  <2>. QED  BY <2>1, <2>2, <2>3 DEF PlacementInv
<1>. QED  BY <1>1, <1>2, <1>3, <1>4 DEF IInv

LEMMA Inductive == Spec => []IInv
BY InductiveInit, InductiveStep, PTL DEF Spec

-----------------------------------------------------------------------------
(* What the inductive invariant means for the run.                         *)

LEMMA PlacedOnce == IInv => ExactlyOnce
<1>. SUFFICES ASSUME IInv, NEW i \in 1..WaveCount, NEW f \in Range1(WaveFiles[i])
              PROVE  IF i <= wave THEN \E h \in Holders(f) : Holders(f) = {h}
                                  ELSE Holders(f) = {}
  BY DEF ExactlyOnce
<1>1. WaveCount \in Nat /\ wave \in 0..WaveCount
  BY WavesAssumption, LenProperties DEF IInv, TypeOK, WaveCount
<1>2. f \in Files /\ ProjectOf[f] \in ProjectWaves[i]
  BY WavesAssumption
<1>3. f \in Begun <=> i <= wave
  <2>1. \A j \in 1..WaveCount : ProjectOf[f] \in ProjectWaves[j] => j = i
    BY <1>2, WavesAssumption
  <2>. QED  BY <1>2, <2>1 DEF Begun
<1>. DEFINE Q == {j \in DOMAIN fileQueue : fileQueue[j] = f}
            A == {w \in Workers : currentFile[w] = f}
            R == DOMAIN allResults[f]
<1>4. Holders(f) = {<<"queue", j>> : j \in Q} \cup {<<"worker", w>> : w \in A}
                   \cup {<<"result", j>> : j \in R}
  BY DEF Holders
<1>5. /\ Q # {} => A = {} /\ R = {} /\ \E j : Q = {j}
      /\ A # {} => Q = {} /\ R = {} /\ \E w : A = {w}
      /\ R # {} => Q = {} /\ A = {} /\ R = {1}
      /\ f \in Begun <=> Q # {} \/ A # {} \/ R # {}
  <2>1. Placed(fileQueue, currentFile, Done, Begun) /\ Len(allResults[f]) \in {0, 1}
    BY <1>2 DEF IInv, PlacementInv
  <2>2. R = 1..Len(allResults[f])
    <3>1. allResults[f] \in Seq(Status)
      BY <1>2 DEF IInv, TypeOK
    <3>. QED  BY <3>1, LenProperties
  <2>3. (R # {} <=> f \in Done) /\ (R # {} => R = {1})
    <3>. HIDE DEF R
    <3>1. CASE Len(allResults[f]) = 0
      <4>1. R = {}
        BY <2>2, <3>1
      <4>. QED  BY <3>1, <4>1 DEF Done
    <3>2. CASE Len(allResults[f]) = 1
      <4>1. R = {1}
        BY <2>2, <3>2
      <4>. QED  BY <1>2, <3>2, <4>1 DEF Done
    <3>. QED  BY <2>1, <3>1, <3>2
  <2>. HIDE DEF R
  <2>4. f # NoFile
    BY <1>2, FilesAssumption
  <2>5. Q # {} => \E j : Q = {j}
    BY <2>1 DEF Placed, IsInjective1
  <2>6. A # {} => \E w : A = {w}
    BY <2>1, <2>4 DEF Placed
  <2>. QED  BY <1>2, <2>1, <2>3, <2>5, <2>6 DEF Placed
<1>. HIDE DEF Q, A, R
<1>6. CASE i <= wave
  <2>1. CASE Q # {}
    <3>1. PICK j : Q = {j}
      BY <1>5, <2>1
    <3>2. Holders(f) = {<<"queue", j>>}
      BY <1>4, <1>5, <2>1, <3>1
    <3>. QED  BY <1>6, <3>2
  <2>2. CASE A # {}
    <3>1. PICK w : A = {w}
      BY <1>5, <2>2
    <3>2. Holders(f) = {<<"worker", w>>}
      BY <1>4, <1>5, <2>2, <3>1
    <3>. QED  BY <1>6, <3>2
  <2>3. CASE R # {}
    <3>1. Holders(f) = {<<"result", 1>>}
      BY <1>4, <1>5, <2>3
    <3>. QED  BY <1>6, <3>1
  <2>. QED  BY <1>3, <1>5, <1>6, <2>1, <2>2, <2>3
<1>7. CASE ~(i <= wave)
  BY <1>3, <1>4, <1>5, <1>7
<1>. QED  BY <1>6, <1>7

\* No file is lost and none is counted twice, for any number of workers, files
\* and waves and any sequence of crashes, broken channels, late messages and
\* interrupts.
THEOREM FilesExactlyOnce == Spec => []ExactlyOnce
BY Inductive, PlacedOnce, PTL

LEMMA PlacedComplete == IInv => CompleteResults
<1>. SUFFICES ASSUME IInv, phase \in {"closing", "returned"}, settled = "resolved", ~shuttingDown,
                     NEW f \in Files
              PROVE  Len(allResults[f]) = 1
  BY DEF CompleteResults
<1>1. /\ wave = WaveCount /\ fileQueue = <<>>
      /\ \A w \in Workers : currentFile[w] = NoFile
  BY DEF IInv, HandleInv
<1>2. f \in Begun
  <2>1. PICK i \in 1..WaveCount : ProjectOf[f] \in ProjectWaves[i]
    BY FilesAssumption, WavesAssumption
  <2>2. WaveCount \in Nat
    BY WavesAssumption, LenProperties DEF WaveCount
  <2>. QED  BY <1>1, <2>1, <2>2 DEF Begun
<1>3. ~(\E i \in DOMAIN fileQueue : fileQueue[i] = f) /\ ~(\E w \in Workers : currentFile[w] = f)
  BY <1>1, FilesAssumption
<1>4. f \in Done
  BY <1>2, <1>3 DEF IInv, PlacementInv, Placed
<1>. QED  BY <1>4 DEF Done

\* A run that returns without an error and without an interrupt returns an
\* outcome for every file.
THEOREM ResultsComplete == Spec => []CompleteResults
BY Inductive, PlacedComplete, PTL

-----------------------------------------------------------------------------
(* Processes and daemons.                                                  *)

\* A worker the main process still counts on has not been signalled and has its
\* daemons, one it gave up has none; once the run is interrupted, or over, nothing
\* is left to shut down but daemons of group members.
ResourceInv ==
    /\ shuttingDown \/ phase \in {"returned", "exited"} =>
          daemons = MemberDaemons /\ \A w \in Workers : proc[w] # "running"
    /\ phase = "dispatching" /\ ~shuttingDown => \A w \in Workers :
          /\ ~retired[w] => DaemonsOf(w) \subseteq daemons /\ proc[w] # "killed"
          /\ retired[w] => DaemonsOf(w) \cap daemons = {}

LEMMA ResourceInit == Init => ResourceInv
BY DEF Init, ResourceInv, DaemonsOf

\* Ending processes and daemons of workers that are retired keeps ResourceInv.
LEMMA ResourcesKept ==
    ASSUME TypeOK, ResourceInv, UNCHANGED <<phase, shuttingDown>>,
           daemons' \subseteq daemons,
           \A w \in Workers : /\ proc'[w] = "running" => proc[w] = "running"
                              /\ retired[w] => retired'[w]
                              /\ ~retired'[w] => proc'[w] \in {proc[w], "exited"}
                                                 /\ daemons \cap DaemonsOf(w) \subseteq daemons'
                              /\ retired'[w] => retired[w] \/ shuttingDown
                                                \/ DaemonsOf(w) \cap daemons' = {}
    PROVE  ResourceInv'
BY DEF ResourceInv, TypeOK, MemberDaemons

LEMMA ResourceStep == TypeOK /\ ResourceInv /\ [Next]_vars => ResourceInv'
<1>. SUFFICES ASSUME TypeOK, ResourceInv, [Next]_vars PROVE ResourceInv'
  OBVIOUS
<1>1. CASE UNCHANGED vars
  BY <1>1 DEF ResourceInv, MemberDaemons, vars, mainVars, handleVars, workerVars
<1>2. ASSUME NEW w \in Workers, MainEvent(w) \/ OnChannelFailure(w) PROVE ResourceInv'
  <2>1. UNCHANGED <<phase, shuttingDown>>
    BY <1>2 DEF MainEvent, OnFileStart, OnTestEnd, OnTestWillRetry, OnFileRetry, OnFileDone, OnError,
                DropMessage, OnExit, OnChannelFailure, ReportOnly, mainVars
  <2>2. \/ UNCHANGED <<retired, daemons, proc>>
        \/ shuttingDown /\ retired' = [retired EXCEPT ![w] = TRUE] /\ UNCHANGED <<daemons, proc>>
        \/ retired' = [retired EXCEPT ![w] = TRUE] /\ CleanupWorkerResources(w)
    BY <1>2 DEF MainEvent, OnFileStart, OnTestEnd, OnTestWillRetry, OnFileRetry, OnFileDone, OnError,
                DropMessage, OnExit, OnChannelFailure, ReportOnly, handleVars, RetireWorker, RetireAndRequeue
  <2>3. retired \in [Workers -> BOOLEAN] /\ proc \in [Workers -> {"running", "killed", "exited"}]
    BY DEF TypeOK
  <2>. QED  BY <2>1, <2>2, <2>3, ResourcesKept DEF CleanupWorkerResources, DaemonsOf
<1>3. ASSUME NEW w \in Workers, WorkerStep(w) \/ TestWillRetry(w) \/ Crash(w) PROVE ResourceInv'
  <2>1. UNCHANGED <<phase, shuttingDown, retired, daemons>>
    BY <1>3 DEF WorkerStep, Crash, RunFile, TestEnd, TestWillRetry, FileRetry, FileDone, FileError,
                KilledExit, Shutdown, Exit, WorkerOnly, mainVars, handleVars
  <2>2. UNCHANGED proc \/ proc' = [proc EXCEPT ![w] = "exited"]
    BY <1>3 DEF WorkerStep, Crash, RunFile, TestEnd, TestWillRetry, FileRetry, FileDone, FileError,
                KilledExit, Shutdown, Exit
  <2>. QED  BY <2>1, <2>2, ResourcesKept DEF TypeOK
<1>4. ASSUME NEW w \in Workers, ShutdownTimeout(w) PROVE ResourceInv'
  BY <1>4 DEF ShutdownTimeout, ResourceInv, MemberDaemons, TypeOK, mainVars, handleVars
<1>5. CASE EnterWave
  BY <1>5 DEF EnterWave, ResourceInv, MemberDaemons
<1>6. CASE Finally
  BY <1>6 DEF Finally, ResourceInv, MemberDaemons
<1>7. CASE Return \/ Interrupt \/ ExitProcess
  BY <1>7 DEF Return, Interrupt, ExitProcess, ResourceInv, MemberDaemons, TypeOK, workerVars, handleVars
<1>. QED  BY <1>1, <1>2, <1>3, <1>4, <1>5, <1>6, <1>7 DEF Next, Terminated

\* When the run is over, or an interrupt ended the process, every daemon of a
\* worker's own device is gone - those of the other members of its group are left to
\* themselves - and every worker has exited or been signalled; until then nobody
\* signals a worker that has a file or kills a daemon of its devices, whatever else
\* is retired meanwhile, and a retired worker leaves no daemon of any device.
THEOREM ResourcesCleanedUp == Spec => []NothingLeftRunning
<1>1. IInv /\ ResourceInv => NothingLeftRunning
  BY DEF IInv, HandleInv, ResourceInv, NothingLeftRunning
<1>2. IInv => TypeOK
  BY DEF IInv
<1>. QED  BY <1>1, <1>2, Inductive, ResourceInit, ResourceStep, PTL DEF Spec

-----------------------------------------------------------------------------
(* Why the dispatcher implements WaveRun: under RunView every step of the  *)
(* dispatcher is a step of a run without workers, or invisible.  The       *)
(* mapping needs two facts that PlacementInv does not give: a file still   *)
(* to be decided is one of the current wave, and the failures of the waves *)
(* before are in failedProjects.                                           *)

InWave(f) == wave # 0 /\ ProjectOf[f] \in ProjectWaves[wave]

WaveInv ==
    ~Abandoned => \A f \in Files :
        /\ f \in Begun => f \in Done \/ InWave(f)
        /\ allResults[f] = <<"failed">> => ProjectOf[f] \in failedProjects \/ InWave(f)

\* The state of the run under RunView.
At == IF Abandoned THEN 0 ELSE wave
Outcome == [f \in Files |-> IF Abandoned \/ allResults[f] = <<>> THEN "none"
                            ELSE allResults[f][Len(allResults[f])]]
Lost == IF Abandoned THEN {} ELSE failedProjects
Ending == IF Abandoned THEN "abandoned"
          ELSE IF phase = "dispatching" THEN "running" ELSE "completed"

-----------------------------------------------------------------------------
(* What the results of a file say.                                         *)

\* A file has no outcome or one.
LEMMA OneOutcome ==
    ASSUME IInv, NEW f \in Files
    PROVE  /\ allResults[f] = <<>> \/ \E s \in Status : allResults[f] = <<s>>
           /\ f \in Done <=> allResults[f] # <<>>
<1>1. allResults[f] \in Seq(Status) /\ Len(allResults[f]) \in {0, 1}
  BY DEF IInv, TypeOK, PlacementInv
<1>2. CASE Len(allResults[f]) = 0
  <2>1. allResults[f] = <<>>
    BY <1>1, <1>2, EmptySeq
  <2>2. Len(allResults[f]) # 1
    BY <1>2
  <2>3. f \notin Done
    BY <2>2 DEF Done
  <2>. QED  BY <2>1, <2>3
<1>3. CASE Len(allResults[f]) = 1
  <2>1. /\ allResults[f][1] \in Status
        /\ allResults[f] = <<allResults[f][1]>>
    BY <1>1, <1>3, LenProperties
  <2>2. <<allResults[f][1]>> # <<>>
    OBVIOUS
  <2>. QED  BY <1>3, <2>1, <2>2 DEF Done
<1>. QED  BY <1>1, <1>2, <1>3

LEMMA OutcomeOf ==
    ASSUME NEW s, NEW r, r = <<s>>
    PROVE  r # <<>> /\ r[Len(r)] = s /\ ("failed" \in Range1(r) <=> s = "failed")
BY DEF Range1

LEMMA OutcomeIs ==
    ASSUME IInv, ~Abandoned, NEW f \in Files
    PROVE  /\ Outcome[f] \in Status \cup {"none"}
           /\ Outcome[f] = "none" <=> f \notin Done
           /\ Outcome[f] = "failed" <=> allResults[f] = <<"failed">>
           /\ Outcome[f] = "failed" <=> "failed" \in Range1(allResults[f])
<1>1. Outcome[f] = IF allResults[f] = <<>> THEN "none" ELSE allResults[f][Len(allResults[f])]
  BY DEF Outcome
<1>2. CASE allResults[f] = <<>>
  BY <1>1, <1>2, OneOutcome DEF Range1
<1>3. ASSUME NEW s \in Status, allResults[f] = <<s>>
      PROVE  /\ Outcome[f] \in Status \cup {"none"}
             /\ Outcome[f] = "none" <=> f \notin Done
             /\ Outcome[f] = "failed" <=> allResults[f] = <<"failed">>
             /\ Outcome[f] = "failed" <=> "failed" \in Range1(allResults[f])
  <2>1. Outcome[f] = s /\ allResults[f] # <<>>
    BY <1>1, <1>3, OutcomeOf
  <2>2. s # "none" /\ (<<s>> = <<"failed">> <=> s = "failed")
    BY <1>3 DEF Status
  <2>. QED  BY <1>3, <2>1, <2>2, OneOutcome, OutcomeOf
<1>. QED  BY <1>2, <1>3, OneOutcome

-----------------------------------------------------------------------------
(* Steps that the caller does not see, or sees as the end of everything.   *)

LEMMA SameView ==
    ASSUME UNCHANGED <<settled, shuttingDown, wave, allResults, failedProjects, phase>>
    PROVE  UNCHANGED RunView!runVars
<1>1. UNCHANGED <<At, Outcome, Lost, Ending>>
  BY DEF At, Outcome, Lost, Ending, Abandoned
<1>. QED  BY <1>1 DEF RunView!runVars, At, Outcome, Lost, Ending

LEMMA NobodySees ==
    ASSUME Abandoned, Abandoned'
    PROVE  UNCHANGED RunView!runVars
<1>1. UNCHANGED <<At, Outcome, Lost, Ending>>
  BY DEF At, Outcome, Lost, Ending
<1>. QED  BY <1>1 DEF RunView!runVars, At, Outcome, Lost, Ending

LEMMA WaveGoesOn ==
    ASSUME ~Abandoned, ~Abandoned', UNCHANGED <<wave, allResults, failedProjects>>,
           phase = "dispatching" <=> phase' = "dispatching"
    PROVE  UNCHANGED RunView!runVars
<1>1. UNCHANGED <<At, Outcome, Lost, Ending>>
  BY DEF At, Outcome, Lost, Ending
<1>. QED  BY <1>1 DEF RunView!runVars, At, Outcome, Lost, Ending

LEMMA GivesUp ==
    ASSUME ~Abandoned, phase = "dispatching", Abandoned'
    PROVE  RunView!Abandon
BY DEF RunView!Abandon

-----------------------------------------------------------------------------
(* The visible steps.                                                      *)

\* A file in flight is one of the current wave, and undecided.
LEMMA FileDoneDecides ==
    ASSUME NEW w \in Workers, IInv, WaveInv, OnFileDone(w), ~Abandoned
    PROVE  /\ \E f \in Files, verdict \in {"passed", "failed"} : RunView!Decide(f, verdict)
           /\ WaveInv'
<1>. DEFINE m == Head(toMain[w])
            f == currentFile[w]
<1>1. /\ phase = "dispatching" /\ settled = "pending" /\ ~retired[w]
      /\ toMain[w] # <<>> /\ m.type = "file-done"
      /\ allResults' = [allResults EXCEPT ![m.file] = Append(@, m.status)]
      /\ UNCHANGED <<phase, wave, shuttingDown, failedProjects>>
      /\ settled' \in {settled, "resolved"}
  BY DEF OnFileDone, NextMessage, MainIdle, MaybeResolve
<1>2. m.status \in {"passed", "failed"} /\ m.file \in Files
  BY <1>1, MessageTyped DEF IInv
<1>3. m.file = f
  <2>1. toMain[w] \in Seq(Message) /\ toMain[w] # <<>> /\ m.type \in {"file-done", "error"}
    BY <1>1 DEF IInv, TypeOK
  <2>2. Conversation(f, run[w], toMain[w], toWorker[w])
    BY <1>1 DEF IInv, ChannelsInv, ChannelInv
  <2>. QED  BY <2>1, <2>2, FinalMessage
<1>4. f \in Files /\ f \in Begun /\ f \notin Done
  BY <1>2, <1>3 DEF IInv, PlacementInv, Placed
<1>5. InWave(f) /\ ~Abandoned'
  BY <1>1, <1>4 DEF WaveInv, Abandoned
<1>6. allResults[f] = <<>> /\ allResults \in [Files -> Seq(Status)]
  BY <1>4, OneOutcome DEF IInv, TypeOK
<1>. HIDE DEF m, f
<1>7. allResults'[f] = <<m.status>> /\ \A g \in Files \ {f} : allResults'[g] = allResults[g]
  BY <1>1, <1>3, <1>4, <1>6
<1>8. /\ allResults'[f] # <<>> /\ allResults'[f][Len(allResults'[f])] = m.status
      /\ Len(allResults'[f]) = 1
  BY <1>7
<1>9. Outcome' = [Outcome EXCEPT ![f] = m.status]
  <2>1. Outcome' = [g \in Files |-> IF allResults'[g] = <<>> THEN "none"
                                    ELSE allResults'[g][Len(allResults'[g])]]
    BY <1>5 DEF Outcome
  <2>2. Outcome = [g \in Files |-> IF allResults[g] = <<>> THEN "none"
                                   ELSE allResults[g][Len(allResults[g])]]
    BY DEF Outcome
  <2>3. \A g \in Files : Outcome'[g] = IF g = f THEN m.status ELSE Outcome[g]
    BY <1>7, <1>8, <2>1, <2>2
  <2>. QED  BY <2>1, <2>2, <2>3
<1>10. PICK d \in Files, verdict \in {"passed", "failed"} : d = f /\ verdict = m.status
  BY <1>2, <1>4
<1>11. RunView!Decide(d, verdict)
  <2>1. Outcome[f] = "none" /\ wave \in Nat
    <3>1. wave \in Nat
      BY DEF IInv, TypeOK
    <3>. QED  BY <1>4, <3>1, OutcomeIs
  <2>2. At' = At /\ Lost' = Lost /\ Ending' = Ending /\ Ending = "running" /\ At = wave
    BY <1>1, <1>5 DEF At, Lost, Ending
  <2>3. At > 0 /\ f \in {g \in Files : ProjectOf[g] \in ProjectWaves[At]}
    BY <1>4, <1>5, <2>1, <2>2 DEF InWave
  <2>4. Outcome' = [Outcome EXCEPT ![d] = verdict] /\ Outcome[d] = "none"
    BY <1>9, <1>10, <2>1
  <2>5. At > 0 /\ d \in {h \in Files : ProjectOf[h] \in ProjectWaves[At]}
    BY <1>10, <2>3
  <2>. QED  BY <2>2, <2>4, <2>5
       DEF RunView!Decide, RunView!FilesOf, At, Outcome, Lost, Ending
<1>12. WaveInv'
  <2>1. \A g \in Files : InWave(g)' <=> InWave(g)
    BY <1>1 DEF InWave
  <2>2. Begun' = Begun /\ Done' = Done \cup {f} /\ failedProjects' = failedProjects
    BY <1>1, <1>4, <1>7, <1>8 DEF Begun, Done
  <2>3. ASSUME NEW g \in Files
        PROVE  /\ g \in Begun' => g \in Done' \/ InWave(g)'
               /\ allResults'[g] = <<"failed">> => ProjectOf[g] \in failedProjects' \/ InWave(g)'
    BY <1>5, <1>7, <2>1, <2>2 DEF WaveInv
  <2>. QED  BY <2>3 DEF WaveInv
<1>. QED  BY <1>11, <1>12

\* Between two waves every file begun is decided, and a file of the next wave is not.
LEMMA BetweenWaves ==
    ASSUME IInv, settled = "resolved", ~Abandoned
    PROVE  /\ Begun \subseteq Done
           /\ wave < WaveCount => \A f \in Files :
                 ProjectOf[f] \in ProjectWaves[wave + 1] => allResults[f] = <<>>
<1>1. fileQueue = <<>> /\ \A w \in Workers : currentFile[w] = NoFile
  BY DEF IInv, HandleInv, Abandoned
<1>2. Begun \subseteq Done
  <2>1. ASSUME NEW f \in Begun PROVE f \in Done
    <3>1. f \in Files
      BY DEF Begun
    <3>2. ~(\E i \in DOMAIN fileQueue : fileQueue[i] = f) /\ ~(\E w \in Workers : currentFile[w] = f)
      BY <1>1, <3>1, FilesAssumption
    <3>. QED  BY <3>1, <3>2 DEF IInv, PlacementInv, Placed
  <2>. QED  BY <2>1
<1>3. ASSUME wave < WaveCount, NEW f \in Files, ProjectOf[f] \in ProjectWaves[wave + 1]
      PROVE  allResults[f] = <<>>
  <2>1. wave + 1 \in 1..WaveCount /\ wave \in Nat
    BY <1>3, WavesAssumption, LenProperties DEF IInv, TypeOK, WaveCount
  <2>2. \A i \in 1..WaveCount : i <= wave => ProjectOf[f] \notin ProjectWaves[i]
    BY <1>3, <2>1, WavesAssumption
  <2>3. f \notin Begun
    BY <2>2 DEF Begun
  <2>4. f \notin Done
    BY <1>3, <2>3 DEF IInv, PlacementInv, Placed
  <2>. QED  BY <1>3, <2>4, OneOutcome
<1>. QED  BY <1>2, <1>3

\* The wave the caller sees is decided.
LEMMA Decided ==
    ASSUME IInv, ~Abandoned, Begun \subseteq Done
    PROVE  RunView!WaveDecided
<1>1. wave \in 0..WaveCount /\ WaveCount \in Nat
  BY WavesAssumption, LenProperties DEF IInv, TypeOK, WaveCount
<1>2. ASSUME wave > 0, NEW f \in Files, ProjectOf[f] \in ProjectWaves[wave]
      PROVE  Outcome[f] # "none"
  <2>1. f \in Begun
    BY <1>1, <1>2 DEF Begun
  <2>. QED  BY <1>2, <2>1, OutcomeIs
<1>. QED  BY <1>2 DEF RunView!WaveDecided, RunView!FilesOf, At, Outcome

\* The code adds the failed projects of the wave that ended, WaveRun those of
\* every failed file: the failures of older waves are in failedProjects.
LEMMA SameLosses ==
    ASSUME IInv, WaveInv, ~Abandoned
    PROVE  FailedAfterWave = Lost \cup {ProjectOf[f] : f \in {g \in Files : Outcome[g] = "failed"}}
<1>. DEFINE failed == {p \in ProjectWaves[wave] :
                         \E f \in Files : ProjectOf[f] = p /\ "failed" \in Range1(allResults[f])}
            losses == {ProjectOf[f] : f \in {g \in Files : Outcome[g] = "failed"}}
<1>1. \A f \in Files : Outcome[f] = "failed" <=> "failed" \in Range1(allResults[f])
  BY OutcomeIs
<1>2. \A f \in Files : Outcome[f] = "failed" => ProjectOf[f] \in failedProjects \/ InWave(f)
  BY OutcomeIs DEF WaveInv
<1>3. wave # 0 => failed \subseteq losses
  BY <1>1
<1>4. ASSUME NEW p \in losses
      PROVE  p \in failedProjects \/ (wave # 0 /\ p \in failed)
  <2>1. PICK f \in Files : Outcome[f] = "failed" /\ p = ProjectOf[f]
    BY <1>4
  <2>2. "failed" \in Range1(allResults[f])
    BY <1>1, <2>1
  <2>. QED  BY <1>2, <2>1, <2>2 DEF InWave
<1>5. FailedAfterWave = failedProjects \cup (IF wave = 0 THEN {} ELSE failed)
  BY DEF FailedAfterWave
<1>6. Lost = failedProjects
  BY DEF Lost
<1>. HIDE DEF failed, losses
<1>7. FailedAfterWave = Lost \cup losses
  BY <1>3, <1>4, <1>5, <1>6
<1>. QED  BY <1>7 DEF losses

LEMMA EnterWaveAdvances ==
    ASSUME IInv, WaveInv, EnterWave, ~Abandoned, ~Abandoned'
    PROVE  RunView!NextWave /\ WaveInv'
<1>. DEFINE next    == wave + 1
            blocked == Blocked(next, FailedAfterWave)
            skipped == {f \in Files : ProjectOf[f] \in blocked}
            known   == {ProjectOf[f] : f \in {g \in Files : Outcome[g] = "failed"}}
<1>1. /\ phase = "dispatching" /\ phase' = phase /\ settled = "resolved" /\ wave < WaveCount
      /\ wave' = next
      /\ failedProjects' = FailedAfterWave \cup blocked
      /\ allResults' = [f \in Files |->
            IF f \in skipped THEN Append(allResults[f], "skipped") ELSE allResults[f]]
  BY DEF EnterWave
<1>2. wave \in Nat /\ WaveCount \in Nat /\ next \in 1..WaveCount
  BY <1>1, WavesAssumption, LenProperties DEF IInv, TypeOK, WaveCount
<1>3. Begun \subseteq Done /\ \A f \in Files :
        ProjectOf[f] \in ProjectWaves[next] => allResults[f] = <<>>
  BY <1>1, BetweenWaves
<1>4. \A f \in skipped : f \in Files /\ ProjectOf[f] \in ProjectWaves[next]
  BY DEF Blocked
<1>5. FailedAfterWave = Lost \cup known
  BY SameLosses
<1>6. blocked = {p \in ProjectWaves[next] : Dependencies[p] \cap FailedAfterWave # {}}
  BY DEF Blocked
<1>7. \A f \in Files : f \in skipped <=> ProjectOf[f] \in blocked
  OBVIOUS
<1>. HIDE DEF next, blocked, skipped, known
<1>8. ASSUME NEW f \in Files
      PROVE  allResults'[f] = IF f \in skipped THEN <<"skipped">> ELSE allResults[f]
  <2>1. CASE f \in skipped
    <3>1. allResults'[f] = Append(<<>>, "skipped")
      BY <1>1, <1>3, <1>4, <2>1
    <3>. QED  BY <2>1, <3>1
  <2>2. CASE f \notin skipped
    BY <1>1, <2>2
  <2>. QED  BY <2>1, <2>2
<1>9. Outcome' = [f \in Files |-> IF ProjectOf[f] \in blocked THEN "skipped" ELSE Outcome[f]]
  <2>1. Outcome' = [f \in Files |-> IF allResults'[f] = <<>> THEN "none"
                                    ELSE allResults'[f][Len(allResults'[f])]]
    BY DEF Outcome
  <2>2. Outcome = [f \in Files |-> IF allResults[f] = <<>> THEN "none"
                                   ELSE allResults[f][Len(allResults[f])]]
    BY DEF Outcome
  <2>3. ASSUME NEW f \in Files
        PROVE  Outcome'[f] = IF ProjectOf[f] \in blocked THEN "skipped" ELSE Outcome[f]
    <3>1. CASE f \in skipped
      <4>1. allResults'[f] # <<>> /\ allResults'[f][Len(allResults'[f])] = "skipped"
        BY <1>8, <3>1, OutcomeOf
      <4>. QED  BY <1>7, <2>1, <3>1, <4>1
    <3>2. CASE f \notin skipped
      BY <1>7, <1>8, <2>1, <2>2, <3>2
    <3>. QED  BY <3>1, <3>2
  <2>. QED  BY <2>1, <2>3
<1>10. RunView!NextWave
  <2>1. Ending = "running" /\ Ending' = Ending /\ At = wave /\ At' = At + 1 /\ At < Len(ProjectWaves)
    BY <1>1, <1>2 DEF At, Ending, next, WaveCount
  <2>2. Lost' = (Lost \cup known) \cup blocked
    BY <1>1, <1>5 DEF Lost
  <2>3. blocked = {p \in ProjectWaves[At + 1] : Dependencies[p] \cap (Lost \cup known) # {}}
    BY <1>5, <1>6, <2>1 DEF next
  <2>4. RunView!WaveDecided
    BY <1>3, Decided
  <2>5. RunView!LostSoFar = Lost \cup known
    BY DEF RunView!LostSoFar, Lost, Outcome, known
  <2>. HIDE DEF known
  <2>. QED  BY <1>9, <2>1, <2>2, <2>3, <2>4, <2>5 DEF RunView!NextWave, At, Outcome, Lost, Ending
<1>11. WaveInv'
  <2>1. ASSUME NEW f \in Files, f \in Begun'
        PROVE  f \in Done' \/ InWave(f)'
    <3>1. PICK i \in 1..WaveCount : i <= next /\ ProjectOf[f] \in ProjectWaves[i]
      BY <1>1, <2>1 DEF Begun
    <3>2. CASE i = next
      BY <1>1, <1>2, <3>1, <3>2 DEF InWave
    <3>3. CASE i # next
      <4>1. f \in Done
        BY <1>2, <1>3, <3>1, <3>3 DEF Begun, next
      <4>2. f \notin skipped
        BY <1>3, <1>4, <4>1, OneOutcome
      <4>. QED  BY <1>8, <4>1, <4>2 DEF Done
    <3>. QED  BY <3>2, <3>3
  <2>2. ASSUME NEW f \in Files, allResults'[f] = <<"failed">>
        PROVE  ProjectOf[f] \in failedProjects'
    <3>1. <<"skipped">> # <<"failed">>
      OBVIOUS
    <3>2. allResults[f] = <<"failed">>
      BY <1>8, <2>2, <3>1
    <3>3. ProjectOf[f] \in known
      BY <3>2, OutcomeIs DEF known
    <3>. QED  BY <1>1, <1>5, <3>3
  <2>. QED  BY <2>1, <2>2 DEF WaveInv
<1>. QED  BY <1>10, <1>11

-----------------------------------------------------------------------------
LEMMA WaveInit == Init => RunView!RunInit /\ WaveInv
<1>. SUFFICES ASSUME Init PROVE RunView!RunInit /\ WaveInv
  OBVIOUS
<1>1. IInv /\ ~Abandoned
  BY InductiveInit DEF Init, Abandoned
<1>2. At = 0 /\ Lost = {} /\ Ending = "running"
  BY <1>1 DEF Init, At, Lost, Ending
<1>3. Outcome = [f \in Files |-> "none"]
  BY <1>1 DEF Init, Outcome
<1>4. WaveInv
  <2>1. \A f \in Files : allResults[f] = <<>>
    BY DEF Init
  <2>2. <<>> # <<"failed">>
    OBVIOUS
  <2>3. Begun = {}
    BY DEF Init, Begun
  <2>. QED  BY <2>1, <2>2, <2>3 DEF WaveInv
<1>. QED  BY <1>2, <1>3, <1>4 DEF RunView!RunInit, At, Lost, Ending, Outcome

\* What WaveInv speaks of.
LEMMA WaveKept ==
    ASSUME WaveInv, UNCHANGED <<wave, allResults, failedProjects>>, ~Abandoned' => ~Abandoned
    PROVE  WaveInv'
<1>1. \A f \in Files : InWave(f)' <=> InWave(f)
  BY DEF InWave
<1>2. Begun' = Begun /\ Done' = Done
  BY DEF Begun, Done
<1>. QED  BY <1>1, <1>2 DEF WaveInv

LEMMA FinallyCompletes ==
    ASSUME IInv, Finally, ~Abandoned
    PROVE  RunView!Complete
<1>1. /\ phase = "dispatching" /\ settled = "resolved" /\ wave = WaveCount /\ phase' = "closing"
      /\ UNCHANGED <<wave, settled, shuttingDown, failedProjects, allResults>>
  BY DEF Finally, Abandoned
<1>2. RunView!WaveDecided
  BY <1>1, BetweenWaves, Decided
<1>3. /\ Ending = "running" /\ Ending' = "completed" /\ At = Len(ProjectWaves)
      /\ At' = At /\ Outcome' = Outcome /\ Lost' = Lost
  BY <1>1 DEF Abandoned, Ending, At, Outcome, Lost, WaveCount
<1>. QED  BY <1>2, <1>3 DEF RunView!Complete, At, Outcome, Lost, Ending

\* A retired worker's file goes back to the queue, or the wave is rejected.
LEMMA RetireSeen ==
    ASSUME NEW w \in Workers, WaveInv, OnError(w) \/ OnExit(w) \/ OnChannelFailure(w)
    PROVE  WaveInv' /\ [RunView!RunNext]_(RunView!runVars)
<1>1. phase = "dispatching" /\ UNCHANGED <<phase, wave, shuttingDown, failedProjects, allResults>>
  BY DEF OnError, OnExit, OnChannelFailure, NextMessage, MainIdle
<1>2. settled = "pending" /\ settled' \in {settled, "resolved", "rejected"}
  BY DEF OnError, OnExit, OnChannelFailure, NextMessage, MainIdle, RetireWorker,
         RetireAndRequeue, MaybeResolve
<1>3. WaveInv'
  BY <1>1, <1>2, WaveKept DEF Abandoned
<1>4. CASE Abandoned
  <2>1. Abandoned'
    BY <1>1, <1>2, <1>4 DEF Abandoned
  <2>. QED  BY <1>3, <1>4, <2>1, NobodySees
<1>5. CASE ~Abandoned /\ Abandoned'
  BY <1>1, <1>3, <1>5, GivesUp DEF RunView!RunNext
<1>6. CASE ~Abandoned /\ ~Abandoned'
  BY <1>1, <1>3, <1>6, WaveGoesOn
<1>. QED  BY <1>4, <1>5, <1>6

LEMMA WaveStep == IInv /\ WaveInv /\ [Next]_vars => WaveInv' /\ [RunView!RunNext]_(RunView!runVars)
<1>. SUFFICES ASSUME IInv, WaveInv, [Next]_vars
              PROVE  WaveInv' /\ [RunView!RunNext]_(RunView!runVars)
  OBVIOUS
<1>1. ASSUME UNCHANGED <<settled, shuttingDown, wave, allResults, failedProjects, phase>>
      PROVE  WaveInv' /\ UNCHANGED RunView!runVars
  BY <1>1, SameView, WaveKept DEF Abandoned
<1>2. CASE UNCHANGED vars
  BY <1>1, <1>2 DEF vars, mainVars
<1>3. ASSUME NEW w \in Workers,
             \/ OnFileStart(w) \/ OnTestEnd(w) \/ OnTestWillRetry(w) \/ OnFileRetry(w) \/ DropMessage(w)
             \/ ShutdownTimeout(w) \/ WorkerStep(w) \/ TestWillRetry(w) \/ Crash(w)
      PROVE  WaveInv' /\ UNCHANGED RunView!runVars
  <2>1. UNCHANGED mainVars
    BY <1>3 DEF OnFileStart, OnTestEnd, OnTestWillRetry, OnFileRetry, DropMessage, ReportOnly,
                ShutdownTimeout, WorkerStep, Crash, RunFile, TestEnd, TestWillRetry, FileRetry,
                FileDone, FileError, KilledExit, Shutdown, Exit, WorkerOnly
  <2>. QED  BY <1>1, <2>1 DEF mainVars
<1>4. ASSUME NEW w \in Workers, OnFileDone(w)
      PROVE  WaveInv' /\ [RunView!RunNext]_(RunView!runVars)
  <2>1. CASE Abandoned
    <3>1. Abandoned'
      BY <1>4, <2>1 DEF OnFileDone, NextMessage, MainIdle, Abandoned
    <3>2. WaveInv'
      BY <3>1 DEF WaveInv
    <3>. QED  BY <2>1, <3>1, <3>2, NobodySees
  <2>2. CASE ~Abandoned
    BY <1>4, <2>2, FileDoneDecides DEF RunView!RunNext
  <2>. QED  BY <2>1, <2>2
<1>5. CASE EnterWave
  <2>1. UNCHANGED <<phase, shuttingDown>> /\ phase = "dispatching" /\ settled = "resolved"
    BY <1>5 DEF EnterWave
  <2>2. CASE Abandoned
    <3>1. Abandoned'
      BY <2>1, <2>2 DEF Abandoned
    <3>. QED  BY <2>2, <3>1, NobodySees DEF WaveInv
  <2>3. CASE ~Abandoned /\ Abandoned'
    BY <2>1, <2>3, GivesUp DEF RunView!RunNext, WaveInv
  <2>4. CASE ~Abandoned /\ ~Abandoned'
    BY <1>5, <2>4, EnterWaveAdvances DEF RunView!RunNext
  <2>. QED  BY <2>2, <2>3, <2>4
<1>6. CASE Finally
  <2>1. UNCHANGED <<wave, settled, shuttingDown, failedProjects, allResults>>
    BY <1>6 DEF Finally
  <2>2. WaveInv' /\ (Abandoned => Abandoned')
    BY <2>1, WaveKept DEF Abandoned
  <2>3. CASE Abandoned
    BY <2>2, <2>3, NobodySees
  <2>4. CASE ~Abandoned
    BY <1>6, <2>2, <2>4, FinallyCompletes DEF RunView!RunNext
  <2>. QED  BY <2>3, <2>4
<1>7. CASE Return
  <2>1. /\ phase = "closing" /\ phase' = "returned"
        /\ UNCHANGED <<wave, settled, shuttingDown, failedProjects, allResults>>
    BY <1>7 DEF Return
  <2>2. WaveInv' /\ (Abandoned <=> Abandoned')
    BY <2>1, WaveKept DEF Abandoned
  <2>3. UNCHANGED RunView!runVars
    BY <2>1, <2>2, NobodySees, WaveGoesOn
  <2>. QED  BY <2>2, <2>3
<1>8. CASE ExitProcess
  <2>1. shuttingDown /\ shuttingDown' = shuttingDown
    BY <1>8 DEF ExitProcess
  <2>2. Abandoned /\ Abandoned'
    BY <2>1 DEF Abandoned
  <2>. QED  BY <2>2, NobodySees DEF WaveInv
<1>9. CASE Interrupt
  <2>1. /\ phase = "dispatching" /\ settled = "pending" /\ ~shuttingDown /\ shuttingDown'
    BY <1>9 DEF Interrupt, MainIdle
  <2>2. ~Abandoned /\ Abandoned'
    BY <2>1 DEF Abandoned
  <2>. QED  BY <2>1, <2>2, GivesUp DEF RunView!RunNext, WaveInv
<1>. QED
  BY <1>2, <1>3, <1>4, <1>5, <1>6, <1>7, <1>8, <1>9, RetireSeen DEF Next, MainEvent, Terminated

\* runParallel is a run without workers: its waves come one after the other, a
\* file is decided once and in its wave, the dependents of lost projects are
\* skipped, and the run completes only when everything is decided.
THEOREM WaveRunImplemented == Spec => ImplementsWaveRun
<1>. QED  BY Inductive, WaveInit, WaveStep, PTL DEF Spec, ImplementsWaveRun, RunView!RunSpec

-----------------------------------------------------------------------------
(***************************************************************************)
(* Why the reporter's totals agree with the run, for any number of         *)
(* workers, files, waves, tests per file and retries.                      *)
(*                                                                         *)
(* What a worker has reported of its file is spread over three places: the *)
(* count the main process keeps, the messages still in the channel and the *)
(* worker's own progress.  The strengthening relates the three: replaying  *)
(* the channel on the count gives the worker's progress.                   *)
(***************************************************************************)


\* The count after a message of that type.
Counted(n, type) ==
    IF type = "test-end" THEN n + 1
    ELSE IF type \in {"file-start", "file-retry"} THEN 0
    ELSE n

\* c is the count before the first message and after each one: it is 0 when a
\* file starts and what the file has when it is done.
Replays(c, count, sent) ==
    /\ c \in [0..Len(sent) -> Nat]
    /\ c[0] = count
    /\ \A i \in 1..Len(sent) :
          /\ c[i] = Counted(c[i - 1], sent[i].type)
          /\ sent[i].type = "file-start" => c[i - 1] = 0
          /\ sent[i].type = "file-done" => c[i - 1] = NumTests[sent[i].file]

\* The count, the messages under way and the worker's progress tell one story.
Tally(count, sent, r, orders) ==
    /\ \E c : Replays(c, count, sent) /\ (r # Idle => c[Len(sent)] = r.ended)
    /\ orders # <<>> => count = 0

TalliesInv ==
    \A w \in Workers : ~retired[w] =>
        Tally(workerTestCounts[w], toMain[w], run[w], toWorker[w])

\* The reporter shows of a file what its worker was counted for, its results
\* when it has an outcome, and nothing when nobody has it.
Books(cf, counts, rep, results) ==
    /\ \A w \in Workers : IF cf[w] = NoFile THEN counts[w] = 0 ELSE rep[cf[w]] = counts[w]
    /\ \A f \in Files :
          IF results[f] = <<>> THEN (\A w \in Workers : cf[w] # f) => rep[f] = 0
          ELSE rep[f] = IF results[f] = <<"skipped">> THEN 1 ELSE NumTests[f]

\* An interrupt stops the bookkeeping: what is shown after it is not a total.
LedgerInv ==
    ~shuttingDown => TalliesInv /\ Books(currentFile, workerTestCounts, reported, allResults)

-----------------------------------------------------------------------------
(* Replaying a channel.                                                    *)

\* Nothing under way: an idle worker that was counted for nothing.
LEMMA EmptyTally ==
    ASSUME NEW orders
    PROVE  Tally(0, <<>>, Idle, orders)
<1>. DEFINE c == [i \in 0..0 |-> 0]
<1>1. Replays(c, 0, <<>>)
  BY DEF Replays
<1>. QED  BY <1>1 DEF Tally

\* The main process takes the oldest message.
LEMMA TallyTaken ==
    ASSUME NEW count \in Nat, NEW sent \in Seq(Message), sent # <<>>, NEW r, NEW orders,
           Tally(count, sent, r, orders), orders = <<>>
    PROVE  /\ Tally(Counted(count, Head(sent).type), Tail(sent), r, orders)
           /\ Head(sent).type = "file-start" => count = 0
           /\ Head(sent).type = "file-done" => count = NumTests[Head(sent).file]
<1>1. /\ Len(sent) \in Nat \ {0} /\ Head(sent) = sent[1]
      /\ Len(Tail(sent)) = Len(sent) - 1
      /\ \A i \in 1..Len(Tail(sent)) : Tail(sent)[i] = sent[i + 1]
  BY HeadTailProperties, LenProperties, EmptySeq
<1>2. PICK c : Replays(c, count, sent) /\ (r # Idle => c[Len(sent)] = r.ended)
  BY DEF Tally
<1>3. /\ c \in [0..Len(sent) -> Nat] /\ c[0] = count
      /\ \A i \in 1..Len(sent) :
            /\ c[i] = Counted(c[i - 1], sent[i].type)
            /\ sent[i].type = "file-start" => c[i - 1] = 0
            /\ sent[i].type = "file-done" => c[i - 1] = NumTests[sent[i].file]
  BY <1>2 DEF Replays
<1>4. /\ c[1] = Counted(count, Head(sent).type)
      /\ Head(sent).type = "file-start" => count = 0
      /\ Head(sent).type = "file-done" => count = NumTests[Head(sent).file]
  BY <1>1, <1>3
<1>. DEFINE n == Len(Tail(sent))
            d == [i \in 0..n |-> c[i + 1]]
<1>5. d \in [0..n -> Nat] /\ d[0] = c[1] /\ d[n] = c[Len(sent)]
  BY <1>1, <1>3
<1>6. ASSUME NEW i \in 1..n
      PROVE  /\ d[i] = Counted(d[i - 1], Tail(sent)[i].type)
             /\ Tail(sent)[i].type = "file-start" => d[i - 1] = 0
             /\ Tail(sent)[i].type = "file-done" => d[i - 1] = NumTests[Tail(sent)[i].file]
  <2>1. /\ i + 1 \in 1..Len(sent) /\ Tail(sent)[i] = sent[i + 1]
        /\ d[i] = c[i + 1] /\ d[i - 1] = c[i] /\ (i + 1) - 1 = i
    BY <1>1, <1>6
  <2>. HIDE DEF d
  <2>. QED  BY <1>3, <2>1
<1>. HIDE DEF d
<1>7. Replays(d, c[1], Tail(sent))
  BY <1>5, <1>6 DEF Replays
<1>. QED  BY <1>2, <1>4, <1>5, <1>7 DEF Tally

\* The worker sends a message of its file.
LEMMA TallySent ==
    ASSUME NEW count \in Nat, NEW sent \in Seq(Message), NEW m \in Message, NEW r, NEW r2,
           NEW orders, r.ended \in Nat, r # Idle, Tally(count, sent, r, orders), orders = <<>>,
           m.type # "file-start",
           m.type = "file-done" => r.ended = NumTests[m.file],
           r2 # Idle => r2.ended = Counted(r.ended, m.type)
    PROVE  Tally(count, Append(sent, m), r2, orders)
<1>1. /\ Len(sent) \in Nat /\ Len(Append(sent, m)) = Len(sent) + 1
      /\ \A i \in 1..Len(sent) : Append(sent, m)[i] = sent[i]
      /\ Append(sent, m)[Len(sent) + 1] = m
  BY AppendProperties, LenProperties
<1>2. PICK c : Replays(c, count, sent) /\ (r # Idle => c[Len(sent)] = r.ended)
  BY DEF Tally
<1>3. /\ c \in [0..Len(sent) -> Nat] /\ c[0] = count /\ c[Len(sent)] = r.ended
      /\ \A i \in 1..Len(sent) :
            /\ c[i] = Counted(c[i - 1], sent[i].type)
            /\ sent[i].type = "file-start" => c[i - 1] = 0
            /\ sent[i].type = "file-done" => c[i - 1] = NumTests[sent[i].file]
  BY <1>2 DEF Replays
<1>. DEFINE n == Len(sent)
            last == Counted(r.ended, m.type)
            d == [i \in 0..(n + 1) |-> IF i = n + 1 THEN last ELSE c[i]]
<1>4. last \in Nat
  BY DEF Counted
<1>. HIDE DEF last
<1>5. d \in [0..(n + 1) -> Nat] /\ d[0] = count /\ d[n] = r.ended /\ d[n + 1] = last
      /\ \A i \in 0..n : d[i] = c[i]
  BY <1>1, <1>3, <1>4
<1>. HIDE DEF d
<1>6. ASSUME NEW i \in 1..(n + 1)
      PROVE  /\ d[i] = Counted(d[i - 1], Append(sent, m)[i].type)
             /\ Append(sent, m)[i].type = "file-start" => d[i - 1] = 0
             /\ Append(sent, m)[i].type = "file-done" => d[i - 1] = NumTests[Append(sent, m)[i].file]
  <2>1. CASE i = n + 1
    <3>1. i - 1 = n /\ Append(sent, m)[i] = m /\ d[i] = last
      BY <1>1, <1>5, <2>1
    <3>. QED  BY <1>5, <3>1 DEF last
  <2>2. CASE i # n + 1
    <3>1. i \in 1..n /\ i - 1 \in 0..n /\ i \in 0..n /\ Append(sent, m)[i] = sent[i]
      BY <1>1, <2>2
    <3>. QED  BY <1>3, <1>5, <3>1
  <2>. QED  BY <2>1, <2>2
<1>7. Replays(d, count, Append(sent, m))
  BY <1>1, <1>5, <1>6 DEF Replays
<1>. QED  BY <1>1, <1>5, <1>7 DEF Tally, last

\* The process ends; the channel keeps a prefix of what it sent.
LEMMA TallyCut ==
    ASSUME NEW count \in Nat, NEW sent \in Seq(Message), NEW r, NEW orders,
           Tally(count, sent, r, orders), NEW k \in 0..Len(sent)
    PROVE  Tally(count, SubSeq(sent, 1, k), Idle, orders)
<1>1. /\ Len(sent) \in Nat /\ Len(SubSeq(sent, 1, k)) = k /\ k <= Len(sent)
      /\ \A i \in 1..k : SubSeq(sent, 1, k)[i] = sent[i]
  BY PrefixTyped, LenProperties
<1>2. PICK c : Replays(c, count, sent)
  BY DEF Tally
<1>. DEFINE d == [i \in 0..k |-> c[i]]
<1>3. d \in [0..k -> Nat] /\ \A i \in 0..k : d[i] = c[i]
  BY <1>1, <1>2 DEF Replays
<1>. HIDE DEF d
<1>4. ASSUME NEW i \in 1..k
      PROVE  /\ d[i] = Counted(d[i - 1], sent[i].type)
             /\ sent[i].type = "file-start" => d[i - 1] = 0
             /\ sent[i].type = "file-done" => d[i - 1] = NumTests[sent[i].file]
  <2>1. i \in 1..Len(sent) /\ i \in 0..k /\ i - 1 \in 0..k
    BY <1>1
  <2>. QED  BY <1>2, <1>3, <2>1 DEF Replays
<1>5. d[0] = count
  BY <1>1, <1>2, <1>3 DEF Replays
<1>6. Replays(d, count, SubSeq(sent, 1, k))
  BY <1>1, <1>3, <1>4, <1>5 DEF Replays
<1>. QED  BY <1>6 DEF Tally

\* The worker starts a file: the channel was empty and the count 0.
LEMMA TallyStarted ==
    ASSUME NEW m \in Message, m.type = "file-start", NEW r, r.ended = 0, NEW orders
    PROVE  Tally(0, Append(<<>>, m), r, orders)
<1>. DEFINE c == [i \in 0..1 |-> 0]
            sent == Append(<<>>, m)
<1>1. Len(sent) = 1 /\ sent[1] = m
  OBVIOUS
<1>. HIDE DEF sent
<1>2. Replays(c, 0, sent)
  BY <1>1 DEF Replays, Counted
<1>3. c[Len(sent)] = 0
  BY <1>1
<1>. HIDE DEF c
<1>4. Tally(0, sent, r, orders)
  BY <1>2, <1>3 DEF Tally
<1>. QED  BY <1>4 DEF sent

-----------------------------------------------------------------------------
(* The reporter's books.                                                   *)

\* The count of one worker and what is shown of its file move together.
LEMMA BooksMoved ==
    ASSUME NEW w \in Workers, NEW cf \in [Workers -> Files \cup {NoFile}], cf[w] # NoFile,
           \A u, v \in Workers : cf[u] = cf[v] /\ cf[u] # NoFile => u = v,
           NEW counts, NEW rep, NEW counts2, NEW rep2, NEW results,
           Books(cf, counts, rep, results), results[cf[w]] = <<>>,
           rep2[cf[w]] = counts2[w],
           \A v \in Workers \ {w} : counts2[v] = counts[v],
           \A f \in Files \ {cf[w]} : rep2[f] = rep[f]
    PROVE  Books(cf, counts2, rep2, results)
<1>1. \A v \in Workers \ {w} : cf[v] # NoFile => cf[v] \in Files \ {cf[w]}
  OBVIOUS
<1>2. \A v \in Workers : IF cf[v] = NoFile THEN counts2[v] = 0 ELSE rep2[cf[v]] = counts2[v]
  BY <1>1 DEF Books
<1>3. ASSUME NEW f \in Files
      PROVE  IF results[f] = <<>> THEN (\A v \in Workers : cf[v] # f) => rep2[f] = 0
             ELSE rep2[f] = IF results[f] = <<"skipped">> THEN 1 ELSE NumTests[f]
  <2>1. CASE f = cf[w]
    BY <2>1
  <2>2. CASE f # cf[w]
    <3>1. rep2[f] = rep[f]
      BY <2>2
    <3>. QED  BY <3>1 DEF Books
  <2>. QED  BY <2>1, <2>2
<1>. QED  BY <1>2, <1>3 DEF Books

\* A worker gives its file up, or reports it done.
LEMMA BooksClosed ==
    ASSUME NEW w \in Workers, NEW cf \in [Workers -> Files \cup {NoFile}], cf[w] # NoFile,
           \A u, v \in Workers : cf[u] = cf[v] /\ cf[u] # NoFile => u = v,
           NEW counts, NEW rep, NEW counts2, NEW rep2, NEW results, NEW results2,
           Books(cf, counts, rep, results), counts2[w] = 0,
           \A v \in Workers \ {w} : counts2[v] = counts[v],
           \A f \in Files \ {cf[w]} : rep2[f] = rep[f] /\ results2[f] = results[f],
           \/ results2[cf[w]] = <<>> /\ rep2[cf[w]] = 0
           \/ \E s \in {"passed", "failed"} :
                 results2[cf[w]] = <<s>> /\ rep2[cf[w]] = NumTests[cf[w]]
    PROVE  Books([cf EXCEPT ![w] = NoFile], counts2, rep2, results2)
<1>. DEFINE g == cf[w]
            d == [cf EXCEPT ![w] = NoFile]
<1>1. d[w] = NoFile /\ \A v \in Workers \ {w} : d[v] = cf[v] /\ (cf[v] # NoFile => cf[v] \in Files \ {g})
  OBVIOUS
<1>. HIDE DEF d
<1>2. \A v \in Workers : IF d[v] = NoFile THEN counts2[v] = 0 ELSE rep2[d[v]] = counts2[v]
  BY <1>1 DEF Books
<1>3. ASSUME NEW f \in Files
      PROVE  IF results2[f] = <<>> THEN (\A v \in Workers : d[v] # f) => rep2[f] = 0
             ELSE rep2[f] = IF results2[f] = <<"skipped">> THEN 1 ELSE NumTests[f]
  <2>1. CASE f = g
    <3>1. CASE results2[f] = <<>> /\ rep2[f] = 0
      BY <3>1
    <3>2. ASSUME NEW s \in {"passed", "failed"}, results2[f] = <<s>>, rep2[f] = NumTests[f]
          PROVE  /\ results2[f] # <<>> /\ results2[f] # <<"skipped">>
                 /\ rep2[f] = NumTests[f]
      BY <3>2
    <3>. QED  BY <2>1, <3>1, <3>2
  <2>2. CASE f # g
    <3>1. rep2[f] = rep[f] /\ results2[f] = results[f]
      BY <2>2
    <3>2. (\A v \in Workers : d[v] # f) => \A v \in Workers : cf[v] # f
      BY <1>1, <2>2
    <3>. QED  BY <3>1, <3>2 DEF Books
  <2>. QED  BY <2>1, <2>2
<1>4. Books(d, counts2, rep2, results2)
  BY <1>2, <1>3 DEF Books
<1>. QED  BY <1>4 DEF d

\* An idle worker is given a file nobody has reported on.
LEMMA BooksDispatched ==
    ASSUME NEW w \in Workers, NEW q \in Seq(Files), NEW b,
           NEW cf \in [Workers -> Files \cup {NoFile}], cf[w] = NoFile,
           NEW counts, NEW rep, NEW results, Books(cf, counts, rep, results),
           \A i \in DOMAIN q : results[q[i]] = <<>> /\ \A v \in Workers : cf[v] # q[i],
           DispatchNext(w, q, b, cf)
    PROVE  Books(currentFile', counts, rep, results)
<1>1. CASE q = <<>>
  <2>1. currentFile' = cf
    BY <1>1 DEF DispatchNext
  <2>. QED  BY <2>1
<1>2. CASE q # <<>>
  <2>. DEFINE g == Head(q)
  <2>1. g \in Files /\ results[g] = <<>> /\ \A v \in Workers : cf[v] # g
    <3>1. g = q[1] /\ 1 \in DOMAIN q
      BY <1>2, HeadTailProperties, LenProperties, EmptySeq
    <3>. QED  BY <3>1, ElementOfSeq, LenProperties
  <2>2. currentFile' = [cf EXCEPT ![w] = g]
    BY <1>2 DEF DispatchNext
  <2>3. rep[g] = 0 /\ counts[w] = 0
    BY <2>1 DEF Books
  <2>4. currentFile'[w] = g /\ \A v \in Workers \ {w} : currentFile'[v] = cf[v]
    BY <2>2
  <2>5. \A v \in Workers : IF currentFile'[v] = NoFile THEN counts[v] = 0
                           ELSE rep[currentFile'[v]] = counts[v]
    BY <2>3, <2>4 DEF Books
  <2>6. \A f \in Files : (\A v \in Workers : currentFile'[v] # f) => \A v \in Workers : cf[v] # f
    BY <2>4, FilesAssumption
  <2>. QED  BY <2>5, <2>6 DEF Books
<1>. QED  BY <1>1, <1>2

-----------------------------------------------------------------------------
(* What IInv says where the books need it.                                 *)

\* A file that is queued or assigned has no outcome.
LEMMA Undecided ==
    ASSUME IInv, NEW f \in Files
    PROVE  /\ (\E i \in DOMAIN fileQueue : fileQueue[i] = f) \/ (\E w \in Workers : currentFile[w] = f)
                 => allResults[f] = <<>>
           /\ allResults[f] # <<>> => f \in Done
<1>1. allResults[f] \in Seq(Status) /\ Len(allResults[f]) \in {0, 1}
  BY DEF IInv, TypeOK, PlacementInv
<1>2. Len(allResults[f]) = 0 => allResults[f] = <<>>
  BY <1>1, EmptySeq
<1>. QED  BY <1>1, <1>2 DEF IInv, PlacementInv, Placed, Done

\* No two workers have one file.
LEMMA OneWorkerEach ==
    ASSUME IInv
    PROVE  /\ currentFile \in [Workers -> Files \cup {NoFile}]
           /\ \A u, v \in Workers : currentFile[u] = currentFile[v] /\ currentFile[u] # NoFile => u = v
BY DEF IInv, TypeOK, PlacementInv, Placed

\* A message under way is about the file its worker has.
LEMMA InFlight ==
    ASSUME NEW w \in Workers, IInv, ~retired[w], toMain[w] # <<>>
    PROVE  /\ Head(toMain[w]).file = currentFile[w] /\ currentFile[w] \in Files
           /\ currentFile[w] # NoFile /\ toWorker[w] = <<>>
           /\ allResults[currentFile[w]] = <<>>
<1>1. Head(toMain[w]).file \in Files
  BY MessageTyped DEF IInv
<1>2. Head(toMain[w]) = toMain[w][1] /\ 1 \in DOMAIN toMain[w]
  BY HeadTailProperties, LenProperties, EmptySeq DEF IInv, TypeOK
<1>3. Conversation(currentFile[w], run[w], toMain[w], toWorker[w])
  BY DEF IInv, ChannelsInv, ChannelInv
<1>4. Head(toMain[w]).file = currentFile[w] /\ toWorker[w] = <<>>
  BY <1>2, <1>3 DEF Conversation
<1>. QED  BY <1>1, <1>4, FilesAssumption, Undecided

LEMMA NoElements ==
    ASSUME NEW S, NEW s \in Seq(S), DOMAIN s = {}
    PROVE  s = <<>>
BY LenProperties, EmptySeq

\* A worker without a file has nothing under way and is counted for nothing.
LEMMA IdleWorker ==
    ASSUME NEW w \in Workers, IInv, ~retired[w], currentFile[w] = NoFile
    PROVE  toMain[w] = <<>> /\ run[w] = Idle
<1>1. Conversation(NoFile, run[w], toMain[w], toWorker[w])
  BY DEF IInv, ChannelsInv, ChannelInv
<1>2. /\ toMain[w] \in Seq(Message) /\ toWorker[w] \in Seq(Order)
      /\ run[w] # Idle => run[w].file \in Files
  BY DEF IInv, TypeOK, RunInv
<1>3. run[w] = Idle
  BY <1>1, <1>2, FilesAssumption DEF Conversation
<1>4. \A i \in DOMAIN toMain[w] : toMain[w][i].file \in Files
  BY <1>2, ElementOfSeq, LenProperties DEF Message
<1>5. DOMAIN toMain[w] = {}
  BY <1>1, <1>4, FilesAssumption DEF Conversation
<1>6. toMain[w] = <<>>
  BY <1>2, <1>5, NoElements
<1>. QED  BY <1>3, <1>6

-----------------------------------------------------------------------------
(* Each action keeps the ledger.                                           *)

\* Only worker w's story changed.
LEMMA OneTally ==
    ASSUME NEW w \in Workers, TalliesInv, UNCHANGED retired,
           \A v \in Workers \ {w} : /\ run'[v] = run[v] /\ toMain'[v] = toMain[v]
                                    /\ toWorker'[v] = toWorker[v]
                                    /\ workerTestCounts'[v] = workerTestCounts[v],
           ~retired[w] => Tally(workerTestCounts'[w], toMain'[w], run'[w], toWorker'[w])
    PROVE  TalliesInv'
BY DEF TalliesInv

LEMMA RunFileTally ==
    ASSUME NEW w \in Workers, IInv, TalliesInv, RunFile(w)
    PROVE  TalliesInv'
<1>. DEFINE f == Head(toWorker[w]).file
            r == [file |-> f, attempt |-> 1, ended |-> 0, retries |-> 0]
            m == [type |-> "file-start", file |-> f]
<1>1. f \in Files
  BY HeadTailProperties DEF IInv, TypeOK, RunFile, Order
<1>2. m \in Message /\ m.type = "file-start" /\ r.ended = 0
  BY <1>1 DEF Message
<1>3. /\ run'[w] = r /\ toMain'[w] = Append(toMain[w], m) /\ toWorker'[w] = Tail(toWorker[w])
      /\ \A v \in Workers \ {w} : /\ run'[v] = run[v] /\ toMain'[v] = toMain[v]
                                  /\ toWorker'[v] = toWorker[v]
      /\ UNCHANGED <<workerTestCounts, retired>> /\ toWorker[w] # <<>>
  BY DEF RunFile, Send, WorkerOnly, handleVars, reportVars, IInv, TypeOK
<1>. HIDE DEF r, m
<1>4. ASSUME ~retired[w]
      PROVE  Tally(workerTestCounts'[w], toMain'[w], run'[w], toWorker'[w])
  <2>1. toMain[w] = <<>>
    BY <1>3, <1>4 DEF IInv, ChannelsInv, ChannelInv, Conversation
  <2>2. workerTestCounts[w] = 0
    BY <1>3, <1>4 DEF TalliesInv, Tally
  <2>3. Tally(0, Append(<<>>, m), r, Tail(toWorker[w]))
    BY <1>2, TallyStarted
  <2>. QED  BY <1>3, <2>1, <2>2, <2>3
<1>. QED  BY <1>3, <1>4, OneTally

LEMMA RunningTally ==
    ASSUME NEW w \in Workers, IInv, TalliesInv,
           TestEnd(w) \/ TestWillRetry(w) \/ FileRetry(w) \/ FileDone(w) \/ FileError(w)
    PROVE  TalliesInv'
<1>1. run[w].file \in Files /\ run[w] # Idle /\ run[w].ended \in Nat
      /\ run[w] \in [file : Files \cup {NoFile}, attempt : 0..2, ended : Nat, retries : Nat]
      /\ run \in [Workers -> [file : Files \cup {NoFile}, attempt : 0..2, ended : Nat, retries : Nat]]
  BY DEF IInv, TypeOK, RunInv, TestEnd, TestWillRetry, FileRetry, FileDone, FileError, Running
<1>2. \E m \in Message :
        /\ toMain' = [toMain EXCEPT ![w] = Append(toMain[w], m)]
        /\ m.type # "file-start"
        /\ m.type = "file-done" => run[w].ended = NumTests[m.file]
        /\ run'[w] # Idle => run'[w].ended = Counted(run[w].ended, m.type)
  <2>1. \A type \in {"test-end", "test-will-retry", "file-retry", "error"} :
           [type |-> type, file |-> run[w].file] \in Message
    BY <1>1 DEF Message
  <2>2. \A status \in {"passed", "failed"} :
           [type |-> "file-done", file |-> run[w].file, status |-> status] \in Message
    BY <1>1 DEF Message
  <2>3. CASE TestEnd(w)
    <3>. DEFINE m == [type |-> "test-end", file |-> run[w].file]
    <3>1. toMain' = [toMain EXCEPT ![w] = Append(toMain[w], m)] /\ run'[w].ended = run[w].ended + 1
      BY <1>1, <2>3 DEF TestEnd, Send
    <3>2. m \in Message
      BY <2>1
    <3>3. m.type = "test-end" /\ Counted(run[w].ended, m.type) = run[w].ended + 1
      BY DEF Counted
    <3>. QED  BY <3>1, <3>2, <3>3
  <2>4. CASE TestWillRetry(w)
    <3>. DEFINE m == [type |-> "test-will-retry", file |-> run[w].file]
    <3>1. toMain' = [toMain EXCEPT ![w] = Append(toMain[w], m)] /\ run'[w].ended = run[w].ended
      BY <1>1, <2>4 DEF TestWillRetry, Send
    <3>2. m \in Message
      BY <2>1
    <3>3. m.type = "test-will-retry" /\ Counted(run[w].ended, m.type) = run[w].ended
      BY DEF Counted
    <3>. QED  BY <3>1, <3>2, <3>3
  <2>5. CASE FileRetry(w)
    <3>. DEFINE m == [type |-> "file-retry", file |-> run[w].file]
    <3>1. toMain' = [toMain EXCEPT ![w] = Append(toMain[w], m)] /\ run'[w].ended = 0
      BY <1>1, <2>5 DEF FileRetry, Send
    <3>2. m \in Message
      BY <2>1
    <3>3. m.type = "file-retry" /\ Counted(run[w].ended, m.type) = 0
      BY DEF Counted
    <3>. QED  BY <3>1, <3>2, <3>3
  <2>6. CASE FileDone(w)
    <3>1. PICK status \in {"passed", "failed"} :
             toMain' = [toMain EXCEPT ![w] =
                 Append(toMain[w], [type |-> "file-done", file |-> run[w].file, status |-> status])]
      BY <2>6 DEF FileDone, Send
    <3>2. run'[w] = Idle /\ run[w].ended = NumTests[run[w].file]
      BY <1>1, <2>6 DEF FileDone
    <3>. QED  BY <2>2, <3>1, <3>2
  <2>7. CASE FileError(w)
    <3>. DEFINE m == [type |-> "error", file |-> run[w].file]
    <3>1. toMain' = [toMain EXCEPT ![w] = Append(toMain[w], m)] /\ run'[w] = Idle
      BY <1>1, <2>7 DEF FileError, Send
    <3>2. m \in Message /\ m.type = "error"
      BY <2>1
    <3>. QED  BY <3>1, <3>2
  <2>. QED  BY <2>3, <2>4, <2>5, <2>6, <2>7
<1>3. PICK m \in Message :
        /\ toMain' = [toMain EXCEPT ![w] = Append(toMain[w], m)]
        /\ m.type # "file-start"
        /\ m.type = "file-done" => run[w].ended = NumTests[m.file]
        /\ run'[w] # Idle => run'[w].ended = Counted(run[w].ended, m.type)
  BY <1>2
<1>4. /\ \A v \in Workers \ {w} : run'[v] = run[v]
      /\ UNCHANGED <<retired, workerTestCounts, toWorker>>
  <2>1. CASE TestEnd(w) \/ FileRetry(w) \/ FileDone(w) \/ FileError(w)
    BY <1>1, <2>1 DEF TestEnd, FileRetry, FileDone, FileError, WorkerOnly, handleVars, reportVars
  <2>2. CASE TestWillRetry(w)
    BY <1>1, <2>2 DEF TestWillRetry, WorkerOnly, handleVars, reportVars
  <2>. QED  BY <2>1, <2>2
<1>5. toMain[w] \in Seq(Message) /\ toMain'[w] = Append(toMain[w], m)
      /\ workerTestCounts[w] \in Nat
      /\ \A v \in Workers \ {w} : toMain'[v] = toMain[v]
  BY <1>3 DEF IInv, TypeOK
<1>6. ~retired[w] => toWorker[w] = <<>>
  BY <1>1 DEF IInv, ChannelsInv, ChannelInv, Conversation
<1>7. ~retired[w] => Tally(workerTestCounts[w], toMain[w], run[w], toWorker[w])
  BY DEF TalliesInv
<1>8. ~retired[w] => Tally(workerTestCounts[w], Append(toMain[w], m), run'[w], toWorker[w])
  BY <1>1, <1>3, <1>5, <1>6, <1>7, TallySent
<1>. QED  BY <1>4, <1>5, <1>8, OneTally

LEMMA ExitTally ==
    ASSUME NEW w \in Workers, IInv, TalliesInv, Exit(w)
    PROVE  TalliesInv'
<1>1. PICK k \in 0..Len(toMain[w]) : toMain' = [toMain EXCEPT ![w] = SubSeq(toMain[w], 1, k)]
  BY DEF Exit
<1>2. /\ run'[w] = Idle /\ toMain'[w] = SubSeq(toMain[w], 1, k) /\ toMain[w] \in Seq(Message)
      /\ workerTestCounts[w] \in Nat
      /\ \A v \in Workers \ {w} : run'[v] = run[v] /\ toMain'[v] = toMain[v]
      /\ UNCHANGED <<retired, workerTestCounts, toWorker>>
  BY <1>1 DEF Exit, WorkerOnly, handleVars, reportVars, IInv, TypeOK
<1>3. ~retired[w] => Tally(workerTestCounts[w], SubSeq(toMain[w], 1, k), Idle, toWorker[w])
  BY <1>2, TallyCut DEF TalliesInv
<1>. QED  BY <1>2, <1>3, OneTally

\* A message for the reporter only.
LEMMA ReportLedger ==
    ASSUME NEW w \in Workers, IInv, TalliesInv,
           Books(currentFile, workerTestCounts, reported, allResults),
           OnFileStart(w) \/ OnTestEnd(w) \/ OnTestWillRetry(w) \/ OnFileRetry(w)
    PROVE  TalliesInv' /\ Books(currentFile', workerTestCounts', reported', allResults')
<1>. DEFINE m == Head(toMain[w])
            f == currentFile[w]
<1>1. /\ toMain[w] # <<>> /\ ~retired[w] /\ m.type \notin {"file-done", "error"}
      /\ toMain' = [toMain EXCEPT ![w] = Tail(toMain[w])]
      /\ UNCHANGED <<currentFile, retired, allResults, toWorker, run>>
  BY DEF OnFileStart, OnTestEnd, OnTestWillRetry, OnFileRetry, NextMessage, ReportOnly, mainVars, handleVars
<1>2. m.file = f /\ f \in Files /\ f # NoFile /\ toWorker[w] = <<>> /\ allResults[f] = <<>>
  BY <1>1, InFlight
<1>3. /\ toMain[w] \in Seq(Message) /\ toMain'[w] = Tail(toMain[w])
      /\ \A v \in Workers \ {w} : toMain'[v] = toMain[v]
      /\ workerTestCounts \in [Workers -> Nat] /\ reported \in [Files -> Int]
  BY <1>1 DEF IInv, TypeOK
<1>4. Tally(workerTestCounts[w], toMain[w], run[w], toWorker[w]) /\ workerTestCounts[w] \in Nat
      /\ reported[f] = workerTestCounts[w]
  BY <1>1, <1>2, <1>3 DEF TalliesInv, Books
<1>5. /\ Tally(Counted(workerTestCounts[w], m.type), Tail(toMain[w]), run[w], toWorker[w])
      /\ m.type = "file-start" => workerTestCounts[w] = 0
  BY <1>1, <1>2, <1>3, <1>4, TallyTaken
<1>6. /\ workerTestCounts'[w] = Counted(workerTestCounts[w], m.type)
      /\ reported'[f] = workerTestCounts'[w]
      /\ \A v \in Workers \ {w} : workerTestCounts'[v] = workerTestCounts[v]
      /\ \A g \in Files \ {f} : reported'[g] = reported[g]
  <2>. HIDE DEF f
  <2>1. CASE OnFileStart(w)
    <3>1. m.type = "file-start" /\ workerTestCounts' = [workerTestCounts EXCEPT ![w] = 0]
          /\ reported' = reported
      BY <2>1 DEF OnFileStart, NextMessage
    <3>. QED  BY <1>3, <1>4, <1>5, <3>1 DEF Counted
  <2>2. CASE OnTestEnd(w)
    <3>1. m.type = "test-end" /\ workerTestCounts' = [workerTestCounts EXCEPT ![w] = @ + 1]
          /\ reported' = [reported EXCEPT ![m.file] = @ + 1]
      BY <2>2 DEF OnTestEnd, NextMessage
    <3>. QED  BY <1>2, <1>3, <1>4, <3>1 DEF Counted
  <2>3. CASE OnTestWillRetry(w)
    <3>1. m.type = "test-will-retry" /\ workerTestCounts' = workerTestCounts /\ reported' = reported
      BY <2>3 DEF OnTestWillRetry, NextMessage, reportVars
    <3>. QED  BY <1>3, <1>4, <3>1 DEF Counted
  <2>4. CASE OnFileRetry(w)
    <3>1. m.type = "file-retry" /\ workerTestCounts' = [workerTestCounts EXCEPT ![w] = 0]
          /\ reported' = [reported EXCEPT ![m.file] = @ - workerTestCounts[w]]
      BY <2>4 DEF OnFileRetry, NextMessage
    <3>. QED  BY <1>2, <1>3, <1>4, <3>1 DEF Counted
  <2>. QED  BY <2>1, <2>2, <2>3, <2>4
<1>7. TalliesInv'
  BY <1>1, <1>3, <1>5, <1>6, OneTally
<1>8. Books(currentFile, workerTestCounts', reported', allResults)
  BY <1>2, <1>6, OneWorkerEach, BooksMoved
<1>. QED  BY <1>1, <1>7, <1>8

\* A dropped message: its worker is retired.
LEMMA DropLedger ==
    ASSUME NEW w \in Workers, TalliesInv, DropMessage(w), IInv
    PROVE  TalliesInv'
<1>1. /\ retired[w] /\ UNCHANGED <<retired, workerTestCounts, run, toWorker>>
      /\ \A v \in Workers \ {w} : toMain'[v] = toMain[v]
  BY DEF DropMessage, handleVars, reportVars, IInv, TypeOK
<1>. QED  BY <1>1, OneTally

LEMMA FileDoneLedger ==
    ASSUME NEW w \in Workers, IInv, TalliesInv,
           Books(currentFile, workerTestCounts, reported, allResults), OnFileDone(w)
    PROVE  TalliesInv' /\ Books(currentFile', workerTestCounts', reported', allResults')
<1>. DEFINE m == Head(toMain[w])
            f == currentFile[w]
            c == [currentFile EXCEPT ![w] = NoFile]
<1>1. /\ ~retired[w] /\ toMain[w] # <<>> /\ m.type = "file-done"
      /\ toMain' = [toMain EXCEPT ![w] = Tail(toMain[w])]
      /\ allResults' = [allResults EXCEPT ![m.file] = Append(@, m.status)]
      /\ workerTestCounts' = [workerTestCounts EXCEPT ![w] = 0]
      /\ DispatchNext(w, fileQueue, busy, c)
      /\ UNCHANGED <<retired, reported, run>>
  BY DEF OnFileDone, NextMessage
<1>2. m.file = f /\ f \in Files /\ f # NoFile /\ toWorker[w] = <<>> /\ allResults[f] = <<>>
  BY <1>1, InFlight
<1>3. /\ toMain[w] \in Seq(Message) /\ workerTestCounts \in [Workers -> Nat]
      /\ fileQueue \in Seq(Files) /\ c \in [Workers -> Files \cup {NoFile}] /\ c[w] = NoFile
      /\ allResults \in [Files -> Seq(Status)]
  BY DEF IInv, TypeOK
<1>4. Conversation(f, run[w], toMain[w], toWorker[w])
  BY <1>1 DEF IInv, ChannelsInv, ChannelInv
<1>5. Tail(toMain[w]) = <<>> /\ run[w] = Idle
  <2>1. toMain[w] \in Seq(Message) /\ toMain[w] # <<>> /\ m.type \in {"file-done", "error"}
    BY <1>1, <1>3
  <2>. QED  BY <1>4, <2>1, FinalMessage
<1>6. reported[f] = NumTests[f]
  <2>1. workerTestCounts[w] = NumTests[m.file]
    <3>1. Tally(workerTestCounts[w], toMain[w], run[w], toWorker[w]) /\ workerTestCounts[w] \in Nat
      BY <1>1, <1>3 DEF TalliesInv
    <3>. QED  BY <1>1, <1>2, <1>3, <3>1, TallyTaken
  <2>. QED  BY <1>2, <2>1 DEF Books
<1>7. \E s \in {"passed", "failed"} : allResults'[f] = <<s>>
  <2>1. m.status \in {"passed", "failed"}
    BY <1>1, MessageTyped DEF IInv
  <2>2. allResults'[f] = Append(<<>>, m.status)
    BY <1>1, <1>2, <1>3
  <2>. QED  BY <2>1, <2>2
<1>8. /\ workerTestCounts'[w] = 0 /\ \A v \in Workers \ {w} : workerTestCounts'[v] = workerTestCounts[v]
      /\ \A g \in Files \ {f} : reported'[g] = reported[g] /\ allResults'[g] = allResults[g]
      /\ reported'[f] = NumTests[f]
  BY <1>1, <1>2, <1>3, <1>6
<1>9. Books(c, workerTestCounts', reported', allResults')
  BY <1>2, <1>7, <1>8, OneWorkerEach, BooksClosed
<1>10. \A i \in DOMAIN fileQueue : allResults'[fileQueue[i]] = <<>> /\ \A v \in Workers : c[v] # fileQueue[i]
  <2>. SUFFICES ASSUME NEW i \in DOMAIN fileQueue
                PROVE  allResults'[fileQueue[i]] = <<>> /\ \A v \in Workers : c[v] # fileQueue[i]
    OBVIOUS
  <2>1. fileQueue[i] \in Files
    BY <1>3, ElementOfSeq, LenProperties
  <2>2. allResults[fileQueue[i]] = <<>>
    BY <2>1, Undecided
  <2>3. \A v \in Workers : currentFile[v] # fileQueue[i]
    BY <2>1 DEF IInv, PlacementInv, Placed
  <2>4. \A v \in Workers : c[v] # fileQueue[i]
    BY <1>3, <2>1, <2>3, FilesAssumption
  <2>. QED  BY <1>2, <1>8, <2>1, <2>2, <2>3, <2>4
<1>11. Books(currentFile', workerTestCounts', reported', allResults')
  <2>1. /\ DispatchNext(w, fileQueue, busy, c) /\ fileQueue \in Seq(Files)
        /\ c \in [Workers -> Files \cup {NoFile}] /\ c[w] = NoFile
    BY <1>1, <1>3
  <2>. HIDE DEF c
  <2>. QED  BY <1>9, <1>10, <2>1, BooksDispatched
<1>12. TalliesInv'
  <2>1. \A v \in Workers \ {w} : toWorker'[v] = toWorker[v]
    BY <1>1 DEF DispatchNext, IInv, TypeOK
  <2>2. toMain'[w] = <<>> /\ \A v \in Workers \ {w} : toMain'[v] = toMain[v] /\ run'[v] = run[v]
    BY <1>1, <1>5 DEF IInv, TypeOK
  <2>3. Tally(workerTestCounts'[w], toMain'[w], run'[w], toWorker'[w])
    BY <1>1, <1>5, <1>8, <2>2, EmptyTally
  <2>. QED  BY <1>1, <1>8, <2>1, <2>2, <2>3, OneTally
<1>. QED  BY <1>11, <1>12

LEMMA RetireLedger ==
    ASSUME NEW w \in Workers, IInv, TalliesInv,
           Books(currentFile, workerTestCounts, reported, allResults), RetireAndRequeue(w),
           UNCHANGED <<allResults, run>>,
           \A v \in Workers \ {w} : toMain'[v] = toMain[v]
    PROVE  TalliesInv' /\ Books(currentFile', workerTestCounts', reported', allResults')
<1>. DEFINE f       == currentFile[w]
            queue   == IF f = NoFile THEN fileQueue ELSE <<f>> \o fileQueue
            isBusy  == [busy EXCEPT ![w] = FALSE]
            current == [currentFile EXCEPT ![w] = NoFile]
            idle    == {v \in Workers : v # w /\ ~retired[v] /\ ~busy[v]}
            Kept    == currentFile' = current /\ UNCHANGED toWorker
<1>1. /\ retired'[w] /\ \A v \in Workers \ {w} : retired'[v] = retired[v]
      /\ current \in [Workers -> Files \cup {NoFile}]
      /\ fileQueue \in Seq(Files) /\ workerTestCounts \in [Workers -> Nat] /\ reported \in [Files -> Int]
      /\ currentFile \in [Workers -> Files \cup {NoFile}]
  BY DEF RetireAndRequeue, IInv, TypeOK
<1>2. Kept \/ \E v \in idle : DispatchNext(v, queue, isBusy, current)
  BY DEF RetireAndRequeue
<1>3. \A v \in Workers \ {w} : workerTestCounts'[v] = workerTestCounts[v]
  BY <1>1 DEF RetireAndRequeue, reportVars
<1>4. Books(current, workerTestCounts', reported', allResults')
  <2>1. CASE f = NoFile
    <3>1. current = currentFile
      BY <1>1, <2>1
    <3>2. UNCHANGED <<workerTestCounts, reported, allResults>>
      BY <2>1 DEF RetireAndRequeue, reportVars
    <3>. QED  BY <3>1, <3>2
  <2>2. CASE f # NoFile
    <3>1. /\ reported' = [reported EXCEPT ![f] = @ - workerTestCounts[w]]
          /\ workerTestCounts' = [workerTestCounts EXCEPT ![w] = 0]
      BY <2>2 DEF RetireAndRequeue
    <3>2. f \in Files /\ reported[f] = workerTestCounts[w] /\ allResults[f] = <<>>
      BY <1>1, <2>2, Undecided DEF Books
    <3>3. reported'[f] = 0 /\ workerTestCounts'[w] = 0
          /\ \A g \in Files \ {f} : reported'[g] = reported[g] /\ allResults'[g] = allResults[g]
      BY <1>1, <3>1, <3>2
    <3>. QED  BY <1>3, <2>2, <3>2, <3>3, OneWorkerEach, BooksClosed
  <2>. QED  BY <2>1, <2>2
<1>5. \A v \in idle : v \in Workers \ {w} /\ ~retired[v] /\ currentFile[v] = NoFile /\ current[v] = NoFile
  BY <1>1 DEF IInv, HandleInv
<1>6. queue \in Seq(Files)
  <2>1. f # NoFile => <<f>> \in Seq(Files)
    BY <1>1
  <2>. QED  BY <1>1, <2>1, ConcatProperties
<1>7. \A i \in DOMAIN queue : allResults[queue[i]] = <<>> /\ \A v \in Workers : current[v] # queue[i]
  <2>1. \A g \in Files : (\E i \in DOMAIN fileQueue : fileQueue[i] = g)
                            => allResults[g] = <<>> /\ \A v \in Workers : currentFile[v] # g
    BY Undecided DEF IInv, PlacementInv, Placed
  <2>2. ASSUME NEW i \in DOMAIN queue
        PROVE  (queue[i] = f /\ f # NoFile) \/ \E j \in DOMAIN fileQueue : fileQueue[j] = queue[i]
    <3>1. CASE f = NoFile
      BY <3>1
    <3>2. CASE f # NoFile
      <4>1. <<f>> \in Seq(Files) /\ Len(<<f>>) = 1 /\ <<f>>[1] = f
        BY <1>1, <3>2
      <4>2. /\ Len(queue) = 1 + Len(fileQueue)
            /\ \A j \in 1..(1 + Len(fileQueue)) : queue[j] = IF j <= 1 THEN <<f>>[j] ELSE fileQueue[j - 1]
        BY <1>1, <3>2, <4>1, ConcatProperties
      <4>3. DOMAIN queue = 1..Len(queue) /\ DOMAIN fileQueue = 1..Len(fileQueue) /\ Len(fileQueue) \in Nat
        BY <1>1, <1>6, LenProperties
      <4>. HIDE DEF queue
      <4>. QED  BY <3>2, <4>1, <4>2, <4>3
    <3>. QED  BY <3>1, <3>2
  <2>3. ASSUME NEW i \in DOMAIN queue PROVE queue[i] \in Files
    BY <1>6, <2>3, ElementOfSeq, LenProperties
  <2>4. f # NoFile => allResults[f] = <<>> /\ \A v \in Workers : current[v] # f
    <3>1. f # NoFile => f \in Files
      BY <1>1
    <3>. QED  BY <1>1, <3>1, Undecided, OneWorkerEach
  <2>5. \A v \in Workers, g \in Files : currentFile[v] # g => current[v] # g
    BY <1>1, FilesAssumption
  <2>. HIDE DEF queue, current
  <2>. QED  BY <2>1, <2>2, <2>3, <2>4, <2>5
<1>8. CASE Kept
  <2>1. TalliesInv'
    BY <1>1, <1>3, <1>8 DEF TalliesInv
  <2>. QED  BY <1>4, <1>8, <2>1
<1>9. ASSUME NEW v \in idle, DispatchNext(v, queue, isBusy, current)
      PROVE  TalliesInv' /\ Books(currentFile', workerTestCounts', reported', allResults')
  <2>1. v \in Workers \ {w} /\ ~retired[v] /\ currentFile[v] = NoFile /\ current[v] = NoFile
    BY <1>5
  <2>2. toMain[v] = <<>> /\ run[v] = Idle /\ workerTestCounts[v] = 0
    BY <2>1, IdleWorker DEF Books
  <2>3. \A u \in Workers \ {v} : toWorker'[u] = toWorker[u]
    BY <1>9 DEF DispatchNext, IInv, TypeOK
  <2>4. Tally(workerTestCounts'[v], toMain'[v], run'[v], toWorker'[v])
    <3>1. workerTestCounts'[v] = 0 /\ toMain'[v] = <<>> /\ run'[v] = Idle
      BY <1>3, <2>1, <2>2
    <3>. QED  BY <3>1, EmptyTally
  <2>5. TalliesInv'
    <3>1. ASSUME NEW u \in Workers, ~retired'[u], u # v
          PROVE  Tally(workerTestCounts'[u], toMain'[u], run'[u], toWorker'[u])
      <4>1. u \in Workers \ {w} /\ ~retired[u]
        BY <1>1, <3>1
      <4>2. /\ workerTestCounts'[u] = workerTestCounts[u] /\ toMain'[u] = toMain[u]
            /\ run'[u] = run[u] /\ toWorker'[u] = toWorker[u]
        BY <1>3, <2>3, <3>1, <4>1
      <4>. QED  BY <4>1, <4>2 DEF TalliesInv
    <3>. QED  BY <2>4, <3>1 DEF TalliesInv
  <2>6. Books(currentFile', workerTestCounts', reported', allResults')
    <3>. HIDE DEF queue, current, isBusy
    <3>. QED  BY <1>1, <1>4, <1>6, <1>7, <1>9, <2>1, BooksDispatched
  <2>. QED  BY <2>5, <2>6
<1>. QED  BY <1>2, <1>8, <1>9

\* A file of the next wave has no outcome yet and nobody has it.
LEMMA NextWaveFresh ==
    ASSUME IInv, wave < WaveCount, NEW f \in Files, ProjectOf[f] \in ProjectWaves[wave + 1]
    PROVE  allResults[f] = <<>> /\ \A w \in Workers : currentFile[w] # f
<1>1. wave + 1 \in 1..WaveCount /\ wave \in Nat
  BY WavesAssumption, LenProperties DEF IInv, TypeOK, WaveCount
<1>2. \A i \in 1..WaveCount : i <= wave => ProjectOf[f] \notin ProjectWaves[i]
  BY <1>1, WavesAssumption
<1>3. f \notin Begun
  BY <1>2 DEF Begun
<1>. QED  BY <1>3, Undecided DEF IInv, PlacementInv, Placed

LEMMA EnterWaveLedger ==
    ASSUME IInv, ~shuttingDown, Books(currentFile, workerTestCounts, reported, allResults), EnterWave
    PROVE  TalliesInv' /\ Books(currentFile', workerTestCounts', reported', allResults')
<1>. DEFINE next    == wave + 1
            blocked == Blocked(next, FailedAfterWave)
            skipped == {f \in Files : ProjectOf[f] \in blocked}
<1>1. /\ settled = "resolved" /\ wave < WaveCount
      /\ allResults' = [f \in Files |->
            IF f \in skipped THEN Append(allResults[f], "skipped") ELSE allResults[f]]
      /\ reported' = [f \in Files |-> IF f \in skipped THEN reported[f] + 1 ELSE reported[f]]
      /\ workerTestCounts' = [w \in Workers |-> 0]
      /\ UNCHANGED <<retired, toMain, run>>
  BY DEF EnterWave
<1>0. PICK n \in 0..Len(WaveFiles[next]) : \E q \in [1..n -> Files] :
        /\ KeptInOrder(q, WaveFiles[next], Files \ skipped)
        /\ UNCHANGED currentFile \/ DispatchToAll(q)
  BY DEF EnterWave
<1>2. PICK q \in [1..n -> Files] :
        /\ KeptInOrder(q, WaveFiles[next], Files \ skipped)
        /\ UNCHANGED currentFile \/ DispatchToAll(q)
  BY <1>0
<1>3. next \in 1..WaveCount /\ n \in Nat
  <2>1. next \in 1..WaveCount
    BY <1>1, WavesAssumption, LenProperties DEF IInv, TypeOK, WaveCount
  <2>2. WaveFiles[next] \in Seq(Files)
    BY <2>1, WavesAssumption, ElementOfSeq DEF WaveCount
  <2>. QED  BY <2>1, <2>2, LenProperties
<1>4. \A w \in Workers : currentFile[w] = NoFile
  BY <1>1 DEF IInv, HandleInv
<1>5. ASSUME NEW f \in Files, ProjectOf[f] \in ProjectWaves[next]
      PROVE  allResults[f] = <<>> /\ reported[f] = 0
  BY <1>1, <1>4, <1>5, NextWaveFresh DEF Books
<1>6. \A f \in skipped : f \in Files /\ ProjectOf[f] \in ProjectWaves[next]
  BY DEF Blocked
<1>7. \A i \in 1..n : q[i] \in Files \ skipped /\ ProjectOf[q[i]] \in ProjectWaves[next]
  <2>1. Range1(WaveFiles[next]) = {f \in Files : ProjectOf[f] \in ProjectWaves[next]}
    BY <1>3, WavesAssumption
  <2>2. \A i \in 1..n : q[i] \in Range1(q)
    BY DEF Range1
  <2>. QED  BY <1>2, <2>1, <2>2 DEF KeptInOrder
<1>. HIDE DEF next, skipped
<1>8. \A f \in Files :
         IF f \in skipped THEN allResults'[f] = <<"skipped">> /\ reported'[f] = 1
         ELSE allResults'[f] = allResults[f] /\ reported'[f] = reported[f]
  <2>1. ASSUME NEW f \in skipped PROVE allResults'[f] = <<"skipped">> /\ reported'[f] = 1
    <3>1. f \in Files /\ allResults[f] = <<>> /\ reported[f] = 0
      BY <1>5, <1>6
    <3>2. allResults'[f] = Append(<<>>, "skipped") /\ reported'[f] = 0 + 1
      BY <1>1, <3>1
    <3>. QED  BY <3>2
  <2>2. \A f \in Files : f \notin skipped => allResults'[f] = allResults[f] /\ reported'[f] = reported[f]
    BY <1>1
  <2>. QED  BY <2>1, <2>2
<1>9. \A f \in Files : IF allResults'[f] = <<>> THEN reported'[f] = 0
                       ELSE reported'[f] = IF allResults'[f] = <<"skipped">> THEN 1 ELSE NumTests[f]
  <2>. SUFFICES ASSUME NEW f \in Files
                PROVE  IF allResults'[f] = <<>> THEN reported'[f] = 0
                       ELSE reported'[f] = IF allResults'[f] = <<"skipped">> THEN 1 ELSE NumTests[f]
    OBVIOUS
  <2>1. CASE f \in skipped
    <3>1. allResults'[f] = <<"skipped">> /\ reported'[f] = 1
      BY <1>8, <2>1
    <3>2. <<"skipped">> # <<>>
      OBVIOUS
    <3>. QED  BY <3>1, <3>2
  <2>2. CASE f \notin skipped
    <3>1. \A w \in Workers : currentFile[w] # f
      BY <1>4, FilesAssumption
    <3>2. allResults'[f] = allResults[f] /\ reported'[f] = reported[f]
      BY <1>8, <2>2
    <3>. QED  BY <3>1, <3>2 DEF Books
  <2>. QED  BY <2>1, <2>2
<1>10. \A w \in Workers : currentFile'[w] = NoFile \/ \E i \in 1..n : currentFile'[w] = q[i]
  <2>1. CASE UNCHANGED currentFile
    BY <1>4, <2>1
  <2>2. CASE DispatchToAll(q)
    <3>1. PICK turn \in [Workers -> 0..N] :
            /\ VisitingOrder(turn)
            /\ currentFile' = [w \in Workers |->
                  IF retired[w] THEN currentFile[w]
                  ELSE IF turn[w] <= Len(q) THEN q[turn[w]] ELSE NoFile]
      BY <2>2 DEF DispatchToAll
    <3>2. \A w \in Workers : ~retired[w] => turn[w] \in Nat /\ turn[w] # 0
      BY <3>1 DEF VisitingOrder
    <3>3. Len(q) = n
      BY <1>3
    <3>4. \A w \in Workers : ~retired[w] /\ turn[w] <= Len(q) => turn[w] \in 1..n
      BY <1>3, <3>2, <3>3
    <3>. QED  BY <1>4, <3>1, <3>4
  <2>. QED  BY <1>2, <2>1, <2>2
<1>11. \A i \in 1..n : allResults'[q[i]] = <<>> /\ reported'[q[i]] = 0
  BY <1>5, <1>7, <1>8
<1>12. Books(currentFile', workerTestCounts', reported', allResults')
  <2>1. \A w \in Workers : IF currentFile'[w] = NoFile THEN workerTestCounts'[w] = 0
                           ELSE reported'[currentFile'[w]] = workerTestCounts'[w]
    BY <1>1, <1>10, <1>11
  <2>. QED  BY <1>9, <2>1 DEF Books
<1>13. TalliesInv'
  <2>. SUFFICES ASSUME NEW w \in Workers, ~retired[w]
                PROVE  Tally(workerTestCounts'[w], toMain'[w], run'[w], toWorker'[w])
    BY <1>1 DEF TalliesInv
  <2>1. workerTestCounts'[w] = 0 /\ toMain'[w] = <<>> /\ run'[w] = Idle
    BY <1>1, <1>4, IdleWorker
  <2>. QED  BY <2>1, EmptyTally
<1>. QED  BY <1>12, <1>13

LEMMA LedgerStep == IInv /\ LedgerInv /\ [Next]_vars => LedgerInv'
<1>. SUFFICES ASSUME IInv, LedgerInv, [Next]_vars, ~shuttingDown'
              PROVE  TalliesInv' /\ Books(currentFile', workerTestCounts', reported', allResults')
  BY DEF LedgerInv
<1>1. CASE UNCHANGED vars
  BY <1>1 DEF LedgerInv, TalliesInv, vars, mainVars, handleVars, reportVars, workerVars
<1>2. ASSUME NEW w \in Workers, MainEvent(w) \/ OnChannelFailure(w)
      PROVE  TalliesInv' /\ Books(currentFile', workerTestCounts', reported', allResults')
  <2>1. ~shuttingDown
    BY <1>2 DEF MainEvent, OnFileStart, OnTestEnd, OnTestWillRetry, OnFileRetry, OnFileDone, OnError,
                DropMessage, OnExit, OnChannelFailure, ReportOnly, mainVars
  <2>2. TalliesInv /\ Books(currentFile, workerTestCounts, reported, allResults)
    BY <2>1 DEF LedgerInv
  <2>3. CASE DropMessage(w)
    <3>1. UNCHANGED <<currentFile, workerTestCounts, reported, allResults>>
      BY <2>3 DEF DropMessage, mainVars, handleVars, reportVars
    <3>. QED  BY <2>2, <2>3, <3>1, DropLedger
  <2>4. CASE OnError(w) \/ OnExit(w) \/ OnChannelFailure(w)
    <3>1. RetireAndRequeue(w) /\ UNCHANGED <<allResults, run>>
      BY <2>1, <2>4 DEF OnError, OnExit, OnChannelFailure, RetireWorker
    <3>2. \A v \in Workers \ {w} : toMain'[v] = toMain[v]
      BY <2>4 DEF OnError, OnExit, OnChannelFailure, NextMessage, IInv, TypeOK
    <3>. QED  BY <2>2, <3>1, <3>2, RetireLedger
  <2>. QED  BY <1>2, <2>2, <2>3, <2>4, ReportLedger, FileDoneLedger DEF MainEvent
<1>3. ASSUME NEW w \in Workers, WorkerStep(w) \/ TestWillRetry(w) \/ Crash(w)
      PROVE  TalliesInv' /\ Books(currentFile', workerTestCounts', reported', allResults')
  <2>1. UNCHANGED <<shuttingDown, currentFile, workerTestCounts, reported, allResults>>
    BY <1>3 DEF WorkerStep, Crash, RunFile, TestEnd, TestWillRetry, FileRetry, FileDone, FileError,
                KilledExit, Shutdown, Exit, WorkerOnly, mainVars, handleVars, reportVars
  <2>2. TalliesInv /\ Books(currentFile, workerTestCounts, reported, allResults)
    BY <2>1 DEF LedgerInv
  <2>3. TalliesInv'
    BY <1>3, <2>2, RunFileTally, RunningTally, ExitTally DEF WorkerStep, Crash, KilledExit, Shutdown
  <2>. QED  BY <2>1, <2>2, <2>3
<1>4. ASSUME NEW w \in Workers, ShutdownTimeout(w)
      PROVE  TalliesInv' /\ Books(currentFile', workerTestCounts', reported', allResults')
  BY <1>4 DEF ShutdownTimeout, mainVars, handleVars, reportVars, LedgerInv, TalliesInv
<1>5. CASE EnterWave
  BY <1>5, EnterWaveLedger DEF LedgerInv, EnterWave
<1>6. CASE Finally
  <2>1. \A w \in Workers : retired'[w]
    BY <1>6 DEF Finally
  <2>2. UNCHANGED <<shuttingDown, currentFile, workerTestCounts, reported, allResults>>
    BY <1>6 DEF Finally, reportVars
  <2>. QED  BY <2>1, <2>2 DEF LedgerInv, TalliesInv
<1>7. CASE Return \/ ExitProcess
  BY <1>7 DEF Return, ExitProcess, handleVars, reportVars, workerVars, LedgerInv, TalliesInv
<1>8. ~Interrupt
  BY DEF Interrupt
<1>. QED  BY <1>1, <1>2, <1>3, <1>4, <1>5, <1>6, <1>7, <1>8 DEF Next, Terminated

LEMMA LedgerInit == Init => LedgerInv
<1>. SUFFICES ASSUME Init PROVE LedgerInv
  OBVIOUS
<1>1. TalliesInv
  <2>. SUFFICES ASSUME NEW w \in Workers
                PROVE  Tally(workerTestCounts[w], toMain[w], run[w], toWorker[w])
    BY DEF TalliesInv
  <2>1. workerTestCounts[w] = 0 /\ toMain[w] = <<>> /\ run[w] = Idle
    BY DEF Init
  <2>. QED  BY <2>1, EmptyTally
<1>2. Books(currentFile, workerTestCounts, reported, allResults)
  BY DEF Init, Books
<1>. QED  BY <1>1, <1>2 DEF LedgerInv

LEMMA LedgerMeans == LedgerInv => LedgerExact
<1>. SUFFICES ASSUME LedgerInv, ~shuttingDown, NEW f \in Files
              PROVE  reported[f] =
                        IF allResults[f] = <<"skipped">> THEN 1
                        ELSE IF allResults[f] # <<>> THEN NumTests[f]
                        ELSE IF \E w \in Workers : currentFile[w] = f
                             THEN workerTestCounts[CHOOSE w \in Workers : currentFile[w] = f]
                        ELSE 0
  BY DEF LedgerExact
<1>1. Books(currentFile, workerTestCounts, reported, allResults)
  BY DEF LedgerInv
<1>2. CASE allResults[f] # <<>>
  BY <1>1, <1>2 DEF Books
<1>3. CASE allResults[f] = <<>> /\ \E w \in Workers : currentFile[w] = f
  <2>. DEFINE w == CHOOSE w \in Workers : currentFile[w] = f
  <2>1. w \in Workers /\ currentFile[w] = f
    BY <1>3
  <2>. HIDE DEF w
  <2>2. reported[f] = workerTestCounts[w]
    BY <1>1, <2>1, FilesAssumption DEF Books
  <2>. QED  BY <1>3, <2>2 DEF w
<1>4. CASE allResults[f] = <<>> /\ ~\E w \in Workers : currentFile[w] = f
  BY <1>1, <1>4 DEF Books
<1>. QED  BY <1>2, <1>3, <1>4

\* What the reporter shows of a file is right in every state before an
\* interrupt: whatever crashed, was retried, taken back or arrived late, it is the
\* file's own results, once.
THEOREM ReporterAgrees == Spec => []LedgerExact
BY Inductive, LedgerInit, LedgerStep, LedgerMeans, PTL DEF Spec
=============================================================================
