------------------------------ MODULE TestFile ------------------------------
(***************************************************************************)
(* One test file run by the runner (packages/tapsmith/src/runner.ts,       *)
(* runSuiteContext and what it calls): a tree of describe scopes, each     *)
(* with an app reset, beforeAll and afterAll hooks, tests that are retried *)
(* and child scopes.  A failure leaves the app wherever it stopped, so a   *)
(* retry and the rest of the file first tear the enclosing scopes down and *)
(* build them up again.  Resets and hooks fail at any point, hooks skip,   *)
(* a stop arrives at any time.                                             *)
(*                                                                         *)
(* The file, its scopes' policies and hooks, is data: a record of Shapes.  *)
(* The app is kept as what the next test can tell: whose beforeAll it      *)
(* carries (live), whether a failure touched it since its last reset       *)
(* (soiled), whether that reset stopped half-way (torn), whether the code  *)
(* lets what failed stand (waived), and whether a recovered session        *)
(* relaunched it under its setup (lost).                                   *)
(***************************************************************************)
EXTENDS Integers, Sequences, FiniteSets

CONSTANTS
    Shapes,       \* the files to run
    Retries,      \* config.retries
    NoPolicy, NoScope, NoTest

VARIABLES
    file,         \* the file that runs
    cur,          \* the scope being run; NoScope once the file is over
    phase,        \* per scope: "new", "setup", "tests", "suites"; then "over",
                  \* or "broken" if its own setup failed or was stopped
    at,           \* per scope: the test, then the child scope, it is at
    agenda,       \* resets and hooks still to run before a scope or an attempt goes on
    test,         \* the test being run, or NoTest
    attempt,      \* its attempt
    status,       \* "ready" until the body ended, then how it ended
    infra,        \* the attempt failed on an infrastructure error
    failedBefore, \* firstFailure: an earlier attempt of the test failed
    rebuilt,      \* retrySetupRuns: the attempt began with a fresh start
    skipping,     \* scopes whose beforeAll called test.skip()
    serialFailed, \* serial groups in which a test failed
    setupBroken, freshStart,   \* retryState: setupBroken and freshStartPending
    applied,      \* _applied.current, or NoPolicy
    prepared,     \* _prepared, or NoPolicy: the policy the untouched app satisfies
    app,          \* the app: live (scopes whose beforeAll it carries), soiled, torn, waived, lost
    up,           \* scopes with an afterAll to run for a beforeAll hook that completed
    results,      \* per test: its result, or "none"
    reports,      \* per test: how many results it got
    stopped,      \* abortSignal: "no", "user" or "infra"
    thrown        \* runTestFile rejected: the embedder runs the file again

retryVars == <<setupBroken, freshStart>>
testVars == <<test, attempt, status, infra, failedBefore, rebuilt>>
deviceVars == <<applied, prepared, app, up>>
resultVars == <<results, reports>>
vars == <<file, cur, phase, at, agenda, testVars, skipping, serialFailed, retryVars,
          deviceVars, resultVars, stopped, thrown>>

-----------------------------------------------------------------------------
(* The file.                                                               *)

Policy == [scope : {"file", "test"}, action : {"none", "warm", "clear", "restore"}]
TestsIn(f) == UNION {{f.tests[s][i] : i \in DOMAIN f.tests[s]} : s \in DOMAIN f.path}
Scopes == DOMAIN file.path
Tests == TestsIn(file)

\* describe() and test() register a tree: a scope has one parent and a test one
\* scope; the path of a scope names the scopes around it, itself last.
WellFormed(f) ==
    LET ss == DOMAIN f.path IN
    /\ NoScope \notin ss /\ NoTest \notin TestsIn(f)
    /\ f.root \in ss /\ f.path[f.root] = <<f.root>>
    /\ f.path \in [ss -> Seq(ss) \ {<<>>}] /\ f.kids \in [ss -> Seq(ss)]
    /\ f.tests \in [ss -> Seq(TestsIn(f))] /\ f.policy \in [ss -> Policy]
    /\ f.serial \cup f.before \cup f.after \cup f.skipScopes \subseteq ss
    /\ f.skip \cup f.out \subseteq TestsIn(f) /\ f.canReset \in BOOLEAN
    /\ \A s \in ss :
          /\ f.path[s][Len(f.path[s])] = s
          /\ \A i \in DOMAIN f.path[s] : f.path[f.path[s][i]] = SubSeq(f.path[s], 1, i)
          /\ \A i \in DOMAIN f.kids[s] : f.path[f.kids[s][i]] = Append(f.path[s], f.kids[s][i])
          /\ s # f.root => \E p \in ss : \E i \in DOMAIN f.kids[p] : f.kids[p][i] = s
    /\ \A s, c \in ss :
          /\ \A i \in DOMAIN f.kids[s], j \in DOMAIN f.kids[c] :
                f.kids[s][i] = f.kids[c][j] => s = c /\ i = j
          /\ \A i \in DOMAIN f.tests[s], j \in DOMAIN f.tests[c] :
                f.tests[s][i] = f.tests[c][j] => s = c /\ i = j

ASSUME FileAssumption == Retries \in Nat /\ \A f \in Shapes : WellFormed(f)

Path(s) == file.path[s]
IsRoot(s) == Len(Path(s)) = 1
Parent(s) == IF IsRoot(s) THEN NoScope ELSE Path(s)[Len(Path(s)) - 1]
Enclosing(s) == IF IsRoot(s) THEN <<>> ELSE Path(Parent(s))
Within(s) == {c \in Scopes : \E i \in DOMAIN Path(c) : Path(c)[i] = s}
PolicyOf(s) == file.policy[s]
ParentPolicy(s) == IF IsRoot(s) THEN NoPolicy ELSE PolicyOf(Parent(s))

\* Tests below s the selection filters keep, and which of them can run.
Kept(s) == (UNION {{file.tests[c][i] : i \in DOMAIN file.tests[c]} : c \in Within(s)}) \ file.out
SkippedFrom(s, c) == \E i \in DOMAIN Path(c) : Path(c)[i] \in file.skipScopes \cap Within(s)
HasRunnable(s) ==
    \E c \in Within(s) : ~SkippedFrom(s, c)
        /\ \E i \in DOMAIN file.tests[c] : file.tests[c][i] \notin file.out \cup file.skip

\* The serial group a scope belongs to: the outermost serial scope around it.
Group(s) ==
    LET serial == {i \in DOMAIN Path(s) : Path(s)[i] \in file.serial}
    IN  IF serial = {} THEN NoScope ELSE Path(s)[CHOOSE i \in serial : \A j \in serial : i <= j]

\* freshWorkerReset: the reset a fresh worker runs on entering the scope.
FreshWorkerReset(s) ==
    /\ file.canReset
    /\ IF PolicyOf(s).scope = "file" THEN IsRoot(s) \/ PolicyOf(s) # ParentPolicy(s)
       ELSE s \in file.before

\* retryReplaysSetup, over the scopes of a chain.
RetryReplaysSetup(s, chain, group) ==
    /\ PolicyOf(s).scope = "file" /\ PolicyOf(s).action # "none" /\ group = NoScope
    /\ \E i \in DOMAIN chain : FreshWorkerReset(chain[i]) /\ PolicyOf(chain[i]).action # "none"

ReplaysAtEntry(s) == ~IsRoot(s) /\ file.canReset /\ RetryReplaysSetup(s, Path(s), Group(Parent(s)))
ReplaysOnRetry(s) == file.canReset /\ RetryReplaysSetup(s, Path(s), Group(s))

\* satisfies: whether an app in state have is good for what want asks for.
Satisfies(have, want) ==
    CASE want.action = "restore" -> have.action = "restore"
      [] have.action = "restore" -> want.action = "none"
      [] OTHER -> want.action = "none" \/ have.action \in {"clear", want.action}

-----------------------------------------------------------------------------
(* Fresh starts: what runRetryTeardown and runRetryRebuild do to a chain.  *)

Item(op, s) == [op |-> op, of |-> s]

\* What the scopes have of it.
Existing ==
    {Item("afterAll", s) : s \in file.after} \cup {Item("beforeAll", s) : s \in file.before}
        \cup {Item("freshReset", s) : s \in {c \in Scopes : FreshWorkerReset(c)}}

\* The elements of a sequence that are in a set, in their order.
Those(seq, kept) ==
    LET upTo[n \in 0..Len(seq)] ==
            IF n = 0 THEN <<>>
            ELSE IF seq[n] \in kept THEN Append(upTo[n - 1], seq[n]) ELSE upTo[n - 1]
    IN  upTo[Len(seq)]

Teardown(chain) == Those([i \in 1..Len(chain) |-> Item("afterAll", chain[Len(chain) + 1 - i])], Existing)

Rebuild(chain) ==
    Append(Those([i \in 1..(2 * Len(chain)) |->
                     Item(IF i % 2 = 1 THEN "freshReset" ELSE "beforeAll", chain[(i + 1) \div 2])], Existing),
           Item("rebuilt", NoScope))

\* runRetrySetup; a setup that broke part-way is not torn down again.
FreshStart(chain) == (IF setupBroken THEN <<>> ELSE Teardown(chain)) \o Rebuild(chain)

\* What the app carries after a fresh start: the beforeAll hooks of the chain
\* from the last scope on that resets the app.
FreshLive(chain) ==
    LET real == {i \in DOMAIN chain : FreshWorkerReset(chain[i]) /\ PolicyOf(chain[i]).action # "none"}
        from == IF real = {} THEN 1 ELSE CHOOSE i \in real : \A j \in real : j <= i
    IN  Those(SubSeq(chain, from, Len(chain)), file.before)

-----------------------------------------------------------------------------
Untouched == [live |-> <<>>, soiled |-> FALSE, torn |-> FALSE, waived |-> FALSE, lost |-> FALSE]

Init ==
    /\ file \in Shapes
    /\ cur = file.root
    /\ phase = [s \in Scopes |-> "new"]
    /\ at = [s \in Scopes |-> 1]
    /\ agenda = <<>>
    /\ test = NoTest /\ attempt = 0 /\ status = "ready"
    /\ infra = FALSE /\ failedBefore = FALSE /\ rebuilt = FALSE
    /\ skipping = {} /\ serialFailed = {}
    /\ setupBroken = FALSE /\ freshStart = FALSE
    /\ applied = NoPolicy
    /\ prepared \in {NoPolicy, [scope |-> "file", action |-> "clear"]}
    /\ app = [Untouched EXCEPT !.soiled = prepared = NoPolicy]
    /\ up = {}
    /\ results = [t \in Tests |-> "none"]
    /\ reports = [t \in Tests |-> 0]
    /\ stopped = "no"
    /\ thrown = FALSE

\* The results of several tests at once (skipAll, failAll) or of one.
Report(ts, result) ==
    /\ results' = [t \in Tests |-> IF t \in ts THEN result ELSE results[t]]
    /\ reports' = [t \in Tests |-> IF t \in ts THEN reports[t] + 1 ELSE reports[t]]

\* Mutant: only a serial group's own tests count for it.
LeaveQuietly(s, ended) ==
    /\ cur' = Parent(s)
    /\ phase' = [phase EXCEPT ![s] = ended]
    /\ at' = [c \in Scopes |-> IF c = Parent(s) THEN at[c] + 1 ELSE at[c]]
    /\ UNCHANGED serialFailed

\* Back to the enclosing scope, which notes a failure for its serial group.
Leave(s, ended) ==
    LET failed == \E t \in Kept(s) : results'[t] = "failed"
        group  == IF IsRoot(s) THEN NoScope ELSE Group(Parent(s))
    IN  /\ cur' = Parent(s)
        /\ phase' = [phase EXCEPT ![s] = ended]
        /\ at' = [c \in Scopes |-> IF c = Parent(s) THEN at[c] + 1 ELSE at[c]]
        /\ serialFailed' = IF failed /\ group # NoScope THEN serialFailed \cup {group} ELSE serialFailed

-----------------------------------------------------------------------------
(* Entering a scope.                                                       *)

NeedsScopeReset(s, holds) ==
    /\ file.canReset
    /\ IF PolicyOf(s).scope = "file" THEN IsRoot(s) \/ PolicyOf(s) # holds
       ELSE s \in file.before

\* Mutant: only a test looks whether a fresh start is due.
EntryIgnoresFailure(s) == FALSE

FreshStartAtEntry(s) == HasRunnable(s) /\ freshStart /\ ReplaysAtEntry(s)

\* The scope's setup: a fresh start of the scopes around it if one is due, its
\* own reset, its own beforeAll hooks.  Nothing at all when no test can run.
Enter(s) ==
    LET fresh == FreshStartAtEntry(s)
        holds == IF fresh \/ applied = NoPolicy THEN ParentPolicy(s) ELSE applied
    IN  /\ cur = s /\ phase[s] = "new"
        /\ agenda' = IF ~HasRunnable(s) THEN <<>>
                     ELSE (IF fresh THEN FreshStart(Enclosing(s)) ELSE <<>>)
                          \o (IF NeedsScopeReset(s, holds) THEN <<Item("reset", s)>> ELSE <<>>)
                          \o (IF s \in file.before THEN <<Item("beforeAll", s)>> ELSE <<>>)
        /\ setupBroken' = (setupBroken \/ fresh)
        /\ freshStart' = (freshStart /\ ~fresh)
        /\ phase' = [phase EXCEPT ![s] = "setup"]
        /\ UNCHANGED <<file, cur, at, testVars, skipping, serialFailed, deviceVars, 
                       resultVars, stopped, thrown>>

\* The setup is done: on to the tests.
SetUp(s) ==
    /\ cur = s /\ phase[s] = "setup" /\ agenda = <<>>
    /\ phase' = [phase EXCEPT ![s] = "tests"]
    /\ UNCHANGED <<file, cur, at, agenda, testVars, skipping, serialFailed, retryVars,
                   deviceVars, resultVars, stopped, thrown>>

-----------------------------------------------------------------------------
(* Resets and hooks.  Each belongs to the scope's setup or to an attempt.  *)

NextItem == Head(agenda)
InSetup == test = NoTest
Doing(op) == cur # NoScope /\ agenda # <<>> /\ NextItem.op = op

Succeed == agenda' = Tail(agenda)

\* A fresh start's reset is a real one; another may find the app prepared for it
\* (_prepared) and leave it as it is.
Satisfied ==
    NextItem.op = "reset" /\ prepared # NoPolicy /\ Satisfies(prepared, PolicyOf(NextItem.of))

\* Whatever an entry reset leaves is prepared for the next reset.
Reset ==
    /\ Doing("reset") \/ Doing("freshReset")
    /\ stopped = "no"
    /\ LET policy == PolicyOf(NextItem.of)
       IN  /\ app' = IF policy.action = "none" THEN app
                     ELSE IF Satisfied THEN [app EXCEPT !.waived = @ \/ app.soiled \/ app.torn]
                     ELSE Untouched
           /\ applied' = policy
           /\ prepared' = IF NextItem.op = "freshReset" \/ ~InSetup \/ policy.action = "none" THEN NoPolicy
                          ELSE IF Satisfied THEN prepared ELSE policy
    /\ Succeed
    /\ UNCHANGED <<file, cur, phase, at, testVars, skipping, serialFailed, retryVars, up, 
                   resultVars, stopped, thrown>>

HookCompleted == up' = IF NextItem.of \in file.after THEN up \cup {NextItem.of} ELSE up

\* A beforeAll hook completes, and is not the end of it: the scope has more of them,
\* or an error the hook left unhandled is still to be thrown.
BeforeAllHook ==
    /\ Doing("beforeAll") /\ stopped = "no"
    /\ prepared' = NoPolicy
    /\ HookCompleted
    /\ UNCHANGED <<file, cur, phase, at, agenda, testVars, skipping, serialFailed, retryVars, applied, app,
                   resultVars, stopped, thrown>>

\* The last of the scope's beforeAll hooks completes.
BeforeAll ==
    /\ Doing("beforeAll") /\ stopped = "no"
    /\ prepared' = NoPolicy
    /\ app' = [app EXCEPT !.live = Append(@, NextItem.of)]
    /\ HookCompleted
    /\ Succeed
    /\ UNCHANGED <<file, cur, phase, at, testVars, skipping, serialFailed, retryVars, applied, 
                   resultVars, stopped, thrown>>

RanAfterAll(s) ==
    /\ app' = [app EXCEPT !.live = Those(@, Scopes \ {s})]
    /\ up' = up \ {s}

\* A fresh start's afterAll; one that fails is logged.
AfterAll ==
    /\ Doing("afterAll") /\ stopped = "no"
    /\ RanAfterAll(NextItem.of)
    /\ Succeed
    /\ UNCHANGED <<file, cur, phase, at, testVars, skipping, serialFailed, retryVars, applied, prepared,
                   resultVars, stopped, thrown>>

\* The end of runRetryRebuild.
Rebuilt ==
    /\ Doing("rebuilt")
    /\ setupBroken' = FALSE
    /\ Succeed
    /\ UNCHANGED <<file, cur, phase, at, testVars, skipping, serialFailed, freshStart, deviceVars, 
                   resultVars, stopped, thrown>>

\* What a failing item leaves of the app: a hook touched it, a reset stopped
\* half-way, the prepared state it did not consume still recorded.
Broke ==
    /\ app' = IF NextItem.op = "beforeAll" THEN [app EXCEPT !.soiled = TRUE, !.waived = FALSE]
              ELSE IF Satisfied \/ PolicyOf(NextItem.of).action = "none" THEN app
              ELSE [app EXCEPT !.torn = TRUE, !.waived = FALSE]
    /\ prepared' = IF NextItem.op = "reset" THEN prepared ELSE NoPolicy

Fallible == Doing("reset") \/ Doing("freshReset") \/ Doing("beforeAll")

\* A reset or a beforeAll hook of a scope's setup fails: all its tests fail, and the
\* scope returns without its afterAll hooks.
SetupFails ==
    /\ Fallible /\ InSetup /\ stopped = "no"
    /\ Broke
    /\ freshStart' = (freshStart \/ file.canReset)
    /\ Report(Kept(cur), "failed")
    /\ Leave(cur, "broken")
    /\ agenda' = <<>>
    /\ UNCHANGED <<file, testVars, skipping, setupBroken, applied, up, stopped, thrown>>

\* The file-entry reset fails on an infrastructure error the embedder recovers from.
EntryThrows ==
    /\ Doing("reset") /\ InSetup /\ IsRoot(cur) /\ stopped = "no"
    /\ Broke
    /\ agenda' = <<>> /\ cur' = NoScope /\ thrown' = TRUE
    /\ UNCHANGED <<file, phase, at, testVars, skipping, serialFailed, retryVars, applied, up, 
                   resultVars, stopped>>

\* A beforeAll hook of the setup calls test.skip(): the scope runs on, its tests skipped.
SetupSkips ==
    /\ Doing("beforeAll") /\ InSetup /\ stopped = "no"
    /\ skipping' = skipping \cup {cur}
    /\ prepared' = NoPolicy
    /\ agenda' = <<>>
    /\ UNCHANGED <<file, cur, phase, at, testVars, serialFailed, retryVars, applied, app, up, 
                   resultVars, stopped, thrown>>

\* A stop during the setup: the scope returns, its tests keep the status they had.
SetupStopped ==
    /\ agenda # <<>> /\ InSetup /\ stopped # "no"
    /\ UNCHANGED resultVars
    /\ Leave(cur, "broken")
    /\ agenda' = <<>>
    /\ UNCHANGED <<file, testVars, skipping, retryVars, deviceVars, stopped, thrown>>

\* A fresh start, or the per-test reset, fails, skips or is stopped: so does the attempt.
AttemptSetupFails ==
    /\ ~InSetup /\ agenda # <<>>
    /\ \/ /\ Fallible /\ stopped = "no"
          /\ Broke
          /\ status' = "failed" /\ infra' \in BOOLEAN
       \/ /\ Doing("beforeAll") /\ stopped = "no"
          /\ prepared' = NoPolicy
          /\ status' = "skipped"
          /\ UNCHANGED <<app, infra>>
       \/ /\ stopped # "no"
          /\ status' = "failed"
          /\ UNCHANGED <<app, prepared, infra>>
    /\ agenda' = <<>>
    /\ UNCHANGED <<file, cur, phase, at, test, attempt, failedBefore, rebuilt, skipping, serialFailed,
                   retryVars, applied, up, resultVars, stopped, thrown>>

-----------------------------------------------------------------------------
(* Tests.                                                                  *)

\* The test s is at, and whether one is left.
AtTest(s) == cur = s /\ phase[s] = "tests" /\ test = NoTest
TestLeft(s) == at[s] <= Len(file.tests[s])
ThisTest(s) == file.tests[s][at[s]]

\* The start of attempt k of test t: a fresh start if it is a retry or one is due.
Begin(t, k) ==
    LET runs == ReplaysOnRetry(cur) /\ (k > 0 \/ setupBroken \/ freshStart)
    IN  /\ test' = t /\ attempt' = k /\ status' = "ready" /\ infra' = FALSE /\ rebuilt' = runs
        /\ agenda' = (IF runs THEN FreshStart(Path(cur)) ELSE <<>>)
                     \o (IF PolicyOf(cur).scope = "test" /\ file.canReset THEN <<Item("reset", cur)>> ELSE <<>>)
        /\ setupBroken' = (setupBroken \/ runs)
        /\ freshStart' = (freshStart /\ ~runs)

SkipsTests(s) == s \in skipping \cup file.skipScopes \/ Group(s) \in serialFailed

StartTest(s) ==
    /\ AtTest(s) /\ TestLeft(s) /\ stopped = "no"
    /\ ThisTest(s) \notin file.out \cup file.skip /\ ~SkipsTests(s)
    /\ Begin(ThisTest(s), 0)
    /\ failedBefore' = FALSE
    /\ UNCHANGED <<file, cur, phase, at, skipping, serialFailed, deviceVars, resultVars,
                   stopped, thrown>>

\* A test that does not run: left out by a filter, or reported as skipped.
PassOver(s) ==
    /\ AtTest(s) /\ TestLeft(s) /\ stopped = "no"
    /\ ThisTest(s) \in file.out \cup file.skip \/ SkipsTests(s)
    /\ Report({ThisTest(s)} \ file.out, "skipped")
    /\ at' = [at EXCEPT ![s] = @ + 1]
    /\ UNCHANGED <<file, cur, phase, agenda, testVars, skipping, serialFailed, retryVars, deviceVars,
                   stopped, thrown>>

\* A session that had to be recovered relaunched the app: what the beforeAll
\* hooks left is gone (ensureGroupReady), and its error asks for the file again.
Recovered == [app EXCEPT !.live = <<>>, !.lost = TRUE]

\* beforeEachTest, the beforeEach hooks and the body, each bounded (runBounded).
Body ==
    /\ ~InSetup /\ agenda = <<>> /\ status = "ready"
    /\ prepared' = NoPolicy
    /\ \/ /\ stopped = "no"
          /\ status' \in {"passed", "skipped"}
          /\ UNCHANGED <<infra, app>>
       \/ /\ status' = "failed"
          /\ infra' \in IF stopped = "no" THEN BOOLEAN ELSE {FALSE}
          /\ \/ UNCHANGED app
             \/ infra' /\ app' = Recovered
    /\ UNCHANGED <<file, cur, phase, at, agenda, test, attempt, failedBefore, rebuilt, skipping,
                   serialFailed, retryVars, applied, up, resultVars, stopped, thrown>>

\* How the afterEach hooks and the attempt's cleanup change its result: a skip,
\* a hook that hung (ignored after a stop), an error nobody handled.
Ends ==
    {status} \cup (IF status = "passed" THEN {"skipped"} ELSE {}) \cup {"failed"}

\* A retry that skipped is reported as the failure it followed.
Final(end) == IF end = "skipped" /\ failedBefore THEN "failed" ELSE end

Recovers(end) == end = "failed" /\ infra

FreshNeeded(final) == freshStart' = (freshStart \/ (final = "failed" /\ file.canReset))

RetryNeeded(end) == end = "failed" /\ attempt < Retries /\ stopped = "no" /\ ~Recovers(end)

\* The app as the attempt leaves it: on a failure's screen if it failed.  One that
\* is tried again where it failed, in a serial group, lets that stand.
AttemptEnded(end, inPlace) ==
    app' = IF end # "failed" THEN app
           ELSE [app EXCEPT !.soiled = TRUE, !.waived = inPlace /\ (@ \/ ~(app.soiled \/ app.torn))]

\* afterEach, then another attempt.
Retry ==
    /\ ~InSetup /\ status # "ready" /\ agenda = <<>>
    /\ \E end \in Ends :
        /\ RetryNeeded(end)
        /\ AttemptEnded(end, Group(cur) # NoScope)
    /\ Begin(test, attempt + 1)
    /\ failedBefore' = TRUE
    /\ UNCHANGED <<file, cur, phase, at, skipping, serialFailed, applied, prepared, up, 
                   resultVars, stopped, thrown>>

\* afterEach, then the test's result.  An infrastructure failure aborts the file.
EndTest ==
    /\ ~InSetup /\ status # "ready" /\ agenda = <<>>
    /\ \E end \in Ends :
        /\ ~RetryNeeded(end)
        /\ AttemptEnded(end, FALSE)
        /\ Report({test}, Final(end))
        /\ FreshNeeded(Final(end))
        /\ serialFailed' = IF Final(end) = "failed" /\ Group(cur) # NoScope
                           THEN serialFailed \cup {Group(cur)} ELSE serialFailed
        /\ stopped' = IF Recovers(end) /\ stopped = "no" THEN "infra" ELSE stopped
    /\ at' = [at EXCEPT ![cur] = @ + 1]
    /\ test' = NoTest /\ attempt' = 0 /\ status' = "ready" /\ infra' = FALSE
    /\ failedBefore' = FALSE /\ rebuilt' = FALSE
    /\ UNCHANGED <<file, cur, phase, agenda, skipping, setupBroken, applied, prepared, up, thrown>>

TestsDone(s) ==
    /\ AtTest(s) /\ (TestLeft(s) => stopped # "no")
    /\ phase' = [phase EXCEPT ![s] = "suites"]
    /\ at' = [at EXCEPT ![s] = 1]
    /\ UNCHANGED <<file, cur, agenda, testVars, skipping, serialFailed, retryVars, deviceVars, 
                   resultVars, stopped, thrown>>

-----------------------------------------------------------------------------
(* Child scopes, and the end of a scope.                                   *)

AtSuite(s) == cur = s /\ phase[s] = "suites"
SuiteLeft(s) == at[s] <= Len(file.kids[s])
ThisSuite(s) == file.kids[s][at[s]]
SkipsSuite(s) == ThisSuite(s) \in file.skipScopes \/ SkipsTests(s)

Descend(s) ==
    /\ AtSuite(s) /\ SuiteLeft(s) /\ stopped = "no" /\ ~SkipsSuite(s)
    /\ cur' = ThisSuite(s)
    /\ UNCHANGED <<file, phase, at, agenda, testVars, skipping, serialFailed, retryVars, deviceVars, 
                   resultVars, stopped, thrown>>

\* skipAll: without its hooks or a reset.
SkipSuite(s) ==
    /\ AtSuite(s) /\ SuiteLeft(s) /\ stopped = "no" /\ SkipsSuite(s)
    /\ Report(Kept(ThisSuite(s)), "skipped")
    /\ at' = [at EXCEPT ![s] = @ + 1]
    /\ UNCHANGED <<file, cur, phase, agenda, testVars, skipping, serialFailed, retryVars, deviceVars, 
                   stopped, thrown>>

\* Mutant: a stop leaves at once.
CloseIfRunning(s) == HasRunnable(s) /\ s \in file.after /\ stopped = "no"

Closes(s) == HasRunnable(s) /\ s \in file.after

\* The scope's end: its afterAll hooks run, also after a stop and whatever
\* became of its setup; what they throw is logged.
Close(s) ==
    /\ AtSuite(s) /\ (SuiteLeft(s) => stopped # "no")
    /\ IF Closes(s) THEN RanAfterAll(s) ELSE UNCHANGED <<app, up>>
    /\ UNCHANGED resultVars
    /\ Leave(s, "over")
    /\ UNCHANGED <<file, agenda, testVars, skipping, retryVars, applied, prepared, stopped, thrown>>

\* A user's stop, at any time.
Stop ==
    /\ cur # NoScope /\ stopped = "no"
    /\ stopped' = "user"
    /\ UNCHANGED <<file, cur, phase, at, agenda, testVars, skipping, serialFailed, retryVars, deviceVars,
                   resultVars, thrown>>

Over == cur = NoScope /\ UNCHANGED vars

Next ==
    \/ \E s \in Scopes :
        \/ Enter(s) \/ SetUp(s) \/ StartTest(s) \/ PassOver(s) \/ TestsDone(s)
        \/ Descend(s) \/ SkipSuite(s) \/ Close(s)
    \/ Reset \/ BeforeAllHook \/ BeforeAll \/ AfterAll \/ Rebuilt
    \/ SetupFails \/ EntryThrows \/ SetupSkips \/ SetupStopped \/ AttemptSetupFails
    \/ Body \/ Retry \/ EndTest \/ Stop \/ Over

Spec == Init /\ [][Next]_vars

-----------------------------------------------------------------------------
(* Properties.                                                             *)

\* A test's body, its beforeEach hooks first, is about to run.
Starting == test # NoTest /\ status = "ready" /\ agenda = <<>>

\* Neither a test nor a nested scope's beforeAll starts on the screen a failure
\* left, when its policy resets the app once per file: whichever scope the
\* failure was in, a reset came between (freshStartPending, PILOT-739).  Excepted
\* is what the code lets stand: the failures of a serial group's tests that passed
\* on a retry where they were, and an app that a reset was left out for, an earlier
\* preparation still being recorded (see OwnResetRuns).
FailureNeverInherited ==
    cur # NoScope =>
        /\ Starting /\ ReplaysOnRetry(cur) => ~app.soiled \/ app.waived
        /\ InSetup /\ agenda # <<>> /\ NextItem = Item("beforeAll", cur) /\ ReplaysAtEntry(cur) => ~app.soiled \/ app.waived

\* No test under a per-file reset starts on a setup that broke part-way: one
\* that failed in a scope's setup, in a retry's or in a fresh start is built
\* again first, and what a retry or a fresh start built is complete (setupBroken),
\* with the same exception.
\* None at all starts in a session that was recovered under the file's setup: the
\* file is given up, to be run again (abortFileOnError).
NeverHalfBuilt ==
    Starting =>
        /\ ~app.lost
        /\ ReplaysOnRetry(cur) => /\ ~setupBroken
                                  /\ ~app.waived => ~app.torn
                                  /\ rebuilt => app.live = FreshLive(Path(cur))

\* Once the file is over, every beforeAll hook that completed, of a setup, a retry or
\* a fresh start, has been followed by its scope's afterAll, also after a stop, an
\* aborted file or a skip in a later hook.  The named exception: a scope whose own
\* setup was cut short, by a later hook that failed, an unhandled error of the hooks
\* or a stop, returns without its afterAll, whatever its earlier hooks had done.
EverySetupTornDown == cur = NoScope /\ ~thrown => \A s \in up : phase[s] = "broken"

\* A test is reported at most once, and exactly once, retries, failed setups and
\* skipped describes included, unless the run was stopped or the file given back.
ReportedOnce ==
    \A t \in Tests :
        /\ reports[t] <= IF t \in file.out THEN 0 ELSE 1
        /\ cur = NoScope /\ stopped = "no" /\ ~thrown /\ t \notin file.out => reports[t] = 1

\* In a serial group no test starts once one of the group has failed, whether it
\* ran or its describe's setup failed, nested describes included.
SerialStops ==
    Starting /\ Group(cur) # NoScope => \A t \in Kept(Group(cur)) : results[t] # "failed"

\* A file's report, from a test and from its serial scope.
Reported == ReportedOnce /\ SerialStops

-----------------------------------------------------------------------------
(* What the documentation says of it, and the code does not do.            *)

\* A test with a reset of its own starts from what it resets to, on every
\* attempt: never from what a failed attempt or a reset cut short left.
OwnResetRuns ==
    Starting /\ file.canReset /\ PolicyOf(cur).scope = "test" /\ PolicyOf(cur).action # "none" =>
        ~app.torn /\ ~app.soiled

=============================================================================
