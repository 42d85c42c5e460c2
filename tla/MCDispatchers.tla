---------------------------- MODULE MCDispatchers ----------------------------
(* What hands out the test files of a run: the dispatcher of a parallel    *)
(* run, whose workers take one after another (Dispatcher), or an MCP       *)
(* session without UI mode, which forks a process per file (McpRuns).      *)
EXTENDS MCDispatcher, McpRuns, TLC

CONSTANTS d1, d2

VARIABLE part   \* "parallel" or "mcp": what a behaviour is about

\* A session of McpRuns: the files of a run, the tests in each, the places for
\* processes, whether the target is up, what a call may name, and how many runs,
\* device tools, Stops, saves, deaths of processes and of the daemon there may be.
Session(files, tests, kids, warm, choices, bounds) ==
    [files |-> files, tests |-> (f1 :> tests[1] @@ f2 :> tests[2]), kids |-> kids, warm |-> warm,
     choices |-> choices,
     bounds |-> [o \in {"run", "tool", "stop", "save", "death", "daemon"} |->
                     CASE o = "run" -> bounds[1] [] o = "tool" -> bounds[2] [] o = "stop" -> bounds[3]
                       [] o = "save" -> bounds[4] [] o = "death" -> bounds[5] [] o = "daemon" -> bounds[6]]]

\* A run of two files, stopped or not, whose processes may break; a run stopped
\* twice and the one after it; calls that name a device while the target fails or
\* its daemon dies; files written under way.
Sessions ==
    <<Session(<<f1, f2>>, <<2, 1>>, 2, TRUE, {NoDevice}, <<1, 0, 1, 0, 1, 0>>),
      Session(<<f1>>, <<1, 0>>, 2, TRUE, {NoDevice}, <<2, 0, 2, 0, 0, 0>>),
      Session(<<f1>>, <<0, 0>>, 1, FALSE, {NoDevice, d1, d2}, <<2, 1, 0, 0, 0, 1>>),
      Session(<<f1, f2>>, <<0, 0>>, 1, FALSE, {NoDevice, d1}, <<1, 2, 0, 0, 0, 1>>),
      Session(<<f1>>, <<0, 0>>, 1, TRUE, {NoDevice, d1, d2}, <<3, 0, 0, 0, 0, 1>>),
      Session(<<f1>>, <<0, 0>>, 1, TRUE, {NoDevice}, <<2, 0, 0, 1, 0, 0>>),
      Session(<<f1>>, <<0, 0>>, 1, FALSE, {NoDevice}, <<2, 0, 0, 1, 0, 0>>)>>

partVars == <<part, vars, mcpVars>>

\* The part a behaviour is not about stays at one initial state.
PartInit ==
    /\ part \in {"parallel", "mcp"} /\ Init /\ McpInit
    /\ part = "parallel" => scene = Len(Sessions)

PartNext ==
    \/ part = "parallel" /\ Next /\ UNCHANGED <<part, mcpVars>>
    \/ part = "mcp" /\ McpNext /\ UNCHANGED <<part, vars>>

InParallel(A) == part = "parallel" /\ A

\* The fairness of Dispatcher, for the behaviours about it.
PartSpec ==
    /\ PartInit /\ [][PartNext]_partVars
    /\ \A w \in Workers : /\ WF_vars(InParallel(MainEvent(w)))
                          /\ WF_vars(InParallel(WorkerStep(w)))
                          /\ WF_vars(InParallel(ShutdownTimeout(w)))
    /\ WF_vars(InParallel(EnterWave \/ Finally \/ Return \/ ExitProcess))

\* A parallel run always ends, whichever workers crash and whenever: it returns,
\* throws or exits, and every worker process is gone for good.
ParallelRunEnds == part = "parallel" => RunEnds
=============================================================================
