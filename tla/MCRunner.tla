------------------------------ MODULE MCRunner ------------------------------
(* The test runner, one part of it at a time: a file's scopes and tests    *)
(* (TestFile), the budget of its bodies and hooks (BoundedRun), or the     *)
(* routes its tests register (Routes).                                     *)
EXTENDS MCTestFile, MCRoutes, BoundedRun

CONSTANTS RouteIds, Requests, Scenes, MaxStreams, NoRoute

VARIABLES part,   \* "file", "budget" or "routes": what this behaviour is about
    scene, occasions, stream, opened, routes, confirmed, left, added, adding,
    removing, armed, call, said, link, sent, down, serving, registered, toSdk,
    forwards, active, installed, proxyOn, where, via, matched, pending, answer,
    result

\* The names that BoundedRun and TestFile have taken.
R == INSTANCE Routes WITH
    spent <- occasions, up <- sent, phase <- serving, at <- where, outcome <- result

sessionVars == <<scene, occasions, stream, opened, routes, confirmed, left, added,
                 adding, removing, armed, call, said, link, sent, down, serving,
                 registered, toSdk, forwards, active, installed, proxyOn, where,
                 via, matched, pending, answer, result>>
runnerVars == <<part, vars, boundedVars, sessionVars>>

\* The parts a behaviour is not about stay at one initial state.
RunnerInit ==
    /\ part \in {"file", "budget", "routes"}
    /\ Init /\ BudgetInit /\ R!Init
    /\ part # "budget" => \A r \in Runs : kind[r] = "body"
    /\ part # "file" => file = Nested /\ prepared = NoPolicy
    /\ part # "routes" => scene = CHOOSE chosen \in Scenes : TRUE

RunnerNext ==
    \/ part = "file" /\ Next /\ UNCHANGED <<part, boundedVars, sessionVars>>
    \/ part = "budget" /\ BudgetNext /\ UNCHANGED <<part, vars, sessionVars>>
    \/ part = "routes" /\ R!Next /\ UNCHANGED <<part, vars, boundedVars>>

RunnerSpec == RunnerInit /\ [][RunnerNext]_runnerVars

\* A test and a nested beforeAll start on a clean and complete set-up (TestFile).
CleanStart == FailureNeverInherited /\ NeverHalfBuilt

\* A request of the app is held only while somebody owes it an answer, and gets the
\* answer that was made (Routes).
RequestsServed == R!HeldOnlyWhenOwed /\ R!AnswerHonoured

\* The device's requests go where the test's routes say (Routes).
RoutesRestored == R!RoutesRestored
=============================================================================
