------------------------------ MODULE MCRoutes ------------------------------
(* The scenes of Routes: two routes of a test and two requests, and what   *)
(* may happen to them.                                                     *)
EXTENDS TLC

CONSTANTS anyUrl, oneUrl, q1, q2

Pattern(globs, accepts, times, valid) ==
    [globs |-> globs, accepts |-> accepts, times |-> times, valid |-> valid]
Scene(patterns, requests, breaks, unroutes, disposes) ==
    [pattern |-> patterns, requests |-> requests,
     bounds |-> ("break" :> breaks @@ "unroute" :> unroutes @@ "dispose" :> disposes)]

\* A glob for every URL; a glob for one; a regular expression for that one, which
\* the daemon takes for every URL; a glob used up by one call; one that is refused.
Every == Pattern({q1, q2}, {q1, q2}, 0, TRUE)
Glob == Pattern({q1}, {q1}, 0, TRUE)
Expression == Pattern({q1, q2}, {q2}, 0, TRUE)
Once == Pattern({q1, q2}, {q1, q2}, 1, TRUE)
Refused == Pattern({q1}, {q1}, 0, FALSE)

\* Routes that come and go, with no request; the requests of one route, of a route
\* that is used up, of two routes.
MCScenes ==
    {Scene(anyUrl :> Every @@ oneUrl :> Glob, {}, 1, 1, 1),
     Scene(anyUrl :> Every @@ oneUrl :> Refused, {}, 1, 1, 0),
     Scene(anyUrl :> Every, {q1}, 1, 1, 1),
     Scene(anyUrl :> Once, {q1, q2}, 1, 0, 0),
     Scene(anyUrl :> Every @@ oneUrl :> Expression, {q1}, 1, 0, 0)}
=============================================================================
