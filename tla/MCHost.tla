------------------------------- MODULE MCHost -------------------------------
(* What daemons do to their host, one at a time: they borrow the animation *)
(* scales of Android devices or the system proxy of a Mac and give them    *)
(* back, or start the agent of a simulator.                                *)
EXTENDS AnimationScales, SystemProxy, LaunchGate, TLC

CONSTANTS a, b, s1, t1, v1, w1, wifi, lan, u1, u2

VARIABLE part   \* "scales", "proxy" or "start": what this behaviour is about

\* The first daemon captures twice.
Captures == (a :> 2 @@ b :> 1)

\* What each part has of its own; the daemons and the bounds are common to the first two.
ownScales == <<running, scale, own, records, applied, op, next, late>>
ownProxy == <<active, diskVars, jobs, work, leaseVars, ghostVars>>
hostVars == <<part, scaleVars, proxyVars, gateVars>>

\* The bypass list has entries of the user's own on one network service and none on
\* the other, and of the four scales one is off already; the parts a behaviour is
\* not about stay at one initial state.
HostInit ==
    /\ part \in {"scales", "proxy", "start"}
    /\ ScalesInit /\ running = (s1 :> v1 @@ t1 :> w1)
    /\ scale = (v1 :> (1 :> "one" @@ 2 :> "off") @@ w1 :> (1 :> "one" @@ 2 :> "one"))
    /\ Init /\ active = wifi /\ userList = (wifi :> u2 @@ lan :> u1)
    /\ GateInit /\ (part # "start" => ~wanted /\ waits)

HostNext ==
    \/ part = "scales" /\ ScalesNext /\ UNCHANGED <<part, ownProxy, gateVars>>
    \/ part = "proxy" /\ Next /\ UNCHANGED <<part, ownScales, gateVars>>
    \/ part = "start" /\ GateNext /\ UNCHANGED <<part, scaleVars, proxyVars>>

HostSpec == HostInit /\ [][HostNext]_hostVars
=============================================================================
