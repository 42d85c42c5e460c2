-------------------------- MODULE DaemonProcesses --------------------------
(***************************************************************************)
(* The daemons of one host, each a process (packages/tapsmith-core), and   *)
(* what comes from outside of what they do to their host: commands that    *)
(* fail and changes its users make.  What they do is in the modules that   *)
(* extend this one: AnimationScales and SystemProxy.                       *)
(***************************************************************************)

CONSTANTS
    Daemons,
    MaxFails, MaxChanges  \* bounds on failing commands and on changes from outside

VARIABLES
    proc,                 \* per daemon: "new", "up", "dead"
    fails, changes        \* so far
=============================================================================
