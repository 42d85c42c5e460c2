------------------------------ MODULE MCWatch ------------------------------
(* Small instances of Watch for TLC.                                       *)
EXTENDS Watch

CONSTANTS f1, f2, setup, app, w1, w2

\* Two projects, one after the other, that share a file.
SharedWaves == << {setup}, {app} >>
SharedDepends == [p \in Projects |-> IF p = app THEN {setup} ELSE {}]
SharedFiles == [p \in Projects |-> IF p = app THEN {f1, f2} ELSE {f1}]
\* The same without the dependency.
NoDepends == [p \in Projects |-> {}]
\* One target.
AnyServes == [w \in Workers |-> Projects]
=============================================================================
