---------------------------- MODULE MCDispatcher ----------------------------
(* Small instances of Dispatcher for TLC.                                  *)
EXTENDS Dispatcher

CONSTANTS f1, f2, f3, setup, app

\* Two waves: a project of two files, and a project that depends on it.
TwoWaveFiles == {f1, f2, f3}
TwoWaveProjects == {setup, app}
TwoWaveProjectOf == [f \in TwoWaveFiles |-> IF f = f3 THEN app ELSE setup]
TwoWaveProjectWaves == <<{setup}, {app}>>
TwoWaveWaveFiles == <<<<f1, f2>>, <<f3>>>>
TwoWaveDependencies == [p \in TwoWaveProjects |-> IF p = app THEN {setup} ELSE {}]
TwoWaveNumTests == [f \in TwoWaveFiles |-> IF f = f3 THEN 1 ELSE 0]
=============================================================================
