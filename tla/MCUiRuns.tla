------------------------------ MODULE MCUiRuns ------------------------------
(* Small sessions of UiRuns for TLC: two workers and two files, on one     *)
(* device target, on one each, or one file behind the other.               *)
EXTENDS UiRuns, TLC

CONSTANTS f1, f2, p1, p2, android, ios, r1, r2

TwoFiles == <<f1, f2>>

Session(project2, target2, needs2, bounds) ==
    [project |-> (f1 :> p1 @@ f2 :> project2), target |-> (p1 :> android @@ p2 :> target2),
     device |-> (1 :> android @@ 2 :> target2), needs |-> (p1 :> {} @@ p2 :> needs2),
     wave |-> (p1 :> 1 @@ p2 :> IF needs2 = {} THEN 1 ELSE 2), bounds |-> bounds]

Bound(death, save, stop, ask, click) ==
    [o \in Occasions |-> CASE o = "death" -> death [] o = "save" -> save [] o = "stop" -> stop
                           [] o = "ask" -> ask [] o = "click" -> click]

\* Both files of one project, with deaths, saves or stops; a project per target;
\* a project and its dependent.
Sessions ==
    {Session(p1, android, {}, Bound(2, 0, 1, 1, 0)),
     Session(p1, android, {}, Bound(0, 1, 0, 2, 0)),
     Session(p1, android, {}, Bound(0, 0, 1, 2, 0)),
     Session(p2, ios, {}, Bound(1, 0, 1, 1, 0)),
     Session(p2, android, {p1}, Bound(1, 0, 1, 1, 1))}
=============================================================================
