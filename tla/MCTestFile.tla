----------------------------- MODULE MCTestFile -----------------------------
(* Small files for TestFile: policies, hooks, serial groups, skips.        *)
EXTENDS TestFile, TLC

CONSTANTS root, x, y, t1, t2, t3, t4

None(scope) == [scope |-> scope, action |-> "none"]
Clear(scope) == [scope |-> scope, action |-> "clear"]
Restore(scope) == [scope |-> scope, action |-> "restore"]

\* A root with one test, a describe x under it, a describe y under both or beside x.
Nested == [root |-> root, path |-> (root :> <<root>> @@ x :> <<root, x>> @@ y :> <<root, x, y>>),
           kids |-> (root :> <<x>> @@ x :> <<y>> @@ y :> <<>>),
           tests |-> (root :> <<t1>> @@ x :> <<t2>> @@ y :> <<t3>>),
           policy |-> [s \in {root, x, y} |-> Clear("file")],
           serial |-> {}, before |-> {root, x, y}, after |-> {root, x, y},
           skip |-> {}, skipScopes |-> {}, out |-> {}, canReset |-> TRUE]
Beside == [Nested EXCEPT !.path = (root :> <<root>> @@ x :> <<root, x>> @@ y :> <<root, y>>),
                         !.kids = (root :> <<x, y>> @@ x :> <<>> @@ y :> <<>>),
                         !.tests = (root :> <<>> @@ x :> <<t1, t2>> @@ y :> <<t3>>)]

\* Every per-file policy of the three scopes, with all the hooks or the root's alone.
PerFile == {[shape EXCEPT !.policy = policy, !.before = before] :
                shape \in {Nested, Beside}, policy \in [{root, x, y} -> {None("file"), Clear("file"), Restore("file")}],
                before \in {{root, x, y}, {root}}}

MCShapes == PerFile \cup {
    \* Serial groups: a describe in one, one that is the whole file.
    [Nested EXCEPT !.serial = {x}, !.tests[root] = <<>>, !.tests[y] = <<t3, t4>>],
    [Beside EXCEPT !.serial = {root, y}, !.policy[y] = Restore("file")],
    \* One whose retries leave the app to the describe beside it.
    [Beside EXCEPT !.serial = {x}, !.before = {}],
    \* A root that resets before every test.
    [Beside EXCEPT !.policy[root] = Clear("test"), !.policy[x] = Clear("test"), !.before = {x}],
    [Beside EXCEPT !.policy[root] = Clear("test"), !.policy[x] = Restore("file"), !.before = {}],
    \* Tests and describes that are skipped or filtered out; nothing can be reset.
    [Nested EXCEPT !.tests[root] = <<t1, t4>>, !.skip = {t1}, !.out = {t4}, !.skipScopes = {y}],
    [Nested EXCEPT !.skip = {t3}, !.out = {t2}],
    [Beside EXCEPT !.canReset = FALSE, !.after = {x}]}

\* A root that resets before every test, with no beforeAll.
MCPerTest == {[Beside EXCEPT !.policy = [s \in {root, x, y} |-> Clear("test")], !.before = {}]}
=============================================================================
