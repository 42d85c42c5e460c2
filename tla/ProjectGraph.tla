---------------------------- MODULE ProjectGraph ----------------------------
(***************************************************************************)
(* The dependency graph of a configuration's projects, from the config to  *)
(* the waves the dispatcher runs (packages/tapsmith/src/project.ts):       *)
(* validateProjects with findCycle, collectTransitiveDeps for the selected *)
(* projects, topologicalSort for the waves.  A project is its position in  *)
(* the config; its dependencies are a list, in which the user may write    *)
(* anything: itself, a name that does not exist, a cycle.                  *)
(***************************************************************************)
EXTENDS Integers, Sequences, FiniteSets

CONSTANTS
    NumProjects,
    DependencyLists   \* the `dependencies` lists a project may have

Positions == 1..NumProjects   \* the projects, by their place in the config
Unknown == 0          \* a name no project has
Elements(s) == {s[i] : i \in DOMAIN s}

ProjectsWellFormed ==
    /\ NumProjects \in Nat \ {0}
    /\ DependencyLists \subseteq Seq(Positions \cup {Unknown})

VARIABLES
    dependencies, \* the config: per project its list
    selected,     \* --project names, or all of them
    phase,        \* "validating", "collecting", "sorting"; then "sorted",
                  \* or "refused" (ConfigValidationError), or "threw"
    path, look,   \* findCycle: the dfs stack, and per project the next entry of
                  \* its list to look at
    visited,
    cycle,        \* the cycle found, <<>> if none
    todo, required,        \* collectTransitiveDeps: names to collect, and result
    remaining, inDegree, waves   \* topologicalSort

dfsVars == <<path, look, visited, cycle>>
collectVars == <<todo, required>>
sortVars == <<remaining, inDegree, waves>>
vars == <<dependencies, selected, phase, dfsVars, collectVars, sortVars>>

Init ==
    /\ dependencies \in [Positions -> DependencyLists]
    /\ selected \in (SUBSET Positions) \ {{}}
    /\ phase = "validating"
    /\ path = <<>> /\ look = [p \in Positions |-> 1]
    /\ visited = {} /\ cycle = <<>>
    /\ todo = {} /\ required = {}
    /\ remaining = {} /\ inDegree = [p \in Positions |-> 0] /\ waves = <<>>

-----------------------------------------------------------------------------
(* validateProjects.                                                       *)

\* No project names itself or a project that does not exist.
ReferencesSound == \A p \in Positions : Elements(dependencies[p]) \cap {p, Unknown} = {}

\* A bad reference is an issue of its own; findCycle is not even tried.
RefuseReference ==
    /\ phase = "validating" /\ ~ReferencesSound
    /\ phase' = "refused"
    /\ UNCHANGED <<dependencies, selected, dfsVars, collectVars, sortVars>>

Push(p) == path' = Append(path, p)
Top == path[Len(path)]

\* findCycle's loop over the projects: the next dfs root.
DfsRoot ==
    /\ phase = "validating" /\ ReferencesSound /\ path = <<>>
    /\ \E p \in Positions \ visited :
          /\ \A q \in Positions \ visited : p <= q
          /\ Push(p)
    /\ UNCHANGED <<dependencies, selected, phase, look, visited, cycle, collectVars, sortVars>>

\* Mutant: a project met again is taken for a cycle, on the stack or not.
DfsEdgeToVisited ==
    /\ phase = "validating" /\ path # <<>> /\ look[Top] <= Len(dependencies[Top])
    /\ look' = [look EXCEPT ![Top] = @ + 1]
    /\ LET dep == dependencies[Top][look[Top]]
       IN  IF dep \in Elements(path) \cup visited
           THEN /\ phase' = "refused"
                /\ cycle' = <<Top, dep>>
                /\ UNCHANGED path
           ELSE Push(dep) /\ UNCHANGED <<phase, cycle>>
    /\ UNCHANGED <<dependencies, selected, visited, collectVars, sortVars>>

\* The next dependency of the project on top of the stack.
DfsEdge ==
    /\ phase = "validating" /\ path # <<>> /\ look[Top] <= Len(dependencies[Top])
    /\ look' = [look EXCEPT ![Top] = @ + 1]
    /\ LET dep == dependencies[Top][look[Top]]
       IN  \/ \E i \in DOMAIN path :
                 /\ path[i] = dep
                 /\ cycle' = Append(SubSeq(path, i, Len(path)), dep)
                 /\ phase' = "refused"
                 /\ UNCHANGED path
           \/ /\ dep \notin Elements(path) /\ dep \in visited
              /\ UNCHANGED <<path, phase, cycle>>
           \/ /\ dep \notin Elements(path) /\ dep \notin visited
              /\ Push(dep)
              /\ UNCHANGED <<phase, cycle>>
    /\ UNCHANGED <<dependencies, selected, visited, collectVars, sortVars>>

DfsReturn ==
    /\ phase = "validating" /\ path # <<>> /\ look[Top] > Len(dependencies[Top])
    /\ visited' = visited \cup {Top}
    /\ path' = SubSeq(path, 1, Len(path) - 1)
    /\ UNCHANGED <<dependencies, selected, phase, look, cycle, collectVars, sortVars>>

Accept ==
    /\ phase = "validating" /\ ReferencesSound /\ path = <<>> /\ visited = Positions
    /\ phase' = "collecting"
    /\ todo' = selected
    /\ UNCHANGED <<dependencies, selected, dfsVars, required, sortVars>>

-----------------------------------------------------------------------------
\* collectTransitiveDeps: collect(name) for a name not collected yet.
Collect(p) ==
    /\ phase = "collecting" /\ p \in todo
    /\ required' = required \cup {p}
    /\ todo' = (todo \cup Elements(dependencies[p])) \ required'
    /\ UNCHANGED <<dependencies, selected, phase, dfsVars, sortVars>>

\* The run keeps the required projects; topologicalSort counts their dependencies,
\* one for each entry of the list.
StartSort ==
    /\ phase = "collecting" /\ todo = {}
    /\ phase' = "sorting"
    /\ remaining' = required
    /\ inDegree' = [p \in Positions |-> IF p \in required THEN Len(dependencies[p]) ELSE 0]
    /\ UNCHANGED <<dependencies, selected, dfsVars, collectVars, waves>>

NextWave == {p \in remaining : inDegree[p] = 0}

\* One turn of the while loop: the projects with no dependency left, each of
\* which takes one off the in-degree of every project whose list includes it.
SortWave ==
    /\ phase = "sorting" /\ remaining # {} /\ NextWave # {}
    /\ waves' = Append(waves, NextWave)
    /\ remaining' = remaining \ NextWave
    /\ inDegree' = [p \in Positions |->
          IF p \in required
          THEN inDegree[p] - Cardinality(NextWave \cap Elements(dependencies[p]))
          ELSE inDegree[p]]
    /\ UNCHANGED <<dependencies, selected, phase, dfsVars, collectVars>>

\* "Circular dependency detected among projects"
SortThrows ==
    /\ phase = "sorting" /\ remaining # {} /\ NextWave = {}
    /\ phase' = "threw"
    /\ UNCHANGED <<dependencies, selected, dfsVars, collectVars, sortVars>>

Sorted ==
    /\ phase = "sorting" /\ remaining = {}
    /\ phase' = "sorted"
    /\ UNCHANGED <<dependencies, selected, dfsVars, collectVars, sortVars>>

Terminated == phase \in {"sorted", "refused", "threw"} /\ UNCHANGED vars

Next ==
    \/ RefuseReference \/ DfsRoot \/ DfsEdge \/ DfsReturn \/ Accept
    \/ (\E p \in Positions : Collect(p)) \/ StartSort
    \/ SortWave \/ SortThrows \/ Sorted \/ Terminated

Spec == Init /\ [][Next]_vars

-----------------------------------------------------------------------------
(* Properties.                                                             *)

\* A set of projects each of which depends on one in the set.
Knotted(S) == S # {} /\ \A p \in S : Elements(dependencies[p]) \cap S # {}

\* The projects that run are the selected ones and everything they need.
RequiredIsClosure ==
    /\ selected \subseteq required
    /\ \A p \in required : Elements(dependencies[p]) \subseteq required
    /\ \A S \in SUBSET required :
          selected \subseteq S /\ (\A p \in S : Elements(dependencies[p]) \subseteq S) => S = required

\* p's list names a dependency twice.
NamesTwice(p) == \E i, j \in DOMAIN dependencies[p] : i # j /\ dependencies[p][i] = dependencies[p][j]

\* validateProjects refuses a config exactly when a reference is bad or the
\* dependencies are cyclic, and the cycle it names is one: each project on it
\* depends on the next and the last is the first.  Otherwise the waves hold the
\* selected projects and what they need, no setup project forgotten and none run
\* for nothing: each once, after everything it depends on and no later than that
\* makes necessary.  The named exception: topologicalSort throws, of a "circular
\* dependency" its comment says should not happen here, exactly when a list of a
\* project that would run names a dependency twice.
PlannedSoundly ==
    /\ phase = "refused" => \/ ~ReferencesSound
                            \/ /\ Len(cycle) > 1 /\ cycle[1] = cycle[Len(cycle)]
                               /\ \A i \in 1..Len(cycle) - 1 :
                                     cycle[i + 1] \in Elements(dependencies[cycle[i]])
    /\ phase \in {"collecting", "sorting", "sorted", "threw"} =>
          ReferencesSound /\ ~\E S \in SUBSET Positions : Knotted(S)
    /\ phase = "threw" => RequiredIsClosure /\ \E p \in required : NamesTwice(p)
    /\ phase = "sorted" =>
        /\ RequiredIsClosure
        /\ \A p \in required : ~NamesTwice(p)
        /\ \A p \in required : \E i \in DOMAIN waves : p \in waves[i]
        /\ \A i \in DOMAIN waves : waves[i] \subseteq required
        /\ \A i, j \in DOMAIN waves : i # j => waves[i] \cap waves[j] = {}
        /\ \A i \in DOMAIN waves : \A p \in waves[i] :
              /\ \A d \in Elements(dependencies[p]) : \E j \in 1..i - 1 : d \in waves[j]
              /\ i > 1 => Elements(dependencies[p]) \cap waves[i - 1] # {}
=============================================================================
