--------------------------- MODULE MCWatchModes ---------------------------
(* Watch mode with projects and workers, or with neither: files one by one *)
(* in child processes, from a set that changes while it is gone through.   *)
EXTENDS MCWatch

VARIABLE mode   \* "pool" or "plain"

Plain == INSTANCE Watch WITH
    Projects <- {}, Waves <- <<>>, DependsOn <- <<>>, TestFiles <- <<>>,
    Workers <- {}, Serves <- <<>>, Initial <- {f1}, Keys <- {"a"}

modeVars == <<mode, vars>>

ModeInit == (mode = "pool" /\ Init) \/ (mode = "plain" /\ Plain!Init)

ModeNext ==
    /\ (mode = "pool" /\ Next) \/ (mode = "plain" /\ Plain!Next)
    /\ UNCHANGED mode

PoolDebounceFires == mode = "pool" /\ DebounceFires /\ UNCHANGED mode
PoolRunning == mode = "pool" /\ Running /\ UNCHANGED mode

ModeSpec ==
    /\ ModeInit /\ [][ModeNext]_modeVars
    /\ WF_modeVars(PoolDebounceFires) /\ WF_modeVars(PoolRunning)

\* With workers, a request queued behind a run starts: the run comes to its end,
\* whichever workers it loses, and hands over.
PoolQueueDrains == mode = "pool" /\ pending # NoRequest ~> pending = NoRequest
=============================================================================
