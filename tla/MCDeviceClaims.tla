--------------------------- MODULE MCDeviceClaims ---------------------------
(* Small instances of DeviceClaims for TLC.                                *)
EXTENDS DeviceClaims

CONSTANTS d1, cli, worker, server, runSession, mcpSession

\* A run of two processes and a server.
TwoSessionOf == [p \in Processes |-> IF p = server THEN mcpSession ELSE runSession]
TwoRoots == [s \in Sessions |-> IF s = mcpSession THEN server ELSE cli]

\* At most one pid answers for a dead process at a time, and the run's root alone
\* is sure to go on (MCPlanning).
SmallNext == Next /\ Cardinality({p \in Processes : alive'[p] = "recycled"}) <= 1

\* No call blocks, whatever happened to the lock and whether or not its holder
\* goes on: a claim, a release or the exit hook of a process that stays up ends.
CallsReturn == CallReturns(cli)
=============================================================================
