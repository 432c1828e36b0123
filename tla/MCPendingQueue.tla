--------------------------- MODULE MCPendingQueue ---------------------------
(***************************************************************************)
(* A small instance of PendingQueue for TLC: two issues on one endpoint    *)
(* and the issue list of a volume, which takes several calls, on another.  *)
(***************************************************************************)
EXTENDS PendingQueue

CONSTANTS issue, annual, list, issueEndpoint, listEndpoint, filler

MCEndpointOf == [i \in Items |-> IF i \in Lists THEN listEndpoint ELSE issueEndpoint]
MCBackfillOf == [b \in Backfills |-> issueEndpoint]

=============================================================================
