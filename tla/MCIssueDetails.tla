-------------------------- MODULE MCIssueDetails --------------------------
(***************************************************************************)
(* A small instance of IssueDetails for TLC.                               *)
(***************************************************************************)
EXTENDS IssueDetails

=============================================================================
