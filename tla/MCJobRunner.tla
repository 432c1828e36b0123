---------------------------- MODULE MCJobRunner ----------------------------
(***************************************************************************)
(* A small instance of JobRunner for TLC, with two jobs that differ in all *)
(* it tells apart: `backup` (database_backup) works on a thread and can't  *)
(* be cancelled, `pending` (pending_fetch) is quiet, works on the event    *)
(* loop and can.                                                           *)
(***************************************************************************)
EXTENDS JobRunner

CONSTANTS backup, pending

=============================================================================
