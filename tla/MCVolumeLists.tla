--------------------------- MODULE MCVolumeLists ---------------------------
(***************************************************************************)
(* A small instance of VolumeLists for TLC.                                *)
(***************************************************************************)
EXTENDS VolumeLists

CONSTANTS issue1, issue2, issue3

MCFirst == <<issue1, issue2>>

=============================================================================
