------------------------- MODULE MCIncrementalSync -------------------------
(***************************************************************************)
(* A small instance of IncrementalSync for TLC.  A unit of time is half a  *)
(* slice; pages hold one item, so that slices have several.                *)
(***************************************************************************)
EXTENDS IncrementalSync

=============================================================================
