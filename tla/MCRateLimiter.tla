--------------------------- MODULE MCRateLimiter ---------------------------
(***************************************************************************)
(* A small instance of RateLimiter for TLC: one endpoint, two client       *)
(* requests and a job.                                                     *)
(***************************************************************************)
EXTENDS RateLimiter, TLC

CONSTANTS volumes, live1, live2, job1

\* The client requests are interchangeable.
Symmetry == Permutations(Live)

=============================================================================
