------------------------ MODULE MCBlockedPublishers ------------------------
(***************************************************************************)
(* A small instance of BlockedPublishers for TLC: two publishers with a    *)
(* volume each, an issue of the first, which is seeded as blocked.         *)
(***************************************************************************)
EXTENDS BlockedPublishers

CONSTANTS manga, comics, vol1, vol2, iss1

MCPublisherOf == [v \in Volumes |-> IF v = vol1 THEN manga ELSE comics]
MCVolumeOf == [i \in Issues |-> vol1]
MCSeed == [p \in Publishers |-> IF p = manga THEN "block" ELSE "none"]

=============================================================================
