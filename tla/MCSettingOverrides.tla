------------------------ MODULE MCSettingOverrides ------------------------
(***************************************************************************)
(* A small instance of SettingOverrides for TLC: the two settings that     *)
(* turn a job off, and one that can't be edited.                           *)
(***************************************************************************)
EXTENDS SettingOverrides

CONSTANTS keep, hashes, port, backup, covers, sync

MCValues == {-1, 0, 1}
MCBase == [n \in Names |-> IF n = hashes THEN 0 ELSE 1]
MCMinimum == [n \in Names |-> 0]
MCJobs == <<backup, sync, covers>>
MCSwitchOf == [j \in OffAtZero |-> IF j = backup THEN keep ELSE hashes]

=============================================================================
