---------------------------- MODULE CallWindows ----------------------------
(***************************************************************************)
(* What those who call ComicVine may rely on of the limiter (get and       *)
(* retry_after of cv_client.py): a call takes a slot of its endpoint's     *)
(* window, and only while there is one left at that moment, whatever the   *)
(* caller saw before it waited; slots come back as calls grow older than   *)
(* an hour; a refusal begins a pause, which time ends.                     *)
(*                                                                         *)
(* RateLimiter implements this specification, and PendingQueue, which      *)
(* keeps no more of the limiter than its two variables, takes slots as it  *)
(* allows.                                                                 *)
(***************************************************************************)
EXTENDS Integers

CONSTANTS Endpoints, Limit

VARIABLES
  used,     \* endpoint -> calls of the last hour
  cooling   \* a pause is not over

WindowsInit ==
  /\ used = [e \in Endpoints |-> 0]
  /\ cooling = FALSE

TakeSlot(e) ==
  /\ used[e] < Limit
  /\ used' = [used EXCEPT ![e] = @ + 1]
  /\ UNCHANGED cooling

BeginPause ==
  /\ cooling' = TRUE
  /\ UNCHANGED used

\* Time passes, or a new process knows less of the last hour.
Pass ==
  /\ used' \in [Endpoints -> 0..Limit]
  /\ \A e \in Endpoints : used'[e] <= used[e]
  /\ cooling' \in {cooling, FALSE}

WindowsNext == (\E e \in Endpoints : TakeSlot(e)) \/ BeginPause \/ Pass

WindowsSpec == WindowsInit /\ [][WindowsNext]_<<used, cooling>>
=============================================================================
