---------------------------- MODULE HourlyQuota ----------------------------
(***************************************************************************)
(* What the limiter of cv_client.py promises ComicVine: over the whole     *)
(* life of the deployment, process restarts included, no endpoint path is  *)
(* granted more than MaxLimit call slots in any hour.  Slots whose record  *)
(* was lost (Forget: the state file could not be written or read back)     *)
(* count no more.                                                          *)
(*                                                                         *)
(* RateLimiter implements this specification; a restart that reads its     *)
(* state file back is a stuttering step of it.                             *)
(***************************************************************************)
EXTENDS Integers, FiniteSets

CONSTANTS
  Endpoints,  \* the path segments ComicVine budgets separately
  MaxLimit,   \* largest number of slots per endpoint and hour
  Hour,       \* length of the sliding window
  MaxBurst    \* bound: slots of one endpoint granted in one instant

VARIABLES
  now,        \* wall clock
  granted     \* per endpoint, the slots granted in the hour that ends now

quotaVars == <<now, granted>>

\* A slot is the moment it was granted and, within one instant, a number.
Slot == [at : Int, id : Nat]

\* Slots of S that still count at time t.
Recent(S, t) == {s \in S : s.at > t - Hour}

\* The slot for the next call in this instant.
NextSlot(S, slot) ==
  /\ slot.at = now
  /\ slot.id \in 1..MaxBurst
  /\ slot \notin S
  /\ \A j \in 1..(slot.id - 1) : [at |-> now, id |-> j] \in S

QuotaInit ==
  /\ now \in Nat
  /\ granted = [e \in Endpoints |-> {}]

Grant(e) ==
  /\ Cardinality(granted[e]) < MaxLimit
  /\ \E id \in 1..MaxBurst :
       LET slot == [at |-> now, id |-> id] IN
       /\ NextSlot(granted[e], slot)
       /\ granted' = [granted EXCEPT ![e] = @ \cup {slot}]
  /\ UNCHANGED now

Pass ==
  /\ now' = now + 1
  /\ granted' = [e \in Endpoints |-> Recent(granted[e], now')]

Forget ==
  /\ \A e \in Endpoints : granted'[e] \subseteq granted[e]
  /\ DOMAIN granted' = Endpoints
  /\ UNCHANGED now

QuotaNext == Pass \/ Forget \/ \E e \in Endpoints : Grant(e)

QuotaSpec == QuotaInit /\ [][QuotaNext]_quotaVars

-----------------------------------------------------------------------------
\* In the hour that ends now, so in every hour, an endpoint got at most
\* MaxLimit slots (README.md:78, "Upstream calls per hour per CV endpoint
\* path"; cv_client.py:164-169).
SlidingHourBound ==
  \A e \in Endpoints : Cardinality(granted[e]) <= MaxLimit

=============================================================================
