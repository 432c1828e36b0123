--------------------------- MODULE MCSearchCache ---------------------------
(***************************************************************************)
(* A small instance of SearchCache for TLC.                                *)
(*                                                                         *)
(* "bat" and "batman tales", which has the first one in the middle of a    *)
(* word, over three volumes: 1 "Batman Tales: Bat", 2 "Batman Tales" and   *)
(* 3 "Bat Tales".  At first ComicVine has the last two.  The edit takes    *)
(* one away, so that a search finds less, or adds the first, so that its   *)
(* pages no longer fit.                                                    *)
(***************************************************************************)
EXTENDS SearchCache

MCHits == [q \in Queries |-> IF q = "bat" THEN {1, 3} ELSE {1, 2, 3}]
MCNamed == [q \in Queries |-> IF q = "bat" THEN {1, 2, 3} ELSE {1, 2}]
MCWorded == [q \in Queries |-> IF q = "bat" THEN {1, 3} ELSE {1, 2}]
MCBroader == [q \in Queries |-> IF q = "bat" THEN {} ELSE {"bat"}]
MCFirst == <<2, 3>>

=============================================================================
