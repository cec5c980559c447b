--------------------------- MODULE RequestService ---------------------------
(***************************************************************************)
(* What the re-scan service of backend/main.py promises the portal: it     *)
(* accepts requests one after the other, takes them up in the order in     *)
(* which they were accepted, loses none and begins the check run of each   *)
(* of them at most once.                                                   *)
(*                                                                         *)
(* A request is named by its place in the order of acceptance.  Several    *)
(* requests may be in hand at once (two workers serve while one replaces   *)
(* the other), and these may begin in any order: what is promised is that  *)
(* no request overtakes another one while both wait.  Threads, queue and   *)
(* restarts belong to RescanQueue, which implements this module.           *)
(***************************************************************************)
EXTENDS Naturals

VARIABLES
    accepted,  \* number of requests accepted so far
    waiting,   \* requests nobody has taken up yet
    hand,      \* requests taken up, whose run has not begun
    begun      \* requests whose run has begun, and perhaps ended

Init == accepted = 0 /\ waiting = {} /\ hand = {} /\ begun = {}

Accept == /\ accepted' = accepted + 1
          /\ waiting' = waiting \cup {accepted + 1}
          /\ UNCHANGED <<hand, begun>>

Take == \E r \in waiting :
          /\ \A q \in waiting : r <= q
          /\ waiting' = waiting \ {r}
          /\ hand' = hand \cup {r}
          /\ UNCHANGED <<accepted, begun>>

Begin == \E r \in hand \ begun :
           /\ hand' = hand \ {r}
           /\ begun' = begun \cup {r}
           /\ UNCHANGED <<accepted, waiting>>

Next == Accept \/ Take \/ Begin

Spec == Init /\ [][Next]_<<accepted, waiting, hand, begun>>
=============================================================================
