------------------------------ MODULE ExpertLru ------------------------------
(***************************************************************************)
(* What the slice cache promises its callers, without shield, lock, call   *)
(* phases or threads: a set of cached keys totally ordered by recency.  A  *)
(* key enters as the newest, a used key becomes the newest, and the only   *)
(* key that may leave is the oldest one.                                   *)
(***************************************************************************)
CONSTANT Keys

VARIABLES cached,   \* the keys the cache holds
          newer     \* <<a, b>> \in newer: a was used more recently than b

lvars == <<cached, newer>>

\* The order that remains when k leaves the cache or is about to move.
Without(order, k) == {p \in order : p[1] # k /\ p[2] # k}

\* k in front of every key of S, the order of S as it was.
InFront(order, S, k) == Without(order, k) \cup ({k} \X (S \ {k}))

Oldest(order, S, k) == k \in S /\ \A j \in S \ {k} : <<j, k>> \in order

Init == cached = {} /\ newer = {}

\* A key enters, or is used again, as the newest.
Use(k) ==
    /\ cached' = cached \cup {k}
    /\ newer' = InFront(newer, cached, k)

\* Room is made: the oldest key leaves.
Drop(k) ==
    /\ Oldest(newer, cached, k)
    /\ cached' = cached \ {k}
    /\ newer' = Without(newer, k)

Next == \E k \in Keys : Use(k) \/ Drop(k)

Spec == Init /\ [][Next]_lvars
==============================================================================
