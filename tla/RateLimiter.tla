---------------------------- MODULE RateLimiter ----------------------------
(***************************************************************************)
(* The sliding window that gateway and engine each keep per user: the      *)
(* times of the admitted requests, oldest first.  Time never runs back:    *)
(* the engine's clock is steady, the gateway's is taken to be.             *)
(***************************************************************************)
EXTENDS Integers, Sequences, FiniteSetsExt

CONSTANTS UserIds,    \* the users a request can be counted for
          Window      \* the length of the window

ASSUME WindowAssumption == Window \in Nat

NoHits == [u \in UserIds |-> <<>>]

\* Hits older than the window are popped from the front.
Pruned(q, now) ==
    LET recent == {n \in DOMAIN q : now - q[n] <= Window}
    IN IF recent = {} THEN <<>> ELSE SubSeq(q, Min(recent), Len(q))

\* Mutant: a hit is counted that the limit does not leave room for.
AllowsOneMore(hits, rpm, u, now) == rpm <= 0 \/ Len(Pruned(hits[u], now)) <= rpm

Allows(hits, rpm, u, now) == rpm <= 0 \/ Len(Pruned(hits[u], now)) < rpm

\* The hits after a call of allow; a limit of 0 counts nothing.
Counted(hits, rpm, u, now) ==
    IF rpm <= 0 THEN hits
    ELSE LET kept == Pruned(hits[u], now)
         IN [hits EXCEPT ![u] = IF Len(kept) < rpm THEN Append(kept, now) ELSE kept]
=============================================================================
