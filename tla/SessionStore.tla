---------------------------- MODULE SessionStore ----------------------------
(***************************************************************************)
(* Conversation slots and the KV lanes they own (runtime/cne_session.cpp). *)
(* A slot remembers which tokens it believes are in its lane; the lane     *)
(* itself belongs to the llama context.  This module has the state and the *)
(* operations; ChatServer has the threads that call them.                  *)
(***************************************************************************)
EXTENDS Integers, Sequences, FiniteSets

CONSTANTS Convs,          \* conversation ids
          Owners,         \* tenant ids, NoOwner among them
          NoOwner,        \* the empty owner of single-tenant mode
          Tokens,
          NumLanes,       \* n_seq_cap_
          MaxSlots,       \* max_slots_
          MaxSlotsPerUser \* max_slots_per_user_, 0 = no cap

ASSUME StoreAssumption ==
    /\ IsFiniteSet(Convs)
    /\ NoOwner \in Owners
    /\ NumLanes \in Nat \ {0}
    /\ MaxSlots \in Nat \ {0}
    /\ MaxSlotsPerUser \in Nat

VARIABLES live,     \* slots_: the conversations with a slot
          owner,    \* SessionSlot::owner
          lane,     \* SessionSlot::seq_id
          ledger,   \* SessionSlot::kv_tokens
          last,     \* SessionSlot::last_tick
          born,     \* identity of the map node: the tick of its creation
          tick,     \* tick_
          free,     \* seq_free_: the free lanes
          kv        \* the tokens in each lane of the llama context

slot == <<owner, lane, ledger, last, born>>
store == <<live, slot, tick, free>>

Lanes == 0 .. NumLanes - 1

StoreInit ==
    /\ live = {} /\ tick = 0 /\ free = Lanes
    /\ owner = [c \in Convs |-> NoOwner]
    /\ lane = [c \in Convs |-> -1]
    /\ ledger = [c \in Convs |-> <<>>]
    /\ last = [c \in Convs |-> 0]
    /\ born = [c \in Convs |-> 0]
    /\ kv = [l \in Lanes |-> <<>>]

-----------------------------------------------------------------------------
(* The slots.                                                              *)

Owned(o) == {c \in live : owner[c] = o}

\* count_for_owner: anonymous slots are never counted.
CountForOwner(o) == IF o = NoOwner THEN 0 ELSE Cardinality(Owned(o))

\* Mutant: the cap is tested as if the new slot were there already.
OverUserCapLate(o) ==
    o # NoOwner /\ MaxSlotsPerUser > 0 /\ CountForOwner(o) > MaxSlotsPerUser

OverUserCap(o) ==
    o # NoOwner /\ MaxSlotsPerUser > 0 /\ CountForOwner(o) >= MaxSlotsPerUser

Oldest(S, c) == c \in S /\ \A d \in S : last[c] <= last[d]

\* Mutant: the lane of the slot is cleared but not given back.
DiscardKeepsLane(c) ==
    /\ live' = live \ {c}
    /\ owner' = [owner EXCEPT ![c] = NoOwner]
    /\ lane' = [lane EXCEPT ![c] = -1]
    /\ ledger' = [ledger EXCEPT ![c] = <<>>]
    /\ last' = [last EXCEPT ![c] = 0]
    /\ born' = [born EXCEPT ![c] = 0]
    /\ kv' = [l \in Lanes |-> IF l = lane[c] THEN <<>> ELSE kv[l]]
    /\ UNCHANGED <<tick, free>>

\* A slot leaves the map: its lane is cleared and goes back to the free ones.
\* remove, evict_lru and evict_lru_for_owner all end like this.
Discard(c) ==
    /\ live' = live \ {c}
    /\ owner' = [owner EXCEPT ![c] = NoOwner]
    /\ lane' = [lane EXCEPT ![c] = -1]
    /\ ledger' = [ledger EXCEPT ![c] = <<>>]
    /\ last' = [last EXCEPT ![c] = 0]
    /\ born' = [born EXCEPT ![c] = 0]
    /\ kv' = [l \in Lanes |-> IF l = lane[c] THEN <<>> ELSE kv[l]]
    /\ free' = free \cup ({lane[c]} \cap Lanes)
    /\ UNCHANGED tick

Remove(c) == IF c \in live THEN Discard(c) ELSE UNCHANGED <<store, kv>>

\* Mutant: the oldest slot of all goes, whoever owns it.
EvictLruOfAny(o) == \E c \in live : Oldest(live, c) /\ Discard(c)

EvictLruForOwner(o) == \E c \in live : Oldest(Owned(o), c) /\ Discard(c)

EvictLru == \E c \in live : Oldest(live, c) /\ Discard(c)

\* Mutant: the owner is not compared.
MismatchNever(c, o) == FALSE

\* get_or_create of an id that has a slot owned by someone else.
Mismatch(c, o) ==
    c \in live /\ o # NoOwner /\ owner[c] # NoOwner /\ owner[c] # o

\* get_or_create of an id that has a slot; an anonymous slot is adopted.
Find(c, o) ==
    /\ c \in live /\ ~Mismatch(c, o)
    /\ owner' = [owner EXCEPT ![c] = IF @ = NoOwner THEN o ELSE @]
    /\ tick' = tick + 1
    /\ last' = [last EXCEPT ![c] = tick + 1]
    /\ UNCHANGED <<live, lane, ledger, born, free, kv>>

\* Mutant: the scan comes from the end and is off by one.
AllocSeqFromEnd ==
    IF free = {} THEN -1 ELSE (CHOOSE l \in free : \A m \in free : l >= m) + 1

\* alloc_seq: the lowest free lane, -1 when there is none.
AllocSeq == IF free = {} THEN -1 ELSE CHOOSE l \in free : \A m \in free : l <= m

\* get_or_create of a new id, once room has been made.
Create(c, o) ==
    /\ live' = live \cup {c}
    /\ owner' = [owner EXCEPT ![c] = o]
    /\ lane' = [lane EXCEPT ![c] = AllocSeq]
    /\ free' = free \ {AllocSeq}
    /\ tick' = tick + 1
    /\ last' = [last EXCEPT ![c] = tick + 1]
    /\ born' = [born EXCEPT ![c] = tick + 1]
    /\ UNCHANGED <<ledger, kv>>

-----------------------------------------------------------------------------
(* The KV lanes.                                                           *)

Prefix(s, n) == SubSeq(s, 1, n)

\* token_common_prefix
CommonPrefix(a, b) ==
    Cardinality({n \in 1 .. Len(a) : n <= Len(b) /\ Prefix(a, n) = Prefix(b, n)})

\* The lane holds something and as many tokens as the slot believes: the
\* only check session_prefill makes before it trusts the ledger.
InSync(c) == kv[lane[c]] # <<>> /\ Len(ledger[c]) = Len(kv[lane[c]])

\* How many tokens of prompt p session_prefill leaves in place.  A lane that
\* is out of sync, or that cannot be trimmed, is cleared.
Reused(c, p, trimOk) ==
    LET n == CommonPrefix(ledger[c], p)
    IN  IF InSync(c) /\ (n = Len(ledger[c]) \/ trimOk) THEN n ELSE 0

\* session_prefill succeeds.
Prefilled(c, p, n) ==
    /\ kv' = [kv EXCEPT ![lane[c]] = Prefix(@, n) \o SubSeq(p, n + 1, Len(p))]
    /\ ledger' = [ledger EXCEPT ![c] = p]

\* Mutant: the ledger is not cut before the tail is decoded.
PrefillBrokenKeepsLedger(c, p, n, m) ==
    /\ kv' = [kv EXCEPT ![lane[c]] = Prefix(@, n) \o SubSeq(p, n + 1, n + m)]
    /\ UNCHANGED ledger

\* A chunk fails: m tokens of the tail were decoded before.  The ledger was
\* cut to what was reused, except on the path of an empty lane, which leaves
\* it as it was.
PrefillBroken(c, p, n, m) ==
    /\ kv' = [kv EXCEPT ![lane[c]] = Prefix(@, n) \o SubSeq(p, n + 1, n + m)]
    /\ ledger' = [ledger EXCEPT ![c] =
                    IF kv[lane[c]] = <<>> THEN @ ELSE Prefix(@, n)]
=============================================================================
