----------------------------- MODULE SliceCache -----------------------------
(***************************************************************************)
(* The expert slice cache (core/src/features/streaming/cache.cpp) as the   *)
(* streaming runtime uses it: one demand caller (the eval callback of the  *)
(* decode thread) and one prefetch worker share the cache under mu_, and   *)
(* both write slices into the windows the expert kernels read.             *)
(*                                                                         *)
(* Memory is counted in units, PageBytes of them to a page.  Expert e of   *)
(* tensor t owns units e*b .. (e+1)*b - 1 of t's window, b = SliceBytes[t].*)
(* `window' holds the units that contain their source bytes; every other   *)
(* unit reads as zero (a fresh anonymous page, or one dropped with         *)
(* MADV_DONTNEED).                                                         *)
(***************************************************************************)
EXTENDS Integers, Sequences, FiniteSets

CONSTANTS Tensors,          \* routed-expert tensors
          Experts,          \* expert ids
          SliceBytes,       \* units per slice of each tensor
          PageBytes,        \* units per page (kPage)
          HardCap,          \* limits_.hard_cap_bytes
          ShieldEntries,    \* kShieldEntries
          UseOdirect,       \* offset-source backend set (else memcpy from mmap)
          FillsMayFail,     \* the backend can fail a read
          Calls,            \* demand batches: [tensor, experts]
          Prefetches        \* prefetch batches: [tensor, experts]

Batch == [tensor : Tensors, experts : SUBSET Experts]

ASSUME SizeAssumption ==
    /\ Tensors # {} /\ IsFiniteSet(Tensors)
    /\ Experts \subseteq Nat /\ IsFiniteSet(Experts)
    /\ SliceBytes \in [Tensors -> Nat \ {0}]
    /\ PageBytes \in Nat \ {0}
    /\ HardCap \in Nat
    /\ ShieldEntries \in Nat

ASSUME CallAssumption ==
    /\ UseOdirect \in BOOLEAN /\ FillsMayFail \in BOOLEAN
    /\ Calls \subseteq Batch
    /\ Prefetches \subseteq Batch

VARIABLES map,      \* map_: the keys with an Entry
          lru,      \* lru_: <<a, b>> \in lru iff a is nearer to the front than b
          used,     \* used_
          shield,   \* shield_
          window,   \* units that hold their source bytes
          mu,       \* holder of mu_
          cur,      \* key that make_room_locked is making room for
          dpc, call, serial, todo, misses,     \* the demand call
          ppc, job, unread, pfailed            \* the prefetch call

cache  == <<map, lru, used, shield>>
demand == <<dpc, call, serial, todo, misses>>
worker == <<ppc, job, unread, pfailed>>
vars   == <<cache, window, mu, cur, demand, worker>>

Keys == Tensors \X Experts

-----------------------------------------------------------------------------
(* Geometry of the windows.                                                *)

Bytes(k) == SliceBytes[k[1]]

\* Units of slice k in its tensor's window.
Slice(k) == {k[1]} \X (k[2] * Bytes(k) .. (k[2] + 1) * Bytes(k) - 1)

PageFloor(a) == (a \div PageBytes) * PageBytes

\* Units madvise drops for slice k: its range rounded out to whole pages.
Span(k) == {k[1]} \X (PageFloor(k[2] * Bytes(k)) ..
                      PageFloor((k[2] + 1) * Bytes(k) + PageBytes - 1) - 1)

Slices(K) == UNION {Slice(k) : k \in K}

BatchKeys(b) == {b.tensor} \X b.experts

\* Values of the locals of a call that is not running.
NoKey == <<>>
NoBatch == [tensor |-> CHOOSE t \in Tensors : TRUE, experts |-> {}]

-----------------------------------------------------------------------------
(* Operations on the locked state.                                         *)

\* lru_.erase
Erase(k) == {p \in lru : p[1] # k /\ p[2] # k}

\* lru_.push_front of a key that is not in the list
Front(order, k) == order \cup ({k} \X (map \ {k}))

\* Mutant: a hit is counted but the list and the shield stay as they are.
RefreshNothing(k) == k \in map /\ UNCHANGED <<cache, window>>

\* A hit: the key moves to the front and enters the shield.
Refresh(k) ==
    /\ lru' = Front(Erase(k), k)
    /\ shield' = shield \cup {k}
    /\ UNCHANGED <<map, used, window>>

Last(S, k) == k \in S /\ \A j \in S \ {k} : <<j, k>> \in lru

\* Mutant: the walk starts at the front of the list.
VictimFirst(k) ==
    LET S == IF map \ shield # {} THEN map \ shield ELSE map
    IN  k \in S /\ \A j \in S \ {k} : <<k, j>> \in lru

\* The last unshielded entry of the list, or the last one if all are shielded.
Victim(k) == IF map \ shield # {} THEN Last(map \ shield, k) ELSE Last(map, k)

\* Mutant: the new slice is not counted.
NeedsRoomLate == used > HardCap /\ map # {}

\* Mutant: no break when nothing is left to evict.
NeedsRoomForever == used + Bytes(cur) > HardCap

\* The loop of make_room_locked goes on: too much is used, and a victim is found.
NeedsRoom == used + Bytes(cur) > HardCap /\ map # {}

\* Mutant: the pages of the victim are not dropped.
EvictKeepsPages ==
    /\ NeedsRoom
    /\ \E k \in map :
        /\ Victim(k)
        /\ map' = map \ {k}
        /\ lru' = Erase(k)
        /\ used' = used - Bytes(k)
    /\ UNCHANGED <<shield, window>>

\* Mutant: the size of the new slice is taken off, not the victim's.
EvictWrongSize ==
    /\ NeedsRoom
    /\ \E k \in map :
        /\ Victim(k)
        /\ map' = map \ {k}
        /\ lru' = Erase(k)
        /\ used' = used - Bytes(cur)
        /\ window' = window \ Span(k)
    /\ UNCHANGED shield

\* One turn of the loop of make_room_locked.
Evict ==
    /\ NeedsRoom
    /\ \E k \in map :
        /\ Victim(k)
        /\ map' = map \ {k}
        /\ lru' = Erase(k)
        /\ used' = used - Bytes(k)
        /\ window' = window \ Span(k)
    /\ UNCHANGED shield

\* The shield after the walk from the back of the list that erases keys
\* until only half the capacity is left; a key is reached when the shielded
\* keys behind it were not enough.
Pruned(S, entries, order) ==
    IF Cardinality(S) <= ShieldEntries THEN S
    ELSE {k \in S : k \in entries =>
             Cardinality({j \in S \cap entries : <<k, j>> \in order})
                 >= Cardinality(S) - ShieldEntries \div 2}

\* commit_locked: a slice larger than the cap is served but not tracked.
Commit(k) ==
    /\ IF Bytes(k) <= HardCap
       THEN /\ map' = map \cup {k}
            /\ lru' = Front(lru, k)
            /\ used' = used + Bytes(k)
       ELSE UNCHANGED <<map, lru, used>>
    /\ shield' = Pruned(shield \cup {k}, map', lru')

-----------------------------------------------------------------------------
(* The demand caller: touch, touch_at, touch_batch (serial: each miss is   *)
(* filled and committed before the next key) and touch_batch_at (room for  *)
(* every miss, then all fills, then all commits).  The lock is held        *)
(* throughout; duplicates of the id list are dropped by `uniq', whose      *)
(* iteration order is unspecified.                                         *)

Alive == dpc # "aborted"

\* touch_batch, touch_batch_at, touch, touch_at up to the first lookup.
BeginCall(b, s) ==
    /\ dpc = "idle" /\ mu = "free"
    /\ UseOdirect => (s => Cardinality(b.experts) = 1)
    /\ ~UseOdirect => s
    /\ mu' = "demand" /\ dpc' = "lookup"
    /\ call' = b /\ serial' = s /\ todo' = b.experts /\ misses' = <<>>
    /\ UNCHANGED <<cache, window, cur, worker>>

Hit(e) ==
    /\ dpc = "lookup" /\ e \in todo
    /\ <<call.tensor, e>> \in map
    /\ Refresh(<<call.tensor, e>>)
    /\ todo' = todo \ {e}
    /\ UNCHANGED <<mu, cur, dpc, call, serial, misses, worker>>

Miss(e) ==
    /\ dpc = "lookup" /\ e \in todo
    /\ <<call.tensor, e>> \notin map
    /\ cur' = <<call.tensor, e>>
    /\ todo' = todo \ {e}
    /\ dpc' = "room"
    /\ UNCHANGED <<cache, window, mu, call, serial, misses, worker>>

DemandEvict ==
    /\ dpc = "room"
    /\ Evict
    /\ UNCHANGED <<mu, cur, demand, worker>>

\* touch_locked after make_room_locked: fill, then commit.
FillAndCommit ==
    /\ dpc = "room" /\ serial /\ ~NeedsRoom
    /\ window' = window \cup Slice(cur)
    /\ Commit(cur)
    /\ dpc' = "lookup" /\ cur' = NoKey
    /\ UNCHANGED <<mu, call, serial, todo, misses, worker>>

\* Mutant: the miss is queued under the next expert's number.
QueueNext ==
    /\ dpc = "room" /\ ~serial /\ ~NeedsRoom
    /\ misses' = Append(misses, <<cur[1], cur[2] + 1>>)
    /\ dpc' = "lookup" /\ cur' = NoKey
    /\ UNCHANGED <<cache, window, mu, call, serial, todo, worker>>

\* touch_batch_at: room was made for this miss; its fill comes later.
QueueMiss ==
    /\ dpc = "room" /\ ~serial /\ ~NeedsRoom
    /\ misses' = Append(misses, cur)
    /\ dpc' = "lookup" /\ cur' = NoKey
    /\ UNCHANGED <<cache, window, mu, call, serial, todo, worker>>

\* Mutant: only the first miss is read.
FillFirstMiss ==
    /\ dpc = "lookup" /\ todo = {} /\ misses # <<>>
    /\ window' = window \cup Slice(misses[1])
    /\ dpc' = "commit"
    /\ UNCHANGED <<cache, mu, cur, call, serial, todo, misses, worker>>

\* touch_batch_at, phase 2: every miss is read (in parallel or inline).
FillMisses ==
    /\ dpc = "lookup" /\ todo = {} /\ misses # <<>>
    /\ window' = window \cup Slices({misses[i] : i \in 1..Len(misses)})
    /\ dpc' = "commit"
    /\ UNCHANGED <<cache, mu, cur, call, serial, todo, misses, worker>>

\* A failed demand fill, serial or batched, aborts the process.
FillFails ==
    /\ FillsMayFail /\ UseOdirect
    /\ \/ dpc = "room" /\ serial /\ ~NeedsRoom
       \/ dpc = "lookup" /\ todo = {} /\ misses # <<>>
    /\ dpc' = "aborted"
    /\ UNCHANGED <<cache, window, mu, cur, call, serial, todo, misses, worker>>

\* touch_batch_at, phase 3.
CommitMiss ==
    /\ dpc = "commit" /\ misses # <<>>
    /\ Commit(Head(misses))
    /\ misses' = Tail(misses)
    /\ UNCHANGED <<window, mu, cur, dpc, call, serial, todo, worker>>

\* The call returns, the lock is released and the kernel reads the slices.
Return ==
    /\ \/ dpc = "lookup" /\ todo = {}
       \/ dpc = "commit"
    /\ misses = <<>>
    /\ mu' = "free" /\ dpc' = "compute"
    /\ UNCHANGED <<cache, window, cur, call, serial, todo, misses, worker>>

ComputeDone ==
    /\ dpc = "compute"
    /\ dpc' = "idle" /\ call' = NoBatch
    /\ UNCHANGED <<cache, window, mu, cur, serial, todo, misses, worker>>

-----------------------------------------------------------------------------
(* The prefetch worker: prefetch_batch_at.                                 *)

\* Phase 1, under the lock: keep the absent slices; with none, return.
PrefetchFilter(b) ==
    LET absent == {e \in b.experts : <<b.tensor, e>> \notin map} IN
    /\ Alive /\ UseOdirect /\ ppc = "idle" /\ mu = "free"
    /\ absent # {}
    /\ ppc' = "read"
    /\ job' = [b EXCEPT !.experts = absent]
    /\ unread' = Slices({b.tensor} \X absent)
    /\ pfailed' = FALSE
    /\ UNCHANGED <<cache, window, mu, cur, demand>>

\* Phase 2, without the lock: the lanes write the slices unit by unit.
PrefetchRead(u) ==
    /\ Alive /\ ppc = "read" /\ u \in unread
    /\ window' = window \cup {u}
    /\ unread' = unread \ {u}
    /\ UNCHANGED <<cache, mu, cur, demand, ppc, job, pfailed>>

\* A job fails with part of its slice written; the others still run.
PrefetchReadFails(e) ==
    /\ FillsMayFail
    /\ Alive /\ ppc = "read" /\ e \in job.experts
    /\ Slice(<<job.tensor, e>>) \cap unread # {}
    /\ unread' = unread \ Slice(<<job.tensor, e>>)
    /\ pfailed' = TRUE
    /\ UNCHANGED <<cache, window, mu, cur, demand, ppc, job>>

PrefetchGiveUp ==
    /\ Alive /\ ppc = "read" /\ unread = {} /\ pfailed
    /\ ppc' = "idle" /\ job' = NoBatch /\ pfailed' = FALSE
    /\ UNCHANGED <<cache, window, mu, cur, demand, unread>>

PrefetchLock ==
    /\ Alive /\ ppc = "read" /\ unread = {} /\ ~pfailed /\ mu = "free"
    /\ mu' = "prefetch" /\ ppc' = "commit"
    /\ UNCHANGED <<cache, window, cur, demand, job, unread, pfailed>>

\* Phase 3, under the lock again: the demand path won the race.
PrefetchSkip(e) ==
    /\ ppc = "commit" /\ e \in job.experts
    /\ <<job.tensor, e>> \in map
    /\ job' = [job EXCEPT !.experts = @ \ {e}]
    /\ UNCHANGED <<cache, window, mu, cur, demand, ppc, unread, pfailed>>

\* Mutant: phase 3 does not look again whether the slice is absent.
PrefetchTakeUnchecked(e) ==
    /\ ppc = "commit" /\ e \in job.experts
    /\ cur' = <<job.tensor, e>>
    /\ job' = [job EXCEPT !.experts = @ \ {e}]
    /\ ppc' = "room"
    /\ UNCHANGED <<cache, window, mu, demand, unread, pfailed>>

\* Phase 3: still absent.
PrefetchTake(e) ==
    /\ ppc = "commit" /\ e \in job.experts
    /\ <<job.tensor, e>> \notin map
    /\ cur' = <<job.tensor, e>>
    /\ job' = [job EXCEPT !.experts = @ \ {e}]
    /\ ppc' = "room"
    /\ UNCHANGED <<cache, window, mu, demand, unread, pfailed>>

PrefetchEvict ==
    /\ ppc = "room"
    /\ Evict
    /\ UNCHANGED <<mu, cur, demand, worker>>

PrefetchCommit ==
    /\ ppc = "room" /\ ~NeedsRoom
    /\ Commit(cur)
    /\ ppc' = "commit" /\ cur' = NoKey
    /\ UNCHANGED <<window, mu, demand, job, unread, pfailed>>

PrefetchDone ==
    /\ ppc = "commit" /\ job.experts = {}
    /\ mu' = "free" /\ ppc' = "idle" /\ job' = NoBatch
    /\ UNCHANGED <<cache, window, cur, demand, unread, pfailed>>

-----------------------------------------------------------------------------
Init ==
    /\ map = {} /\ lru = {} /\ used = 0 /\ shield = {} /\ window = {}
    /\ mu = "free" /\ cur = NoKey
    /\ dpc = "idle" /\ call = NoBatch /\ serial = FALSE
    /\ todo = {} /\ misses = <<>>
    /\ ppc = "idle" /\ job = NoBatch /\ unread = {} /\ pfailed = FALSE

\* What the demand caller does while it holds the lock.
DemandStep ==
    \/ \E e \in Experts : Hit(e) \/ Miss(e)
    \/ DemandEvict \/ FillAndCommit \/ QueueMiss
    \/ FillMisses \/ FillFails \/ CommitMiss \/ Return

\* What the prefetch worker does between its first and its last lock.
PrefetchStep ==
    \/ \E u \in unread : PrefetchRead(u)
    \/ \E e \in Experts : PrefetchReadFails(e)
    \/ PrefetchGiveUp \/ PrefetchLock
    \/ \E e \in Experts : PrefetchSkip(e) \/ PrefetchTake(e)
    \/ PrefetchEvict \/ PrefetchCommit \/ PrefetchDone

\* After abort() the process is gone.
Aborted == ~Alive /\ UNCHANGED vars

Next ==
    \/ \E b \in Calls, s \in BOOLEAN : BeginCall(b, s)
    \/ DemandStep
    \/ ComputeDone
    \/ \E b \in Prefetches : PrefetchFilter(b)
    \/ PrefetchStep
    \/ Aborted

Spec == Init /\ [][Next]_vars

\* A thread that runs keeps running: neither waits for anything while it
\* holds the lock.
FairSpec == Spec /\ WF_vars(DemandStep) /\ WF_vars(PrefetchStep)

-----------------------------------------------------------------------------
(* Properties.                                                             *)

Units == UNION {Slice(k) : k \in Keys}

\* Every variable has its type; a call's locals are keys of its batch.
TypeOK ==
    /\ map \subseteq Keys /\ shield \subseteq Keys
    /\ lru \subseteq Keys \X Keys
    /\ used \in Int
    /\ window \subseteq Units
    /\ mu \in {"free", "demand", "prefetch"}
    /\ cur \in Keys \cup {NoKey}
    /\ dpc \in {"idle", "lookup", "room", "commit", "compute", "aborted"}
    /\ call \in Batch /\ serial \in BOOLEAN
    /\ todo \subseteq Experts /\ misses \in Seq(Keys)
    /\ ppc \in {"idle", "read", "commit", "room"}
    /\ job \in Batch /\ unread \subseteq Units /\ pfailed \in BOOLEAN

\* used_ is the bytes of the entries and lru_ lists every entry exactly once,
\* whichever of the demand path and phase 3 of a prefetch inserts first: a
\* second insertion of a key would leave a dangling list node and count its
\* bytes twice for good.
Accounting ==
    /\ used = Cardinality(Slices(map))
    /\ lru \subseteq map \X map
    /\ \A a, b \in map : <<a, b>> \in lru <=> a # b /\ <<b, a>> \notin lru
    /\ \A a, b, c \in map : <<a, b>> \in lru /\ <<b, c>> \in lru => <<a, c>> \in lru

\* A key that a call has looked up as absent and not yet committed stays
\* absent until that call commits it: the lock covers lookup to commit on the
\* demand path, and phase 3 of a prefetch looks up again.
PendingAbsent ==
    /\ mu = "demand" <=> dpc \in {"lookup", "room", "commit", "aborted"}
    /\ mu = "prefetch" <=> ppc \in {"commit", "room"}
    /\ dpc = "room" \/ ppc = "room" => cur \in Keys \ map
    /\ dpc = "room" => cur[1] = call.tensor /\ cur[2] \notin todo
    /\ dpc = "commit" => todo = {}
    /\ misses # <<>> => mu = "demand"
    /\ \A i \in 1..Len(misses) :
        /\ misses[i] \notin map
        /\ misses[i][1] = call.tensor /\ misses[i][2] \notin todo
        /\ dpc = "room" => misses[i] # cur
        /\ \A j \in 1..Len(misses) : misses[i] = misses[j] => i = j

\* The shielded entries are the front part of the list: a shielded entry is
\* never behind an unshielded one.
ShieldIsFront ==
    \A a \in map \cap shield, b \in map \ shield : <<a, b>> \in lru

\* Whatever the shield holds, the cache behaves as a plain LRU cache: the
\* entry make_room_locked drops is always the last of the whole list.
Lru == INSTANCE ExpertLru WITH cached <- map, newer <- lru
ImplementsLru == Lru!Spec

\* "never exceed; evict to stay under" (cache.h, hard_cap_bytes).
CapRespected == used <= HardCap

\* What touch_batch_at really keeps to: room is made for each miss of a batch
\* but the misses in front of it are not counted yet, so the cap is exceeded
\* by at most all slices of one batch but one.
OvershootBounded ==
    \/ used <= HardCap
    \/ \E b \in Calls :
        used <= HardCap + (Cardinality(b.experts) - 1) * SliceBytes[b.tensor]

\* "a failed fill must never look resident" (cache.h, fill_slice): every entry
\* has all of its bytes in the window.
ResidentIsLoaded == Slices(map) \subseteq window

\* A batch that fits under the cap, or whose slices are too large to be
\* tracked at all.
Fits(b) == \/ Cardinality(b.experts) * SliceBytes[b.tensor] <= HardCap
           \/ SliceBytes[b.tensor] > HardCap

\* The kernel that runs when the call returns finds every slice it asked for,
\* in spite of the evictions the later misses of its own batch caused.
ServedAtUse ==
    dpc = "compute" /\ Fits(call) => Slices(BatchKeys(call)) \subseteq window

\* Window memory is accounted for: a unit that is populated belongs to an
\* entry, to a miss about to be committed, or to a slice above the cap.
NoUntrackedMemory ==
    window \subseteq Slices({k \in Keys :
        \/ k \in map
        \/ \E i \in 1..Len(misses) : misses[i] = k
        \/ Bytes(k) > HardCap})

\* A thread that holds mu_ releases it: the loop of make_room_locked ends, for
\* slices larger than the cap too, and every queued miss is committed.
LockReleased ==
    /\ (mu = "demand") ~> (mu = "free" \/ ~Alive)
    /\ (mu = "prefetch") ~> (mu = "free" \/ ~Alive)
=============================================================================
