-------------------------- MODULE SliceCacheProofs --------------------------
(***************************************************************************)
(* Theorems about SliceCache, for every set of tensors, experts, slice     *)
(* sizes, page size, cap and shield capacity.                              *)
(***************************************************************************)
EXTENDS SliceCache, FiniteSetTheorems, FunctionTheorems, TLAPS

-----------------------------------------------------------------------------
(* Geometry: slices are disjoint and have the size used_ counts.           *)

\* What a key is made of.
LEMMA KeyType ==
    ASSUME NEW k \in Keys
    PROVE  /\ k[1] \in Tensors /\ k[2] \in Experts /\ k[2] \in Nat
           /\ Bytes(k) \in Nat \ {0}
           /\ k = <<k[1], k[2]>>
  <1>1. k[1] \in Tensors /\ k[2] \in Experts
    BY DEF Keys
  <1>2. k = <<k[1], k[2]>>
    BY DEF Keys
  <1>3. k[2] \in Nat
    BY <1>1, SizeAssumption
  <1>4. Bytes(k) \in Nat \ {0}
    BY <1>1, SizeAssumption DEF Bytes
  <1> QED BY <1>1, <1>2, <1>3, <1>4

\* There are finitely many slices.
LEMMA KeysFinite == IsFiniteSet(Keys)
  BY SizeAssumption, FS_Product DEF Keys

\* Two multiples of b that differ, differ by at least b.
LEMMA Stride ==
    ASSUME NEW m \in Nat, NEW n \in Nat, NEW b \in Nat, m < n
    PROVE  (m + 1) * b <= n * b
  <1>1. PICK d \in Nat : n = m + 1 + d
    <2>1. n - (m + 1) \in Nat
      OBVIOUS
    <2> QED BY <2>1
  <1>2. d * b \in Nat /\ (m + 1) * b \in Nat
    OBVIOUS
  <1>3. n * b = (m + 1) * b + d * b
    BY <1>1
  <1> QED BY <1>2, <1>3

\* A slice has the size of its key.
LEMMA SliceSize ==
    ASSUME NEW k \in Keys
    PROVE  IsFiniteSet(Slice(k)) /\ Cardinality(Slice(k)) = Bytes(k)
  <1> DEFINE lo == k[2] * Bytes(k)
             hi == (k[2] + 1) * Bytes(k) - 1
  <1>1. lo \in Int /\ hi \in Int /\ hi - lo + 1 = Bytes(k) /\ ~(lo > hi)
    BY KeyType
  <1>2. IsFiniteSet(lo .. hi) /\ Cardinality(lo .. hi) = Bytes(k)
    <2> HIDE DEF lo, hi
    <2> QED BY <1>1, FS_Interval
  <1>3. IsFiniteSet({k[1]}) /\ Cardinality({k[1]}) = 1
    BY FS_Singleton
  <1>4. /\ IsFiniteSet({k[1]} \X (lo .. hi))
        /\ Cardinality({k[1]} \X (lo .. hi)) = 1 * Bytes(k)
    <2> DEFINE S == {k[1]}
               T == lo .. hi
    <2>1. /\ IsFiniteSet(S) /\ IsFiniteSet(T)
          /\ Cardinality(S) = 1 /\ Cardinality(T) = Bytes(k)
      BY <1>2, <1>3
    <2> HIDE DEF S, T
    <2>2. IsFiniteSet(S \X T) /\ Cardinality(S \X T) = Cardinality(S) * Cardinality(T)
      BY <2>1, FS_Product
    <2>3. IsFiniteSet(S \X T) /\ Cardinality(S \X T) = 1 * Bytes(k)
      BY <2>1, <2>2
    <2> QED BY <2>3 DEF S, T
  <1> QED BY <1>4, KeyType DEF Slice

\* Two slices share no byte.
LEMMA SlicesDisjoint ==
    ASSUME NEW j \in Keys, NEW k \in Keys, j # k
    PROVE  Slice(j) \cap Slice(k) = {}
  <1>1. CASE j[1] # k[1]
    BY <1>1 DEF Slice
  <1>2. CASE j[1] = k[1]
    <2>1. Bytes(j) = Bytes(k)
      BY <1>2 DEF Bytes
    <2>2. j[2] < k[2] \/ k[2] < j[2]
      BY <1>2, KeyType
    <2>3. \/ (j[2] + 1) * Bytes(k) <= k[2] * Bytes(k)
          \/ (k[2] + 1) * Bytes(k) <= j[2] * Bytes(k)
      BY <2>2, Stride, KeyType
    <2>4. /\ (j[2] + 1) * Bytes(k) \in Int /\ k[2] * Bytes(k) \in Int
          /\ (k[2] + 1) * Bytes(k) \in Int /\ j[2] * Bytes(k) \in Int
      BY KeyType
    <2>5. ~ \E u \in Int : /\ u >= j[2] * Bytes(k) /\ u <= (j[2] + 1) * Bytes(k) - 1
                           /\ u >= k[2] * Bytes(k) /\ u <= (k[2] + 1) * Bytes(k) - 1
      BY <2>3, <2>4
    <2> QED BY <2>1, <2>4, <2>5 DEF Slice
  <1> QED BY <1>1, <1>2

\* A set of slices covers finitely many bytes.
LEMMA SlicesFinite ==
    ASSUME NEW K \in SUBSET Keys
    PROVE  IsFiniteSet(K) /\ IsFiniteSet(Slices(K))
  <1>1. IsFiniteSet(K)
    BY KeysFinite, FS_Subset
  <1> DEFINE T == {Slice(k) : k \in K}
             f == [k \in K |-> Slice(k)]
  <1>2. f \in Surjection(K, T)
    BY DEF Surjection
  <1>3. IsFiniteSet(T)
    BY <1>1, <1>2, FS_Surjection
  <1>4. \A S \in T : IsFiniteSet(S)
    BY SliceSize
  <1>5. IsFiniteSet(UNION T)
    <2> HIDE DEF T
    <2> QED BY <1>3, <1>4, FS_UNION
  <1> QED BY <1>1, <1>5 DEF Slices

\* A key that enters adds its size to the footprint.
LEMMA FootprintAdd ==
    ASSUME NEW K \in SUBSET Keys, NEW k \in Keys, k \notin K
    PROVE  Cardinality(Slices(K \cup {k})) = Cardinality(Slices(K)) + Bytes(k)
  <1>1. Slices(K \cup {k}) = Slices(K) \cup Slice(k)
    BY DEF Slices
  <1>2. Slices(K) \cap Slice(k) = {}
    BY SlicesDisjoint DEF Slices
  <1>3. IsFiniteSet(Slices(K)) /\ IsFiniteSet(Slice(k))
    BY SlicesFinite, SliceSize
  <1>4. Cardinality(Slices(K) \cup Slice(k)) =
            Cardinality(Slices(K)) + Cardinality(Slice(k)) - 0
    BY <1>2, <1>3, FS_Union, FS_EmptySet
  <1>5. Cardinality(Slices(K)) \in Nat /\ Bytes(k) \in Nat
    BY <1>3, FS_CardinalityType, KeyType
  <1>6. Cardinality(Slice(k)) = Bytes(k)
    BY SliceSize
  <1>7. Cardinality(Slices(K \cup {k})) = Cardinality(Slices(K)) + Bytes(k) - 0
    BY <1>1, <1>4, <1>6, Zenon
  <1> QED BY <1>5, <1>7

\* Without one of its slices a set covers that many bytes less.
LEMMA FootprintRemove ==
    ASSUME NEW K \in SUBSET Keys, NEW k \in K
    PROVE  Cardinality(Slices(K \ {k})) = Cardinality(Slices(K)) - Bytes(k)
  <1>1. K = (K \ {k}) \cup {k}
    OBVIOUS
  <1>2. Cardinality(Slices(K)) = Cardinality(Slices(K \ {k})) + Bytes(k)
    BY <1>1, FootprintAdd
  <1>3. Cardinality(Slices(K \ {k})) \in Nat /\ Bytes(k) \in Nat
    BY SlicesFinite, FS_CardinalityType, KeyType
  <1> QED BY <1>2, <1>3

-----------------------------------------------------------------------------
(* The operations on the locked state keep the list, the byte count and    *)
(* the shield consistent.                                                  *)

\* A key that was used moves to the front and is shielded.
LEMMA RefreshKeeps ==
    ASSUME TypeOK, Accounting, ShieldIsFront, NEW k \in map, Refresh(k)
    PROVE  Accounting' /\ ShieldIsFront'
  <1>1. \A a, b : <<a, b>> \in lru' <=>
            \/ <<a, b>> \in lru /\ a # k /\ b # k
            \/ a = k /\ b \in map /\ b # k
    BY DEF Refresh, Front, Erase
  <1>2. lru' \subseteq map \X map
    BY DEF Refresh, Front, Erase, Accounting
  <1>3. \A a, b \in map : <<a, b>> \in lru' <=> a # b /\ <<b, a>> \notin lru'
    BY <1>1 DEF Accounting
  <1>4. \A a, b, c \in map : <<a, b>> \in lru' /\ <<b, c>> \in lru' => <<a, c>> \in lru'
    BY <1>1 DEF Accounting
  <1>5. map' = map /\ used' = used /\ shield' = shield \cup {k}
    BY DEF Refresh
  <1>6. Accounting'
    BY <1>2, <1>3, <1>4, <1>5 DEF Accounting
  <1>7. ShieldIsFront'
    BY <1>1, <1>5 DEF ShieldIsFront
  <1> QED BY <1>6, <1>7

\* The victim is the last entry of the whole list, shielded or not.
LEMMA VictimIsLast ==
    ASSUME ShieldIsFront, NEW k \in map, Victim(k)
    PROVE  Last(map, k)
  BY DEF ShieldIsFront, Victim, Last

\* An eviction keeps the books and the shield in front.
LEMMA EvictKeeps ==
    ASSUME TypeOK, Accounting, ShieldIsFront, Evict
    PROVE  Accounting' /\ ShieldIsFront' /\ map' \subseteq map
  <1>1. PICK k \in map : /\ map' = map \ {k} /\ lru' = Erase(k)
                         /\ used' = used - Bytes(k) /\ shield' = shield
    BY DEF Evict
  <1>2. \A a, b : <<a, b>> \in lru' <=> <<a, b>> \in lru /\ a # k /\ b # k
    BY <1>1 DEF Erase
  <1>3. lru' \subseteq map' \X map'
    BY <1>1 DEF Erase, Accounting
  <1>4. used' = Cardinality(Slices(map'))
    <2>1. map \in SUBSET Keys
      BY DEF TypeOK
    <2>2. Cardinality(Slices(map \ {k})) = Cardinality(Slices(map)) - Bytes(k)
      BY <2>1, FootprintRemove
    <2> QED BY <1>1, <2>2 DEF Accounting
  <1>5. \A a, b \in map' : <<a, b>> \in lru' <=> a # b /\ <<b, a>> \notin lru'
    BY <1>1, <1>2 DEF Accounting
  <1>6. \A a, b, c \in map' : <<a, b>> \in lru' /\ <<b, c>> \in lru' => <<a, c>> \in lru'
    BY <1>1, <1>2 DEF Accounting
  <1>7. Accounting'
    BY <1>3, <1>4, <1>5, <1>6 DEF Accounting
  <1>8. ShieldIsFront'
    BY <1>1, <1>2 DEF ShieldIsFront
  <1> QED BY <1>1, <1>7, <1>8

\* Pruning takes shielded entries from the back of the list only.
LEMMA PrunedIsFront ==
    ASSUME NEW S \in SUBSET Keys, NEW E \in SUBSET Keys, NEW R,
           \A a, b \in E : <<a, b>> \in R <=> a # b /\ <<b, a>> \notin R,
           \A a, b, c \in E : <<a, b>> \in R /\ <<b, c>> \in R => <<a, c>> \in R,
           \A a \in E \cap S, b \in E \ S : <<a, b>> \in R
    PROVE  /\ Pruned(S, E, R) \subseteq S
           /\ \A a \in E \cap Pruned(S, E, R), b \in E \ Pruned(S, E, R) :
                  <<a, b>> \in R
  <1>1. CASE Cardinality(S) <= ShieldEntries
    BY <1>1 DEF Pruned
  <1>2. CASE ~(Cardinality(S) <= ShieldEntries)
    <2> DEFINE Behind(k) == {j \in S \cap E : <<k, j>> \in R}
               n == Cardinality(S) - ShieldEntries \div 2
    <2>1. Pruned(S, E, R) = {k \in S : k \in E => Cardinality(Behind(k)) >= n}
      BY <1>2 DEF Pruned
    <2>2. ASSUME NEW a \in E \cap Pruned(S, E, R), NEW b \in E \ Pruned(S, E, R)
          PROVE  <<a, b>> \in R
      <3>1. CASE b \notin S
        BY <2>1, <2>2, <3>1
      <3>2. CASE b \in S
        <4>1. Cardinality(Behind(a)) >= n /\ ~(Cardinality(Behind(b)) >= n)
          BY <2>1, <2>2, <3>2
        <4>2. IsFiniteSet(S) /\ IsFiniteSet(Behind(b))
          BY KeysFinite, FS_Subset
        <4>3. n \in Int
          BY <4>2, FS_CardinalityType, SizeAssumption
        <4>4. SUFFICES ASSUME <<a, b>> \notin R PROVE FALSE
          OBVIOUS
        <4>5. a # b
          BY <4>1
        <4>6. <<b, a>> \in R
          BY <4>4, <4>5, <2>1, <2>2
        <4>7. Behind(a) \subseteq Behind(b)
          BY <4>6, <2>1, <2>2
        <4>8. /\ Cardinality(Behind(a)) <= Cardinality(Behind(b))
              /\ IsFiniteSet(Behind(a))
          <5> HIDE DEF Behind
          <5> QED BY <4>2, <4>7, FS_Subset
        <4>9. Cardinality(Behind(a)) \in Nat /\ Cardinality(Behind(b)) \in Nat
          BY <4>2, <4>8, FS_CardinalityType
        <4> HIDE DEF n, Behind
        <4> QED BY <4>1, <4>3, <4>8, <4>9
      <3> QED BY <3>1, <3>2
    <2> QED BY <2>1, <2>2
  <1> QED BY <1>1, <1>2

\* A commit keeps the books and the shield in front.
LEMMA CommitKeeps ==
    ASSUME TypeOK, Accounting, ShieldIsFront, NEW k \in Keys, k \notin map, Commit(k)
    PROVE  /\ Accounting' /\ ShieldIsFront'
           /\ map' \subseteq map \cup {k} /\ shield' \subseteq shield \cup {k}
  <1>1. /\ map' \in SUBSET Keys /\ shield \cup {k} \in SUBSET Keys
        /\ map' \subseteq map \cup {k}
    BY DEF TypeOK, Commit
  <1>2. used' = Cardinality(Slices(map'))
    <2>1. map \in SUBSET Keys
      BY DEF TypeOK
    <2>2. Cardinality(Slices(map \cup {k})) = Cardinality(Slices(map)) + Bytes(k)
      BY <2>1, FootprintAdd
    <2> QED BY <2>2 DEF Accounting, Commit
  <1>3. lru' \subseteq map' \X map'
    BY DEF Commit, Front, Accounting
  <1>4. \A a, b : <<a, b>> \in lru' <=>
            \/ <<a, b>> \in lru
            \/ k \in map' /\ a = k /\ b \in map
    <2>1. CASE Bytes(k) <= HardCap
      <3>1. map' = map \cup {k} /\ lru' = lru \cup ({k} \X (map \ {k}))
        BY <2>1 DEF Commit, Front
      <3> QED BY <3>1
    <2>2. CASE ~(Bytes(k) <= HardCap)
      BY <2>2 DEF Commit
    <2> QED BY <2>1, <2>2
  <1>a. \A a, b : <<a, b>> \in lru => a \in map /\ b \in map
    BY DEF Accounting
  <1>b. \A a, b \in map : <<a, b>> \in lru <=> a # b /\ <<b, a>> \notin lru
    BY DEF Accounting
  <1>5. ASSUME NEW a \in map', NEW b \in map'
        PROVE  <<a, b>> \in lru' <=> a # b /\ <<b, a>> \notin lru'
    <2>1. CASE a = k
      BY <2>1, <1>1, <1>4, <1>5, <1>a
    <2>2. CASE a # k /\ b = k
      BY <2>2, <1>1, <1>4, <1>5, <1>a
    <2>3. CASE a # k /\ b # k
      BY <2>3, <1>1, <1>4, <1>5, <1>b
    <2> QED BY <2>1, <2>2, <2>3
  <1>6. \A a, b, c \in map' : <<a, b>> \in lru' /\ <<b, c>> \in lru' => <<a, c>> \in lru'
    BY <1>1, <1>4, <1>a DEF Accounting
  <1>7. \A a \in map' \cap (shield \cup {k}), b \in map' \ (shield \cup {k}) :
            <<a, b>> \in lru'
    BY <1>1, <1>4 DEF ShieldIsFront
  <1>8. shield' = Pruned(shield \cup {k}, map', lru')
    BY DEF Commit
  <1>9. /\ shield' \subseteq shield \cup {k}
        /\ \A a \in map' \cap shield', b \in map' \ shield' : <<a, b>> \in lru'
    BY <1>1, <1>5, <1>6, <1>7, <1>8, PrunedIsFront, ZenonT(30)
  <1> QED BY <1>1, <1>2, <1>3, <1>5, <1>6, <1>9 DEF Accounting, ShieldIsFront

-----------------------------------------------------------------------------
(* The inductive invariant.  Accounting is not inductive alone: that a     *)
(* commit inserts a new key needs PendingAbsent.                           *)

IInv == TypeOK /\ PendingAbsent /\ Accounting /\ ShieldIsFront

\* The empty batch is a batch.
LEMMA NoBatchType == NoBatch \in Batch /\ NoBatch.experts = {}
  <1>1. (CHOOSE t \in Tensors : TRUE) \in Tensors
    BY SizeAssumption
  <1> QED BY <1>1 DEF NoBatch, Batch

\* Slices lie in the windows.
LEMMA SliceInUnits ==
    /\ \A k \in Keys : Slice(k) \subseteq Units
    /\ \A K \in SUBSET Keys : Slices(K) \subseteq Units
  BY DEF Units, Slices

\* A commit keeps the types.
LEMMA CommitType ==
    ASSUME TypeOK, NEW k \in Keys, Commit(k)
    PROVE  /\ map' \subseteq Keys /\ shield' \subseteq Keys
           /\ lru' \subseteq Keys \X Keys /\ used' \in Int
  <1>1. map' \subseteq Keys
    BY DEF TypeOK, Commit
  <1>2. lru' \subseteq Keys \X Keys
    BY DEF TypeOK, Commit, Front
  <1>3. used' \in Int
    BY KeyType DEF TypeOK, Commit
  <1>4. shield' \subseteq Keys
    BY DEF TypeOK, Commit, Pruned
  <1> QED BY <1>1, <1>2, <1>3, <1>4

\* An eviction keeps the types.
LEMMA EvictType ==
    ASSUME TypeOK, Evict
    PROVE  /\ map' \subseteq Keys /\ shield' \subseteq Keys
           /\ lru' \subseteq Keys \X Keys /\ used' \in Int /\ window' \subseteq Units
  BY KeyType DEF TypeOK, Evict, Erase

\* One step of either thread keeps the types.
LEMMA TypeStep ==
    ASSUME TypeOK, PendingAbsent, [Next]_vars
    PROVE  TypeOK'
  <1> USE DEF cache, demand, worker
  <1>1. ASSUME NEW b \in Calls, NEW s \in BOOLEAN, BeginCall(b, s) PROVE TypeOK'
    <2>1. b \in Batch /\ b.experts \subseteq Experts
      BY CallAssumption DEF Batch
    <2> QED BY <1>1, <2>1 DEF BeginCall, TypeOK
  <1>2. ASSUME NEW e \in Experts, Hit(e) PROVE TypeOK'
    <2>1. <<call.tensor, e>> \in Keys
      BY DEF TypeOK, Batch, Keys
    <2>2. lru' \subseteq Keys \X Keys
      BY <1>2, <2>1 DEF Hit, Refresh, Front, Erase, TypeOK
    <2> QED BY <1>2, <2>1, <2>2 DEF Hit, Refresh, TypeOK
  <1>3. ASSUME NEW e \in Experts, Miss(e) PROVE TypeOK'
    <2>1. <<call.tensor, e>> \in Keys
      BY DEF TypeOK, Batch, Keys
    <2> QED BY <1>3, <2>1 DEF Miss, TypeOK
  <1>4. CASE DemandEvict \/ PrefetchEvict
    BY <1>4, EvictType DEF DemandEvict, PrefetchEvict, TypeOK
  <1>5. CASE FillAndCommit
    <2>1. cur \in Keys /\ Commit(cur)
      BY <1>5 DEF FillAndCommit, PendingAbsent
    <2> QED BY <1>5, <2>1, CommitType, SliceInUnits DEF FillAndCommit, TypeOK
  <1>6. CASE QueueMiss
    <2>1. cur \in Keys
      BY <1>6 DEF QueueMiss, PendingAbsent
    <2> QED BY <1>6, <2>1 DEF QueueMiss, TypeOK
  <1>7. CASE FillMisses
    <2>1. {misses[i] : i \in 1..Len(misses)} \in SUBSET Keys
      BY DEF TypeOK
    <2> QED BY <1>7, <2>1, SliceInUnits DEF FillMisses, TypeOK
  <1>8. CASE FillFails
    BY <1>8 DEF FillFails, TypeOK
  <1>9. CASE CommitMiss
    <2>1. Head(misses) \in Keys /\ Tail(misses) \in Seq(Keys)
      BY <1>9 DEF CommitMiss, TypeOK
    <2> QED BY <1>9, <2>1, CommitType DEF CommitMiss, TypeOK
  <1>10. CASE Return
    BY <1>10 DEF Return, TypeOK
  <1>11. CASE ComputeDone
    BY <1>11, NoBatchType DEF ComputeDone, TypeOK
  <1>12. ASSUME NEW b \in Prefetches, PrefetchFilter(b) PROVE TypeOK'
    <2> DEFINE absent == {e \in b.experts : <<b.tensor, e>> \notin map}
    <2>1. b \in Batch
      BY CallAssumption
    <2>2. absent \subseteq Experts /\ b.tensor \in Tensors
      BY <2>1 DEF Batch
    <2>3. [b EXCEPT !.experts = absent] \in Batch
      BY <2>1, <2>2 DEF Batch
    <2>4. {b.tensor} \X absent \in SUBSET Keys
      BY <2>2 DEF Keys
    <2>5. Slices({b.tensor} \X absent) \subseteq Units
      BY <2>4, SliceInUnits
    <2> QED BY <1>12, <2>3, <2>5 DEF PrefetchFilter, TypeOK
  <1>13. ASSUME NEW u \in unread, PrefetchRead(u) PROVE TypeOK'
    BY <1>13 DEF PrefetchRead, TypeOK
  <1>14. ASSUME NEW e \in Experts, PrefetchReadFails(e) PROVE TypeOK'
    BY <1>14 DEF PrefetchReadFails, TypeOK
  <1>15. CASE PrefetchGiveUp
    BY <1>15, NoBatchType DEF PrefetchGiveUp, TypeOK
  <1>16. CASE PrefetchLock
    BY <1>16 DEF PrefetchLock, TypeOK
  <1>17. ASSUME NEW e \in Experts, PrefetchSkip(e) \/ PrefetchTake(e) PROVE TypeOK'
    <2>1. <<job.tensor, e>> \in Keys
      BY DEF TypeOK, Batch, Keys
    <2>2. [job EXCEPT !.experts = @ \ {e}] \in Batch
      BY DEF TypeOK, Batch
    <2> QED BY <1>17, <2>1, <2>2 DEF PrefetchSkip, PrefetchTake, TypeOK
  <1>18. CASE PrefetchCommit
    <2>1. cur \in Keys /\ Commit(cur)
      BY <1>18 DEF PrefetchCommit, PendingAbsent
    <2> QED BY <1>18, <2>1, CommitType DEF PrefetchCommit, TypeOK
  <1>19. CASE PrefetchDone
    BY <1>19, NoBatchType DEF PrefetchDone, TypeOK
  <1>20. CASE UNCHANGED vars
    BY <1>20 DEF vars, TypeOK
  <1> QED BY <1>1, <1>2, <1>3, <1>4, <1>5, <1>6, <1>7, <1>8, <1>9, <1>10, <1>11,
             <1>12, <1>13, <1>14, <1>15, <1>16, <1>17, <1>18, <1>19, <1>20
          DEF Next, DemandStep, PrefetchStep, Aborted

\* One step of either thread keeps pending keys absent.
LEMMA PendingStep ==
    ASSUME IInv, [Next]_vars
    PROVE  PendingAbsent'
  <1> USE DEF cache, demand, worker
  <1>0. TypeOK /\ PendingAbsent /\ misses \in Seq(Keys)
    BY DEF IInv, TypeOK
  <1>1. ASSUME NEW b \in Calls, NEW s \in BOOLEAN, BeginCall(b, s)
        PROVE  PendingAbsent'
    BY <1>0, <1>1 DEF BeginCall, PendingAbsent
  <1>2. ASSUME NEW e \in Experts, Hit(e) PROVE PendingAbsent'
    BY <1>0, <1>2 DEF Hit, Refresh, PendingAbsent
  <1>3. ASSUME NEW e \in Experts, Miss(e) PROVE PendingAbsent'
    <2>1. <<call.tensor, e>> \in Keys \ map
      BY <1>0, <1>3 DEF Miss, TypeOK, Batch, Keys
    <2> QED BY <1>0, <1>3, <2>1 DEF Miss, PendingAbsent
  <1>4. CASE DemandEvict \/ PrefetchEvict
    <2>1. map' \subseteq map
      BY <1>0, <1>4, EvictKeeps DEF DemandEvict, PrefetchEvict, IInv
    <2> QED BY <1>0, <1>4, <2>1 DEF DemandEvict, PrefetchEvict, PendingAbsent
  <1>5. CASE FillAndCommit
    <2>1. map' \subseteq map \cup {cur}
      BY <1>5 DEF FillAndCommit, Commit
    <2> QED BY <1>0, <1>5, <2>1 DEF FillAndCommit, PendingAbsent
  <1>6. CASE QueueMiss
    <2>1. /\ misses' = Append(misses, cur) /\ Len(misses') = Len(misses) + 1
          /\ \A i \in 1..Len(misses) : misses'[i] = misses[i]
          /\ misses'[Len(misses) + 1] = cur
      BY <1>0, <1>6 DEF QueueMiss, PendingAbsent
    <2>2. Len(misses) \in Nat
      BY <1>0
    <2>3. cur \in Keys \ map /\ cur[1] = call.tensor /\ cur[2] \notin todo
      BY <1>0, <1>6 DEF QueueMiss, PendingAbsent
    <2>4. \A i \in 1..Len(misses') :
            /\ misses'[i] \notin map'
            /\ misses'[i][1] = call'.tensor /\ misses'[i][2] \notin todo'
            /\ \A j \in 1..Len(misses') : misses'[i] = misses'[j] => i = j
      <3>1. map' = map /\ call' = call /\ todo' = todo
        BY <1>6 DEF QueueMiss
      <3>2. \A i \in 1..Len(misses') : i = Len(misses) + 1 \/ i \in 1..Len(misses)
        BY <2>1, <2>2
      <3>3. \A i \in 1..Len(misses) : misses[i] # cur
        BY <1>0, <1>6 DEF QueueMiss, PendingAbsent
      <3>4. \A i \in 1..Len(misses) :
              /\ misses[i] \notin map
              /\ misses[i][1] = call.tensor /\ misses[i][2] \notin todo
              /\ \A j \in 1..Len(misses) : misses[i] = misses[j] => i = j
        BY <1>0 DEF PendingAbsent
      <3> QED BY <2>1, <2>3, <3>1, <3>2, <3>3, <3>4
    <2> QED BY <1>0, <1>6, <2>4 DEF QueueMiss, PendingAbsent
  <1>7. CASE FillMisses
    BY <1>0, <1>7 DEF FillMisses, PendingAbsent
  <1>8. CASE FillFails
    BY <1>0, <1>8 DEF FillFails, PendingAbsent
  <1>9. CASE CommitMiss
    <2>1. map' \subseteq map \cup {Head(misses)}
      BY <1>9 DEF CommitMiss, Commit
    <2>2. /\ Head(misses) = misses[1] /\ Len(misses) \in Nat \ {0}
          /\ Len(misses') = Len(misses) - 1
          /\ \A i \in 1..Len(misses') : misses'[i] = misses[i + 1]
      BY <1>0, <1>9 DEF CommitMiss
    <2>3. \A i \in 1..Len(misses) :
              /\ misses[i] \notin map
              /\ misses[i][1] = call.tensor /\ misses[i][2] \notin todo
              /\ \A j \in 1..Len(misses) : misses[i] = misses[j] => i = j
      BY <1>0 DEF PendingAbsent
    <2>4. \A i \in 1..Len(misses') :
            /\ misses'[i] \notin map'
            /\ misses'[i][1] = call'.tensor /\ misses'[i][2] \notin todo'
            /\ \A j \in 1..Len(misses') : misses'[i] = misses'[j] => i = j
      <3>1. call' = call /\ todo' = todo
        BY <1>9 DEF CommitMiss
      <3>2. \A i \in 1..Len(misses') : i + 1 \in 1..Len(misses) /\ i + 1 # 1
        BY <2>2
      <3>3. 1 \in 1..Len(misses)
        BY <2>2
      <3> QED BY <2>1, <2>2, <2>3, <3>1, <3>2, <3>3, SMTT(30)
    <2> QED BY <1>0, <1>9, <2>4 DEF CommitMiss, PendingAbsent
  <1>10. CASE Return
    BY <1>0, <1>10 DEF Return, PendingAbsent
  <1>11. CASE ComputeDone
    BY <1>0, <1>11 DEF ComputeDone, PendingAbsent
  <1>12. ASSUME NEW b \in Prefetches, PrefetchFilter(b) PROVE PendingAbsent'
    BY <1>0, <1>12 DEF PrefetchFilter, PendingAbsent
  <1>13. ASSUME NEW u \in unread, PrefetchRead(u) PROVE PendingAbsent'
    BY <1>0, <1>13 DEF PrefetchRead, PendingAbsent
  <1>14. ASSUME NEW e \in Experts, PrefetchReadFails(e) PROVE PendingAbsent'
    BY <1>0, <1>14 DEF PrefetchReadFails, PendingAbsent
  <1>15. CASE PrefetchGiveUp
    BY <1>0, <1>15 DEF PrefetchGiveUp, PendingAbsent
  <1>16. CASE PrefetchLock
    BY <1>0, <1>16 DEF PrefetchLock, PendingAbsent
  <1>17. ASSUME NEW e \in Experts, PrefetchSkip(e) PROVE PendingAbsent'
    BY <1>0, <1>17 DEF PrefetchSkip, PendingAbsent
  <1>18. ASSUME NEW e \in Experts, PrefetchTake(e) PROVE PendingAbsent'
    <2>1. <<job.tensor, e>> \in Keys \ map
      BY <1>0, <1>18 DEF PrefetchTake, TypeOK, Batch, Keys
    <2> QED BY <1>0, <1>18, <2>1 DEF PrefetchTake, PendingAbsent
  <1>19. CASE PrefetchCommit
    <2>1. mu = "prefetch" /\ misses = <<>>
      BY <1>0, <1>19 DEF PrefetchCommit, PendingAbsent
    <2> QED BY <1>0, <1>19, <2>1 DEF PrefetchCommit, PendingAbsent
  <1>20. CASE PrefetchDone
    BY <1>0, <1>20 DEF PrefetchDone, PendingAbsent
  <1>21. CASE UNCHANGED vars
    BY <1>0, <1>21 DEF vars, PendingAbsent
  <1> QED BY <1>1, <1>2, <1>3, <1>4, <1>5, <1>6, <1>7, <1>8, <1>9, <1>10, <1>11,
             <1>12, <1>13, <1>14, <1>15, <1>16, <1>17, <1>18, <1>19, <1>20, <1>21
          DEF Next, DemandStep, PrefetchStep, Aborted

\* One step of either thread keeps the list, the byte count and the shield
\* consistent.
LEMMA AccountingStep ==
    ASSUME IInv, [Next]_vars
    PROVE  Accounting' /\ ShieldIsFront'
  <1> DEFINE Goal == Accounting' /\ ShieldIsFront'
  <1>0. TypeOK /\ PendingAbsent /\ Accounting /\ ShieldIsFront
    BY DEF IInv
  <1>1. CASE UNCHANGED cache
    BY <1>0, <1>1 DEF cache, Accounting, ShieldIsFront
  <1>2. ASSUME NEW e \in Experts, Hit(e) PROVE Goal
    BY <1>0, <1>2, RefreshKeeps DEF Hit
  <1>3. CASE DemandEvict \/ PrefetchEvict
    BY <1>0, <1>3, EvictKeeps DEF DemandEvict, PrefetchEvict
  <1>4. CASE FillAndCommit
    <2>1. cur \in Keys /\ cur \notin map
      BY <1>0, <1>4 DEF FillAndCommit, PendingAbsent
    <2> QED BY <1>0, <1>4, <2>1, CommitKeeps DEF FillAndCommit
  <1>5. CASE CommitMiss
    <2>1. misses \in Seq(Keys) /\ misses # <<>>
      BY <1>0, <1>5 DEF CommitMiss, TypeOK
    <2>2. Head(misses) = misses[1] /\ 1 \in 1..Len(misses) /\ Head(misses) \in Keys
      BY <2>1
    <2>3. Head(misses) \notin map
      BY <1>0, <2>2 DEF PendingAbsent
    <2> QED BY <1>0, <1>5, <2>2, <2>3, CommitKeeps DEF CommitMiss
  <1>6. CASE PrefetchCommit
    <2>1. cur \in Keys /\ cur \notin map
      BY <1>0, <1>6 DEF PrefetchCommit, PendingAbsent
    <2> QED BY <1>0, <1>6, <2>1, CommitKeeps DEF PrefetchCommit
  <1>7. \/ UNCHANGED cache
        \/ \E e \in Experts : Hit(e)
        \/ DemandEvict \/ PrefetchEvict \/ FillAndCommit \/ CommitMiss \/ PrefetchCommit
    BY DEF Next, DemandStep, PrefetchStep, Aborted, vars, BeginCall, Miss, QueueMiss,
           FillMisses, FillFails, Return, ComputeDone, PrefetchFilter, PrefetchRead,
           PrefetchReadFails, PrefetchGiveUp, PrefetchLock, PrefetchSkip,
           PrefetchTake, PrefetchDone
  <1> QED BY <1>1, <1>2, <1>3, <1>4, <1>5, <1>6, <1>7

\* A new cache satisfies the invariant.
LEMMA InitIInv == Init => IInv
  <1> SUFFICES ASSUME Init PROVE IInv
    OBVIOUS
  <1>1. TypeOK
    <2>1. misses \in Seq(Keys)
      BY DEF Init
    <2>2. serial \in BOOLEAN /\ pfailed \in BOOLEAN
      BY DEF Init
    <2>3. cur \in Keys \cup {NoKey}
      BY DEF Init
    <2> QED BY <2>1, <2>2, <2>3, NoBatchType DEF Init, TypeOK
  <1>2. PendingAbsent
    BY DEF Init, PendingAbsent
  <1>3. Slices({}) = {}
    BY DEF Slices
  <1>4. Accounting
    BY <1>3, FS_EmptySet DEF Init, Accounting
  <1>5. ShieldIsFront
    BY DEF Init, ShieldIsFront
  <1> QED BY <1>1, <1>2, <1>4, <1>5 DEF IInv

\* The inductive invariant holds in every reachable state.
THEOREM Inductive == Spec => []IInv
  <1>1. IInv /\ [Next]_vars => IInv'
    BY TypeStep, PendingStep, AccountingStep DEF IInv
  <1> QED BY InitIInv, <1>1, PTL DEF Spec

\* Type correctness of the cache, the demand call and the prefetch call.
THEOREM TypeCorrect == Spec => []TypeOK
  <1>1. IInv => TypeOK
    BY DEF IInv
  <1> QED BY Inductive, <1>1, PTL

\* used_ equals the bytes of the entries and lru_ lists each entry once, for
\* every interleaving of demand calls with a prefetch.
THEOREM AccountingHolds == Spec => []Accounting
  <1>1. IInv => Accounting
    BY DEF IInv
  <1> QED BY Inductive, <1>1, PTL

\* A key looked up as absent stays absent until its call commits it.
THEOREM PendingStaysAbsent == Spec => []PendingAbsent
  <1>1. IInv => PendingAbsent
    BY DEF IInv
  <1> QED BY Inductive, <1>1, PTL

-----------------------------------------------------------------------------
(* Refinement: the shield changes nothing.                                 *)

\* A commit is the use of a new key, or leaves list and map alone.
LEMMA CommitIsUse ==
    ASSUME Accounting, NEW k \in Keys, k \notin map, Commit(k)
    PROVE  Lru!Use(k) \/ UNCHANGED <<map, lru>>
  <1>1. CASE Bytes(k) <= HardCap
    <2>1. map' = map \cup {k} /\ lru' = lru \cup ({k} \X (map \ {k}))
      BY <1>1 DEF Commit, Front
    <2>2. lru = Lru!Without(lru, k)
      BY DEF Accounting, Lru!Without
    <2> QED BY <2>1, <2>2 DEF Lru!Use, Lru!InFront
  <1>2. CASE ~(Bytes(k) <= HardCap)
    BY <1>2 DEF Commit
  <1> QED BY <1>1, <1>2

\* An eviction drops the last of the abstract order.
LEMMA EvictIsDrop ==
    ASSUME TypeOK, ShieldIsFront, Evict
    PROVE  \E k \in Keys : Lru!Drop(k)
  <1>1. PICK k \in map : Victim(k) /\ map' = map \ {k} /\ lru' = Erase(k)
    BY DEF Evict
  <1>2. Last(map, k)
    BY <1>1, VictimIsLast
  <1>3. k \in Keys
    BY DEF TypeOK
  <1> QED BY <1>1, <1>2, <1>3 DEF Lru!Drop, Lru!Oldest, Lru!Without, Last, Erase

\* The cache with its shield, its two-phase calls and its prefetch worker
\* implements a plain LRU cache: what leaves is always the least recently
\* used entry of all.
THEOREM RefinesLru == Spec => ImplementsLru
  <1>1. Init => Lru!Init
    BY DEF Init, Lru!Init
  <1>2. IInv /\ [Next]_vars => [Lru!Next]_(Lru!lvars)
    <2> SUFFICES ASSUME IInv, [Next]_vars
                 PROVE  Lru!Next \/ UNCHANGED <<map, lru>>
      BY DEF Lru!lvars
    <2>0. TypeOK /\ PendingAbsent /\ Accounting /\ ShieldIsFront
      BY DEF IInv
    <2>1. ASSUME NEW e \in Experts, Hit(e) PROVE Lru!Next
      <3> DEFINE k == <<call.tensor, e>>
      <3>1. k \in Keys /\ k \in map
        BY <2>0, <2>1 DEF Hit, TypeOK
      <3>2. map' = map /\ lru' = Erase(k) \cup ({k} \X (map \ {k}))
        BY <2>1 DEF Hit, Refresh, Front
      <3>3. Lru!Use(k)
        <4> HIDE DEF k
        <4> QED BY <3>1, <3>2 DEF Lru!Use, Lru!InFront, Lru!Without, Erase
      <3> QED BY <3>1, <3>3 DEF Lru!Next
    <2>2. CASE DemandEvict \/ PrefetchEvict
      BY <2>0, <2>2, EvictIsDrop DEF DemandEvict, PrefetchEvict, Lru!Next
    <2>3. ASSUME NEW k \in Keys, k \notin map, Commit(k)
          PROVE  Lru!Next \/ UNCHANGED <<map, lru>>
      BY <2>0, <2>3, CommitIsUse DEF Lru!Next
    <2>4. CASE FillAndCommit
      <3>1. cur \in Keys /\ cur \notin map
        BY <2>0, <2>4 DEF FillAndCommit, PendingAbsent
      <3> QED BY <2>3, <2>4, <3>1 DEF FillAndCommit
    <2>5. CASE CommitMiss
      <3>1. misses \in Seq(Keys) /\ misses # <<>>
        BY <2>0, <2>5 DEF CommitMiss, TypeOK
      <3>2. Head(misses) = misses[1] /\ 1 \in 1..Len(misses) /\ Head(misses) \in Keys
        BY <3>1
      <3>3. Head(misses) \notin map
        BY <2>0, <3>2 DEF PendingAbsent
      <3> QED BY <2>3, <2>5, <3>2, <3>3 DEF CommitMiss
    <2>6. CASE PrefetchCommit
      <3>1. cur \in Keys /\ cur \notin map
        BY <2>0, <2>6 DEF PrefetchCommit, PendingAbsent
      <3> QED BY <2>3, <2>6, <3>1 DEF PrefetchCommit
    <2>7. \/ UNCHANGED cache
          \/ \E e \in Experts : Hit(e)
          \/ DemandEvict \/ PrefetchEvict \/ FillAndCommit \/ CommitMiss \/ PrefetchCommit
      BY DEF Next, DemandStep, PrefetchStep, Aborted, vars, BeginCall, Miss, QueueMiss,
             FillMisses, FillFails, Return, ComputeDone, PrefetchFilter, PrefetchRead,
             PrefetchReadFails, PrefetchGiveUp, PrefetchLock, PrefetchSkip,
             PrefetchTake, PrefetchDone
    <2> QED BY <2>1, <2>2, <2>4, <2>5, <2>6, <2>7 DEF cache
  <1> QED BY Inductive, <1>1, <1>2, PTL DEF Spec, ImplementsLru, Lru!Spec

-----------------------------------------------------------------------------
(* The cap in memcpy mode.                                                 *)

\* Without the offset backend every call is serial and nothing is prefetched.
SerialInv ==
    /\ ppc = "idle" /\ misses = <<>>
    /\ dpc # "commit"
    /\ dpc \in {"lookup", "room"} => serial

\* With memcpy fills (touch, touch_batch) the hard cap is never exceeded.
THEOREM CapInPointerMode ==
    ASSUME ~UseOdirect
    PROVE  Spec => []CapRespected
  <1> DEFINE Cap == SerialInv /\ CapRespected
  <1>1. Init => Cap
    BY SizeAssumption DEF Init, SerialInv, CapRespected
  <1>2. IInv /\ Cap /\ [Next]_vars => Cap'
    <2> SUFFICES ASSUME IInv, Cap, [Next]_vars PROVE Cap'
      OBVIOUS
    <2> USE DEF cache, demand, worker
    <2>0. TypeOK /\ PendingAbsent /\ Accounting
      BY DEF IInv
    <2>1. ASSUME NEW b \in Calls, NEW s \in BOOLEAN, BeginCall(b, s) PROVE Cap'
      BY <2>1 DEF BeginCall, SerialInv, CapRespected
    <2>2. ASSUME NEW e \in Experts, Hit(e) \/ Miss(e) PROVE Cap'
      BY <2>2 DEF Hit, Refresh, Miss, SerialInv, CapRespected
    <2>3. CASE DemandEvict
      <3>1. PICK k \in map : used' = used - Bytes(k)
        BY <2>3 DEF DemandEvict, Evict
      <3>2. Bytes(k) \in Nat /\ used \in Int
        BY <2>0, KeyType DEF TypeOK
      <3> QED BY <2>3, <3>1, <3>2, SizeAssumption DEF DemandEvict, SerialInv, CapRespected
    <2>4. CASE FillAndCommit
      <3>1. used \in Int /\ Bytes(cur) \in Nat
        BY <2>0, <2>4, KeyType DEF TypeOK, FillAndCommit, PendingAbsent
      <3>2. used + Bytes(cur) <= HardCap \/ used = 0
        <4>1. ~(used + Bytes(cur) > HardCap) \/ map = {}
          BY <2>4 DEF FillAndCommit, NeedsRoom
        <4>2. map = {} => used = 0
          BY <2>0, FS_EmptySet DEF Accounting, Slices
        <4> QED BY <3>1, <4>1, <4>2, SizeAssumption
      <3>3. used' <= HardCap
        BY <2>4, <3>1, <3>2, SizeAssumption DEF FillAndCommit, Commit, CapRespected
      <3> QED BY <2>4, <3>3 DEF FillAndCommit, SerialInv, CapRespected
    <2>5. CASE Return \/ ComputeDone
      BY <2>5 DEF Return, ComputeDone, SerialInv, CapRespected
    <2>6. CASE QueueMiss \/ FillMisses \/ FillFails \/ CommitMiss
      BY <2>6 DEF QueueMiss, FillMisses, FillFails, CommitMiss, SerialInv
    <2>7. CASE (\E b \in Prefetches : PrefetchFilter(b)) \/ PrefetchStep
      BY <2>7 DEF PrefetchStep, PrefetchFilter, PrefetchRead, PrefetchReadFails,
                  PrefetchGiveUp, PrefetchLock, PrefetchSkip, PrefetchTake,
                  PrefetchEvict, PrefetchCommit, PrefetchDone, SerialInv
    <2>8. CASE UNCHANGED vars
      BY <2>8 DEF vars, SerialInv, CapRespected
    <2> QED BY <2>1, <2>2, <2>3, <2>4, <2>5, <2>6, <2>7, <2>8
            DEF Next, DemandStep, Aborted
  <1>3. Cap => CapRespected
    OBVIOUS
  <1> QED BY Inductive, <1>1, <1>2, <1>3, PTL DEF Spec

-----------------------------------------------------------------------------
(* The cap in offset mode: by how much a batch can exceed it.              *)

\* The misses of a call, queued or still to be found, are at most its experts.
Queued ==
    /\ dpc \in {"lookup", "room", "commit"} => call \in Calls
    /\ dpc \in {"lookup", "room"} =>
        /\ serial => misses = <<>>
        /\ todo \subseteq call.experts
        /\ Len(misses) + Cardinality(todo) + (IF dpc = "room" THEN 1 ELSE 0)
               <= Cardinality(call.experts)

\* Room was made for one of the misses in the queue.
RoomForOne ==
    dpc \in {"lookup", "room"} /\ misses # <<>> /\ SliceBytes[call.tensor] <= HardCap
        => used + SliceBytes[call.tensor] <= HardCap

\* What is used once all of them are committed.
WhenCommitted ==
    dpc = "commit" /\ SliceBytes[call.tensor] <= HardCap =>
        used + Len(misses) * SliceBytes[call.tensor]
            <= HardCap + (Cardinality(call.experts) - 1) * SliceBytes[call.tensor]

Overshoot == Queued /\ RoomForOne /\ WhenCommitted /\ OvershootBounded

\* The sizes that a batch under way is made of.
LEMMA CallSizes ==
    ASSUME TypeOK
    PROVE  /\ call.tensor \in Tensors /\ call.experts \subseteq Experts
           /\ SliceBytes[call.tensor] \in Nat \ {0}
           /\ IsFiniteSet(call.experts) /\ Cardinality(call.experts) \in Nat
           /\ IsFiniteSet(todo) /\ Cardinality(todo) \in Nat
           /\ Len(misses) \in Nat
           /\ used \in Int /\ HardCap \in Nat
  <1>1. call.tensor \in Tensors /\ call.experts \subseteq Experts /\ todo \subseteq Experts
    BY DEF TypeOK, Batch
  <1>2. /\ IsFiniteSet(call.experts) /\ Cardinality(call.experts) \in Nat
        /\ IsFiniteSet(todo) /\ Cardinality(todo) \in Nat
    BY <1>1, SizeAssumption, FS_Subset, FS_CardinalityType
  <1>3. Len(misses) \in Nat /\ used \in Int
    BY DEF TypeOK
  <1> QED BY <1>1, <1>2, <1>3, SizeAssumption

\* No step queues more misses than the batch has experts.
LEMMA QueuedStep ==
    ASSUME IInv, Queued, [Next]_vars
    PROVE  Queued'
  <1> USE DEF cache, demand, worker
  <1>0. TypeOK /\ PendingAbsent
    BY DEF IInv
  <1>1. ASSUME NEW b \in Calls, NEW s \in BOOLEAN, BeginCall(b, s) PROVE Queued'
    <2>1. b \in Batch
      BY CallAssumption
    <2>2. Cardinality(b.experts) \in Nat
      BY <2>1, SizeAssumption, FS_Subset, FS_CardinalityType DEF Batch
    <2>3. /\ dpc' = "lookup" /\ call' = b /\ todo' = b.experts /\ misses' = <<>>
      BY <1>1 DEF BeginCall
    <2>4. 0 + Cardinality(b.experts) + 0 <= Cardinality(b.experts)
      BY <2>2
    <2> QED BY <2>3, <2>4 DEF Queued
  <1>2. ASSUME NEW e \in Experts, Hit(e) \/ Miss(e) PROVE Queued'
    <2>1. /\ dpc = "lookup" /\ e \in todo /\ todo' = todo \ {e}
          /\ UNCHANGED <<call, serial, misses>> /\ dpc' \in {"lookup", "room"}
      BY <1>2 DEF Hit, Miss
    <2>2. Cardinality(todo') = Cardinality(todo) - 1
      BY <1>0, <2>1, CallSizes, FS_RemoveElement
    <2>3. Len(misses) + Cardinality(todo) + 0 <= Cardinality(call.experts)
      BY <2>1 DEF Queued
    <2>4. Len(misses) + Cardinality(todo') + (IF dpc' = "room" THEN 1 ELSE 0)
              <= Cardinality(call.experts)
      BY <1>0, <2>2, <2>3, CallSizes
    <2> QED BY <2>1, <2>4 DEF Queued
  <1>3. CASE FillAndCommit
    <2>1. /\ dpc = "room" /\ dpc' = "lookup" /\ UNCHANGED <<call, serial, misses, todo>>
      BY <1>3 DEF FillAndCommit
    <2>2. Len(misses) + Cardinality(todo) + 1 <= Cardinality(call.experts)
      BY <2>1 DEF Queued
    <2>3. Len(misses) + Cardinality(todo) + 0 <= Cardinality(call.experts)
      BY <1>0, <2>2, CallSizes
    <2> QED BY <2>1, <2>3 DEF Queued
  <1>4. CASE QueueMiss
    <2>1. /\ dpc = "room" /\ ~serial /\ dpc' = "lookup" /\ UNCHANGED <<call, serial, todo>>
          /\ misses' = Append(misses, cur) /\ cur \in Keys
      BY <1>0, <1>4 DEF QueueMiss, PendingAbsent
    <2>2. Len(misses') = Len(misses) + 1
      BY <1>0, <2>1 DEF TypeOK
    <2>3. Len(misses) + Cardinality(todo) + 1 <= Cardinality(call.experts)
      BY <2>1 DEF Queued
    <2>4. Len(misses') + Cardinality(todo) + 0 <= Cardinality(call.experts)
      BY <1>0, <2>2, <2>3, CallSizes
    <2> QED BY <2>1, <2>4 DEF Queued
  <1>5. CASE FillMisses \/ FillFails \/ CommitMiss \/ Return \/ ComputeDone
    BY <1>5 DEF FillMisses, FillFails, CommitMiss, Return, ComputeDone, Queued
  <1>6. CASE UNCHANGED demand
    BY <1>6 DEF Queued
  <1> QED BY <1>1, <1>2, <1>3, <1>4, <1>5, <1>6
          DEF Next, DemandStep, PrefetchStep, Aborted, vars, DemandEvict,
              PrefetchFilter, PrefetchRead, PrefetchReadFails, PrefetchGiveUp, PrefetchLock,
              PrefetchSkip, PrefetchTake, PrefetchEvict, PrefetchCommit, PrefetchDone

\* An eviction never adds to used.
LEMMA EvictShrinks ==
    ASSUME TypeOK, Evict
    PROVE  used' \in Int /\ used' <= used
  <1>1. PICK k \in map : used' = used - Bytes(k)
    BY DEF Evict
  <1>2. Bytes(k) \in Nat /\ used \in Int
    BY KeyType DEF TypeOK
  <1> QED BY <1>1, <1>2

\* A commit right after the room was made stays under the cap.
LEMMA CommitFits ==
    ASSUME TypeOK, Accounting, cur \in Keys, ~NeedsRoom
    PROVE  Bytes(cur) <= HardCap => used + Bytes(cur) <= HardCap
  <1>1. ~(used + Bytes(cur) > HardCap) \/ map = {}
    BY DEF NeedsRoom
  <1>2. map = {} => used = 0
    BY FS_EmptySet DEF Accounting, Slices
  <1>3. used \in Int /\ Bytes(cur) \in Nat /\ HardCap \in Nat
    BY KeyType, SizeAssumption DEF TypeOK
  <1> QED BY <1>1, <1>2, <1>3

\* No step uses more than room was made for.
LEMMA RoomStep ==
    ASSUME IInv, Queued, RoomForOne, [Next]_vars
    PROVE  RoomForOne'
  <1> USE DEF cache, demand, worker
  <1>0. TypeOK /\ PendingAbsent /\ Accounting
    BY DEF IInv
  <1>1. CASE UNCHANGED <<used, call, misses, dpc>>
    BY <1>1 DEF RoomForOne
  <1>2. CASE dpc' \notin {"lookup", "room"} \/ misses' = <<>>
    BY <1>2 DEF RoomForOne
  <1>3. ASSUME NEW e \in Experts, Hit(e) \/ Miss(e) PROVE RoomForOne'
    <2>1. dpc = "lookup" /\ UNCHANGED <<used, call, misses>>
      BY <1>3 DEF Hit, Miss, Refresh
    <2> QED BY <2>1 DEF RoomForOne
  <1>4. CASE DemandEvict
    <2>1. used' \in Int /\ used' <= used
      BY <1>0, <1>4, EvictShrinks DEF DemandEvict
    <2>2. dpc = "room" /\ UNCHANGED <<dpc, call, misses>>
      BY <1>4 DEF DemandEvict
    <2>3. used + SliceBytes[call.tensor] <= HardCap => used' + SliceBytes[call.tensor] <= HardCap
      BY <1>0, <2>1, CallSizes
    <2> QED BY <2>2, <2>3 DEF RoomForOne
  <1>5. CASE FillAndCommit
    BY <1>2, <1>5 DEF FillAndCommit, Queued
  <1>6. CASE QueueMiss
    <2>1. cur \in Keys /\ cur[1] = call.tensor /\ UNCHANGED <<used, call>> /\ ~NeedsRoom
      BY <1>0, <1>6 DEF QueueMiss, PendingAbsent
    <2>2. Bytes(cur) = SliceBytes[call.tensor]
      BY <2>1 DEF Bytes
    <2> QED BY <1>0, <2>1, <2>2, CommitFits DEF RoomForOne
  <1>7. CASE (\E b \in Prefetches : PrefetchFilter(b)) \/ PrefetchStep
    <2>1. UNCHANGED demand
      BY <1>7 DEF PrefetchStep, PrefetchFilter, PrefetchRead, PrefetchReadFails,
                  PrefetchGiveUp, PrefetchLock, PrefetchSkip, PrefetchTake, PrefetchEvict,
                  PrefetchCommit, PrefetchDone
    <2>2. dpc \in {"lookup", "room"} => UNCHANGED used
      BY <1>0, <1>7 DEF PendingAbsent, PrefetchStep, PrefetchFilter, PrefetchRead,
                        PrefetchReadFails, PrefetchGiveUp, PrefetchLock, PrefetchSkip,
                        PrefetchTake, PrefetchEvict, PrefetchCommit, PrefetchDone
    <2> QED BY <2>1, <2>2 DEF RoomForOne
  <1>8. CASE (\E b \in Calls, s \in BOOLEAN : BeginCall(b, s)) \/ FillMisses \/ FillFails
             \/ CommitMiss \/ Return \/ ComputeDone
    <2>1. dpc' \notin {"lookup", "room"} \/ misses' = <<>>
      BY <1>8 DEF BeginCall, FillMisses, FillFails, CommitMiss, Return, ComputeDone
    <2> QED BY <1>2, <2>1
  <1> QED BY <1>1, <1>3, <1>4, <1>5, <1>6, <1>7, <1>8 DEF Next, DemandStep, Aborted, vars

\* Multiplication by a size is monotonic.
LEMMA TimesLE ==
    ASSUME NEW m \in Int, NEW n \in Int, NEW b \in Nat, m <= n
    PROVE  m * b <= n * b
  <1>1. n - m \in Nat /\ n = m + (n - m)
    OBVIOUS
  <1> DEFINE d == n - m
  <1>2. d * b \in Nat /\ n * b = m * b + d * b /\ m * b \in Int
    <2>1. d \in Nat /\ n = m + d
      BY <1>1
    <2> HIDE DEF d
    <2> QED BY <2>1
  <1> HIDE DEF d
  <1> QED BY <1>2

\* The misses of a batch are committed one by one over what was used when room
\* was made for the last of them.
LEMMA CommitStep ==
    ASSUME IInv, Overshoot, [Next]_vars
    PROVE  WhenCommitted' /\ OvershootBounded'
  <1> USE DEF cache, demand, worker
  <1>0. TypeOK /\ PendingAbsent /\ Accounting
    BY DEF IInv
  <1> DEFINE b == SliceBytes[call.tensor]
             n == Cardinality(call.experts)
  <1>a. b \in Nat \ {0} /\ n \in Nat /\ Len(misses) \in Nat /\ used \in Int /\ HardCap \in Nat
    BY <1>0, CallSizes
  <1>b. \A x \in Int : x <= used /\ used' = x => OvershootBounded'
    <2> SUFFICES ASSUME NEW x \in Int, x <= used, used' = x PROVE OvershootBounded'
      OBVIOUS
    <2>1. \A y \in Int : used <= y => used' <= y
      BY <1>a
    <2>2. CASE used <= HardCap
      BY <1>a, <2>1, <2>2 DEF OvershootBounded
    <2>3. CASE ~(used <= HardCap)
      <3>1. PICK c \in Calls :
                used <= HardCap + (Cardinality(c.experts) - 1) * SliceBytes[c.tensor]
        BY <2>3 DEF Overshoot, OvershootBounded
      <3>2. c.experts \subseteq Experts /\ SliceBytes[c.tensor] \in Nat
        BY CallAssumption, SizeAssumption DEF Batch
      <3>3. Cardinality(c.experts) \in Nat
        BY <3>2, SizeAssumption, FS_Subset, FS_CardinalityType
      <3>4. HardCap + (Cardinality(c.experts) - 1) * SliceBytes[c.tensor] \in Int
        BY <1>a, <3>2, <3>3
      <3>5. used' <= HardCap + (Cardinality(c.experts) - 1) * SliceBytes[c.tensor]
        BY <2>1, <3>1, <3>4
      <3> QED BY <3>5 DEF OvershootBounded
    <2> QED BY <2>2, <2>3
  <1>1. CASE UNCHANGED used /\ dpc' # "commit"
    BY <1>1, <1>a, <1>b DEF WhenCommitted
  <1>2. CASE DemandEvict \/ PrefetchEvict
    <2>1. used' \in Int /\ used' <= used
      BY <1>0, <1>2, EvictShrinks DEF DemandEvict, PrefetchEvict
    <2>2. dpc' # "commit"
      BY <1>0, <1>2 DEF DemandEvict, PrefetchEvict, PendingAbsent
    <2> QED BY <1>b, <2>1, <2>2 DEF WhenCommitted
  <1>3. CASE FillAndCommit \/ PrefetchCommit
    <2>1. cur \in Keys /\ ~NeedsRoom /\ Commit(cur) /\ dpc' # "commit"
      BY <1>0, <1>3 DEF FillAndCommit, PrefetchCommit, PendingAbsent
    <2>2. Bytes(cur) <= HardCap => used + Bytes(cur) <= HardCap
      BY <1>0, <2>1, CommitFits
    <2>3. used' <= HardCap \/ used' = used
      BY <2>1, <2>2 DEF Commit
    <2> QED BY <1>a, <1>b, <2>1, <2>3 DEF WhenCommitted, OvershootBounded
  <1>4. CASE FillMisses
    <2>1. /\ dpc = "lookup" /\ todo = {} /\ misses # <<>> /\ dpc' = "commit"
          /\ UNCHANGED <<used, call, misses>>
      BY <1>4 DEF FillMisses
    <2>2. Len(misses) <= n
      <3>1. Cardinality(todo) = 0
        BY <2>1, FS_EmptySet
      <3>2. Len(misses) + Cardinality(todo) + 0 <= n
        BY <2>1 DEF Overshoot, Queued
      <3> QED BY <1>a, <3>1, <3>2
    <2>3. ASSUME b <= HardCap PROVE used + Len(misses) * b <= HardCap + (n - 1) * b
      <3>1. used + b <= HardCap
        BY <2>1, <2>3 DEF Overshoot, RoomForOne
      <3> HIDE DEF b, n
      <3>2. (Len(misses) - 1) * b <= (n - 1) * b
        BY <1>a, <2>2, TimesLE
      <3>3. /\ Len(misses) * b = (Len(misses) - 1) * b + b
            /\ (Len(misses) - 1) * b \in Int /\ (n - 1) * b \in Int
        BY <1>a
      <3> QED BY <1>a, <3>1, <3>2, <3>3
    <2> QED BY <1>a, <1>b, <2>1, <2>3 DEF WhenCommitted
  <1>5. CASE CommitMiss
    <2>1. /\ dpc = "commit" /\ misses # <<>> /\ misses' = Tail(misses)
          /\ UNCHANGED <<call, dpc>> /\ Commit(Head(misses))
      BY <1>5 DEF CommitMiss
    <2>2. /\ Len(misses') = Len(misses) - 1 /\ Len(misses) \in Nat \ {0}
          /\ Bytes(Head(misses)) = b
      <3>1. misses \in Seq(Keys)
        BY <1>0 DEF TypeOK
      <3>2. Head(misses) = misses[1] /\ 1 \in 1..Len(misses)
        BY <2>1, <3>1
      <3>3. misses[1][1] = call.tensor
        BY <1>0, <3>2 DEF PendingAbsent
      <3> QED BY <2>1, <3>1, <3>2, <3>3 DEF Bytes
    <2>3. CASE b > HardCap
      <3>1. used' = used
        BY <1>a, <2>1, <2>2, <2>3 DEF Commit
      <3> QED BY <1>a, <1>b, <2>1, <2>3, <3>1 DEF WhenCommitted
    <2>4. CASE b <= HardCap
      <3>1. used' = used + b
        BY <2>1, <2>2, <2>4 DEF Commit
      <3>2. used + Len(misses) * b <= HardCap + (n - 1) * b
        BY <2>1, <2>4 DEF Overshoot, WhenCommitted
      <3>3. /\ used' + Len(misses') * b <= HardCap + (n - 1) * b
            /\ used' <= HardCap + (n - 1) * b
        <4> HIDE DEF b, n
        <4>1. /\ Len(misses) * b = (Len(misses) - 1) * b + b
              /\ (Len(misses) - 1) * b \in Nat /\ (n - 1) * b \in Int
          BY <1>a, <2>2
        <4> QED BY <1>a, <2>2, <3>1, <3>2, <4>1
      <3>4. call \in Calls
        BY <2>1 DEF Overshoot, Queued
      <3> QED BY <2>1, <3>3, <3>4 DEF WhenCommitted, OvershootBounded
    <2> QED BY <1>a, <2>3, <2>4
  <1>6. CASE UNCHANGED <<used, call, misses, dpc>>
    BY <1>6, <1>a, <1>b DEF Overshoot, WhenCommitted
  <1>7. ASSUME NEW e \in Experts, Hit(e) \/ Miss(e)
        PROVE  UNCHANGED used /\ dpc' # "commit"
    BY <1>7 DEF Hit, Refresh, Miss
  <1>8. CASE (\E c \in Calls, s \in BOOLEAN : BeginCall(c, s)) \/ QueueMiss \/ FillFails
             \/ ComputeDone \/ Return
    <2>1. UNCHANGED used /\ dpc' # "commit"
      BY <1>8 DEF BeginCall, QueueMiss, FillFails, ComputeDone, Return
    <2> QED BY <1>1, <2>1
  <1>9. CASE (\E c \in Prefetches : PrefetchFilter(c)) \/ PrefetchStep
    <2>1. PrefetchEvict \/ PrefetchCommit \/ UNCHANGED <<used, demand>>
      BY <1>9 DEF PrefetchStep, PrefetchFilter, PrefetchRead, PrefetchReadFails,
                  PrefetchGiveUp, PrefetchLock, PrefetchSkip, PrefetchTake, PrefetchDone
    <2> QED BY <1>2, <1>3, <1>6, <2>1
  <1>10. CASE UNCHANGED vars
    BY <1>6, <1>10 DEF vars
  <1> QED BY <1>1, <1>2, <1>3, <1>4, <1>5, <1>7, <1>8, <1>9, <1>10
          DEF Next, DemandStep, Aborted

\* The misses of a batch are always at most its experts.
LEMMA QueuedHolds == Spec => []Queued
  <1>1. Init => Queued
    BY DEF Init, Queued
  <1>2. IInv /\ Queued /\ [Next]_vars => Queued'
    BY QueuedStep
  <1> QED BY Inductive, <1>1, <1>2, PTL DEF Spec

\* A batch of misses exceeds the cap by at most all of its slices but one, and
\* nothing else exceeds it: not a prefetch, and not the batches before, which
\* the next one evicts down to the cap again.
THEOREM OvershootIsBounded == Spec => []OvershootBounded
  <1>1. Init => Overshoot
    BY SizeAssumption DEF Init, Overshoot, Queued, RoomForOne, WhenCommitted, OvershootBounded
  <1>2. IInv /\ Overshoot /\ [Next]_vars => Overshoot'
    BY QueuedStep, RoomStep, CommitStep DEF Overshoot
  <1>3. Overshoot => OvershootBounded
    BY DEF Overshoot
  <1> QED BY Inductive, <1>1, <1>2, <1>3, PTL DEF Spec

-----------------------------------------------------------------------------
(* Contents.                                                               *)

\* Rounding down to a page finds the page.
LEMMA DivExact ==
    ASSUME NEW m \in Nat, NEW P \in Nat \ {0}, NEW r \in 0 .. P - 1
    PROVE  (m * P + r) \div P = m
  <1> DEFINE x == m * P + r
             d == x \div P
  <1>1. x \in Nat /\ m * P \in Nat
    OBVIOUS
  <1>2. d \in Nat /\ d * P <= x /\ x < (d + 1) * P
    BY <1>1
  <1>3. d * P \in Nat /\ (d + 1) * P \in Nat /\ (m + 1) * P = m * P + P
    BY <1>2
  <1>4. ~(d < m)
    <2> SUFFICES ASSUME d < m PROVE FALSE
      OBVIOUS
    <2>1. (d + 1) * P <= m * P
      BY <1>2, Stride
    <2> QED BY <1>1, <1>2, <1>3, <2>1
  <1>5. ~(m < d)
    <2> SUFFICES ASSUME m < d PROVE FALSE
      OBVIOUS
    <2>1. (m + 1) * P <= d * P
      BY <1>2, Stride
    <2> QED BY <1>1, <1>2, <1>3, <2>1
  <1> QED BY <1>2, <1>4, <1>5

\* Slices are whole pages (expert slices of a prepared GGUF).
Aligned == \A t \in Tensors : \E q \in Nat : SliceBytes[t] = q * PageBytes

\* Then madvise drops the victim's slice and nothing else.
LEMMA AlignedSpan ==
    ASSUME Aligned, NEW k \in Keys
    PROVE  Span(k) = Slice(k)
  <1>1. PICK q \in Nat : Bytes(k) = q * PageBytes
    BY KeyType DEF Aligned, Bytes
  <1>2. k[2] \in Nat /\ PageBytes \in Nat \ {0} /\ k[2] * q \in Nat /\ (k[2] + 1) * q \in Nat
    BY KeyType, SizeAssumption
  <1>3. /\ k[2] * Bytes(k) = (k[2] * q) * PageBytes + 0
        /\ (k[2] + 1) * Bytes(k) = ((k[2] + 1) * q) * PageBytes
    BY <1>1, <1>2
  <1>4. /\ (k[2] * Bytes(k)) \div PageBytes = k[2] * q
        /\ ((k[2] + 1) * Bytes(k) + (PageBytes - 1)) \div PageBytes = (k[2] + 1) * q
    <2>1. 0 \in 0 .. PageBytes - 1 /\ PageBytes - 1 \in 0 .. PageBytes - 1
      BY <1>2
    <2>2. \A m \in Nat : /\ (m * PageBytes + 0) \div PageBytes = m
                         /\ (m * PageBytes + (PageBytes - 1)) \div PageBytes = m
      BY <1>2, <2>1, DivExact
    <2> QED BY <1>2, <1>3, <2>2, Zenon
  <1>5. (k[2] + 1) * Bytes(k) + (PageBytes - 1) = (k[2] + 1) * Bytes(k) + PageBytes - 1
    BY <1>2, KeyType
  <1>6. /\ PageFloor(k[2] * Bytes(k)) = k[2] * Bytes(k)
        /\ PageFloor((k[2] + 1) * Bytes(k) + PageBytes - 1) = (k[2] + 1) * Bytes(k)
    BY <1>2, <1>3, <1>4, <1>5 DEF PageFloor
  <1> QED BY <1>6 DEF Span, Slice

\* The entries and the misses that were filled have their bytes.
ContentInv ==
    /\ ppc = "idle"
    /\ ResidentIsLoaded
    /\ dpc = "commit" => Slices({misses[i] : i \in 1..Len(misses)}) \subseteq window

\* The eviction of whole pages takes no byte of another slice.
LEMMA EvictKeepsContent ==
    ASSUME Aligned, TypeOK, ResidentIsLoaded, Evict
    PROVE  ResidentIsLoaded'
  <1>1. PICK k \in map : map' = map \ {k} /\ window' = window \ Span(k)
    BY DEF Evict
  <1>2. Span(k) = Slice(k)
    BY AlignedSpan DEF TypeOK
  <1>3. \A j \in map \ {k} : Slice(j) \subseteq window /\ Slice(j) \cap Slice(k) = {}
    BY SlicesDisjoint DEF TypeOK, ResidentIsLoaded, Slices
  <1> QED BY <1>1, <1>2, <1>3 DEF ResidentIsLoaded, Slices

\* A slice is committed when its bytes are there.
LEMMA CommitKeepsContent ==
    ASSUME ResidentIsLoaded, NEW k, Commit(k), window \cup Slice(k) \subseteq window'
    PROVE  ResidentIsLoaded'
  BY DEF Commit, ResidentIsLoaded, Slices

\* The steps of the decode thread.
DemandSide ==
    \/ \E b \in Calls, s \in BOOLEAN : BeginCall(b, s)
    \/ DemandStep \/ ComputeDone \/ UNCHANGED vars

\* While the prefetch worker stays idle, there are no others.
LEMMA OnlyDemand ==
    ASSUME ppc = "idle", [Next]_vars
    PROVE  \/ DemandSide /\ ppc' = "idle"
           \/ \E b \in Prefetches : PrefetchFilter(b) /\ ppc' # "idle"
  <1>1. ~PrefetchStep
    BY DEF PrefetchStep, PrefetchRead, PrefetchReadFails, PrefetchGiveUp, PrefetchLock,
           PrefetchSkip, PrefetchTake, PrefetchEvict, PrefetchCommit, PrefetchDone
  <1>2. DemandSide \/ \E b \in Prefetches : PrefetchFilter(b)
    BY <1>1 DEF Next, Aborted, DemandSide
  <1>3. DemandSide => ppc' = "idle"
    BY DEF DemandSide, DemandStep, BeginCall, Hit, Refresh, Miss, DemandEvict,
           FillAndCommit, QueueMiss, FillMisses, FillFails, CommitMiss, Return,
           ComputeDone, vars, worker
  <1>4. ASSUME NEW b \in Prefetches, PrefetchFilter(b) PROVE ppc' # "idle"
    BY <1>4 DEF PrefetchFilter
  <1> QED BY <1>2, <1>3, <1>4

\* No step of the decode thread leaves a tracked slice without its bytes.
LEMMA ContentStep ==
    ASSUME Aligned, IInv, ContentInv, DemandSide
    PROVE  ContentInv'
  <1> USE DEF cache, demand, worker
  <1>0. TypeOK /\ PendingAbsent /\ ResidentIsLoaded /\ ppc = "idle"
    BY DEF IInv, ContentInv
  <1>1. CASE UNCHANGED <<map, window, ppc, misses>> /\ (dpc' = "commit" => dpc = "commit")
    BY <1>1 DEF ContentInv, ResidentIsLoaded
  <1>2. CASE DemandEvict
    <2>1. ResidentIsLoaded'
      BY <1>0, <1>2, EvictKeepsContent DEF DemandEvict
    <2> QED BY <1>0, <1>2, <2>1 DEF DemandEvict, ContentInv
  <1>3. CASE FillAndCommit
    <2>1. ResidentIsLoaded'
      BY <1>0, <1>3, CommitKeepsContent DEF FillAndCommit
    <2> QED BY <1>0, <1>3, <2>1 DEF FillAndCommit, ContentInv
  <1>4. CASE QueueMiss
    BY <1>0, <1>4 DEF QueueMiss, ContentInv, ResidentIsLoaded
  <1>5. CASE FillMisses
    BY <1>0, <1>5 DEF FillMisses, ContentInv, ResidentIsLoaded
  <1>6. CASE CommitMiss
    <2>1. misses \in Seq(Keys) /\ misses # <<>>
      BY <1>0, <1>6 DEF CommitMiss, TypeOK
    <2>2. /\ Head(misses) = misses[1] /\ 1 \in 1..Len(misses)
          /\ \A i \in 1..Len(Tail(misses)) :
                 i + 1 \in 1..Len(misses) /\ Tail(misses)[i] = misses[i + 1]
      BY <2>1
    <2>3. Slice(Head(misses)) \subseteq window
      BY <1>6, <2>2 DEF CommitMiss, ContentInv, Slices
    <2>4. ResidentIsLoaded'
      BY <1>0, <1>6, <2>3, CommitKeepsContent DEF CommitMiss
    <2>5. Slices({Tail(misses)[i] : i \in 1..Len(Tail(misses))}) \subseteq window
      BY <1>6, <2>2 DEF CommitMiss, ContentInv, Slices
    <2> QED BY <1>0, <1>6, <2>4, <2>5 DEF CommitMiss, ContentInv
  <1>7. ASSUME NEW b \in Calls, NEW s \in BOOLEAN, BeginCall(b, s)
        PROVE  ContentInv'
    BY <1>0, <1>7 DEF BeginCall, ContentInv, ResidentIsLoaded
  <1>8. ASSUME NEW e \in Experts, Hit(e) \/ Miss(e) PROVE ContentInv'
    BY <1>1, <1>8 DEF Hit, Refresh, Miss
  <1>9. CASE FillFails \/ Return \/ ComputeDone \/ UNCHANGED vars
    BY <1>1, <1>9 DEF FillFails, Return, ComputeDone, vars
  <1> QED BY <1>2, <1>3, <1>4, <1>5, <1>6, <1>7, <1>8, <1>9 DEF DemandSide, DemandStep

\* Without prefetch, and with slices that are whole pages, an entry always has
\* all of its bytes in the window: evictions never touch another entry, and a
\* failed fill never becomes an entry.
THEOREM ContentsWithoutPrefetch ==
    ASSUME Prefetches = {}, Aligned
    PROVE  Spec => []ResidentIsLoaded
  <1>1. Init => ContentInv
    BY DEF Init, ContentInv, ResidentIsLoaded, Slices
  <1>2. IInv /\ ContentInv /\ [Next]_vars => ContentInv'
    BY ContentStep, OnlyDemand DEF ContentInv
  <1>3. ContentInv => ResidentIsLoaded
    BY DEF ContentInv
  <1> QED BY Inductive, <1>1, <1>2, <1>3, PTL DEF Spec

-----------------------------------------------------------------------------
(* Memory that nobody accounts for.                                        *)

\* madvise drops the victim's slice, whatever its alignment.
LEMMA SpanCovers ==
    ASSUME NEW k \in Keys
    PROVE  Slice(k) \subseteq Span(k)
  <1> DEFINE lo == k[2] * Bytes(k)
             hi == (k[2] + 1) * Bytes(k)
             P == PageBytes
  <1>1. lo \in Nat /\ hi \in Nat /\ P \in Nat \ {0}
    BY KeyType, SizeAssumption
  <1> HIDE DEF lo, hi
  <1>2. (lo \div P) * P \in Int /\ (lo \div P) * P <= lo
    BY <1>1
  <1>3. ((hi + P - 1) \div P) * P \in Int /\ hi <= ((hi + P - 1) \div P) * P
    <2> DEFINE d == (hi + P - 1) \div P
    <2>1. hi + P - 1 \in Nat
      BY <1>1
    <2>2. d \in Nat /\ hi + P - 1 < (d + 1) * P
      BY <1>1, <2>1
    <2>3. d * P \in Int /\ (d + 1) * P = d * P + P
      BY <1>1, <2>2
    <2> HIDE DEF d
    <2>4. hi <= d * P
      BY <1>1, <2>2, <2>3
    <2> QED BY <2>3, <2>4 DEF d
  <1>4. lo .. hi - 1 \subseteq PageFloor(lo) .. PageFloor(hi + P - 1) - 1
    BY <1>1, <1>2, <1>3 DEF PageFloor
  <1> QED BY <1>4 DEF Slice, Span, lo, hi

\* Somebody answers for key k.
Held(k) ==
    \/ k \in map
    \/ \E i \in 1..Len(misses) : misses[i] = k
    \/ Bytes(k) > HardCap

\* Without prefetch, a populated unit always belongs to an entry, to a miss
\* that is about to be committed, or to a slice above the cap: no eviction and
\* no failed fill leaves memory behind that make_room_locked does not count.
THEOREM MemoryIsTracked ==
    ASSUME Prefetches = {}
    PROVE  Spec => []NoUntrackedMemory
  <1> DEFINE Inv == ppc = "idle" /\ NoUntrackedMemory
  <1>a. NoUntrackedMemory <=> \A u \in window : \E k \in Keys : u \in Slice(k) /\ Held(k)
    BY DEF NoUntrackedMemory, Held, Slices
  <1>1. Init => Inv
    BY DEF Init, NoUntrackedMemory
  <1>2. IInv /\ Inv /\ [Next]_vars => Inv'
    <2> SUFFICES ASSUME IInv, Inv, [Next]_vars PROVE Inv'
      OBVIOUS
    <2> USE DEF cache, demand, worker
    <2>0. TypeOK /\ PendingAbsent /\ misses \in Seq(Keys)
      BY DEF IInv, TypeOK
    <2>a. DemandSide /\ ppc' = "idle"
      BY OnlyDemand
    <2>b. \A u \in window : \E k \in Keys : u \in Slice(k) /\ Held(k)
      BY <1>a
    <2> SUFFICES ASSUME NEW u \in window' PROVE \E k \in Keys : u \in Slice(k) /\ Held(k)'
      <3>1. (\A u \in window' : \E k \in Keys : u \in Slice(k) /\ Held(k)') => NoUntrackedMemory'
        BY DEF NoUntrackedMemory, Held, Slices
      <3> QED BY <2>a, <3>1
    <2>1. CASE UNCHANGED <<map, window, misses>>
      BY <2>b, <2>1 DEF Held
    <2>2. CASE DemandEvict
      <3>1. PICK v \in map : map' = map \ {v} /\ window' = window \ Span(v)
        BY <2>2 DEF DemandEvict, Evict
      <3>2. Slice(v) \subseteq Span(v)
        BY <2>0, SpanCovers DEF TypeOK
      <3>3. PICK k \in Keys : u \in Slice(k) /\ Held(k)
        BY <2>b, <3>1
      <3>4. k # v /\ UNCHANGED misses
        BY <2>2, <3>1, <3>2, <3>3 DEF DemandEvict
      <3> QED BY <3>1, <3>3, <3>4 DEF Held
    <2>3. CASE FillAndCommit
      <3>1. /\ cur \in Keys /\ map \subseteq map' /\ UNCHANGED misses
            /\ cur \in map' \/ ~(Bytes(cur) <= HardCap)
            /\ window' = window \cup Slice(cur)
        BY <2>0, <2>3 DEF FillAndCommit, Commit, PendingAbsent
      <3>2. \A k \in Keys : k = cur => Held(k)'
        <4>1. Bytes(cur) \in Nat /\ HardCap \in Nat
          BY <3>1, KeyType, SizeAssumption
        <4> QED BY <3>1, <4>1 DEF Held
      <3>3. \A k \in Keys : Held(k) => Held(k)'
        BY <3>1 DEF Held
      <3> QED BY <2>b, <3>1, <3>2, <3>3
    <2>4. CASE QueueMiss
      <3>1. UNCHANGED <<map, window>> /\ misses' = Append(misses, cur) /\ cur \in Keys
        BY <2>0, <2>4 DEF QueueMiss, PendingAbsent
      <3>2. \A i \in 1..Len(misses) : i \in 1..Len(misses') /\ misses'[i] = misses[i]
        BY <2>0, <3>1
      <3> QED BY <2>b, <3>1, <3>2 DEF Held
    <2>5. CASE FillMisses
      <3>1. /\ window' = window \cup Slices({misses[i] : i \in 1..Len(misses)})
            /\ UNCHANGED <<map, misses>>
        BY <2>5 DEF FillMisses
      <3>2. \A i \in 1..Len(misses) : misses[i] \in Keys /\ Held(misses[i])'
        BY <2>0, <3>1 DEF Held
      <3>3. \A k \in Keys : Held(k) => Held(k)'
        BY <3>1 DEF Held
      <3> QED BY <2>b, <3>1, <3>2, <3>3 DEF Slices
    <2>6. CASE CommitMiss
      <3>1. /\ UNCHANGED window /\ map \subseteq map' /\ misses # <<>>
            /\ Head(misses) \in map' \/ ~(Bytes(Head(misses)) <= HardCap)
            /\ misses' = Tail(misses)
        BY <2>6 DEF CommitMiss, Commit
      <3>2. /\ Head(misses) = misses[1] /\ Head(misses) \in Keys
            /\ \A i \in 1..Len(misses) : i # 1 =>
                  i - 1 \in 1..Len(misses') /\ misses'[i - 1] = misses[i]
        <4>1. /\ Head(misses) = misses[1] /\ Head(misses) \in Keys
              /\ Len(misses') = Len(misses) - 1 /\ Len(misses) \in Nat
              /\ \A j \in 1..Len(misses) - 1 : misses'[j] = misses[j + 1]
          BY <2>0, <3>1
        <4>2. ASSUME NEW i \in 1..Len(misses), i # 1
              PROVE  i - 1 \in 1..Len(misses) - 1 /\ (i - 1) + 1 = i
          BY <4>1, <4>2
        <4>3. ASSUME NEW i \in 1..Len(misses), i # 1
              PROVE  i - 1 \in 1..Len(misses') /\ misses'[i - 1] = misses[i]
          <5> DEFINE j == i - 1
          <5>1. j \in 1..Len(misses) - 1 /\ j + 1 = i
            BY <4>2, <4>3
          <5> HIDE DEF j
          <5>2. misses'[j] = misses[i] /\ j \in 1..Len(misses')
            BY <4>1, <5>1
          <5> QED BY <5>2 DEF j
        <4> QED BY <4>1, <4>3
      <3>3. \A k \in Keys : Held(k) => k \in map' \/ Bytes(k) > HardCap
                                       \/ \E i \in 1..Len(misses') : misses'[i] = k
        <4> SUFFICES ASSUME NEW k \in Keys, NEW i \in 1..Len(misses), misses[i] = k
                     PROVE  k \in map' \/ Bytes(k) > HardCap
                            \/ \E j \in 1..Len(misses') : misses'[j] = k
          BY <3>1 DEF Held
        <4>1. CASE i = 1
          <5>1. Bytes(k) \in Nat /\ HardCap \in Nat
            BY KeyType, SizeAssumption
          <5> QED BY <3>1, <3>2, <4>1, <5>1
        <4>2. CASE i # 1
          BY <3>2, <4>2
        <4> QED BY <4>1, <4>2
      <3>4. \A k \in Keys : Held(k) => Held(k)'
        BY <3>3 DEF Held
      <3> QED BY <2>b, <3>1, <3>4
    <2>7. ASSUME NEW b \in Calls, NEW s \in BOOLEAN, BeginCall(b, s)
          PROVE  \E k \in Keys : u \in Slice(k) /\ Held(k)'
      <3>1. misses = <<>> /\ misses' = <<>> /\ UNCHANGED <<map, window>>
        BY <2>0, <2>7 DEF BeginCall, PendingAbsent
      <3> QED BY <2>1, <3>1
    <2>8. ASSUME NEW e \in Experts, Hit(e) \/ Miss(e)
          PROVE  \E k \in Keys : u \in Slice(k) /\ Held(k)'
      BY <2>1, <2>8 DEF Hit, Refresh, Miss
    <2>9. CASE FillFails \/ Return \/ ComputeDone \/ UNCHANGED vars
      BY <2>1, <2>9 DEF FillFails, Return, ComputeDone, vars
    <2> QED BY <2>a, <2>2, <2>3, <2>4, <2>5, <2>6, <2>7, <2>8, <2>9 DEF DemandSide, DemandStep
  <1>3. Inv => NoUntrackedMemory
    OBVIOUS
  <1> QED BY Inductive, <1>1, <1>2, <1>3, PTL DEF Spec

-----------------------------------------------------------------------------
(* What the kernel finds.                                                  *)

\* The slices of a batch take no more than their number times their size.
LEMMA FootprintOf ==
    ASSUME NEW t \in Tensors, NEW E \in SUBSET Experts
    PROVE  Cardinality(Slices({t} \X E)) <= Cardinality(E) * SliceBytes[t]
  <1> DEFINE b == SliceBytes[t]
             S == E \X (0 .. b - 1)
             f == [p \in S |-> <<t, p[1] * b + p[2]>>]
             T == {f[p] : p \in S}
  <1>1. b \in Nat \ {0} /\ E \subseteq Nat /\ IsFiniteSet(E)
    BY SizeAssumption, FS_Subset
  <1>2. IsFiniteSet(0 .. b - 1) /\ Cardinality(0 .. b - 1) = b
    <2>1. 0 \in Int /\ b - 1 \in Int /\ ~(0 > b - 1) /\ (b - 1) - 0 + 1 = b
      BY <1>1
    <2> HIDE DEF b
    <2> QED BY <2>1, FS_Interval
  <1>3. IsFiniteSet(S) /\ Cardinality(S) = Cardinality(E) * b
    <2> HIDE DEF b
    <2> QED BY <1>1, <1>2, FS_Product
  <1>4. IsFiniteSet(T) /\ Cardinality(T) <= Cardinality(S)
    <2>1. f \in Surjection(S, T)
      BY DEF Surjection
    <2> HIDE DEF S, T, f
    <2> QED BY <1>3, <2>1, FS_Surjection
  <1>5. Slices({t} \X E) \subseteq T
    <2> SUFFICES ASSUME NEW k \in {t} \X E, NEW u \in Slice(k) PROVE u \in T
      <3> HIDE DEF T
      <3> QED BY DEF Slices
    <2>0. PICK e \in E : k = <<t, e>>
      OBVIOUS
    <2>1. PICK x \in e * b .. (e + 1) * b - 1 : u = <<t, x>>
      BY <2>0 DEF Slice, Bytes
    <2>2. x - e * b \in 0 .. b - 1 /\ e * b + (x - e * b) = x
      <3> DEFINE eb == e * b
      <3>1. eb \in Nat /\ (e + 1) * b = eb + b /\ b \in Nat
        BY <1>1
      <3>2. x \in eb .. (eb + b) - 1
        BY <2>1, <3>1
      <3> HIDE DEF b, eb
      <3>3. x - eb \in 0 .. b - 1 /\ eb + (x - eb) = x
        BY <3>1, <3>2
      <3> QED BY <3>3 DEF eb
    <2> DEFINE y == x - e * b
    <2>3. y \in 0 .. b - 1 /\ e * b + y = x
      BY <2>2
    <2> HIDE DEF y
    <2>4. <<e, y>> \in S /\ f[<<e, y>>] = <<t, e * b + y>>
      BY <2>3
    <2> QED BY <2>1, <2>3, <2>4
  <1>6. Cardinality(Slices({t} \X E)) <= Cardinality(T) /\ IsFiniteSet(Slices({t} \X E))
    <2> HIDE DEF T
    <2> QED BY <1>4, <1>5, FS_Subset
  <1>7. Cardinality(Slices({t} \X E)) \in Nat /\ Cardinality(T) \in Nat /\ Cardinality(S) \in Nat
    <2> HIDE DEF S, T
    <2> QED BY <1>3, <1>4, <1>6, FS_CardinalityType
  <1> QED
    <2> HIDE DEF S, T, b
    <2>1. Cardinality(Slices({t} \X E)) <= Cardinality(S)
      BY <1>4, <1>6, <1>7
    <2>2. Cardinality(Slices({t} \X E)) <= Cardinality(E) * b
      BY <1>3, <2>1
    <2> QED BY <2>2 DEF b

\* The keys of the call that have been looked up and found, or committed.
Touched ==
    {k \in BatchKeys(call) :
        /\ k[2] \notin todo
        /\ dpc = "room" => k # cur
        /\ \A i \in 1..Len(misses) : misses[i] # k}

\* The touched keys are the front of the list.
TouchedInFront ==
    /\ Touched \subseteq map
    /\ \A a \in Touched, b \in map \ Touched : <<a, b>> \in lru

\* A batch that fits keeps what it has touched.
Service ==
    /\ \A k \in map : Bytes(k) <= HardCap
    /\ dpc = "room" => cur[2] \in call.experts
    /\ dpc = "compute" => todo = {} /\ misses = <<>>
    /\ dpc \in {"lookup", "room"} /\ Fits(call) /\ SliceBytes[call.tensor] <= HardCap
          => TouchedInFront
    /\ dpc \in {"lookup", "room", "commit", "compute"} /\ Fits(call)
          => Slices(Touched) \subseteq window

\* The room for a miss is never made at the cost of its own batch: if the last
\* entry of the list were a touched one, the batch would be all there is, and
\* then there would be room.
LEMMA BatchSurvives ==
    ASSUME IInv, Service, dpc = "room", Fits(call), SliceBytes[call.tensor] <= HardCap,
           NeedsRoom, NEW v \in map, Victim(v)
    PROVE  v \notin Touched
  <1> SUFFICES ASSUME v \in Touched PROVE FALSE
    OBVIOUS
  <1>0. TypeOK /\ PendingAbsent /\ Accounting /\ ShieldIsFront /\ TouchedInFront
    BY DEF IInv, Service
  <1> DEFINE b == SliceBytes[call.tensor]
             E == call.experts \ {cur[2]}
  <1>1. Last(map, v)
    BY <1>0, VictimIsLast
  <1>2. map \subseteq Touched
    <2> SUFFICES ASSUME NEW c \in map, c \notin Touched PROVE FALSE
      OBVIOUS
    <2>1. <<v, c>> \in lru /\ c # v
      BY <1>0 DEF TouchedInFront
    <2>2. <<c, v>> \in lru
      BY <1>1, <2>1 DEF Last
    <2> QED BY <1>0, <2>1, <2>2 DEF Accounting
  <1>3. Touched \subseteq {call.tensor} \X E
    <2> SUFFICES ASSUME NEW k \in Touched PROVE k \in {call.tensor} \X E
      OBVIOUS
    <2>1. k = <<call.tensor, k[2]>> /\ k[2] \in call.experts /\ k # cur
      BY DEF Touched, BatchKeys
    <2>2. cur \in Keys /\ cur[1] = call.tensor
      BY <1>0 DEF PendingAbsent
    <2>3. cur = <<cur[1], cur[2]>>
      BY <2>2, KeyType
    <2> QED BY <2>1, <2>2, <2>3
  <1>4. call.tensor \in Tensors /\ E \in SUBSET Experts
    BY <1>0, CallSizes
  <1>5. Cardinality(E) = Cardinality(call.experts) - 1 /\ IsFiniteSet(E)
    BY <1>0, CallSizes, FS_RemoveElement DEF Service
  <1>6. used <= Cardinality(E) * b
    <2>1. {call.tensor} \X E \in SUBSET Keys
      BY <1>4 DEF Keys
    <2>2. Slices(map) \subseteq Slices({call.tensor} \X E)
      BY <1>2, <1>3 DEF Slices
    <2>3. IsFiniteSet(Slices({call.tensor} \X E))
      BY <2>1, SlicesFinite
    <2>4. /\ Cardinality(Slices(map)) <= Cardinality(Slices({call.tensor} \X E))
          /\ IsFiniteSet(Slices(map))
      BY <2>2, <2>3, FS_Subset
    <2>5. Cardinality(Slices({call.tensor} \X E)) <= Cardinality(E) * b
      BY <1>4, FootprintOf
    <2>6. /\ Cardinality(Slices(map)) \in Nat /\ Cardinality(Slices({call.tensor} \X E)) \in Nat
          /\ Cardinality(E) * b \in Nat
      <3>1. Cardinality(E) \in Nat /\ b \in Nat
        BY <1>0, <1>5, CallSizes, FS_CardinalityType
      <3>2. Cardinality(E) * b \in Nat
        BY <3>1
      <3> QED BY <2>3, <2>4, <3>2, FS_CardinalityType
    <2>7. used = Cardinality(Slices(map))
      BY <1>0 DEF Accounting
    <2> HIDE DEF b, E
    <2> QED BY <2>4, <2>5, <2>6, <2>7
  <1>7. Cardinality(call.experts) * b <= HardCap
    BY <1>0, CallSizes DEF Fits
  <1>8. used + b > HardCap
    <2>1. Bytes(cur) = b
      BY <1>0 DEF PendingAbsent, Bytes
    <2> QED BY <2>1 DEF NeedsRoom
  <1>9. /\ b \in Nat /\ Cardinality(call.experts) \in Nat /\ used \in Int /\ HardCap \in Nat
    BY <1>0, CallSizes
  <1> DEFINE n == Cardinality(call.experts)
  <1>10. used <= (n - 1) * b /\ n * b <= HardCap
    BY <1>5, <1>6, <1>7
  <1> HIDE DEF b, E, n
  <1>11. n \in Nat
    BY <1>9 DEF n
  <1>12. (n - 1) * b = n * b - b /\ n * b \in Int
    BY <1>9, <1>11
  <1> QED BY <1>8, <1>9, <1>10, <1>12

\* Service through the steps of the decode thread.
LEMMA ServiceStep ==
    ASSUME Aligned, IInv, Queued, ContentInv, Service, DemandSide
    PROVE  Service'
  <1> USE DEF cache, demand, worker
  <1>0. TypeOK /\ PendingAbsent /\ Accounting /\ ShieldIsFront /\ ResidentIsLoaded
        /\ misses \in Seq(Keys)
    BY DEF IInv, ContentInv, TypeOK
  <1>1. \A k \in BatchKeys(call) :
            k = <<call.tensor, k[2]>> /\ k[2] \in call.experts /\ Bytes(k) = SliceBytes[call.tensor]
            /\ k \in Keys
    BY <1>0, CallSizes DEF BatchKeys, Bytes, Keys
  <1>2. ASSUME NEW b \in Calls, NEW s \in BOOLEAN, BeginCall(b, s) PROVE Service'
    <2>1. dpc' = "lookup" /\ call' = b /\ todo' = b.experts /\ UNCHANGED <<map, lru, window>>
      BY <1>2 DEF BeginCall
    <2>2. Touched' = {}
      BY <2>1 DEF Touched, BatchKeys
    <2> QED BY <2>1, <2>2 DEF Service, TouchedInFront, Slices
  <1>3. ASSUME NEW e \in Experts, Hit(e) PROVE Service'
    <2> DEFINE k == <<call.tensor, e>>
    <2>1. /\ dpc = "lookup" /\ e \in todo /\ k \in map /\ Refresh(k)
          /\ todo' = todo \ {e} /\ UNCHANGED <<dpc, call, misses, cur>>
      BY <1>3 DEF Hit
    <2>2. k \in BatchKeys(call) /\ \A i \in 1..Len(misses) : misses[i] # k
      BY <1>0, <2>1 DEF Queued, BatchKeys, PendingAbsent
    <2>3. Touched' = Touched \cup {k}
      <3>1. \A j \in BatchKeys(call) : j[2] = e <=> j = k
        BY <1>1
      <3> QED BY <2>1, <2>2, <3>1 DEF Touched
    <2>4. UNCHANGED <<map, window>> /\ \A a, c : <<a, c>> \in lru' <=>
              \/ <<a, c>> \in lru /\ a # k /\ c # k
              \/ a = k /\ c \in map /\ c # k
      BY <2>1 DEF Refresh, Front, Erase
    <2>5. Slice(k) \subseteq window
      BY <1>0, <2>1 DEF ResidentIsLoaded, Slices
    <2> HIDE DEF k
    <2>6. TouchedInFront => TouchedInFront'
      <3> SUFFICES ASSUME TouchedInFront PROVE TouchedInFront'
        OBVIOUS
      <3>1. Touched' \subseteq map'
        BY <2>1, <2>3, <2>4 DEF TouchedInFront
      <3>2. \A a \in Touched', c \in map' \ Touched' : <<a, c>> \in lru'
        BY <2>3, <2>4 DEF TouchedInFront
      <3> QED BY <3>1, <3>2 DEF TouchedInFront
    <2>7. Slices(Touched) \subseteq window => Slices(Touched') \subseteq window'
      BY <2>3, <2>4, <2>5 DEF Slices
    <2> QED BY <2>1, <2>4, <2>6, <2>7 DEF Service, Fits
  <1>4. ASSUME NEW e \in Experts, Miss(e) PROVE Service'
    <2>1. /\ dpc = "lookup" /\ dpc' = "room" /\ e \in todo /\ cur' = <<call.tensor, e>>
          /\ todo' = todo \ {e} /\ UNCHANGED <<call, misses, map, lru, window>>
      BY <1>4 DEF Miss
    <2>2. Touched' = Touched
      <3>1. \A j \in BatchKeys(call) : j[2] = e <=> j = <<call.tensor, e>>
        BY <1>1
      <3> QED BY <2>1, <3>1 DEF Touched
    <2>3. cur'[2] \in call'.experts
      BY <2>1 DEF Queued
    <2> QED BY <2>1, <2>2, <2>3 DEF Service, TouchedInFront, Fits
  <1>5. CASE DemandEvict
    <2>1. PICK v \in map : /\ Victim(v) /\ NeedsRoom /\ map' = map \ {v} /\ lru' = Erase(v)
                           /\ window' = window \ Span(v)
      BY <1>5 DEF DemandEvict, Evict
    <2>2. dpc = "room" /\ UNCHANGED <<dpc, cur, call, todo, misses>>
      BY <1>5 DEF DemandEvict
    <2>3. Touched' = Touched
      BY <2>2 DEF Touched
    <2>4. v \in Keys /\ Span(v) = Slice(v) /\ Bytes(v) <= HardCap
      BY <1>0, AlignedSpan DEF TypeOK, Service
    <2>5. ASSUME Fits(call) PROVE v \notin Touched
      <3>1. CASE SliceBytes[call.tensor] <= HardCap
        BY <2>1, <2>2, <2>5, <3>1, BatchSurvives
      <3>2. CASE ~(SliceBytes[call.tensor] <= HardCap)
        BY <1>1, <2>4, <3>2 DEF Touched
      <3> QED BY <3>1, <3>2
    <2>6. ASSUME Fits(call), TouchedInFront PROVE TouchedInFront'
      <3>1. Touched \subseteq map'
        BY <2>1, <2>5, <2>6 DEF TouchedInFront
      <3>2. \A a \in Touched, c \in map' \ Touched : <<a, c>> \in lru'
        BY <2>1, <2>5, <2>6 DEF TouchedInFront, Erase
      <3> QED BY <2>3, <3>1, <3>2 DEF TouchedInFront
    <2>7. ASSUME Fits(call), Slices(Touched) \subseteq window PROVE Slices(Touched) \subseteq window'
      <3>1. \A k \in Touched : Slice(k) \subseteq window /\ Slice(k) \cap Slice(v) = {}
        BY <1>1, <2>4, <2>5, <2>7, SlicesDisjoint DEF Touched, Slices
      <3> QED BY <2>1, <2>4, <3>1 DEF Slices
    <2>8. \A k \in map' : Bytes(k) <= HardCap
      BY <2>1 DEF Service
    <2> QED BY <2>2, <2>3, <2>6, <2>7, <2>8 DEF Service, Fits
  <1>6. CASE FillAndCommit
    <2>1. /\ dpc = "room" /\ serial /\ dpc' = "lookup" /\ UNCHANGED <<call, todo, misses>>
          /\ window' = window \cup Slice(cur) /\ Commit(cur)
      BY <1>6 DEF FillAndCommit
    <2>2. /\ misses = <<>> /\ cur \in Keys \ map /\ cur[1] = call.tensor /\ cur[2] \notin todo
          /\ cur[2] \in call.experts
      BY <1>0, <2>1 DEF Queued, PendingAbsent, Service
    <2>3. cur \in BatchKeys(call) /\ Bytes(cur) = SliceBytes[call.tensor]
      <3>1. cur = <<cur[1], cur[2]>>
        BY <2>2, KeyType
      <3> QED BY <2>2, <3>1 DEF BatchKeys, Bytes
    <2>4. Touched' = Touched \cup {cur}
      BY <2>1, <2>2, <2>3 DEF Touched
    <2>5. Slices(Touched) \subseteq window => Slices(Touched') \subseteq window'
      BY <2>1, <2>4 DEF Slices
    <2>6. ASSUME SliceBytes[call.tensor] <= HardCap, TouchedInFront PROVE TouchedInFront'
      <3>1. map' = map \cup {cur} /\ lru' = lru \cup ({cur} \X (map \ {cur}))
        BY <2>1, <2>3, <2>6 DEF Commit, Front
      <3>2. Touched' \subseteq map'
        BY <2>4, <2>6, <3>1 DEF TouchedInFront
      <3>3. \A a \in Touched', c \in map' \ Touched' : <<a, c>> \in lru'
        BY <2>2, <2>4, <2>6, <3>1 DEF TouchedInFront
      <3> QED BY <3>2, <3>3 DEF TouchedInFront
    <2>7. \A k \in map' : Bytes(k) <= HardCap
      BY <2>1 DEF Service, Commit
    <2> QED BY <2>1, <2>5, <2>6, <2>7 DEF Service, Fits
  <1>7. CASE QueueMiss
    <2>1. /\ dpc = "room" /\ dpc' = "lookup" /\ misses' = Append(misses, cur)
          /\ cur \in Keys /\ UNCHANGED <<call, todo, map, lru, window>>
      BY <1>0, <1>7 DEF QueueMiss, PendingAbsent
    <2>2. \A k : (\A i \in 1..Len(misses') : misses'[i] # k) <=>
                 k # cur /\ \A i \in 1..Len(misses) : misses[i] # k
      <3>1. /\ Len(misses') = Len(misses) + 1 /\ Len(misses) \in Nat
            /\ \A i \in 1..Len(misses) : misses'[i] = misses[i]
            /\ misses'[Len(misses) + 1] = cur
        BY <1>0, <2>1
      <3>2. /\ \A i \in 1..Len(misses') : i \in 1..Len(misses) \/ i = Len(misses) + 1
            /\ \A i \in 1..Len(misses) : i \in 1..Len(misses')
            /\ Len(misses) + 1 \in 1..Len(misses')
        BY <3>1
      <3> QED BY <3>1, <3>2
    <2>3. Touched' = Touched
      BY <2>1, <2>2 DEF Touched
    <2> QED BY <2>1, <2>3 DEF Service, TouchedInFront, Fits
  <1>8. CASE FillMisses
    <2>1. /\ dpc = "lookup" /\ dpc' = "commit" /\ window \subseteq window'
          /\ UNCHANGED <<call, todo, misses, map, lru>>
      BY <1>8 DEF FillMisses
    <2>2. Touched' = Touched
      BY <2>1 DEF Touched
    <2> QED BY <2>1, <2>2 DEF Service, Fits
  <1>9. CASE CommitMiss
    <2>1. /\ dpc = "commit" /\ misses # <<>> /\ misses' = Tail(misses) /\ Commit(Head(misses))
          /\ UNCHANGED <<dpc, call, todo, window>>
      BY <1>9 DEF CommitMiss
    <2>2. \A k : (\A i \in 1..Len(misses') : misses'[i] # k) =>
                 k = misses[1] \/ \A i \in 1..Len(misses) : misses[i] # k
      <3>1. /\ Len(misses') = Len(misses) - 1 /\ Len(misses) \in Nat
            /\ \A j \in 1..Len(misses) - 1 : misses'[j] = misses[j + 1]
        BY <1>0, <2>1
      <3> SUFFICES ASSUME NEW k, k # misses[1], NEW i \in 1..Len(misses), misses[i] = k
                   PROVE  \E j \in 1..Len(misses') : misses'[j] = k
        OBVIOUS
      <3> DEFINE j == i - 1
      <3>2. i # 1
        OBVIOUS
      <3>3. j \in 1..Len(misses) - 1 /\ j + 1 = i
        BY <3>1, <3>2
      <3> HIDE DEF j
      <3>4. j \in 1..Len(misses') /\ misses'[j] = k
        BY <3>1, <3>3
      <3> QED BY <3>4
    <2>3. Touched' \subseteq Touched \cup {misses[1]}
      BY <2>1, <2>2 DEF Touched
    <2>4. Slice(misses[1]) \subseteq window
      <3>1. 1 \in 1..Len(misses)
        BY <1>0, <2>1
      <3> QED BY <2>1, <3>1 DEF ContentInv, Slices
    <2>5. Slices(Touched) \subseteq window => Slices(Touched') \subseteq window'
      BY <2>1, <2>3, <2>4 DEF Slices
    <2>6. \A k \in map' : Bytes(k) <= HardCap
      BY <2>1 DEF Service, Commit
    <2> QED BY <2>1, <2>5, <2>6 DEF Service, Fits
  <1>10. CASE Return
    <2>1. /\ dpc \in {"lookup", "commit"} /\ dpc' = "compute" /\ misses = <<>>
          /\ UNCHANGED <<call, todo, misses, map, lru, window>>
      BY <1>10 DEF Return
    <2>2. Touched' = Touched /\ todo' = {}
      BY <1>0, <1>10, <2>1 DEF Touched, Return, PendingAbsent
    <2> QED BY <2>1, <2>2 DEF Service, Fits
  <1>11. CASE FillFails \/ ComputeDone
    BY <1>11 DEF FillFails, ComputeDone, Service
  <1>12. CASE UNCHANGED vars
    BY <1>12 DEF vars, Service, Touched, TouchedInFront, Fits
  <1> QED BY <1>2, <1>3, <1>4, <1>5, <1>6, <1>7, <1>8, <1>9, <1>10, <1>11, <1>12
          DEF DemandSide, DemandStep

\* The invariant is what the kernel needs when it computes.
LEMMA ServiceServes ==
    ASSUME Service
    PROVE  ServedAtUse
  <1> SUFFICES ASSUME dpc = "compute", Fits(call)
               PROVE  Slices(BatchKeys(call)) \subseteq window
    BY DEF ServedAtUse
  <1>1. Touched = BatchKeys(call)
    BY DEF Service, Touched
  <1> QED BY <1>1 DEF Service

\* Nothing is tracked or under way at first.
LEMMA ServiceInit == Init => Service /\ ContentInv /\ Queued
  BY DEF Init, Service, ContentInv, Queued, ResidentIsLoaded, Slices

\* Without prefetch, and with slices that are whole pages, the kernel finds
\* every slice of a batch that fits under the cap, or that is too large to be
\* tracked at all: the misses of a batch never evict its hits, although
\* make_room_locked knows nothing of batches and the shield can be pruned.
THEOREM ServedWithoutPrefetch ==
    ASSUME Prefetches = {}, Aligned
    PROVE  Spec => []ServedAtUse
  <1> DEFINE Inv == Service /\ ContentInv /\ Queued
  <1>1. Init => Inv
    BY ServiceInit
  <1>2. IInv /\ Inv /\ [Next]_vars => Inv'
    <2> SUFFICES ASSUME IInv, Inv, [Next]_vars PROVE Inv'
      OBVIOUS
    <2>1. DemandSide
      BY OnlyDemand DEF ContentInv
    <2> QED BY <2>1, ServiceStep, ContentStep, QueuedStep
  <1>3. Inv => ServedAtUse
    BY ServiceServes
  <1> QED BY Inductive, <1>1, <1>2, <1>3, PTL DEF Spec
=============================================================================
