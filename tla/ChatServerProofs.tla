-------------------------- MODULE ChatServerProofs --------------------------
(***************************************************************************)
(* Proofs about ChatServer for any set of conversations, tenants, requests *)
(* and lanes: type correctness, the ownership of lanes, the caps, the      *)
(* isolation of tenants and whose chats an eviction takes first, and, for  *)
(* servers that never stream, the validity of the slot a job uses.         *)
(***************************************************************************)
EXTENDS ChatServer, TLAPS, FiniteSetTheorems, SequenceTheorems,
        WellFoundedInduction

\* The part of TypeOK that the store's operations touch.
StoreType ==
    /\ live \subseteq Convs /\ free \subseteq Lanes /\ tick \in Nat
    /\ owner \in [Convs -> Owners] /\ lane \in [Convs -> Lanes \cup {-1}]
    /\ ledger \in [Convs -> Seq(Tokens)] /\ kv \in [Lanes -> Seq(Tokens)]
    /\ last \in [Convs -> Nat] /\ born \in [Convs -> Nat]

\* The rest of it.
ThreadType ==
    /\ gen \in Ids \cup {None}
    /\ pc \in [Ids -> {"new", "queued", "remove", "bind", "alloc", "submit",
                       "await", "drain", "done"}]
    /\ req \in [Ids -> Requests]
    /\ ptr \in [Ids -> (Convs \cup {NoConv}) \X Nat]
    /\ jobs \in Seq(Ids) /\ eng \in Ids \cup {None}
    /\ epc \in {"idle", "prefill", "gen", "finish", "undefined"}
    /\ ngen \in 0 .. NGen /\ logits \in Seq(Tokens)
    /\ ended \subseteq Ids /\ aborted \subseteq Ids

\* The owner of every slot is the owner of some request: no slot is anonymous
\* in API mode, all are in single-tenant mode.
OwnersKnown == \A c \in live : \E q \in Requests : owner[c] = q.owner

\* Between the lookup and the insertion only the holder of gen_mutex acts, so
\* the room it has made is still there when it inserts.
Holding ==
    /\ \A i \in Ids : pc[i] \in {"remove", "bind", "alloc", "submit", "await"}
        => gen = i
    /\ \A i \in Ids : pc[i] \in {"remove", "bind", "alloc"} => req[i].conv \in Convs
    /\ \A i \in Ids : pc[i] = "alloc" =>
        /\ req[i].conv \notin live /\ ~OverUserCap(req[i].owner)
        /\ Cardinality(live) < MaxSlots /\ free # {}

\* A stage of the engine other than idle has its job.
EngineBusy == epc # "idle" => eng \in Ids

StoreInv == StoreType /\ LanesOwned /\ CapsHold /\ OwnersKnown

IInv == TypeOK /\ LanesOwned /\ CapsHold /\ OwnersKnown /\ Holding /\ EngineBusy

-----------------------------------------------------------------------------
(* Lemmas on the operators.                                                *)

\* The set of slots and each tenant's slots are finite.
LEMMA LiveFinite ==
    ASSUME live \subseteq Convs
    PROVE  /\ IsFiniteSet(live)
           /\ \A o : IsFiniteSet(Owned(o))
           /\ Cardinality(live) \in Nat
           /\ \A o : Cardinality(Owned(o)) \in Nat
<1>1. IsFiniteSet(live)
  BY FS_Subset, StoreAssumption
<1>2. ASSUME NEW o PROVE IsFiniteSet(Owned(o))
  <2>1. Owned(o) \in SUBSET live
    BY DEF Owned
  <2>2. QED
    BY <1>1, <2>1, FS_Subset
<1>3. QED
  BY <1>1, <1>2, FS_CardinalityType

\* alloc_seq returns a free lane when there is one.
LEMMA AllocFree ==
    ASSUME free \subseteq Lanes, free # {}
    PROVE  AllocSeq \in free
<1>1. free \subseteq Nat
  BY StoreAssumption DEF Lanes
<1> DEFINE Less == {p \in Nat \X Nat : p[1] < p[2]}
<1>2. IsWellFoundedOn(Less, Nat)
  BY NatLessThanWellFounded DEF OpToRel
<1> HIDE DEF Less
<1>3. PICK l \in free : \A m \in free : ~(<<m, l>> \in Less)
  BY <1>1, <1>2, WFMin
<1>4. ASSUME NEW m \in free PROVE l <= m
  <2>1. <<m, l>> \notin Less
    BY <1>3
  <2>2. m \in Nat /\ l \in Nat
    BY <1>1
  <2>3. ~(m < l)
    BY <2>1, <2>2 DEF Less
  <2>4. QED
    BY <2>2, <2>3
<1>5. QED
  BY <1>4 DEF AllocSeq

\* token_common_prefix is at most either length.
LEMMA CommonPrefixBound ==
    ASSUME NEW x \in Seq(Tokens), NEW y \in Seq(Tokens)
    PROVE  /\ CommonPrefix(x, y) \in Nat
           /\ CommonPrefix(x, y) <= Len(x)
           /\ CommonPrefix(x, y) <= Len(y)
<1> DEFINE S == {n \in 1 .. Len(x) : n <= Len(y) /\ Prefix(x, n) = Prefix(y, n)}
<1>1. Len(x) \in Nat /\ Len(y) \in Nat
  OBVIOUS
<1>2. S \in SUBSET (1 .. Len(x)) /\ S \in SUBSET (1 .. Len(y))
  BY <1>1
<1> HIDE DEF S
<1>3. ASSUME NEW n \in Nat
      PROVE  IsFiniteSet(1 .. n) /\ Cardinality(1 .. n) = n
  <2>1. /\ IsFiniteSet(1 .. n)
        /\ Cardinality(1 .. n) = IF 1 > n THEN 0 ELSE n - 1 + 1
    BY FS_Interval
  <2>2. QED
    BY <2>1
<1>4. /\ IsFiniteSet(S) /\ Cardinality(S) <= Len(x) /\ Cardinality(S) <= Len(y)
      /\ Cardinality(S) \in Nat
  <2>1. /\ IsFiniteSet(1 .. Len(x)) /\ Cardinality(1 .. Len(x)) = Len(x)
        /\ IsFiniteSet(1 .. Len(y)) /\ Cardinality(1 .. Len(y)) = Len(y)
    BY <1>1, <1>3
  <2>2. /\ IsFiniteSet(S)
        /\ Cardinality(S) <= Cardinality(1 .. Len(x))
        /\ Cardinality(S) <= Cardinality(1 .. Len(y))
    BY <1>2, <2>1, FS_Subset
  <2>3. Cardinality(S) \in Nat
    BY <2>2, FS_CardinalityType
  <2>4. QED
    BY <2>1, <2>2, <2>3
<1>5. QED
  BY <1>4 DEF CommonPrefix, S

\* What session_prefill keeps is a part of the lane and of the prompt.
LEMMA ReusedBound ==
    ASSUME StoreType, NEW c \in Convs, lane[c] \in Lanes,
           NEW p \in Seq(Tokens), NEW trimOk \in BOOLEAN
    PROVE  /\ Reused(c, p, trimOk) \in Nat
           /\ Reused(c, p, trimOk) <= Len(p)
           /\ Reused(c, p, trimOk) <= Len(kv[lane[c]])
           /\ kv[lane[c]] # <<>> => Reused(c, p, trimOk) <= Len(ledger[c])
<1>1. ledger[c] \in Seq(Tokens) /\ kv[lane[c]] \in Seq(Tokens)
  BY DEF StoreType
<1>2. /\ CommonPrefix(ledger[c], p) \in Nat
      /\ CommonPrefix(ledger[c], p) <= Len(ledger[c])
      /\ CommonPrefix(ledger[c], p) <= Len(p)
  BY <1>1, CommonPrefixBound
<1>3. Len(p) \in Nat /\ Len(kv[lane[c]]) \in Nat /\ Len(ledger[c]) \in Nat
  BY <1>1
<1>4. QED
  BY <1>2, <1>3 DEF Reused, InSync

\* A part of a sequence has the sequence's element type.
LEMMA SubSeqType ==
    ASSUME NEW x \in Seq(Tokens), NEW m \in Nat \ {0}, NEW n \in Nat, n <= Len(x)
    PROVE  SubSeq(x, m, n) \in Seq(Tokens)
<1>1. \A i \in m .. n : x[i] \in Tokens
  OBVIOUS
<1>2. QED
  BY <1>1, SubSeqProperties

-----------------------------------------------------------------------------
(* What the operations of the store preserve.                              *)

\* Nothing of the slots and lanes changes but the tokens in them.
LEMMA SameSlots ==
    ASSUME LanesOwned, CapsHold, OwnersKnown, UNCHANGED <<live, owner, lane, free>>
    PROVE  LanesOwned' /\ CapsHold' /\ OwnersKnown'
BY DEF LanesOwned, CapsHold, OwnersKnown, Owned, Lanes

\* Discard gives the lane back and can only lower the counts.
LEMMA DiscardKeeps ==
    ASSUME StoreInv, NEW c \in live, Discard(c)
    PROVE  /\ StoreInv'
           /\ free' # {}
           /\ Cardinality(live') < Cardinality(live)
           /\ \A o : ~OverUserCap(o) => ~OverUserCap(o)'
<1>1. /\ c \in Convs /\ lane[c] \in Lanes \ free /\ live \subseteq Convs
      /\ lane[c] \in Lanes
  BY DEF StoreInv, StoreType, LanesOwned
<1>2. StoreType'
  <2>1. live' \subseteq Convs /\ free' \subseteq Lanes /\ tick' \in Nat
    BY <1>1 DEF StoreInv, StoreType, Discard
  <2>2. owner' \in [Convs -> Owners] /\ lane' \in [Convs -> Lanes \cup {-1}]
    BY <1>1, StoreAssumption DEF StoreInv, StoreType, Discard
  <2>3. <<>> \in Seq(Tokens)
    OBVIOUS
  <2>4. ledger' \in [Convs -> Seq(Tokens)] /\ kv' \in [Lanes -> Seq(Tokens)]
    BY <1>1, <2>3 DEF StoreInv, StoreType, Discard
  <2>5. last' \in [Convs -> Nat] /\ born' \in [Convs -> Nat]
    BY <1>1 DEF StoreInv, StoreType, Discard
  <2>6. QED
    BY <2>1, <2>2, <2>4, <2>5 DEF StoreType
<1>3. /\ live' = live \ {c}
      /\ free' = free \cup {lane[c]}
      /\ \A d \in live' : lane'[d] = lane[d] /\ owner'[d] = owner[d]
  BY <1>1 DEF Discard, StoreInv, StoreType
<1>4. LanesOwned'
  <2>1. \A d \in live' : lane'[d] \in Lanes \ free'
    BY <1>1, <1>3 DEF StoreInv, LanesOwned
  <2>2. \A d, e \in live' : lane'[d] = lane'[e] => d = e
    BY <1>3 DEF StoreInv, LanesOwned
  <2>3. \A l \in Lanes \ free' : \E d \in live' : lane'[d] = l
    BY <1>3 DEF StoreInv, LanesOwned
  <2>4. QED
    BY <2>1, <2>2, <2>3 DEF LanesOwned, Lanes
<1>5. Cardinality(live') = Cardinality(live) - 1 /\ Cardinality(live) \in Nat
  BY <1>1, <1>3, LiveFinite, FS_RemoveElement
<1>6. ASSUME NEW o
      PROVE  /\ Cardinality(Owned(o)') <= Cardinality(Owned(o))
             /\ Cardinality(Owned(o)') \in Nat /\ Cardinality(Owned(o)) \in Nat
  <2>1. Owned(o)' \in SUBSET Owned(o)
    BY <1>3 DEF Owned
  <2>2. QED
    BY <1>1, <2>1, LiveFinite, FS_Subset, FS_CardinalityType
<1>7. CapsHold'
  <2>1. Cardinality(live') <= MaxSlots
    BY <1>5, StoreAssumption DEF StoreInv, CapsHold
  <2>2. ASSUME NEW o \in Owners, o # NoOwner, MaxSlotsPerUser > 0
        PROVE  Cardinality(Owned(o)') <= MaxSlotsPerUser
    BY <1>6, <2>2, StoreAssumption DEF StoreInv, CapsHold
  <2>3. QED
    BY <2>1, <2>2 DEF CapsHold
<1>8. OwnersKnown'
  BY <1>3 DEF StoreInv, OwnersKnown
<1>9. ASSUME NEW o, ~OverUserCap(o) PROVE ~OverUserCap(o)'
  BY <1>6, <1>9, StoreAssumption DEF OverUserCap, CountForOwner
<1>10. QED
  BY <1>2, <1>3, <1>4, <1>5, <1>7, <1>8, <1>9 DEF StoreInv

\* get_or_create of a known id changes neither owners nor lanes.
LEMMA FindKeeps ==
    ASSUME StoreInv, NEW q \in Requests, q.conv \in Convs, Find(q.conv, q.owner)
    PROVE  StoreInv'
<1> DEFINE c == q.conv
<1>1. c \in live /\ c \in Convs
  BY DEF Find
<1>2. q.owner \in Owners
  BY ServerAssumption DEF Request
<1>3. owner[c] = NoOwner => q.owner = NoOwner
  BY <1>1, ModeAssumption DEF StoreInv, OwnersKnown
<1>4. owner' = owner
  BY <1>1, <1>3 DEF Find, StoreInv, StoreType
<1>5. StoreType'
  BY <1>1, <1>4 DEF Find, StoreInv, StoreType
<1>6. LanesOwned' /\ CapsHold' /\ OwnersKnown'
  BY <1>4, SameSlots DEF StoreInv, Find
<1>7. QED
  BY <1>5, <1>6 DEF StoreInv

\* A new slot takes a free lane; the caps leave room for it.
LEMMA CreateKeeps ==
    ASSUME StoreInv, NEW q \in Requests, q.conv \in Convs,
           q.conv \notin live, ~OverUserCap(q.owner),
           Cardinality(live) < MaxSlots, free # {},
           Create(q.conv, q.owner)
    PROVE  StoreInv'
<1> DEFINE c == q.conv
           l == AllocSeq
<1>1. q.owner \in Owners /\ live \subseteq Convs /\ c \in Convs /\ c \notin live
  BY ServerAssumption DEF Request, StoreInv, StoreType
<1>2. l \in free /\ l \in Lanes
  BY AllocFree DEF StoreInv, StoreType
<1>3. /\ live' = live \cup {c} /\ free' = free \ {l}
      /\ lane' = [lane EXCEPT ![c] = l] /\ owner' = [owner EXCEPT ![c] = q.owner]
      /\ tick' = tick + 1 /\ last' = [last EXCEPT ![c] = tick + 1]
      /\ born' = [born EXCEPT ![c] = tick + 1] /\ ledger' = ledger /\ kv' = kv
  BY DEF Create
<1> HIDE DEF c, l
<1>4. StoreType'
  BY <1>1, <1>2, <1>3 DEF StoreInv, StoreType
<1>5. /\ lane'[c] = l /\ owner'[c] = q.owner
      /\ \A d \in live : lane'[d] = lane[d] /\ owner'[d] = owner[d] /\ d # c
  BY <1>1, <1>3 DEF StoreInv, StoreType
<1>6. LanesOwned'
  <2>1. \A d \in live' : lane'[d] \in Lanes \ free'
    BY <1>2, <1>3, <1>5 DEF StoreInv, LanesOwned
  <2>2. \A d, e \in live' : lane'[d] = lane'[e] => d = e
    BY <1>2, <1>3, <1>5 DEF StoreInv, LanesOwned
  <2>3. \A m \in Lanes \ free' : \E d \in live' : lane'[d] = m
    BY <1>3, <1>5 DEF StoreInv, LanesOwned
  <2>4. QED
    BY <2>1, <2>2, <2>3 DEF LanesOwned, Lanes
<1>7. CapsHold'
  <2>1. /\ Cardinality(live) \in Nat
        /\ Cardinality(live') = Cardinality(live) + 1
    BY <1>1, <1>3, LiveFinite, FS_AddElement
  <2>2. Cardinality(live') <= MaxSlots
    BY <2>1, StoreAssumption
  <2>3. ASSUME NEW o \in Owners, o # NoOwner, MaxSlotsPerUser > 0
        PROVE  Cardinality(Owned(o)') <= MaxSlotsPerUser
    <3>0. Cardinality(Owned(o)) \in Nat /\ IsFiniteSet(Owned(o))
      BY <1>1, LiveFinite
    <3>1. CASE o = q.owner
      <4>1. Owned(o)' = Owned(o) \cup {c} /\ c \notin Owned(o)
        BY <1>1, <1>3, <1>5, <3>1 DEF Owned
      <4>2. Cardinality(Owned(o)') = Cardinality(Owned(o)) + 1
        BY <3>0, <4>1, FS_AddElement
      <4>3. Cardinality(Owned(o)) < MaxSlotsPerUser
        BY <2>3, <3>0, <3>1, StoreAssumption DEF OverUserCap, CountForOwner
      <4>4. QED
        BY <3>0, <4>2, <4>3, StoreAssumption
    <3>2. CASE o # q.owner
      <4>1. Owned(o)' = Owned(o)
        BY <1>3, <1>5, <3>2 DEF Owned
      <4>2. QED
        BY <2>3, <4>1 DEF StoreInv, CapsHold
    <3>3. QED
      BY <3>1, <3>2
  <2>4. QED
    BY <2>2, <2>3 DEF CapsHold
<1>8. OwnersKnown'
  BY <1>3, <1>5 DEF StoreInv, OwnersKnown
<1>9. QED
  BY <1>4, <1>6, <1>7, <1>8 DEF StoreInv

-----------------------------------------------------------------------------
(* The inductive invariant.                                                *)

\* IInv in the parts the proofs below treat separately.
LEMMA IInvParts ==
    IInv <=> StoreInv /\ ThreadType /\ Holding /\ EngineBusy
BY DEF IInv, StoreInv, TypeOK, StoreType, ThreadType

\* A job with a valid slot works on a lane of the context.
LEMMA JobLane ==
    ASSUME StoreInv, ThreadType, eng \in Ids, Valid(eng)
    PROVE  /\ LaneOfJob \in Lanes
           /\ ptr[eng] # NoSlot => Conv \in live /\ Conv \in Convs /\ LaneOfJob = lane[Conv]
<1>1. 0 \in Lanes
  BY StoreAssumption DEF Lanes
<1>2. ptr[eng] # NoSlot => Conv \in live
  BY DEF Valid, Conv
<1>3. QED
  BY <1>1, <1>2 DEF LaneOfJob, StoreInv, StoreType, LanesOwned

\* The initial state.
LEMMA InitIInv == Init => IInv
<1> SUFFICES ASSUME Init PROVE StoreInv /\ ThreadType /\ Holding /\ EngineBusy
  BY IInvParts
<1> USE DEF Init, StoreInit
<1>1. <<>> \in Seq(Tokens) /\ <<>> \in Seq(Ids) /\ 0 \in 0 .. NGen
  BY ServerAssumption
<1>2. StoreType
  BY <1>1, StoreAssumption DEF StoreType
<1>3. LanesOwned /\ OwnersKnown
  BY DEF LanesOwned, OwnersKnown
<1>4. CapsHold
  <2>1. \A o : Owned(o) = {}
    BY DEF Owned
  <2>2. Cardinality({}) = 0
    BY FS_EmptySet
  <2>3. live = {}
    OBVIOUS
  <2>4. Cardinality(live) = 0 /\ \A o : Cardinality(Owned(o)) = 0
    BY ONLY <2>1, <2>2, <2>3, Zenon
  <2>5. QED
    BY ONLY <2>4, StoreAssumption DEF CapsHold
<1>5. (CHOOSE q \in Requests : TRUE) \in Requests
  BY ServerAssumption
<1>6. ThreadType
  BY <1>1, <1>5 DEF ThreadType, NoSlot, None
<1>7. QED
  BY <1>2, <1>3, <1>4, <1>6 DEF StoreInv, Holding, EngineBusy

\* Steps that leave the store alone, and move the thread of i only to a stage
\* it may be in with what gen then is.
LEMMA ThreadStepKeeps ==
    ASSUME IInv, NEW i \in Ids, NEW q \in Requests,
           \/ Arrive(i, q) \/ Acquire(i) \/ Reject(i) \/ Submit(i)
           \/ Drained(i) \/ Disconnect(i)
    PROVE  IInv'
<1>1. StoreInv /\ ThreadType /\ Holding /\ EngineBusy
  BY IInvParts
<1>2. UNCHANGED <<live, owner, lane, ledger, last, born, tick, free, kv, eng, epc, ngen, logits>>
  BY DEF Arrive, Acquire, Reject, Submit, Drained, Disconnect, store, slot, engine
<1>3. StoreInv'
  BY <1>1, <1>2, SameSlots DEF StoreInv, StoreType, Lanes
<1>4. EngineBusy'
  BY <1>1, <1>2 DEF EngineBusy
<1>5. \A o : OverUserCap(o)' <=> OverUserCap(o)
  BY <1>2 DEF OverUserCap, CountForOwner, Owned
<1>6. CASE Arrive(i, q)
  <2>1. ThreadType'
    BY <1>1, <1>2, <1>6 DEF ThreadType, Arrive, Goto
  <2>2. Holding'
    BY <1>1, <1>2, <1>5, <1>6 DEF Holding, ThreadType, Arrive, Goto
  <2>3. QED
    BY <1>3, <1>4, <2>1, <2>2, IInvParts, PTL
<1>7. CASE Acquire(i)
  <2>1. ThreadType'
    BY <1>1, <1>2, <1>7 DEF ThreadType, Acquire, Goto
  <2>2. req[i].conv # NoConv => req[i].conv \in Convs
    BY <1>1, ServerAssumption DEF ThreadType, Request
  <2>3. \A j \in Ids : pc[j] \notin {"remove", "bind", "alloc", "submit", "await"}
    BY <1>1, <1>7, ServerAssumption DEF Holding, Acquire, None
  <2>4. Holding'
    BY <1>1, <1>2, <1>5, <1>7, <2>2, <2>3 DEF Holding, ThreadType, Acquire, Goto
  <2>5. QED
    BY <1>3, <1>4, <2>1, <2>4, IInvParts, PTL
<1>8. CASE Reject(i)
  <2>1. ThreadType'
    BY <1>1, <1>2, <1>8 DEF ThreadType, Reject, Goto
  <2>2. Holding'
    BY <1>1, <1>2, <1>5, <1>8 DEF Holding, ThreadType, Reject, Goto
  <2>3. QED
    BY <1>3, <1>4, <2>1, <2>2, IInvParts, PTL
<1>9. CASE Submit(i)
  <2>0. /\ pc[i] = "submit" /\ jobs' = Append(jobs, i)
        /\ \/ gen' = None /\ pc' = [pc EXCEPT ![i] = "drain"]
           \/ gen' = gen /\ pc' = [pc EXCEPT ![i] = "await"]
        /\ UNCHANGED <<req, ptr, ended, aborted>>
    BY <1>9 DEF Submit, Goto
  <2>1. ThreadType'
    <3>1. jobs' \in Seq(Ids)
      BY <1>1, <2>0, AppendProperties DEF ThreadType
    <3>2. gen' \in Ids \cup {None}
      BY <1>1, <2>0 DEF ThreadType
    <3>3. pc' \in [Ids -> {"new", "queued", "remove", "bind", "alloc", "submit",
                           "await", "drain", "done"}]
      BY <1>1, <2>0 DEF ThreadType
    <3>4. QED
      BY <1>1, <1>2, <2>0, <3>1, <3>2, <3>3 DEF ThreadType
  <2>2. Holding'
    BY <1>1, <1>2, <1>5, <2>0 DEF Holding, ThreadType
  <2>3. QED
    BY <1>3, <1>4, <2>1, <2>2, IInvParts, PTL
<1>10. CASE Drained(i) \/ Disconnect(i)
  <2>1. ThreadType'
    BY <1>1, <1>2, <1>10 DEF ThreadType, Drained, Disconnect, Goto
  <2>2. Holding'
    BY <1>1, <1>2, <1>5, <1>10 DEF Holding, ThreadType, Drained, Disconnect, Goto
  <2>3. QED
    BY <1>3, <1>4, <2>1, <2>2, IInvParts, PTL
<1>11. QED
  BY <1>6, <1>7, <1>8, <1>9, <1>10

\* Steps of bind_conversation: they change the store under gen_mutex.
LEMMA BindStepKeeps ==
    ASSUME IInv, NEW i \in Ids,
           \/ RemoveConv(i) \/ BindFound(i) \/ EvictOwn(i) \/ EvictFull(i)
           \/ EvictForLane(i) \/ BindNew(i)
    PROVE  IInv'
<1>1. StoreInv /\ ThreadType /\ Holding /\ EngineBusy
  BY IInvParts
<1>2. /\ pc[i] \in {"remove", "bind", "alloc"}
      /\ UNCHANGED <<gen, req, jobs, eng, epc, ngen, logits, ended, aborted>>
  BY DEF RemoveConv, BindFound, EvictOwn, EvictFull, EvictForLane, BindNew,
         Unbound, engine, handlers
<1>3. /\ req[i] \in Requests /\ req[i].conv \in Convs
      /\ \A j \in Ids : pc[j] \in {"remove", "bind", "alloc", "submit", "await"} => j = i
      /\ gen = i
  BY <1>1, <1>2 DEF Holding, ThreadType
<1>4. EngineBusy'
  BY <1>1, <1>2 DEF EngineBusy
<1>5. CASE RemoveConv(i)
  <2>1. StoreInv'
    <3>1. CASE req[i].conv \in live
      BY <1>1, <1>5, <3>1, DiscardKeeps DEF RemoveConv, Remove
    <3>2. CASE req[i].conv \notin live
      <4>1. UNCHANGED <<live, owner, lane, ledger, last, born, tick, free, kv>>
        BY <1>5, <3>2 DEF RemoveConv, Remove, store, slot
      <4>2. QED
        BY <1>1, <4>1, SameSlots DEF StoreInv, StoreType, Lanes
    <3>3. QED
      BY <3>1, <3>2
  <2>2. ThreadType'
    BY <1>1, <1>2, <1>5 DEF ThreadType, RemoveConv, Goto
  <2>3. Holding'
    BY <1>1, <1>2, <1>3, <1>5 DEF Holding, ThreadType, RemoveConv, Goto
  <2>4. QED
    BY <1>4, <2>1, <2>2, <2>3, IInvParts, PTL
<1>6. CASE BindFound(i)
  <2>1. StoreInv'
    BY <1>1, <1>3, <1>6, FindKeeps DEF BindFound
  <2>2. ThreadType'
    BY <1>1, <1>2, <1>3, <1>6 DEF ThreadType, StoreInv, StoreType, BindFound, Goto
  <2>3. Holding'
    BY <1>1, <1>2, <1>3, <1>6 DEF Holding, ThreadType, BindFound, Goto
  <2>4. QED
    BY <1>4, <2>1, <2>2, <2>3, IInvParts, PTL
<1>7. CASE EvictOwn(i) \/ EvictFull(i)
  <2>1. \E c \in live : Discard(c)
    BY <1>7 DEF EvictOwn, EvictFull, EvictLru, EvictLruForOwner
  <2>2. StoreInv'
    BY <1>1, <2>1, DiscardKeeps
  <2>3. UNCHANGED <<pc, ptr>> /\ pc[i] = "bind"
    BY <1>7 DEF EvictOwn, EvictFull, Unbound, handlers
  <2>4. ThreadType'
    BY <1>1, <1>2, <2>3 DEF ThreadType
  <2>5. Holding'
    BY <1>1, <1>2, <1>3, <2>3 DEF Holding
  <2>6. QED
    BY <1>4, <2>2, <2>4, <2>5, IInvParts, PTL
<1>8. CASE EvictForLane(i)
  <2>1. /\ req[i].conv \notin live /\ ~OverUserCap(req[i].owner)
        /\ Cardinality(live) < MaxSlots /\ free = {}
        /\ pc' = [pc EXCEPT ![i] = "alloc"] /\ UNCHANGED ptr
    BY <1>8 DEF EvictForLane, Unbound, Goto
  <2>2. live # {}
    <3>1. 0 \in Lanes \ free
      BY <2>1, StoreAssumption DEF Lanes
    <3>2. QED
      BY <1>1, <3>1 DEF StoreInv, LanesOwned
  <2>3. PICK c \in live : Discard(c)
    BY <1>8, <2>2 DEF EvictForLane, EvictLru
  <2>4. /\ StoreInv' /\ free' # {}
        /\ Cardinality(live') < Cardinality(live)
        /\ ~OverUserCap(req[i].owner)'
    <3>1. /\ StoreInv' /\ free' # {}
          /\ Cardinality(live') < Cardinality(live)
          /\ \A o : ~OverUserCap(o) => ~OverUserCap(o)'
      BY <1>1, <2>3, DiscardKeeps
    <3>2. ~OverUserCap(req[i].owner)'
      BY <1>2, <2>1, <3>1 DEF OverUserCap, CountForOwner, Owned
    <3>3. QED
      BY <3>1, <3>2
  <2>5. req'[i].conv \notin live'
    BY <1>2, <2>1, <2>3 DEF Discard
  <2>6. Cardinality(live') < MaxSlots
    <3>1. Cardinality(live) \in Nat
      BY <1>1, LiveFinite DEF StoreInv, StoreType
    <3>2. live' \subseteq Convs
      BY <2>4 DEF StoreInv, StoreType
    <3>3. Cardinality(live') \in Nat
      BY <3>2, FS_Subset, FS_CardinalityType, StoreAssumption
    <3>4. QED
      BY <2>1, <2>4, <3>1, <3>3, StoreAssumption
  <2>7. ThreadType'
    BY <1>1, <1>2, <2>1 DEF ThreadType
  <2>8. Holding'
    BY <1>1, <1>2, <1>3, <2>1, <2>4, <2>5, <2>6 DEF Holding, ThreadType
  <2>9. QED
    BY <1>4, <2>4, <2>7, <2>8, IInvParts, PTL
<1>9. CASE BindNew(i)
  <2>1. /\ req[i].conv \notin live /\ ~OverUserCap(req[i].owner)
        /\ Cardinality(live) < MaxSlots /\ free # {}
    BY <1>1, <1>9 DEF BindNew, Unbound, Holding
  <2>2. StoreInv'
    BY <1>1, <1>3, <1>9, <2>1, CreateKeeps DEF BindNew
  <2>3. /\ ptr' = [ptr EXCEPT ![i] = <<req[i].conv, tick + 1>>]
        /\ pc' = [pc EXCEPT ![i] = "submit"]
    BY <1>9 DEF BindNew, Goto
  <2>4. ThreadType'
    BY <1>1, <1>2, <1>3, <2>3 DEF ThreadType, StoreInv, StoreType
  <2>5. Holding'
    BY <1>1, <1>2, <1>3, <2>3 DEF Holding, ThreadType
  <2>6. QED
    BY <1>4, <2>2, <2>4, <2>5, IInvParts, PTL
<1>10. QED
  BY <1>5, <1>6, <1>7, <1>8, <1>9

\* Writing a sequence of tokens into a lane, or into a ledger, keeps the store.
LEMMA TokensWritten ==
    ASSUME StoreInv, UNCHANGED <<live, owner, lane, last, born, tick, free>>,
           ledger' \in [Convs -> Seq(Tokens)], kv' \in [Lanes -> Seq(Tokens)]
    PROVE  StoreInv'
<1>1. LanesOwned' /\ CapsHold' /\ OwnersKnown'
  BY SameSlots DEF StoreInv
<1>2. StoreType'
  BY DEF StoreInv, StoreType, Lanes
<1>3. QED
  BY <1>1, <1>2 DEF StoreInv

\* The handler's side conditions do not mention the engine.
LEMMA EngineKeepsHolding ==
    ASSUME Holding, UNCHANGED <<live, owner, free, gen, pc, req>>
    PROVE  Holding'
BY DEF Holding, OverUserCap, CountForOwner, Owned

\* Steps that end a job, on the engine thread and in the blocking handler.
LEMMA EndStepKeeps ==
    ASSUME IInv, Finish \/ \E i \in Ids : Answer(i)
    PROVE  IInv'
<1>1. StoreInv /\ ThreadType /\ Holding /\ EngineBusy
  BY IInvParts
<1>2. /\ UNCHANGED <<live, owner, lane, ledger, last, born, tick, free>>
      /\ kv' = kv \/ kv' = [kv EXCEPT ![0] = <<>>]
  BY DEF Finish, Answer, store, slot
<1>3. <<>> \in Seq(Tokens) /\ 0 \in Lanes
  BY StoreAssumption DEF Lanes
<1>4. kv' \in [Lanes -> Seq(Tokens)] /\ ledger' \in [Convs -> Seq(Tokens)]
  BY <1>1, <1>2, <1>3 DEF StoreInv, StoreType
<1>5. StoreInv'
  BY <1>1, <1>2, <1>4, TokensWritten
<1>6. CASE Finish
  <2>1. /\ eng' = None /\ epc' = "idle" /\ ngen' = 0 /\ ended' = ended \cup {eng}
        /\ UNCHANGED <<gen, pc, req, ptr, jobs, logits, aborted>>
        /\ epc = "finish"
    BY <1>6 DEF Finish, handlers
  <2>2. ThreadType'
    BY <1>1, <2>1, ServerAssumption DEF ThreadType, EngineBusy
  <2>3. Holding'
    BY <1>1, <1>2, <2>1, EngineKeepsHolding
  <2>4. EngineBusy'
    BY <2>1 DEF EngineBusy
  <2>5. QED
    BY <1>5, <2>2, <2>3, <2>4, IInvParts, PTL
<1>7. ASSUME NEW i \in Ids, Answer(i) PROVE IInv'
  <2>1. /\ pc[i] = "await" /\ gen' = None /\ pc' = [pc EXCEPT ![i] = "done"]
        /\ UNCHANGED <<req, ptr, jobs, eng, epc, ngen, logits, ended, aborted>>
    BY <1>7 DEF Answer, Goto, engine
  <2>2. ThreadType'
    BY <1>1, <2>1 DEF ThreadType
  <2>3. \A j \in Ids : pc'[j] \notin {"remove", "bind", "alloc", "submit", "await"}
    BY <1>1, <2>1 DEF Holding, ThreadType
  <2>4. Holding'
    BY <2>3 DEF Holding
  <2>5. EngineBusy'
    BY <1>1, <2>1 DEF EngineBusy
  <2>6. QED
    BY <1>5, <2>2, <2>4, <2>5, IInvParts, PTL
<1>8. QED
  BY <1>6, <1>7

\* The other steps of the engine thread.
LEMMA EngineStepKeeps ==
    ASSUME IInv, EngineStep, ~Finish
    PROVE  IInv'
<1>1. StoreInv /\ ThreadType /\ Holding /\ EngineBusy
  BY IInvParts
<1>2. UNCHANGED <<live, owner, lane, last, born, tick, free, gen, pc, req, ptr, ended, aborted>>
  BY DEF EngineStep, Take, UseAfterFree, PrefillStateless, PrefillSession,
         GenerationEnds, DecodeToken, store, slot, handlers
<1>3. Holding'
  BY <1>1, <1>2, EngineKeepsHolding
<1>4. 0 \in Lanes /\ kv \in [Lanes -> Seq(Tokens)] /\ ledger \in [Convs -> Seq(Tokens)]
  BY <1>1, StoreAssumption DEF Lanes, StoreInv, StoreType
<1>5. epc # "idle" => eng \in Ids /\ req[eng] \in Requests /\ Prompt \in Seq(Tokens)
  BY <1>1, ServerAssumption DEF EngineBusy, ThreadType, Prompt, Request
<1>6. SUFFICES /\ ledger' \in [Convs -> Seq(Tokens)] /\ kv' \in [Lanes -> Seq(Tokens)]
               /\ jobs' \in Seq(Ids) /\ eng' \in Ids \cup {None}
               /\ epc' \in {"idle", "prefill", "gen", "finish", "undefined"}
               /\ ngen' \in 0 .. NGen /\ logits' \in Seq(Tokens)
               /\ epc' # "idle" => eng' \in Ids
  <2>1. StoreInv'
    BY <1>1, <1>2, <1>6, TokensWritten
  <2>2. ThreadType' /\ EngineBusy'
    BY <1>1, <1>2, <1>6 DEF ThreadType, EngineBusy
  <2>3. QED
    BY <1>3, <2>1, <2>2, IInvParts, PTL
<1>7. CASE Take
  <2>1. Head(jobs) \in Ids /\ Tail(jobs) \in Seq(Ids) /\ 0 \in 0 .. NGen
    BY <1>1, <1>7, HeadTailProperties, ServerAssumption DEF Take, ThreadType
  <2>2. QED
    BY <1>1, <1>4, <1>7, <2>1 DEF Take, ThreadType, store, slot
<1>8. CASE UseAfterFree \/ GenerationEnds
  BY <1>1, <1>4, <1>5, <1>8 DEF UseAfterFree, GenerationEnds, ThreadType, store, slot
<1>9. CASE PrefillStateless
  <2>1. /\ UNCHANGED <<ledger, jobs, eng, ngen>> /\ epc' \in {"gen", "finish"}
        /\ epc # "idle"
    BY <1>9 DEF PrefillStateless, store, slot
  <2>2. kv' \in [Lanes -> Seq(Tokens)] /\ logits' \in Seq(Tokens)
    <3>1. ASSUME NEW m \in 0 .. Len(Prompt) - 1 PROVE Prefix(Prompt, m) \in Seq(Tokens)
      BY <1>5, <2>1, SubSeqType DEF Prefix
    <3>2. CASE kv' = [kv EXCEPT ![0] = Prompt] /\ logits' = Prompt
      BY <1>4, <1>5, <2>1, <3>2
    <3>3. CASE /\ \E m \in 0 .. Len(Prompt) - 1 : kv' = [kv EXCEPT ![0] = Prefix(Prompt, m)]
               /\ logits' = logits
      BY <1>1, <1>4, <3>1, <3>3 DEF ThreadType
    <3>4. QED
      BY <1>9, <3>2, <3>3 DEF PrefillStateless
  <2>3. QED
    BY <1>1, <1>4, <1>5, <2>1, <2>2 DEF ThreadType
<1>10. ASSUME NEW trimOk \in BOOLEAN, PrefillSession(trimOk)
       PROVE  /\ ledger' \in [Convs -> Seq(Tokens)] /\ kv' \in [Lanes -> Seq(Tokens)]
              /\ logits' \in Seq(Tokens)
              /\ UNCHANGED <<jobs, eng, ngen>> /\ epc' \in {"gen", "finish"} /\ epc # "idle"
  <2>1. /\ UNCHANGED <<jobs, eng, ngen>> /\ epc' \in {"gen", "finish"} /\ epc # "idle"
        /\ ptr[eng] # NoSlot /\ Valid(eng)
    BY <1>10 DEF PrefillSession
  <2>2. Conv \in Convs /\ lane[Conv] \in Lanes
    BY <1>1, <1>5, <2>1, JobLane
  <2> DEFINE n == Reused(Conv, Prompt, trimOk)
             L == kv[lane[Conv]]
  <2>3. n \in Nat /\ n <= Len(Prompt) /\ n <= Len(L) /\ (L # <<>> => n <= Len(ledger[Conv]))
    BY <1>1, <1>5, <2>1, <2>2, ReusedBound DEF StoreInv
  <2>4. L \in Seq(Tokens) /\ ledger[Conv] \in Seq(Tokens) /\ Prompt \in Seq(Tokens)
    BY <1>4, <1>5, <2>1, <2>2
  <2>5. \/ /\ Prefilled(Conv, Prompt, n)
           /\ logits' = IF n < Len(Prompt) THEN kv'[lane[Conv]] ELSE logits
        \/ /\ \E m \in 0 .. Len(Prompt) - n - 1 : PrefillBroken(Conv, Prompt, n, m)
           /\ logits' = logits
    BY <1>10 DEF PrefillSession
  <2> HIDE DEF n
  <2>6. Len(Prompt) \in Nat /\ Len(L) \in Nat /\ Len(ledger[Conv]) \in Nat
    BY <2>4
  <2>7. Prefix(L, n) \in Seq(Tokens)
    BY <2>3, <2>4, SubSeqType DEF Prefix
  <2>8. ASSUME NEW m \in Nat, n + m <= Len(Prompt)
        PROVE  Prefix(L, n) \o SubSeq(Prompt, n + 1, n + m) \in Seq(Tokens)
    <3>1. n + 1 \in Nat \ {0} /\ n + m \in Nat
      BY <2>3
    <3>2. SubSeq(Prompt, n + 1, n + m) \in Seq(Tokens)
      BY <2>4, <2>8, <3>1, SubSeqType
    <3>3. QED
      BY <2>7, <3>2, ConcatProperties
  <2>9. CASE /\ Prefilled(Conv, Prompt, n)
             /\ logits' = IF n < Len(Prompt) THEN kv'[lane[Conv]] ELSE logits
    <3>1. Len(Prompt) - n \in Nat /\ n + (Len(Prompt) - n) = Len(Prompt)
      BY <2>3, <2>6
    <3>2. Prefix(L, n) \o SubSeq(Prompt, n + 1, Len(Prompt)) \in Seq(Tokens)
      <4>1. Prefix(L, n) \o SubSeq(Prompt, n + 1, n + (Len(Prompt) - n)) \in Seq(Tokens)
        BY <2>6, <2>8, <3>1
      <4>2. QED
        BY <3>1, <4>1
    <3>3. kv' \in [Lanes -> Seq(Tokens)] /\ ledger' \in [Convs -> Seq(Tokens)]
      BY <1>4, <2>2, <2>4, <2>9, <3>2 DEF Prefilled
    <3>4. logits' \in Seq(Tokens)
      BY <1>1, <2>2, <2>9, <3>3 DEF ThreadType
    <3>5. QED
      BY <2>1, <3>3, <3>4
  <2>10. ASSUME NEW m \in 0 .. Len(Prompt) - n - 1, PrefillBroken(Conv, Prompt, n, m)
         PROVE  kv' \in [Lanes -> Seq(Tokens)] /\ ledger' \in [Convs -> Seq(Tokens)]
    <3>1. m \in Nat /\ n + m <= Len(Prompt)
      BY <2>3, <2>6
    <3>2. Prefix(L, n) \o SubSeq(Prompt, n + 1, n + m) \in Seq(Tokens)
      BY <2>8, <3>1
    <3>3. L # <<>> => Prefix(ledger[Conv], n) \in Seq(Tokens)
      BY <2>3, <2>4, SubSeqType DEF Prefix
    <3>4. QED
      BY <1>4, <2>2, <2>4, <2>10, <3>2, <3>3 DEF PrefillBroken
  <2>11. CASE /\ \E m \in 0 .. Len(Prompt) - n - 1 : PrefillBroken(Conv, Prompt, n, m)
              /\ logits' = logits
    BY <1>1, <2>1, <2>10, <2>11 DEF ThreadType
  <2>12. QED
    BY <2>5, <2>9, <2>11 DEF n
<1>11. ASSUME NEW t \in Tokens, DecodeToken(t)
       PROVE  /\ ledger' \in [Convs -> Seq(Tokens)] /\ kv' \in [Lanes -> Seq(Tokens)]
              /\ logits' \in Seq(Tokens) /\ ngen' \in 0 .. NGen
              /\ UNCHANGED <<jobs, eng>> /\ epc' \in {"gen", "finish"} /\ epc # "idle"
  <2>1. /\ epc = "gen" /\ Valid(eng) /\ ngen < NGen /\ UNCHANGED <<jobs, eng>>
        /\ epc' \in {"gen", "finish"}
    BY <1>11 DEF DecodeToken
  <2>2. /\ LaneOfJob \in Lanes
        /\ ptr[eng] # NoSlot => Conv \in Convs
    BY <1>1, <1>5, <2>1, JobLane
  <2>3. /\ \A x \in Seq(Tokens) : Append(x, t) \in Seq(Tokens)
    BY AppendProperties
  <2>4. ledger' \in [Convs -> Seq(Tokens)]
    BY <1>4, <1>11, <2>2, <2>3 DEF DecodeToken
  <2>5. CASE /\ kv' = [kv EXCEPT ![LaneOfJob] = Append(@, t)]
             /\ logits' = kv'[LaneOfJob] /\ ngen' = ngen + 1
    <3>1. kv' \in [Lanes -> Seq(Tokens)]
      BY <1>4, <2>2, <2>3, <2>5
    <3>2. logits' \in Seq(Tokens)
      BY <2>2, <2>5, <3>1
    <3>3. ngen' \in 0 .. NGen
      BY <1>1, <2>1, <2>5, ServerAssumption DEF ThreadType
    <3>4. QED
      BY <2>1, <2>4, <3>1, <3>2, <3>3
  <2>6. CASE UNCHANGED <<kv, logits, ngen>>
    BY <1>1, <1>4, <2>1, <2>4, <2>6 DEF ThreadType
  <2>7. QED
    BY <1>11, <2>5, <2>6 DEF DecodeToken
<1>12. CASE \E ok \in BOOLEAN : PrefillSession(ok)
  BY <1>1, <1>5, <1>10, <1>12 DEF ThreadType
<1>13. CASE \E t \in Tokens : DecodeToken(t)
  BY <1>1, <1>5, <1>11, <1>13 DEF ThreadType
<1>14. QED
  BY <1>7, <1>8, <1>9, <1>12, <1>13 DEF EngineStep

\* Every step of the server keeps the invariant.
LEMMA NextIInv == IInv /\ [Next]_vars => IInv'
<1> SUFFICES ASSUME IInv, [Next]_vars PROVE IInv'
  OBVIOUS
<1>1. ASSUME NEW i \in Ids, HandlerStep(i) \/ Disconnect(i) PROVE IInv'
  <2>1. PICK q : q \in Requests
    BY ServerAssumption
  <2>2. QED
    BY <1>1, <2>1, ThreadStepKeeps, BindStepKeeps, EndStepKeeps DEF HandlerStep
<1>2. ASSUME NEW i \in Ids, NEW q \in Requests, Arrive(i, q) PROVE IInv'
  BY <1>2, ThreadStepKeeps
<1>3. CASE EngineStep
  BY <1>3, EngineStepKeeps, EndStepKeeps
<1>4. CASE UNCHANGED vars
  <2>1. UNCHANGED <<live, owner, lane, ledger, last, born, tick, free, kv, gen, pc, req, ptr>>
    BY <1>4 DEF vars, store, slot, handlers
  <2>2. UNCHANGED <<jobs, eng, epc, ngen, logits, ended, aborted>>
    BY <1>4 DEF vars, engine
  <2>3. StoreInv /\ ThreadType /\ Holding /\ EngineBusy
    BY IInvParts
  <2>4. StoreInv'
    BY <2>1, <2>3, SameSlots DEF StoreInv, StoreType, Lanes
  <2>5. ThreadType' /\ EngineBusy'
    BY <2>1, <2>2, <2>3 DEF ThreadType, EngineBusy
  <2>6. Holding'
    BY <2>1, <2>3, EngineKeepsHolding
  <2>7. QED
    BY <2>4, <2>5, <2>6, IInvParts, PTL
<1>5. QED
  BY <1>1, <1>2, <1>3, <1>4 DEF Next, Quiet

-----------------------------------------------------------------------------
(* The theorems.                                                           *)

\* The inductive invariant holds: what the handlers rely on between the lookup
\* of a conversation and the insertion of its slot, with the lanes and caps.
THEOREM Inductive == Spec => []IInv
BY InitIInv, NextIInv, PTL DEF Spec

\* The state of the server is well typed, whatever is asked of it.
THEOREM TypeCorrect == Spec => []TypeOK
<1>1. IInv => TypeOK
  BY DEF IInv
<1>2. QED
  BY Inductive, <1>1, PTL

\* No lane of the context is leaked or shared between conversations, and every
\* slot that get_or_create hands out has one.
THEOREM LanesNeverShared == Spec => []LanesOwned
<1>1. IInv => LanesOwned
  BY DEF IInv
<1>2. QED
  BY Inductive, <1>1, PTL

\* The caps on slots hold, streaming or not, for any number of tenants.
THEOREM CapsAlwaysHold == Spec => []CapsHold
<1>1. IInv => CapsHold
  BY DEF IInv
<1>2. QED
  BY Inductive, <1>1, PTL
-----------------------------------------------------------------------------
(* Tenants.                                                                *)

\* What a thread was bound to is bound to its own tenant, as long as the slot
\* it was given is still there: slots get a new birth tick when made anew.
Bound ==
    /\ \A c \in Convs : born[c] <= tick
    /\ \A i \in Ids : ptr[i][2] <= tick
    /\ \A i \in Ids : pc[i] = "new" => ptr[i] = NoSlot
    /\ \A i \in Ids : ptr[i] # NoSlot /\ Valid(i) => owner[ptr[i][1]] = req[i].owner

\* A slot that leaves the map takes no other slot's owner or birth with it.
LEMMA DiscardBound ==
    ASSUME StoreInv, ThreadType, Bound, NEW c \in live, Discard(c),
           UNCHANGED <<req, ptr>>, \A i \in Ids : pc'[i] = "new" => pc[i] = "new"
    PROVE  Bound'
<1>1. /\ c \in Convs /\ live' = live \ {c} /\ tick' = tick /\ tick \in Nat
      /\ owner' = [owner EXCEPT ![c] = NoOwner] /\ born' = [born EXCEPT ![c] = 0]
      /\ owner \in [Convs -> Owners] /\ born \in [Convs -> Nat]
  BY DEF StoreInv, StoreType, Discard
<1>2. \A d \in Convs : born'[d] <= tick'
  BY <1>1 DEF Bound
<1>3. ASSUME NEW i \in Ids, ptr'[i] # NoSlot, Valid(i)'
      PROVE  owner'[ptr'[i][1]] = req'[i].owner
  <2>1. ptr[i][1] \in live /\ ptr[i][1] # c /\ born[ptr[i][1]] = ptr[i][2] /\ ptr[i][1] \in Convs
    BY <1>1, <1>3 DEF Valid, StoreInv, StoreType
  <2>2. ptr[i] # NoSlot /\ Valid(i)
    BY <1>3, <2>1 DEF Valid
  <2>3. QED
    BY <1>1, <2>1, <2>2 DEF Bound
<1>4. QED
  BY <1>1, <1>2, <1>3 DEF Bound

\* Only the tenant a slot belongs to is given it, and a slot made anew is
\* none of those that were handed out before.
LEMMA BindBound ==
    ASSUME IInv, Bound, NEW i \in Ids, BindFound(i) \/ BindNew(i)
    PROVE  Bound'
<1>1. StoreInv /\ ThreadType /\ Holding /\ EngineBusy
  BY IInvParts
<1> DEFINE c == req[i].conv
<1>2. /\ pc[i] \in {"bind", "alloc"} /\ c \in Convs /\ req' = req /\ pc' = [pc EXCEPT ![i] = "submit"]
      /\ req[i] \in Requests
  BY <1>1 DEF BindFound, BindNew, Unbound, Goto, Holding, ThreadType
<1>3. /\ owner \in [Convs -> Owners] /\ born \in [Convs -> Nat] /\ tick \in Nat
      /\ live \subseteq Convs /\ ptr \in [Ids -> (Convs \cup {NoConv}) \X Nat]
      /\ pc \in [Ids -> {"new", "queued", "remove", "bind", "alloc", "submit",
                         "await", "drain", "done"}]
  BY <1>1 DEF StoreInv, StoreType, ThreadType
<1>4. \A j \in Ids : pc'[j] = "new" => pc[j] = "new" /\ j # i
  BY <1>2, <1>3
<1>5. \A j \in Ids : ptr[j][2] \in Nat
  BY <1>3
<1>6. CASE BindFound(i)
  <2>1. /\ c \in live /\ ~Mismatch(c, req[i].owner) /\ tick' = tick + 1
        /\ UNCHANGED <<live, born>> /\ ptr' = [ptr EXCEPT ![i] = <<c, born[c]>>]
        /\ owner' = [owner EXCEPT ![c] = IF owner[c] = NoOwner THEN req[i].owner ELSE owner[c]]
    BY <1>6 DEF BindFound, Find
  <2>2. \E q \in Requests : owner[c] = q.owner
    BY <1>1, <2>1 DEF StoreInv, OwnersKnown
  <2>3. owner[c] = req[i].owner
    BY <1>2, <2>1, <2>2, ModeAssumption DEF Mismatch
  <2>4. owner' = owner
    BY <1>3, <2>1, <2>3
  <2>5. \A j \in Ids : ptr'[j][2] <= tick'
    BY <1>2, <1>3, <1>5, <2>1 DEF Bound
  <2>6. ASSUME NEW j \in Ids, ptr'[j] # NoSlot, Valid(j)'
        PROVE  owner'[ptr'[j][1]] = req'[j].owner
    <3>1. CASE j = i
      BY <1>2, <1>3, <2>1, <2>3, <2>4, <3>1
    <3>2. CASE j # i
      <4>1. ptr'[j] = ptr[j]
        BY <1>3, <2>1, <3>2
      <4>2. Valid(j)
        BY <2>1, <2>6, <4>1 DEF Valid
      <4>3. QED
        BY <1>2, <2>4, <2>6, <4>1, <4>2 DEF Bound
    <3>3. QED
      BY <3>1, <3>2
  <2>7. \A d \in Convs : born'[d] <= tick'
    BY <1>3, <2>1 DEF Bound
  <2>8. \A j \in Ids : pc'[j] = "new" => ptr'[j] = NoSlot
    BY <1>3, <1>4, <2>1 DEF Bound
  <2>9. QED
    BY <2>5, <2>6, <2>7, <2>8 DEF Bound
<1>7. CASE BindNew(i)
  <2>1. /\ live' = live \cup {c} /\ tick' = tick + 1
        /\ owner' = [owner EXCEPT ![c] = req[i].owner] /\ born' = [born EXCEPT ![c] = tick + 1]
        /\ ptr' = [ptr EXCEPT ![i] = <<c, tick + 1>>]
    BY <1>7 DEF BindNew, Create
  <2>2. \A j \in Ids : ptr'[j][2] <= tick'
    BY <1>2, <1>3, <1>5, <2>1 DEF Bound
  <2>3. \A d \in Convs : born'[d] <= tick'
    BY <1>3, <2>1 DEF Bound
  <2>4. ASSUME NEW j \in Ids, ptr'[j] # NoSlot, Valid(j)'
        PROVE  owner'[ptr'[j][1]] = req'[j].owner
    <3>1. CASE j = i
      BY <1>2, <1>3, <2>1, <3>1
    <3>2. CASE j # i
      <4>1. ptr'[j] = ptr[j]
        BY <1>3, <2>1, <3>2
      <4>2. ptr[j][1] \in live' /\ born'[ptr[j][1]] = ptr[j][2] /\ ptr[j][1] \in Convs
        BY <1>2, <1>3, <2>1, <2>4, <4>1 DEF Valid
      <4>3. ptr[j][1] # c
        <5>1. ptr[j][2] <= tick
          BY DEF Bound
        <5>2. born'[c] = tick + 1
          BY <1>2, <1>3, <2>1
        <5>3. QED
          BY <1>3, <1>5, <4>2, <5>1, <5>2
      <4>4. ptr[j][1] \in live /\ born[ptr[j][1]] = ptr[j][2]
            /\ owner'[ptr[j][1]] = owner[ptr[j][1]]
        BY <1>2, <1>3, <2>1, <4>2, <4>3
      <4>5. QED
        BY <1>2, <2>4, <4>1, <4>4 DEF Bound, Valid
    <3>3. QED
      BY <3>1, <3>2
  <2>5. \A j \in Ids : pc'[j] = "new" => ptr'[j] = NoSlot
    BY <1>3, <1>4, <2>1 DEF Bound
  <2>6. QED
    BY <2>2, <2>3, <2>4, <2>5 DEF Bound
<1>8. QED
  BY <1>6, <1>7

\* Every step keeps it.
LEMMA NextBound == IInv /\ Bound /\ [Next]_vars => Bound'
<1> SUFFICES ASSUME IInv, Bound, [Next]_vars PROVE Bound'
  OBVIOUS
<1>1. StoreInv /\ ThreadType /\ Holding /\ EngineBusy
  BY IInvParts
<1>2. ASSUME UNCHANGED <<live, owner, born, tick, req, ptr>>,
             \A i \in Ids : pc'[i] = "new" => pc[i] = "new"
      PROVE  Bound'
  BY <1>2 DEF Bound, Valid
<1>3. ASSUME NEW i \in Ids, NEW q \in Requests, Arrive(i, q) PROVE Bound'
  <2>1. /\ UNCHANGED <<live, owner, born, tick, ptr>> /\ pc[i] = "new"
        /\ req' = [req EXCEPT ![i] = q] /\ pc' = [pc EXCEPT ![i] = "queued"]
    BY <1>3 DEF Arrive, Goto, store, slot
  <2>2. ptr[i] = NoSlot
    BY <2>1 DEF Bound
  <2>3. \A j \in Ids : ptr[j] # NoSlot => req'[j] = req[j]
    BY <1>1, <2>1, <2>2 DEF ThreadType
  <2>4. \A j \in Ids : pc'[j] = "new" => pc[j] = "new"
    BY <1>1, <2>1 DEF ThreadType
  <2>5. QED
    BY <2>1, <2>3, <2>4 DEF Bound, Valid
<1>4. ASSUME NEW i \in Ids, HandlerStep(i) \/ Disconnect(i) PROVE Bound'
  <2>1. CASE Acquire(i) \/ Reject(i) \/ Submit(i) \/ Answer(i) \/ Drained(i) \/ Disconnect(i)
    <3>1. UNCHANGED <<live, owner, born, tick, req, ptr>>
      BY <2>1 DEF Acquire, Reject, Submit, Answer, Drained, Disconnect, store, slot
    <3>2. \A j \in Ids : pc'[j] = "new" => pc[j] = "new"
      BY <1>1, <2>1 DEF Acquire, Reject, Submit, Answer, Drained, Disconnect, Goto, ThreadType
    <3>3. QED
      BY <1>2, <3>1, <3>2
  <2>2. CASE BindFound(i) \/ BindNew(i)
    BY <2>2, BindBound
  <2>3. CASE RemoveConv(i) \/ EvictOwn(i) \/ EvictFull(i) \/ EvictForLane(i)
    <3>1. UNCHANGED <<req, ptr>>
      BY <2>3 DEF RemoveConv, EvictOwn, EvictFull, EvictForLane, handlers
    <3>2. \A j \in Ids : pc'[j] = "new" => pc[j] = "new"
      BY <1>1, <2>3 DEF RemoveConv, EvictOwn, EvictFull, EvictForLane, handlers, Goto, ThreadType
    <3>3. (\E c \in live : Discard(c)) \/ UNCHANGED <<store, kv>>
      BY <2>3 DEF RemoveConv, EvictOwn, EvictFull, EvictForLane, Remove, EvictLru,
                  EvictLruForOwner
    <3>4. CASE UNCHANGED <<store, kv>>
      BY <1>2, <3>1, <3>2, <3>4 DEF store, slot
    <3>5. QED
      BY <1>1, <3>1, <3>2, <3>3, <3>4, DiscardBound
  <2>4. QED
    BY <1>4, <2>1, <2>2, <2>3 DEF HandlerStep
<1>5. CASE EngineStep
  <2>1. UNCHANGED <<live, owner, born, tick, req, ptr, pc>>
    BY <1>5 DEF EngineStep, Take, UseAfterFree, PrefillStateless, PrefillSession,
                GenerationEnds, DecodeToken, Finish, store, slot, handlers
  <2>2. QED
    BY <1>2, <2>1
<1>6. CASE UNCHANGED vars
  BY <1>2, <1>6 DEF vars, store, slot, handlers
<1>7. QED
  BY <1>3, <1>4, <1>5, <1>6 DEF Next, Quiet

\* A job works only in a conversation of the tenant who asked for it, with any
\* number of removals, evictions and new bindings between two requests, and
\* streaming or not, as long as the slot it was given is still there.
THEOREM TenantsIsolated == Spec => []TenantIsolation
<1>1. Init => Bound
  <2> SUFFICES ASSUME Init PROVE Bound
    OBVIOUS
  <2>1. /\ tick = 0 /\ \A c \in Convs : born[c] = 0
        /\ \A i \in Ids : ptr[i] = NoSlot /\ NoSlot[2] = 0
    BY DEF Init, StoreInit, NoSlot
  <2>2. QED
    BY <2>1 DEF Bound
<1>2. IInv /\ Bound => TenantIsolation
  BY DEF IInv, EngineBusy, Bound, TenantIsolation, Conv
<1>3. QED
  BY <1>1, <1>2, NextBound, Inductive, PTL DEF Spec

\* docs/SERVING.md's promise on session_max_per_user: a request loses another
\* tenant's conversation only when its own user is below the cap and slots or
\* lanes have run out, whichever eviction of get_or_create it is.
THEOREM OwnChatsGoFirst == Spec => OwnChatsFirst
<1> DEFINE Fair(i, c) ==
        /\ gen = i /\ pc[i] = "bind" /\ req[i].owner # NoOwner /\ MaxSlotsPerUser > 0
        /\ c \notin live' /\ owner[c] # req[i].owner
        => /\ CountForOwner(req[i].owner) < MaxSlotsPerUser
           /\ Cardinality(live) = MaxSlots \/ free = {}
<1>1. ASSUME IInv, [Next]_vars PROVE [\A i \in Ids, c \in live : Fair(i, c)]_vars
  <2>1. StoreInv /\ ThreadType /\ Holding
    BY <1>1, IInvParts
  <2> SUFFICES ASSUME NEW i \in Ids, NEW c \in live,
                      gen = i, pc[i] = "bind", req[i].owner # NoOwner, MaxSlotsPerUser > 0,
                      c \notin live', owner[c] # req[i].owner
               PROVE  /\ CountForOwner(req[i].owner) < MaxSlotsPerUser
                      /\ Cardinality(live) = MaxSlots \/ free = {}
    OBVIOUS
  <2>2. EvictOwn(i) \/ EvictFull(i) \/ EvictForLane(i)
    <3>1. \E j \in Ids : \/ RemoveConv(j) \/ EvictOwn(j) \/ EvictFull(j) \/ EvictForLane(j)
      <4>1. live' # live
        OBVIOUS
      <4>2. ASSUME NEW j \in Ids, NEW q \in Requests,
                   \/ Arrive(j, q) \/ Acquire(j) \/ Reject(j) \/ BindFound(j) \/ Submit(j)
                   \/ Answer(j) \/ Drained(j) \/ Disconnect(j)
            PROVE  live' = live
        BY <4>2 DEF Arrive, Acquire, Reject, BindFound, Find, Submit, Answer, Drained,
                    Disconnect, store
      <4>3. ASSUME NEW j \in Ids, BindNew(j) PROVE c \in live'
        BY <4>3 DEF BindNew, Create
      <4>4. EngineStep \/ UNCHANGED vars => live' = live
        BY DEF EngineStep, Take, UseAfterFree, PrefillStateless, PrefillSession,
               GenerationEnds, DecodeToken, Finish, store, vars
      <4>5. PICK q : q \in Requests
        BY ServerAssumption
      <4>6. QED
        BY <1>1, <4>1, <4>2, <4>3, <4>4, <4>5 DEF Next, Quiet, HandlerStep
    <3>2. PICK j \in Ids : RemoveConv(j) \/ EvictOwn(j) \/ EvictFull(j) \/ EvictForLane(j)
      BY <3>1
    <3>3. pc[j] \in {"remove", "bind"}
      BY <3>2 DEF RemoveConv, EvictOwn, EvictFull, EvictForLane, Unbound
    <3>4. j = i
      BY <2>1, <3>3 DEF Holding
    <3>5. ~RemoveConv(i)
      BY DEF RemoveConv
    <3>6. QED
      BY <3>2, <3>4, <3>5
  <2>3. ~EvictOwn(i)
    <3> SUFFICES ASSUME EvictOwn(i) PROVE FALSE
      OBVIOUS
    <3>1. PICK d \in live : d \in Owned(req[i].owner) /\ Discard(d)
      BY DEF EvictOwn, EvictLruForOwner, Oldest
    <3>2. c = d
      BY <3>1 DEF Discard
    <3>3. QED
      BY <3>1, <3>2 DEF Owned
  <2>4. CountForOwner(req[i].owner) \in Nat
    BY <2>1, LiveFinite DEF StoreInv, StoreType, CountForOwner
  <2>5. ~OverUserCap(req[i].owner)
    BY <2>2, <2>3 DEF EvictFull, EvictForLane
  <2>6. CountForOwner(req[i].owner) < MaxSlotsPerUser
    BY <2>4, <2>5, StoreAssumption DEF OverUserCap
  <2>7. CASE EvictFull(i)
    <3>1. Cardinality(live) >= MaxSlots /\ Cardinality(live) <= MaxSlots
          /\ Cardinality(live) \in Nat
      BY <2>1, <2>7, LiveFinite DEF EvictFull, StoreInv, StoreType, CapsHold
    <3>2. QED
      BY <2>6, <3>1, StoreAssumption
  <2>8. CASE EvictForLane(i)
    BY <2>6, <2>8 DEF EvictForLane
  <2>9. QED
    BY <2>2, <2>3, <2>7, <2>8
<1>2. QED
  BY <1>1, Inductive, PTL DEF Spec, OwnChatsFirst

-----------------------------------------------------------------------------
(* Servers without streaming.                                              *)

\* A blocking handler keeps gen_mutex until its job has ended, so the job on
\* its way to or on the engine is that of the holder, and no one else can
\* remove the slot it points to.
Blocking ==
    /\ \A i \in Ids : pc[i] # "drain"
    /\ \A i \in Ids : pc[i] \in {"new", "queued"} => ptr[i] = NoSlot
    /\ \A i \in Ids : pc[i] \in {"submit", "await"} => Valid(i)
    /\ \/ jobs = <<>>
       \/ \E i \in Ids : jobs = <<i>> /\ eng = None /\ pc[i] = "await" /\ i \notin ended
    /\ eng \in Ids => pc[eng] = "await" /\ eng \notin ended
    /\ \A i \in ended : pc[i] \in {"await", "done"}

\* Handlers that touch neither slots nor queue keep it.
LEMMA BlockingThreads ==
    ASSUME IInv, Blocking, NEW i \in Ids, NEW q \in Requests,
           \/ Arrive(i, q) \/ Acquire(i) \/ Reject(i) \/ Answer(i)
           \/ Drained(i) \/ Disconnect(i)
    PROVE  Blocking'
<1>1. StoreInv /\ ThreadType /\ Holding /\ EngineBusy
  BY IInvParts
<1>2. UNCHANGED <<live, born, ptr, jobs, eng, ended>>
  BY DEF Blocking, Arrive, Acquire, Reject, Answer, Drained, Disconnect, store,
         slot, engine
<1>3. \A j \in Ids : Valid(j)' <=> Valid(j)
  BY <1>2 DEF Valid
<1>4. CASE Arrive(i, q)
  BY <1>1, <1>2, <1>3, <1>4 DEF Blocking, ThreadType, Arrive, Goto
<1>5. CASE Acquire(i)
  <2>1. ptr[i] = NoSlot => Valid(i)
    BY DEF Valid
  <2>2. QED
    BY <1>1, <1>2, <1>3, <1>5, <2>1 DEF Blocking, ThreadType, Acquire, Goto
<1>6. CASE Reject(i)
  BY <1>1, <1>2, <1>3, <1>6 DEF Blocking, ThreadType, Reject, Goto
<1>7. CASE Answer(i)
  BY <1>1, <1>2, <1>3, <1>7 DEF Blocking, ThreadType, Answer, Goto
<1>8. CASE Drained(i) \/ Disconnect(i)
  BY <1>8 DEF Blocking, Drained, Disconnect
<1>9. QED
  BY <1>4, <1>5, <1>6, <1>7, <1>8

\* The steps of bind_conversation keep it: whoever takes one holds gen_mutex,
\* so no other request is between its binding and its answer.
LEMMA BlockingBinds ==
    ASSUME IInv, Blocking, NEW i \in Ids,
           \/ RemoveConv(i) \/ BindFound(i) \/ EvictOwn(i) \/ EvictFull(i)
           \/ EvictForLane(i) \/ BindNew(i)
    PROVE  Blocking'
<1>1. StoreInv /\ ThreadType /\ Holding /\ EngineBusy
  BY IInvParts
<1>2. /\ pc[i] \in {"remove", "bind", "alloc"}
      /\ UNCHANGED <<gen, req, jobs, eng, ended>>
  BY DEF RemoveConv, BindFound, EvictOwn, EvictFull, EvictForLane, BindNew,
         Unbound, engine, handlers
<1>3. /\ req[i].conv \in Convs
      /\ \A j \in Ids : pc[j] \in {"submit", "await"} => FALSE
  BY <1>1, <1>2 DEF Holding, ThreadType
<1>4. jobs = <<>> /\ eng \notin Ids
  BY <1>3 DEF Blocking
<1>5. CASE /\ pc' = pc \/ (\E st \in {"bind", "alloc"} : pc' = [pc EXCEPT ![i] = st])
           /\ ptr' = ptr
  BY <1>1, <1>2, <1>3, <1>4, <1>5 DEF Blocking, ThreadType
<1>6. CASE /\ pc' = [pc EXCEPT ![i] = "submit"]
           /\ ptr' = [ptr EXCEPT ![i] = <<req[i].conv, born'[req[i].conv]>>]
           /\ req[i].conv \in live'
  <2>1. Valid(i)'
    BY <1>1, <1>6 DEF Valid, ThreadType
  <2>2. QED
    BY <1>1, <1>2, <1>3, <1>4, <1>6, <2>1 DEF Blocking, ThreadType
<1>7. CASE RemoveConv(i) \/ EvictOwn(i) \/ EvictFull(i) \/ EvictForLane(i)
  BY <1>5, <1>7 DEF RemoveConv, EvictOwn, EvictFull, EvictForLane, Goto, handlers
<1>8. CASE BindFound(i)
  BY <1>6, <1>8 DEF BindFound, Find, Goto
<1>9. CASE BindNew(i)
  <2>1. born'[req[i].conv] = tick + 1 /\ req[i].conv \in live'
    BY <1>1, <1>3, <1>9 DEF BindNew, Create, StoreInv, StoreType
  <2>2. QED
    BY <1>6, <1>9, <2>1 DEF BindNew, Goto
<1>10. QED
  BY <1>7, <1>8, <1>9

\* The engine finds at most the holder's job, and reports its end last.
LEMMA BlockingEngine ==
    ASSUME IInv, Blocking, EngineStep
    PROVE  Blocking'
<1>1. StoreInv /\ ThreadType /\ Holding /\ EngineBusy
  BY IInvParts
<1>2. UNCHANGED <<live, born, pc, ptr>>
  BY DEF EngineStep, Take, UseAfterFree, PrefillStateless, PrefillSession,
         GenerationEnds, DecodeToken, Finish, store, slot, handlers
<1>3. \A j \in Ids : Valid(j)' <=> Valid(j)
  BY <1>2 DEF Valid
<1>4. CASE Take
  <2>1. PICK i \in Ids : jobs = <<i>> /\ pc[i] = "await" /\ i \notin ended
    BY <1>4 DEF Take, Blocking
  <2>2. eng' = i /\ jobs' = <<>> /\ ended' = ended
    BY <1>4, <2>1 DEF Take
  <2>3. QED
    BY <1>2, <1>3, <2>1, <2>2 DEF Blocking
<1>5. CASE Finish
  <2>1. eng \in Ids /\ eng # None /\ eng' = None /\ None \notin Ids
        /\ jobs' = jobs /\ ended' = ended \cup {eng}
    BY <1>1, <1>5, ServerAssumption DEF EngineBusy, Finish, None
  <2>2. QED
    BY <1>2, <1>3, <2>1 DEF Blocking
<1>6. CASE UNCHANGED <<jobs, eng, ended>>
  BY <1>2, <1>3, <1>6 DEF Blocking
<1>7. QED
  BY <1>4, <1>5, <1>6 DEF EngineStep, UseAfterFree, PrefillStateless,
     PrefillSession, GenerationEnds, DecodeToken

\* Without streaming, it holds throughout.
LEMMA BlockingHolds ==
    ASSUME \A q \in Requests : ~q.stream
    PROVE  Spec => []Blocking
<1>1. Init => Blocking
  <2> SUFFICES ASSUME Init PROVE Blocking
    OBVIOUS
  <2>1. None \notin Ids
    BY ServerAssumption DEF None
  <2>2. QED
    BY <2>1 DEF Init, Blocking
<1>2. IInv /\ Blocking /\ [Next]_vars => Blocking'
  <2> SUFFICES ASSUME IInv, Blocking, [Next]_vars PROVE Blocking'
    OBVIOUS
  <2>1. ASSUME NEW i \in Ids, Submit(i) PROVE Blocking'
    <3>1. StoreInv /\ ThreadType /\ Holding /\ EngineBusy
      BY IInvParts
    <3>2. /\ pc[i] = "submit" /\ pc' = [pc EXCEPT ![i] = "await"]
          /\ jobs' = Append(jobs, i)
          /\ UNCHANGED <<live, born, ptr, eng, ended>>
      BY <2>1, <3>1 DEF Submit, Goto, ThreadType, store, slot, engine
    <3>3. \A j \in Ids : pc[j] # "await"
      BY <3>1, <3>2 DEF Holding
    <3>4. jobs = <<>> /\ eng = None /\ i \notin ended
      BY <3>1, <3>2, <3>3 DEF Blocking, ThreadType
    <3>5. jobs' = <<i>>
      BY <3>2, <3>4
    <3>6. \A j \in Ids : Valid(j)' <=> Valid(j)
      BY <3>2 DEF Valid
    <3>7. None \notin Ids
      BY ServerAssumption DEF None
    <3>8. QED
      BY <3>1, <3>2, <3>4, <3>5, <3>6, <3>7 DEF Blocking, ThreadType
  <2>2. ASSUME NEW i \in Ids, HandlerStep(i) \/ Disconnect(i) PROVE Blocking'
    <3>1. PICK q : q \in Requests
      BY ServerAssumption
    <3>2. QED
      BY <2>1, <2>2, <3>1, BlockingThreads, BlockingBinds DEF HandlerStep
  <2>3. ASSUME NEW i \in Ids, NEW q \in Requests, Arrive(i, q) PROVE Blocking'
    BY <2>3, BlockingThreads
  <2>4. CASE UNCHANGED vars
    BY <2>4 DEF Blocking, Valid, vars, store, slot, handlers, engine
  <2>5. QED
    BY <2>2, <2>3, <2>4, BlockingEngine DEF Next, Quiet
<1>3. QED
  BY <1>1, <1>2, Inductive, PTL DEF Spec

\* A server whose clients never stream never uses a freed slot: removals and
\* evictions made by one request cannot reach the slot of another's job.
THEOREM BlockingSlotValid ==
    ASSUME \A q \in Requests : ~q.stream
    PROVE  Spec => []SlotValid
<1>1. IInv /\ Blocking => SlotValid
  BY DEF IInv, EngineBusy, Blocking, SlotValid
<1>2. Spec => []Blocking
  BY BlockingHolds
<1>3. QED
  BY <1>1, <1>2, Inductive, PTL
=============================================================================
