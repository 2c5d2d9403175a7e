-------------------------- MODULE ChatReuseProofs --------------------------
(***************************************************************************)
(* Proofs about the lanes of a chat server: who touches them while a job   *)
(* runs, and that, if the clients never stream, the reuse of a prefix      *)
(* cannot be observed, whatever earlier requests, evictions, failed trims  *)
(* and failed decodes left behind.                                         *)
(***************************************************************************)
EXTENDS ChatServerProofs

-----------------------------------------------------------------------------
(* Who touches the lanes, on a server with streaming clients or without.   *)

\* A job is submitted once; a blocking one is the last of the queue until it is
\* the only one, and its handler waits, with gen_mutex, until it has ended.
Waiting ==
    /\ \A i \in Ids : pc[i] = "await" =>
        /\ ~req[i].stream
        /\ \/ i \in ended /\ eng = None /\ jobs = <<>>
           \/ i \notin ended /\ eng = i /\ jobs = <<>>
           \/ /\ i \notin ended /\ eng # i
              /\ jobs # <<>> /\ jobs[Len(jobs)] = i
              /\ \A n \in 1 .. Len(jobs) - 1 : jobs[n] # i
    /\ \A i \in Ids : i = eng \/ (\E n \in 1 .. Len(jobs) : jobs[n] = i) =>
        /\ pc[i] \in {"await", "drain", "done"}
        /\ ~req[i].stream => pc[i] = "await" /\ i \notin ended
    /\ \A i \in ended : pc[i] \in {"await", "drain", "done"}

\* A handler other than Submit keeps it: it is not about a job under way, or it
\* belongs to a streaming one, or to a blocking one that has ended.
LEMMA WaitingThreads ==
    ASSUME IInv, Waiting, NEW i \in Ids, NEW q \in Requests,
           \/ Arrive(i, q) \/ Acquire(i) \/ Reject(i) \/ Answer(i)
           \/ Drained(i) \/ Disconnect(i) \/ RemoveConv(i) \/ BindFound(i)
           \/ EvictOwn(i) \/ EvictFull(i) \/ EvictForLane(i) \/ BindNew(i)
    PROVE  Waiting'
<1>1. ThreadType /\ Holding
  BY IInvParts
<1>2. UNCHANGED <<jobs, eng, ended>>
  BY DEF Arrive, Acquire, Reject, Answer, Drained, Disconnect, RemoveConv, BindFound,
         EvictOwn, EvictFull, EvictForLane, BindNew, engine
<1>3. CASE Arrive(i, q)
  <2>1. /\ pc[i] = "new" /\ pc' = [pc EXCEPT ![i] = "queued"]
        /\ \A j \in Ids \ {i} : req'[j] = req[j]
    BY <1>1, <1>3 DEF Arrive, Goto, ThreadType
  <2>2. i # eng /\ i \notin ended /\ \A n \in 1 .. Len(jobs) : jobs[n] # i
    BY <2>1 DEF Waiting
  <2>3. QED
    BY <1>1, <1>2, <2>1, <2>2 DEF Waiting, ThreadType
<1>4. CASE Drained(i) \/ Disconnect(i)
  <2>1. /\ pc[i] = "drain" /\ pc' = [pc EXCEPT ![i] = "done"] /\ UNCHANGED req
    BY <1>4 DEF Drained, Disconnect, Goto
  <2>2. QED
    BY <1>1, <1>2, <2>1 DEF Waiting, ThreadType
<1>5. CASE Answer(i)
  <2>1. /\ pc[i] = "await" /\ i \in ended
        /\ pc' = [pc EXCEPT ![i] = "done"] /\ UNCHANGED req
    BY <1>5 DEF Answer, Goto
  <2>2. i # eng /\ jobs = <<>>
    BY <2>1 DEF Waiting, None
  <2>3. \A n \in 1 .. Len(jobs) : jobs[n] # i
    BY <2>2
  <2>4. QED
    BY <1>1, <1>2, <2>1, <2>2, <2>3 DEF Waiting, ThreadType
<1>6. CASE /\ pc[i] \in {"queued", "remove", "bind", "alloc"} /\ UNCHANGED req
           /\ \E st \in {"remove", "bind", "alloc", "submit", "done"} :
                 pc' = pc \/ pc' = [pc EXCEPT ![i] = st]
  <2>1. /\ i # eng /\ i \notin ended /\ \A n \in 1 .. Len(jobs) : jobs[n] # i
        /\ pc'[i] # "await" /\ \A j \in Ids \ {i} : pc'[j] = pc[j]
    BY <1>1, <1>6 DEF Waiting, ThreadType
  <2>2. \A j \in ended : j # i /\ j \in Ids
    BY <1>1, <2>1 DEF ThreadType
  <2>3. QED
    BY <1>2, <1>6, <2>1, <2>2 DEF Waiting
<1>7. CASE Acquire(i) \/ Reject(i)
  BY <1>6, <1>7 DEF Acquire, Reject, Goto
<1>8. CASE RemoveConv(i) \/ BindFound(i) \/ BindNew(i)
  BY <1>6, <1>8 DEF RemoveConv, BindFound, BindNew, Unbound, Goto
<1>9. CASE EvictOwn(i) \/ EvictFull(i) \/ EvictForLane(i)
  BY <1>6, <1>9 DEF EvictOwn, EvictFull, EvictForLane, Unbound, Goto, handlers
<1>10. QED
  BY <1>3, <1>4, <1>5, <1>7, <1>8, <1>9

\* submit_job keeps it: the job is new, and nobody else waits.
LEMMA WaitingSubmit ==
    ASSUME IInv, Waiting, NEW i \in Ids, Submit(i)
    PROVE  Waiting'
<1>1. ThreadType /\ Holding
  BY IInvParts
<1>2. /\ pc[i] = "submit" /\ jobs' = Append(jobs, i) /\ UNCHANGED <<req, eng, ended>>
      /\ IF req[i].stream THEN pc' = [pc EXCEPT ![i] = "drain"]
                          ELSE pc' = [pc EXCEPT ![i] = "await"]
  BY DEF Submit, Goto, engine
<1>3. /\ i # eng /\ i \notin ended /\ \A n \in 1 .. Len(jobs) : jobs[n] # i
      /\ \A j \in Ids : pc[j] # "await"
  BY <1>1, <1>2 DEF Waiting, Holding
<1>4. /\ jobs' # <<>> /\ Len(jobs') = Len(jobs) + 1 /\ jobs'[Len(jobs')] = i
      /\ \A n \in 1 .. Len(jobs) : jobs'[n] = jobs[n]
      /\ Len(jobs) \in Nat
  BY <1>1, <1>2 DEF ThreadType
<1>5. \A j \in Ids \ {i} : pc'[j] = pc[j]
  BY <1>1, <1>2 DEF ThreadType
<1>6. pc'[i] = IF req[i].stream THEN "drain" ELSE "await"
  BY <1>1, <1>2 DEF ThreadType
<1>7. ASSUME NEW j \in Ids, pc'[j] = "await"
      PROVE  /\ ~req'[j].stream
             /\ j \notin ended' /\ eng' # j /\ jobs' # <<>> /\ jobs'[Len(jobs')] = j
             /\ \A n \in 1 .. Len(jobs') - 1 : jobs'[n] # j
  <2>1. j = i
    BY <1>3, <1>5, <1>7
  <2>2. QED
    BY <1>2, <1>3, <1>4, <1>6, <1>7, <2>1
<1>8. ASSUME NEW j \in Ids, j = eng' \/ (\E n \in 1 .. Len(jobs') : jobs'[n] = j)
      PROVE  /\ pc'[j] \in {"await", "drain", "done"}
             /\ ~req'[j].stream => pc'[j] = "await" /\ j \notin ended'
  <2>1. CASE j = i
    BY <1>2, <1>3, <1>6, <2>1
  <2>2. CASE j # i
    <3>1. j = eng \/ (\E n \in 1 .. Len(jobs) : jobs[n] = j)
      BY <1>2, <1>4, <1>8, <2>2
    <3>2. QED
      BY <1>2, <1>5, <2>2, <3>1 DEF Waiting
  <2>3. QED
    BY <2>1, <2>2
<1>9. \A j \in ended' : pc'[j] \in {"await", "drain", "done"}
  BY <1>1, <1>2, <1>3, <1>5 DEF Waiting, ThreadType
<1>10. QED
  BY <1>7, <1>8, <1>9 DEF Waiting

\* The engine takes the oldest job and reports its end last.
LEMMA WaitingEngine ==
    ASSUME IInv, Waiting, EngineStep
    PROVE  Waiting'
<1>1. ThreadType /\ EngineBusy /\ None \notin Ids
  BY IInvParts, ServerAssumption DEF None
<1>2. UNCHANGED <<pc, req>>
  BY DEF EngineStep, Take, UseAfterFree, PrefillStateless, PrefillSession,
         GenerationEnds, DecodeToken, Finish, handlers
<1>3. CASE Take
  <2>1. /\ eng = None /\ jobs # <<>> /\ ended' = ended
        /\ eng' = jobs[1] /\ jobs' = Tail(jobs)
    BY <1>1, <1>3 DEF Take, ThreadType
  <2>2. /\ Len(jobs) \in Nat \ {0} /\ Len(jobs') = Len(jobs) - 1
        /\ \A n \in 1 .. Len(jobs') : jobs'[n] = jobs[n + 1]
    BY <1>1, <2>1 DEF ThreadType
  <2>3. ASSUME NEW i \in Ids, pc[i] = "await"
        PROVE  /\ ~req[i].stream /\ i \notin ended
               /\ \/ eng' = i /\ jobs' = <<>>
                  \/ /\ eng' # i /\ jobs' # <<>> /\ jobs'[Len(jobs')] = i
                     /\ \A n \in 1 .. Len(jobs') - 1 : jobs'[n] # i
    <3>1. /\ ~req[i].stream /\ i \notin ended /\ jobs[Len(jobs)] = i
          /\ \A n \in 1 .. Len(jobs) - 1 : jobs[n] # i
      BY <1>1, <2>1, <2>3 DEF Waiting
    <3>2. CASE Len(jobs) = 1
      <4>1. jobs' = <<>>
        <5>1. jobs \in Seq(Ids)
          BY <1>1 DEF ThreadType
        <5> QED
          BY ONLY <2>1, <3>2, <5>1, SMTT(30)
      <4>2. QED
        BY <2>1, <3>1, <3>2, <4>1
    <3>3. CASE Len(jobs) > 1
      BY <2>1, <2>2, <3>1, <3>3
    <3>4. QED
      BY <2>2, <3>2, <3>3
  <2>4. ASSUME NEW i \in Ids, i = eng' \/ (\E n \in 1 .. Len(jobs') : jobs'[n] = i)
        PROVE  \E n \in 1 .. Len(jobs) : jobs[n] = i
    <3>1. CASE i = eng'
      BY <2>1, <2>2, <3>1
    <3>2. CASE \E n \in 1 .. Len(jobs') : jobs'[n] = i
      <4>1. PICK n \in 1 .. Len(jobs') : jobs'[n] = i
        BY <3>2
      <4>2. n + 1 \in 1 .. Len(jobs) /\ jobs[n + 1] = i
        BY <2>2, <4>1
      <4>3. QED
        BY <4>2
    <3>3. QED
      BY <2>4, <3>1, <3>2
  <2>5. QED
    BY <1>2, <2>1, <2>3, <2>4 DEF Waiting
<1>4. CASE Finish
  <2>1. /\ eng \in Ids /\ eng' = None /\ jobs' = jobs /\ ended' = ended \cup {eng}
    BY <1>1, <1>4 DEF EngineBusy, Finish
  <2>2. pc[eng] \in {"await", "drain", "done"} /\ (~req[eng].stream => pc[eng] = "await")
    BY <2>1 DEF Waiting
  <2>3. pc[eng] = "await" => jobs = <<>> /\ ~req[eng].stream
    BY <1>1, <2>1 DEF Waiting
  <2>4. \A i \in Ids : pc[i] = "await" /\ i # eng /\ eng # None => pc[eng] # "await"
    BY <1>1, <2>1 DEF IInv, Holding
  <2>5. QED
    BY <1>1, <1>2, <2>1, <2>2, <2>3, <2>4 DEF Waiting
<1>5. CASE UNCHANGED <<jobs, eng, ended>>
  BY <1>2, <1>5 DEF Waiting
<1>6. QED
  BY <1>3, <1>4, <1>5 DEF EngineStep, UseAfterFree, PrefillStateless,
     PrefillSession, GenerationEnds, DecodeToken

\* Blocking jobs are waited for, with the lock, whoever else streams.
LEMMA WaitingHolds == Spec => []Waiting
<1>1. Init => Waiting
  <2> SUFFICES ASSUME Init PROVE Waiting
    OBVIOUS
  <2>1. None \notin Ids
    BY ServerAssumption DEF None
  <2>2. QED
    BY <2>1 DEF Init, Waiting
<1>2. IInv /\ Waiting /\ [Next]_vars => Waiting'
  <2> SUFFICES ASSUME IInv, Waiting, [Next]_vars PROVE Waiting'
    OBVIOUS
  <2>1. PICK q0 : q0 \in Requests
    BY ServerAssumption
  <2>2. ASSUME NEW i \in Ids, HandlerStep(i) \/ Disconnect(i) PROVE Waiting'
    BY <2>1, <2>2, WaitingThreads, WaitingSubmit DEF HandlerStep
  <2>3. ASSUME NEW i \in Ids, NEW q \in Requests, Arrive(i, q) PROVE Waiting'
    BY <2>3, WaitingThreads
  <2>4. CASE UNCHANGED vars
    BY <2>4 DEF Waiting, vars, handlers, engine
  <2>5. QED
    BY <2>2, <2>3, <2>4, WaitingEngine DEF Next, Quiet
<1>3. QED
  BY <1>1, <1>2, Inductive, PTL DEF Spec

\* What a slot that leaves the map does to the lanes: its own is emptied.
LEMMA DiscardEmpties ==
    ASSUME IInv, NEW c \in live, Discard(c)
    PROVE  c \in live \ live' /\ kv' = [kv EXCEPT ![lane[c]] = <<>>]
<1>1. lane[c] \in Lanes /\ kv \in [Lanes -> Seq(Tokens)]
  BY DEF IInv, LanesOwned, TypeOK
<1>2. kv' = [l \in Lanes |-> IF l = lane[c] THEN <<>> ELSE kv[l]] /\ live' = live \ {c}
  BY DEF Discard
<1>3. QED
  BY <1>1, <1>2

\* "HTTP handlers only prepare state and submit jobs": no lane changes under a
\* blocking job but by the job itself, also on a server that streams.  Under a
\* streaming job another thread can only empty the lane of a conversation that
\* it removes or evicts.
THEOREM LanesOnlyByEngine == Spec => KvOnlyByEngine
<1>1. ASSUME IInv, Waiting, [Next]_vars, eng # None, UNCHANGED engine, kv' # kv
      PROVE  /\ req[eng].stream
             /\ \E c \in live \ live' : kv' = [kv EXCEPT ![lane[c]] = <<>>]
  <2>0. eng \in Ids
    BY <1>1 DEF IInv, TypeOK
  <2>1. ASSUME NEW i \in Ids, HandlerStep(i) \/ Disconnect(i)
        PROVE  /\ req[eng].stream
               /\ \E c \in live \ live' : kv' = [kv EXCEPT ![lane[c]] = <<>>]
    <3>1. ~Answer(i)
      BY <1>1 DEF Answer, Waiting
    <3>2. RemoveConv(i) \/ EvictOwn(i) \/ EvictFull(i) \/ EvictForLane(i)
      BY <1>1, <2>1, <3>1 DEF HandlerStep, Acquire, Reject, BindFound, Find, BindNew, Create,
                              Submit, Drained, Disconnect
    <3>3. pc[i] \in {"remove", "bind"}
      BY <3>2 DEF RemoveConv, EvictOwn, EvictFull, EvictForLane, Unbound
    <3>4. req[eng].stream
      <4>1. ~req[eng].stream => pc[eng] = "await"
        BY <1>1, <2>0 DEF Waiting
      <4>2. pc[eng] # "await"
        BY <1>1, <2>0, <3>3 DEF IInv, Holding
      <4>3. QED
        BY <4>1, <4>2
    <3>5. \E c \in live : Discard(c)
      BY <1>1, <3>2 DEF RemoveConv, EvictOwn, EvictFull, EvictForLane, Remove, EvictLru,
                        EvictLruForOwner
    <3>6. PICK c \in live : Discard(c)
      BY <3>5
    <3>7. c \in live \ live' /\ kv' = [kv EXCEPT ![lane[c]] = <<>>]
      BY <1>1, <3>6, DiscardEmpties
    <3>8. QED
      BY <3>4, <3>7
  <2>2. ASSUME NEW i \in Ids, NEW q \in Requests, Arrive(i, q) PROVE FALSE
    BY <1>1, <2>2 DEF Arrive
  <2>3. ~EngineStep
    <3>1. ~Take /\ ~Finish
      BY <1>1 DEF Take, Finish, engine
    <3>2. ~PrefillStateless
      BY <1>1 DEF PrefillStateless, engine
    <3>3. ASSUME NEW ok \in BOOLEAN, PrefillSession(ok) PROVE FALSE
      BY <1>1, <3>3 DEF PrefillSession, engine
    <3>4. ASSUME NEW t \in Tokens, DecodeToken(t) PROVE FALSE
      <4>1. ngen \in Nat
        BY <1>1, ServerAssumption DEF IInv, TypeOK
      <4>2. ngen' # ngen + 1
        BY <1>1, <4>1 DEF engine
      <4>3. QED
        BY <1>1, <3>4, <4>2 DEF DecodeToken
    <3>5. QED
      BY <1>1, <3>1, <3>2, <3>3, <3>4 DEF EngineStep, UseAfterFree, GenerationEnds
  <2>4. ~UNCHANGED vars
    BY <1>1 DEF vars
  <2>5. QED
    BY <1>1, <2>1, <2>2, <2>3, <2>4 DEF Next, Quiet
<1>2. IInv /\ Waiting /\ [Next]_vars =>
        [eng # None /\ UNCHANGED engine /\ kv' # kv =>
            /\ req[eng].stream
            /\ \E c \in live \ live' : kv' = [kv EXCEPT ![lane[c]] = <<>>]]_vars
  BY <1>1
<1>3. QED
  BY <1>2, WaitingHolds, Inductive, PTL DEF Spec, KvOnlyByEngine

-----------------------------------------------------------------------------
(* What session_prefill reuses.                                            *)

\* A prefix of a sequence of tokens.
LEMMA PrefixOf ==
    ASSUME NEW s \in Seq(Tokens), NEW n \in 0 .. Len(s)
    PROVE  /\ Prefix(s, n) \in Seq(Tokens) /\ Len(Prefix(s, n)) = n
           /\ \A i \in 1 .. n : Prefix(s, n)[i] = s[i]
<1>1. \A i \in 1 .. n : s[i] \in Tokens
  BY ElementOfSeq
<1>2. QED
  BY <1>1, SubSeqProperties, LenProperties DEF Prefix

\* token_common_prefix counts the tokens up to the first difference, so that
\* the two sequences have a common prefix of that length.
LEMMA CommonPrefixAgrees ==
    ASSUME NEW x \in Seq(Tokens), NEW y \in Seq(Tokens)
    PROVE  Prefix(x, CommonPrefix(x, y)) = Prefix(y, CommonPrefix(x, y))
<1> DEFINE S == {n \in 1 .. Len(x) : n <= Len(y) /\ Prefix(x, n) = Prefix(y, n)}
           Out == {n \in 1 .. Len(x) + 1 : n \notin S}
           Less == {p \in Nat \X Nat : p[1] < p[2]}
<1>1. Len(x) \in Nat /\ Len(y) \in Nat
  BY LenProperties
<1>2. ASSUME NEW n \in S, NEW m \in 1 .. n PROVE m \in S
  <2>1. n \in 1 .. Len(x) /\ n <= Len(y) /\ Prefix(x, n) = Prefix(y, n)
    OBVIOUS
  <2>2. /\ m \in 0 .. Len(x) /\ m \in 0 .. Len(y) /\ n \in 0 .. Len(x) /\ n \in 0 .. Len(y)
        /\ m \in 1 .. Len(x) /\ m <= Len(y)
    BY <1>1, <2>1
  <2>3. /\ Prefix(x, m) \in Seq(Tokens) /\ Len(Prefix(x, m)) = m
        /\ \A i \in 1 .. m : Prefix(x, m)[i] = x[i]
        /\ Prefix(y, m) \in Seq(Tokens) /\ Len(Prefix(y, m)) = m
        /\ \A i \in 1 .. m : Prefix(y, m)[i] = y[i]
    BY <2>2, PrefixOf
  <2>4. /\ \A i \in 1 .. n : Prefix(x, n)[i] = x[i]
        /\ \A i \in 1 .. n : Prefix(y, n)[i] = y[i]
    BY <2>2, PrefixOf
  <2>5. \A i \in 1 .. m : i \in 1 .. n
    BY <2>1
  <2>6. \A i \in 1 .. m : x[i] = y[i]
    BY <2>1, <2>4, <2>5
  <2>7. Prefix(x, m) = Prefix(y, m)
    BY <2>3, <2>6, SeqEqual
  <2>8. QED
    BY <2>2, <2>7
<1>3. \E k \in 0 .. Len(x) : S = 1 .. k
  <2>1. Len(x) + 1 \in Out /\ Out \subseteq Nat
    BY <1>1
  <2>2. IsWellFoundedOn(Less, Nat)
    BY NatLessThanWellFounded DEF OpToRel
  <2> HIDE DEF Less
  <2>3. PICK f \in Out : \A m \in Out : ~(<<m, f>> \in Less)
    BY <2>1, <2>2, WFMin
  <2>4. f \in 1 .. Len(x) + 1 /\ f \notin S
    OBVIOUS
  <2>5. ASSUME NEW m \in 1 .. f - 1 PROVE m \in S
    <3>1. <<m, f>> \in Less /\ m \in 1 .. Len(x) + 1
      BY <1>1, <2>4 DEF Less
    <3>2. QED
      BY <2>3, <3>1
  <2>6. ASSUME NEW m \in S PROVE m \in 1 .. f - 1
    <3>1. m \in 1 .. Len(x)
      OBVIOUS
    <3>2. CASE m < f
      BY <2>4, <3>1, <3>2
    <3>3. CASE ~(m < f)
      <4>1. f \in 1 .. m
        BY <2>4, <3>1, <3>3
      <4>2. QED
        BY <1>2, <2>4, <4>1
    <3>4. QED
      BY <3>2, <3>3
  <2>7. f - 1 \in 0 .. Len(x)
    BY <1>1, <2>4
  <2> HIDE DEF S
  <2>8. S = 1 .. f - 1
    BY <2>5, <2>6
  <2>9. QED
    BY <2>7, <2>8
<1>4. PICK k \in 0 .. Len(x) : S = 1 .. k
  BY <1>3
<1>5. Cardinality(1 .. k) = k
  <2>1. Cardinality(1 .. k) = IF 1 > k THEN 0 ELSE k - 1 + 1
    BY FS_Interval
  <2>2. QED
    BY <1>1, <2>1
<1>6. CommonPrefix(x, y) = Cardinality(S)
  BY DEF CommonPrefix
<1>7. CommonPrefix(x, y) = k
  BY <1>4, <1>5, <1>6
<1>8. CASE k = 0
  <2>1. Prefix(x, 0) = <<>> /\ Prefix(y, 0) = <<>>
    BY SubSeqEmpty DEF Prefix
  <2>2. QED
    BY <1>7, <1>8, <2>1
<1>9. CASE k # 0
  <2>1. k \in S
    BY <1>1, <1>4, <1>9
  <2>2. QED
    BY <1>7, <2>1
<1>10. QED
  BY <1>8, <1>9

\* The two parts of a sequence.
LEMMA PrefixAndRest ==
    ASSUME NEW p \in Seq(Tokens), NEW m \in 0 .. Len(p), NEW n \in 0 .. m
    PROVE  Prefix(p, n) \o SubSeq(p, n + 1, m) = Prefix(p, m)
<1> DEFINE x == Prefix(p, n)
           y == SubSeq(p, n + 1, m)
<1>0. Len(p) \in Nat /\ n \in Nat /\ m \in Nat /\ n \in 0 .. Len(p) /\ m - n \in Nat
  BY LenProperties
<1>1. x \in Seq(Tokens) /\ Len(x) = n /\ \A i \in 1 .. n : x[i] = p[i]
  BY <1>0, PrefixOf
<1>2. \A i \in n + 1 .. m : p[i] \in Tokens
  BY <1>0, ElementOfSeq
<1>3. Len(y) = m - n /\ y \in Seq(Tokens)
  BY <1>0, <1>2, SubSeqProperties
<1>4. ASSUME NEW i \in 1 .. m - n PROVE y[i] = p[n + i]
  <2>1. y[i] = p[(n + 1) + i - 1]
    BY <1>0, <1>2, <1>3, SubSeqProperties
  <2>2. (n + 1) + i - 1 = n + i
    BY <1>0
  <2>3. QED
    BY <2>1, <2>2
<1>5. /\ Prefix(p, m) \in Seq(Tokens) /\ Len(Prefix(p, m)) = m
      /\ \A i \in 1 .. m : Prefix(p, m)[i] = p[i]
  BY PrefixOf
<1> HIDE DEF x, y
<1>6. /\ x \o y \in Seq(Tokens) /\ Len(x \o y) = m
      /\ \A i \in 1 .. m : (x \o y)[i] = IF i <= n THEN x[i] ELSE y[i - n]
  <2>1. /\ x \o y \in Seq(Tokens) /\ Len(x \o y) = Len(x) + Len(y)
        /\ \A i \in 1 .. Len(x) + Len(y) :
              (x \o y)[i] = IF i <= Len(x) THEN x[i] ELSE y[i - Len(x)]
    BY <1>1, <1>3, ConcatProperties
  <2>2. Len(x) = n /\ Len(x) + Len(y) = m
    BY <1>0, <1>1, <1>3
  <2>3. QED
    BY <2>1, <2>2
<1>7. ASSUME NEW i \in 1 .. m PROVE (x \o y)[i] = Prefix(p, m)[i]
  <2>1. CASE i <= n
    BY <1>1, <1>5, <1>6, <2>1
  <2>2. CASE ~(i <= n)
    <3>1. i - n \in 1 .. m - n /\ n + (i - n) = i
      BY <1>0, <2>2
    <3>2. y[i - n] = p[n + (i - n)]
      BY <1>4, <3>1
    <3>3. QED
      BY <1>5, <1>6, <2>2, <3>1, <3>2
  <2>3. QED
    BY <2>1, <2>2
<1>8. x \o y = Prefix(p, m)
  BY <1>5, <1>6, <1>7, SeqEqual
<1>9. QED
  BY <1>8 DEF x, y

\* A whole sequence is its longest prefix, and the empty one its shortest.
LEMMA PrefixEnds ==
    ASSUME NEW s \in Seq(Tokens)
    PROVE  Prefix(s, Len(s)) = s /\ Prefix(s, 0) = <<>>
<1>1. Prefix(s, Len(s)) = s
  BY SubSeqFull DEF Prefix
<1>2. Prefix(s, 0) = <<>>
  BY SubSeqEmpty DEF Prefix
<1>3. QED
  BY <1>1, <1>2

-----------------------------------------------------------------------------
(* The ledgers.                                                            *)

\* No request is without a conversation.
SlotsOnly == \A q \in Requests : q.conv # NoConv

\* A stateless request has lane 0, whoever owns it.
Guest == \E i \in Ids : pc[i] = "await" /\ ptr[i] = NoSlot

\* The test of session_prefill is enough for this slot: if the lengths agree,
\* the tokens do.
Trusted(c) ==
    \/ kv[lane[c]] = <<>>
    \/ Len(ledger[c]) # Len(kv[lane[c]])
    \/ ledger[c] = kv[lane[c]]

\* What the ledgers say of the lanes between and during jobs.
Ledgers ==
    /\ \A c \in Convs \ live : ledger[c] = <<>>
    /\ \A c \in live : Trusted(c) \/ (Guest /\ lane[c] = 0)
    /\ SlotsOnly => \A c \in live : kv[lane[c]] = <<>> => ledger[c] = <<>>
    /\ \A i \in Ids : pc[i] \in {"submit", "await"} /\ req[i].conv # NoConv => ptr[i] # NoSlot

\* While a job generates, its lane is the prompt and what it has generated,
\* and its ledger says so.
Generating ==
    /\ epc = "prefill" => ngen = 0
    /\ epc = "gen" =>
        /\ Len(kv[LaneOfJob]) = Len(Prompt) + ngen
        /\ Prefix(kv[LaneOfJob], Len(Prompt)) = Prompt
        /\ ptr[eng] # NoSlot => ledger[Conv] = kv[LaneOfJob]

\* With a ledger that can be trusted, what session_prefill keeps of the lane
\* is a prefix of the prompt.
LEMMA KeptIsPrompt ==
    ASSUME StoreType, NEW c \in Convs, lane[c] \in Lanes, Trusted(c),
           NEW p \in Seq(Tokens), NEW trimOk \in BOOLEAN
    PROVE  LET n == Reused(c, p, trimOk)
           IN /\ n \in 0 .. Len(p)
              /\ Prefix(kv[lane[c]], n) = Prefix(p, n)
              /\ Prefix(ledger[c], n) = Prefix(p, n)
<1> DEFINE n == Reused(c, p, trimOk)
           l == lane[c]
<1>1. ledger[c] \in Seq(Tokens) /\ kv[l] \in Seq(Tokens)
  BY DEF StoreType
<1>2. n \in 0 .. Len(p)
  BY ReusedBound, LenProperties
<1>3. CASE n = 0
  <2>1. Prefix(kv[l], 0) = <<>> /\ Prefix(p, 0) = <<>> /\ Prefix(ledger[c], 0) = <<>>
    BY <1>1, PrefixEnds
  <2>2. QED
    BY <1>2, <1>3, <2>1
<1>4. CASE n # 0
  <2>1. InSync(c) /\ n = CommonPrefix(ledger[c], p)
    BY <1>4 DEF Reused
  <2>2. ledger[c] = kv[l]
    BY <2>1 DEF InSync, Trusted
  <2>3. Prefix(ledger[c], n) = Prefix(p, n)
    BY <1>1, <2>1, CommonPrefixAgrees
  <2>4. QED
    BY <1>2, <2>2, <2>3
<1>5. QED
  BY <1>3, <1>4

\* Handlers that touch neither the slots nor the lanes.
LEMMA LedgersThreads ==
    ASSUME IInv, Blocking, Ledgers, Generating, NEW i \in Ids, NEW q \in Requests,
           \/ Arrive(i, q) \/ Acquire(i) \/ Reject(i) \/ Submit(i)
           \/ Drained(i) \/ Disconnect(i)
    PROVE  Ledgers' /\ Generating'
<1>1. StoreInv /\ ThreadType /\ Holding /\ EngineBusy
  BY IInvParts
<1>2. UNCHANGED <<live, lane, ledger, kv, ptr, eng, epc, ngen>>
  BY DEF Arrive, Acquire, Reject, Submit, Drained, Disconnect, store, slot, engine
<1>3. /\ \A j \in Ids : pc[j] \in {"await"} => pc'[j] = pc[j] /\ req'[j] = req[j]
      /\ \A j \in Ids : pc'[j] \in {"submit", "await"} =>
            req'[j] = req[j] /\ (pc[j] \in {"submit", "await"} \/ req[j].conv = NoConv)
  BY <1>1 DEF Arrive, Acquire, Reject, Submit, Drained, Disconnect, Goto, ThreadType, Blocking
<1>4. Guest => Guest'
  BY <1>2, <1>3 DEF Guest
<1>5. \A c : Trusted(c)' <=> Trusted(c)
  BY <1>2 DEF Trusted
<1>6. Ledgers'
  <2>1. \A c \in Convs \ live' : ledger'[c] = <<>>
    BY <1>2 DEF Ledgers
  <2>2. \A c \in live' : Trusted(c)' \/ (Guest' /\ lane'[c] = 0)
    BY <1>2, <1>4, <1>5 DEF Ledgers
  <2>3. SlotsOnly => \A c \in live' : kv'[lane'[c]] = <<>> => ledger'[c] = <<>>
    BY <1>2 DEF Ledgers
  <2>4. \A j \in Ids : pc'[j] \in {"submit", "await"} /\ req'[j].conv # NoConv => ptr'[j] # NoSlot
    BY <1>2, <1>3 DEF Ledgers
  <2>5. QED
    BY <2>1, <2>2, <2>3, <2>4 DEF Ledgers, SlotsOnly
<1>7. Generating'
  <2> SUFFICES ASSUME epc = "gen" PROVE Generating'
    BY <1>2 DEF Generating
  <2>1. eng \in Ids /\ pc[eng] = "await"
    BY <1>1 DEF EngineBusy, Blocking
  <2>2. req'[eng'] = req[eng]
    BY <1>2, <1>3, <2>1
  <2>3. QED
    BY <1>2, <2>2 DEF Generating, LaneOfJob, Prompt, Conv
<1>8. QED
  BY <1>6, <1>7

\* A slot that leaves the map leaves no trace, and the others keep theirs.
LEMMA LedgersDiscard ==
    ASSUME StoreInv, NEW c \in live, Discard(c), Ledgers, ~Guest
    PROVE  /\ \A d \in Convs \ live' : ledger'[d] = <<>>
           /\ \A d \in live' : Trusted(d)'
           /\ SlotsOnly => \A d \in live' : kv'[lane'[d]] = <<>> => ledger'[d] = <<>>
<1>1. /\ c \in Convs /\ live' = live \ {c} /\ live \subseteq Convs
      /\ lane \in [Convs -> Lanes \cup {-1}] /\ lane' = [lane EXCEPT ![c] = -1]
      /\ ledger \in [Convs -> Seq(Tokens)] /\ ledger' = [ledger EXCEPT ![c] = <<>>]
      /\ kv' = [l \in Lanes |-> IF l = lane[c] THEN <<>> ELSE kv[l]]
  BY DEF StoreInv, StoreType, Discard
<1>2. ASSUME NEW d \in live'
      PROVE  lane'[d] = lane[d] /\ ledger'[d] = ledger[d] /\ kv'[lane'[d]] = kv[lane[d]]
  <2>1. d \in live /\ d # c /\ lane[d] # lane[c] /\ lane[d] \in Lanes
    BY <1>1 DEF StoreInv, LanesOwned
  <2>2. QED
    BY <1>1, <2>1
<1>3. \A d \in live' : Trusted(d) /\ (Trusted(d)' <=> Trusted(d))
  BY <1>1, <1>2 DEF Trusted, Ledgers
<1>4. \A d \in Convs \ live' : ledger'[d] = <<>>
  BY <1>1 DEF Ledgers
<1>5. SlotsOnly => \A d \in live' : kv'[lane'[d]] = <<>> => ledger'[d] = <<>>
  BY <1>1, <1>2 DEF Ledgers
<1>6. QED
  BY <1>3, <1>4, <1>5

\* Bindings: nobody waits for a job meanwhile.
LEMMA LedgersBinds ==
    ASSUME IInv, Blocking, Ledgers, NEW i \in Ids,
           \/ RemoveConv(i) \/ BindFound(i) \/ EvictOwn(i) \/ EvictFull(i)
           \/ EvictForLane(i) \/ BindNew(i)
    PROVE  Ledgers' /\ Generating'
<1>1. StoreInv /\ ThreadType /\ Holding /\ EngineBusy
  BY IInvParts
<1>2. /\ pc[i] \in {"remove", "bind", "alloc"} /\ gen = i /\ req[i].conv \in Convs
      /\ req' = req /\ epc' = epc
  BY <1>1 DEF RemoveConv, BindFound, EvictOwn, EvictFull, EvictForLane, BindNew, Unbound,
              engine, handlers, Holding
<1>3. \A j \in Ids : pc[j] \notin {"submit", "await"}
  BY <1>1, <1>2 DEF Holding
<1>4. ~Guest
  BY <1>3 DEF Guest
<1>5. Generating'
  <2>1. eng \notin Ids
    BY <1>3 DEF Blocking
  <2>2. QED
    BY <1>1, <1>2, <2>1 DEF EngineBusy, Generating
<1>6. \A c \in live : Trusted(c)
  BY <1>4 DEF Ledgers
<1>7. CASE /\ UNCHANGED <<live, lane, ledger, kv>> \/ \E c \in live : Discard(c)
           /\ \A j \in Ids : pc'[j] \notin {"submit", "await"}
  <2>1. CASE UNCHANGED <<live, lane, ledger, kv>>
    <3>1. \A c \in live' : Trusted(c)'
      BY <1>6, <2>1 DEF Trusted
    <3>2. \A c \in Convs \ live' : ledger'[c] = <<>>
      BY <2>1 DEF Ledgers
    <3>3. SlotsOnly => \A c \in live' : kv'[lane'[c]] = <<>> => ledger'[c] = <<>>
      BY <2>1 DEF Ledgers
    <3>4. QED
      BY <1>5, <1>7, <3>1, <3>2, <3>3 DEF Ledgers, SlotsOnly
  <2>2. CASE \E c \in live : Discard(c)
    <3>1. /\ \A d \in Convs \ live' : ledger'[d] = <<>>
          /\ \A d \in live' : Trusted(d)'
          /\ SlotsOnly => \A d \in live' : kv'[lane'[d]] = <<>> => ledger'[d] = <<>>
      BY <1>1, <1>4, <2>2, LedgersDiscard
    <3>2. QED
      BY <1>5, <1>7, <3>1 DEF Ledgers, SlotsOnly
  <2>3. QED
    BY <1>7, <2>1, <2>2
<1>8. CASE RemoveConv(i) \/ EvictOwn(i) \/ EvictFull(i) \/ EvictForLane(i)
  <2>1. UNCHANGED <<live, lane, ledger, kv>> \/ \E c \in live : Discard(c)
    BY <1>8 DEF RemoveConv, EvictOwn, EvictFull, EvictForLane, Remove, EvictLru,
                EvictLruForOwner, store, slot
  <2>2. pc' = pc \/ \E at \in {"bind", "alloc"} : pc' = [pc EXCEPT ![i] = at]
    BY <1>8 DEF RemoveConv, EvictOwn, EvictFull, EvictForLane, handlers, Goto
  <2>3. \A j \in Ids : pc'[j] \notin {"submit", "await"}
    BY <1>1, <1>3, <2>2 DEF ThreadType
  <2>4. QED
    BY <1>5, <1>7, <2>1, <2>3
<1>9. CASE BindFound(i) \/ BindNew(i)
  <2>1. /\ pc' = [pc EXCEPT ![i] = "submit"] /\ UNCHANGED <<ledger, kv>>
        /\ \E b \in Nat : ptr' = [ptr EXCEPT ![i] = <<req[i].conv, b>>]
    BY <1>1, <1>2, <1>9 DEF BindFound, BindNew, Find, Create, Goto, StoreInv, StoreType
  <2>2. \A j \in Ids : pc'[j] \in {"submit", "await"} => ptr'[j] # NoSlot
    <3>1. \A j \in Ids : pc'[j] \in {"submit", "await"} => j = i
      BY <1>1, <1>3, <2>1 DEF ThreadType
    <3>2. ptr'[i] # NoSlot
      BY <1>1, <1>2, <2>1, ServerAssumption DEF ThreadType, NoSlot
    <3>3. QED
      BY <3>1, <3>2
  <2>3. CASE BindFound(i)
    <3>1. UNCHANGED <<live, lane>>
      BY <2>3 DEF BindFound, Find
    <3>2. \A c \in live' : Trusted(c)'
      BY <1>6, <2>1, <3>1 DEF Trusted
    <3>3. /\ \A c \in Convs \ live' : ledger'[c] = <<>>
          /\ SlotsOnly => \A c \in live' : kv'[lane'[c]] = <<>> => ledger'[c] = <<>>
      BY <2>1, <3>1 DEF Ledgers
    <3>4. QED
      BY <1>5, <2>2, <3>2, <3>3 DEF Ledgers, SlotsOnly
  <2>4. CASE BindNew(i)
    <3>1. /\ live' = live \cup {req[i].conv} /\ req[i].conv \notin live
          /\ lane' = [lane EXCEPT ![req[i].conv] = AllocSeq]
      BY <1>1, <2>4 DEF BindNew, Create, Unbound, Holding
    <3>2. ledger'[req[i].conv] = <<>>
      BY <1>2, <2>1, <3>1 DEF Ledgers
    <3>3. \A c \in live : lane'[c] = lane[c]
      BY <1>1, <3>1 DEF StoreInv, StoreType
    <3>4. /\ AllocSeq \in Lanes /\ lane'[req[i].conv] = AllocSeq
      <4>1. free # {} /\ free \subseteq Lanes
        BY <1>1, <2>4 DEF BindNew, Holding, StoreInv, StoreType
      <4>2. QED
        BY <1>1, <1>2, <3>1, <4>1, AllocFree DEF StoreInv, StoreType
    <3>5. Trusted(req[i].conv)'
      <4>1. kv[AllocSeq] \in Seq(Tokens)
        BY <1>1, <3>4 DEF StoreInv, StoreType
      <4>2. \A s \in Seq(Tokens) : s # <<>> => Len(s) # 0
        BY EmptySeq
      <4>3. Len(ledger'[req[i].conv]) = 0
        BY <3>2
      <4>4. kv'[lane'[req[i].conv]] = kv[AllocSeq]
        BY <2>1, <3>4
      <4>5. kv[AllocSeq] = <<>> \/ 0 # Len(kv[AllocSeq])
        BY <4>1, <4>2
      <4>6. QED
        BY <1>2, <4>3, <4>4, <4>5 DEF Trusted
    <3>6. ASSUME NEW c \in live' PROVE Trusted(c)'
      <4>1. CASE c \in live
        BY <1>6, <2>1, <3>3, <4>1 DEF Trusted
      <4>2. CASE c = req[i].conv
        BY <1>2, <3>5, <4>2 DEF Trusted
      <4>3. QED
        BY <3>1, <4>1, <4>2
    <3>7. /\ \A c \in Convs \ live' : ledger'[c] = <<>>
          /\ SlotsOnly => \A c \in live' : kv'[lane'[c]] = <<>> => ledger'[c] = <<>>
      BY <2>1, <3>1, <3>2, <3>3 DEF Ledgers
    <3>8. QED
      BY <1>5, <2>2, <3>6, <3>7 DEF Ledgers, SlotsOnly
  <2>5. QED
    BY <1>5, <1>9, <2>3, <2>4
<1>10. QED
  BY <1>8, <1>9

\* The blocking handler wakes: if its request was stateless, lane 0 is empty
\* again before anyone else can bind a conversation.
LEMMA LedgersAnswer ==
    ASSUME IInv, Blocking, Ledgers, NEW i \in Ids, Answer(i)
    PROVE  Ledgers' /\ Generating'
<1>1. StoreInv /\ ThreadType /\ Holding /\ EngineBusy
  BY IInvParts
<1>2. /\ pc[i] = "await" /\ i \in ended /\ pc' = [pc EXCEPT ![i] = "done"]
      /\ UNCHANGED <<live, lane, ledger, req, ptr, epc>>
      /\ kv' = IF ptr[i] = NoSlot THEN [kv EXCEPT ![0] = <<>>] ELSE kv
  BY DEF Answer, Goto, store, slot, engine
<1>3. \A j \in Ids : pc[j] \in {"submit", "await"} => j = i
  BY <1>1, <1>2 DEF Holding
<1>4. \A j \in Ids : pc'[j] \notin {"submit", "await"}
  BY <1>1, <1>2, <1>3 DEF ThreadType
<1>5. Generating'
  <2>1. eng \notin Ids
    BY <1>2, <1>3 DEF Blocking
  <2>2. QED
    BY <1>1, <1>2, <2>1 DEF EngineBusy, Generating
<1>6. Guest => ptr[i] = NoSlot
  BY <1>3 DEF Guest
<1>7. \A c \in live : kv'[lane[c]] = kv[lane[c]] \/ (ptr[i] = NoSlot /\ kv'[lane[c]] = <<>>)
  BY <1>1, <1>2 DEF StoreInv, StoreType, LanesOwned
<1>8. ASSUME NEW c \in live' PROVE Trusted(c)'
  <2>1. c \in live
    BY <1>2
  <2>2. CASE kv'[lane[c]] = <<>>
    BY <1>2, <2>2 DEF Trusted
  <2>3. CASE kv'[lane[c]] # <<>>
    <3>1. kv'[lane[c]] = kv[lane[c]]
      BY <1>7, <2>1, <2>3
    <3>2. ~(Guest /\ lane[c] = 0)
      <4>1. ASSUME Guest, lane[c] = 0 PROVE FALSE
        <5>1. 0 \in Lanes
          BY StoreAssumption DEF Lanes
        <5>2. kv'[0] = <<>>
          BY <1>1, <1>2, <1>6, <4>1, <5>1 DEF StoreInv, StoreType
        <5>3. QED
          BY <2>3, <4>1, <5>2
      <4>2. QED
        BY <4>1
    <3>3. Trusted(c)
      BY <2>1, <3>2 DEF Ledgers
    <3>4. QED
      BY <1>2, <3>1, <3>3 DEF Trusted
  <2>4. QED
    BY <2>2, <2>3
<1>9. ASSUME SlotsOnly PROVE \A c \in live' : kv'[lane'[c]] = <<>> => ledger'[c] = <<>>
  <2>1. req[i].conv # NoConv
    BY <1>1, <1>9 DEF SlotsOnly, ThreadType
  <2>2. ptr[i] # NoSlot
    BY <1>2, <2>1 DEF Ledgers
  <2>3. QED
    BY <1>2, <1>9, <2>2 DEF Ledgers
<1>10. \A c \in Convs \ live' : ledger'[c] = <<>>
  BY <1>2 DEF Ledgers
<1>11. Ledgers'
  BY <1>4, <1>8, <1>9, <1>10 DEF Ledgers, SlotsOnly
<1>12. QED
  BY <1>5, <1>11

\* A job writes to its own lane only, and to its own ledger: the other slots
\* stay as they are, but for the one whose lane a stateless job is given.
LEMMA LedgersOthers ==
    ASSUME IInv, Blocking, Ledgers, eng \in Ids, Valid(eng),
           UNCHANGED <<live, lane, ptr, pc, req, eng>>,
           kv' \in [Lanes -> Seq(Tokens)], \A l \in Lanes : l # LaneOfJob => kv'[l] = kv[l],
           ledger' \in [Convs -> Seq(Tokens)],
           \A c \in Convs : ptr[eng] = NoSlot \/ c # Conv => ledger'[c] = ledger[c],
           ptr[eng] # NoSlot => /\ Trusted(Conv)'
                                /\ SlotsOnly => kv'[LaneOfJob] # <<>> \/ ledger'[Conv] = <<>>
    PROVE  Ledgers'
<1>1. StoreInv /\ ThreadType /\ Holding /\ EngineBusy
  BY IInvParts
<1>2. pc[eng] = "await"
  BY DEF Blocking
<1>3. \A c \in live : lane[c] \in Lanes /\ c \in Convs
  BY <1>1 DEF StoreInv, StoreType, LanesOwned
<1>4. Guest' <=> Guest
  BY DEF Guest
<1>5. CASE ptr[eng] = NoSlot
  <2>1. Guest /\ LaneOfJob = 0
    BY <1>2, <1>5 DEF Guest, LaneOfJob
  <2>2. \A c \in Convs : ledger'[c] = ledger[c]
    BY <1>5
  <2>3. ASSUME NEW c \in live' PROVE Trusted(c)' \/ (Guest' /\ lane'[c] = 0)
    <3>1. c \in live /\ lane[c] \in Lanes /\ c \in Convs
      BY <1>3
    <3>2. CASE lane[c] = 0
      BY <1>4, <2>1, <3>2
    <3>3. CASE lane[c] # 0
      <4>1. kv'[lane[c]] = kv[lane[c]]
        BY <2>1, <3>1, <3>3
      <4>2. Trusted(c)
        BY <3>1, <3>3 DEF Ledgers
      <4>3. QED
        BY <2>2, <3>1, <4>1, <4>2 DEF Trusted
    <3>4. QED
      BY <3>2, <3>3
  <2>4. ~SlotsOnly
    <3>1. req[eng].conv = NoConv
      BY <1>2, <1>5 DEF Ledgers
    <3>2. QED
      BY <1>1, <3>1 DEF SlotsOnly, ThreadType
  <2>5. \A c \in Convs \ live' : ledger'[c] = <<>>
    BY <2>2 DEF Ledgers
  <2>6. \A j \in Ids : pc'[j] \in {"submit", "await"} /\ req'[j].conv # NoConv => ptr'[j] # NoSlot
    BY DEF Ledgers
  <2>7. QED
    BY <2>3, <2>4, <2>5, <2>6 DEF Ledgers, SlotsOnly
<1>6. CASE ptr[eng] # NoSlot
  <2>1. Conv \in live /\ Conv \in Convs /\ LaneOfJob = lane[Conv] /\ LaneOfJob \in Lanes
    BY <1>1, <1>6, JobLane
  <2>2. ~Guest
    <3>1. \A j \in Ids : pc[j] = "await" => j = eng
      BY <1>1, <1>2 DEF Holding
    <3>2. QED
      BY <1>6, <3>1 DEF Guest
  <2>3. ASSUME NEW c \in live, c # Conv
        PROVE  ledger'[c] = ledger[c] /\ kv'[lane[c]] = kv[lane[c]]
    <3>1. lane[c] # LaneOfJob /\ lane[c] \in Lanes /\ c \in Convs
      BY <1>1, <1>3, <2>1, <2>3 DEF StoreInv, LanesOwned
    <3>2. QED
      BY <2>3, <3>1
  <2>4. ASSUME NEW c \in live' PROVE Trusted(c)'
    <3>1. CASE c = Conv
      BY <1>6, <3>1 DEF Trusted, Conv
    <3>2. CASE c # Conv
      <4>1. c \in live /\ Trusted(c)
        BY <2>2 DEF Ledgers
      <4>2. QED
        BY <2>3, <3>2, <4>1 DEF Trusted
    <3>3. QED
      BY <3>1, <3>2
  <2>5. ASSUME SlotsOnly, NEW c \in live', kv'[lane'[c]] = <<>> PROVE ledger'[c] = <<>>
    <3>1. CASE c = Conv
      BY <1>6, <2>1, <2>5, <3>1
    <3>2. CASE c # Conv
      BY <2>3, <2>5, <3>2 DEF Ledgers
    <3>3. QED
      BY <3>1, <3>2
  <2>6. \A c \in Convs \ live' : ledger'[c] = <<>>
    BY <2>1 DEF Ledgers
  <2>7. \A j \in Ids : pc'[j] \in {"submit", "await"} /\ req'[j].conv # NoConv => ptr'[j] # NoSlot
    BY DEF Ledgers
  <2>8. QED
    BY <2>4, <2>5, <2>6, <2>7 DEF Ledgers, SlotsOnly
<1>7. QED
  BY <1>5, <1>6

\* The prefill of a session: the lane ends up as the prompt whatever was in
\* it, and a prefill that breaks off leaves a ledger that can be trusted.
LEMMA LedgersPrefill ==
    ASSUME IInv, Blocking, Ledgers, Generating, SlotsOnly \/ ~DecodeMayFail,
           NEW ok \in BOOLEAN, PrefillSession(ok)
    PROVE  Ledgers' /\ Generating'
<1>1. StoreInv /\ ThreadType /\ Holding /\ EngineBusy
  BY IInvParts
<1>2. /\ epc = "prefill" /\ ptr[eng] # NoSlot /\ Valid(eng)
      /\ UNCHANGED <<live, lane, ptr, pc, req, eng, ngen>>
  BY DEF PrefillSession, handlers
<1>3. eng \in Ids /\ pc[eng] = "await"
  BY <1>1, <1>2 DEF EngineBusy, Blocking
<1>4. Conv \in live /\ Conv \in Convs /\ LaneOfJob = lane[Conv] /\ lane[Conv] \in Lanes
  BY <1>1, <1>2, <1>3, JobLane
<1>5. Trusted(Conv)
  <2>1. \A j \in Ids : pc[j] = "await" => j = eng
    BY <1>1, <1>3 DEF Holding
  <2>2. ~Guest
    BY <1>2, <2>1 DEF Guest
  <2>3. QED
    BY <1>4, <2>2 DEF Ledgers
<1>6. Prompt \in Seq(Tokens) /\ Prompt # <<>> /\ Len(Prompt) \in Nat \ {0}
  <2>1. req[eng] \in Request
    BY <1>1, <1>3, ServerAssumption DEF ThreadType
  <2>2. Prompt \in Seq(Tokens) /\ Prompt # <<>>
    BY <2>1 DEF Request, Prompt
  <2>3. QED
    BY <2>2, EmptySeq, LenProperties
<1>7. StoreInv' /\ ThreadType'
  <2>1. IInv'
    BY EngineStepKeeps DEF EngineStep, PrefillSession, Finish
  <2>2. QED
    BY <2>1, IInvParts, PTL
<1>8. kv' \in [Lanes -> Seq(Tokens)] /\ ledger' \in [Convs -> Seq(Tokens)]
  BY <1>7 DEF StoreInv, StoreType, Lanes
<1> DEFINE n == Reused(Conv, Prompt, ok)
<1>9. /\ n \in 0 .. Len(Prompt)
      /\ Prefix(kv[lane[Conv]], n) = Prefix(Prompt, n)
      /\ Prefix(ledger[Conv], n) = Prefix(Prompt, n)
  BY <1>1, <1>4, <1>5, <1>6, KeptIsPrompt DEF StoreInv
<1>10. /\ ledger \in [Convs -> Seq(Tokens)] /\ kv \in [Lanes -> Seq(Tokens)]
       /\ ledger[Conv] \in Seq(Tokens)
  BY <1>1, <1>4 DEF StoreInv, StoreType
<1>11. Conv' = Conv /\ Prompt' = Prompt /\ LaneOfJob' = LaneOfJob
  BY <1>2 DEF Conv, Prompt, LaneOfJob
<1>12. \/ Prefilled(Conv, Prompt, n) /\ epc' = "gen"
       \/ /\ DecodeMayFail /\ epc' = "finish"
          /\ \E m \in 0 .. Len(Prompt) - n - 1 : PrefillBroken(Conv, Prompt, n, m)
  BY DEF PrefillSession
<1>13. ASSUME NEW x \in Seq(Tokens), NEW y \in Seq(Tokens), x # <<>> \/ y = <<>>,
              Len(y) # Len(x) \/ y = x,
              kv' = [kv EXCEPT ![lane[Conv]] = x], ledger' = [ledger EXCEPT ![Conv] = y]
       PROVE  Ledgers'
  <2>1. /\ kv'[LaneOfJob] = x /\ ledger'[Conv] = y
        /\ \A l \in Lanes : l # LaneOfJob => kv'[l] = kv[l]
        /\ \A c \in Convs : c # Conv => ledger'[c] = ledger[c]
    BY <1>4, <1>10, <1>13
  <2>2. lane'[Conv'] = LaneOfJob
    BY <1>2, <1>4, <1>11
  <2>3. Trusted(Conv)'
    BY <1>11, <1>13, <2>1, <2>2 DEF Trusted
  <2>4. QED
    BY <1>2, <1>3, <1>8, <1>13, <2>1, <2>3, LedgersOthers
<1> HIDE DEF n
<1>14. CASE Prefilled(Conv, Prompt, n) /\ epc' = "gen"
  <2>1. Prefix(Prompt, n) \o SubSeq(Prompt, n + 1, Len(Prompt)) = Prompt
    <3>1. Len(Prompt) \in 0 .. Len(Prompt)
      BY <1>6
    <3>2. Prefix(Prompt, n) \o SubSeq(Prompt, n + 1, Len(Prompt)) = Prefix(Prompt, Len(Prompt))
      BY <1>6, <1>9, <3>1, PrefixAndRest
    <3>3. QED
      BY <1>6, <3>2, PrefixEnds
  <2>2. kv' = [kv EXCEPT ![lane[Conv]] = Prompt] /\ ledger' = [ledger EXCEPT ![Conv] = Prompt]
    BY <1>9, <1>10, <1>14, <2>1 DEF Prefilled
  <2>3. Ledgers'
    BY <1>6, <1>13, <2>2
  <2>4. kv'[LaneOfJob'] = Prompt /\ ledger'[Conv'] = Prompt
    BY <1>4, <1>10, <1>11, <2>2
  <2>5. ngen' = 0
    BY <1>2 DEF Generating
  <2>6. Len(Prompt) = Len(Prompt) + 0 /\ Prefix(Prompt, Len(Prompt)) = Prompt
    BY <1>6, PrefixEnds
  <2>7. Generating'
    BY <1>11, <1>14, <2>4, <2>5, <2>6 DEF Generating
  <2>8. QED
    BY <2>3, <2>7
<1>15. CASE /\ DecodeMayFail /\ epc' = "finish"
            /\ \E m \in 0 .. Len(Prompt) - n - 1 : PrefillBroken(Conv, Prompt, n, m)
  <2>1. PICK m \in 0 .. Len(Prompt) - n - 1 : PrefillBroken(Conv, Prompt, n, m)
    BY <1>15
  <2>2. n + m \in 0 .. Len(Prompt) /\ n \in 0 .. n + m /\ n \in Nat /\ m \in Nat
    BY <1>6, <1>9, <2>1
  <2>3. Prefix(Prompt, n) \o SubSeq(Prompt, n + 1, n + m) = Prefix(Prompt, n + m)
    BY <1>6, <2>2, PrefixAndRest
  <2>4. kv' = [kv EXCEPT ![lane[Conv]] = Prefix(Prompt, n + m)]
    BY <1>9, <1>10, <2>1, <2>3 DEF PrefillBroken
  <2>5. ledger' = [ledger EXCEPT ![Conv] = Prefix(Prompt, n)]
    <3>1. CASE kv[lane[Conv]] = <<>>
      <4>1. ledger[Conv] = <<>>
        BY <1>4, <1>15, <3>1 DEF Ledgers
      <4>2. n = 0
        BY <3>1 DEF n, Reused, InSync
      <4>3. ledger[Conv] = Prefix(Prompt, n)
        BY <1>6, <4>1, <4>2, PrefixEnds
      <4>4. ledger' = [ledger EXCEPT ![Conv] = ledger[Conv]]
        BY <2>1, <3>1 DEF PrefillBroken
      <4>5. QED
        BY <4>3, <4>4
    <3>2. CASE kv[lane[Conv]] # <<>>
      <4>1. ledger' = [ledger EXCEPT ![Conv] = Prefix(ledger[Conv], n)]
        BY <2>1, <3>2 DEF PrefillBroken
      <4>2. QED
        BY <1>9, <4>1
    <3>3. QED
      BY <3>1, <3>2
  <2>6. /\ Prefix(Prompt, n + m) \in Seq(Tokens) /\ Len(Prefix(Prompt, n + m)) = n + m
        /\ Prefix(Prompt, n) \in Seq(Tokens) /\ Len(Prefix(Prompt, n)) = n
    BY <1>6, <1>9, <2>2, PrefixOf
  <2>7. Prefix(Prompt, n + m) # <<>> \/ Prefix(Prompt, n) = <<>>
    <3>1. Prefix(Prompt, n + m) = <<>> => n + m = 0
      BY <2>6
    <3>2. n + m = 0 => n = 0
      BY <2>2
    <3>3. n = 0 => Prefix(Prompt, n) = <<>>
      BY <1>6, PrefixEnds
    <3>4. QED
      BY <3>1, <3>2, <3>3
  <2>8. Len(Prefix(Prompt, n)) # Len(Prefix(Prompt, n + m))
        \/ Prefix(Prompt, n) = Prefix(Prompt, n + m)
    <3>1. CASE m = 0
      BY <2>2, <3>1
    <3>2. CASE m # 0
      BY <2>2, <2>6, <3>2
    <3>3. QED
      BY <3>1, <3>2
  <2>9. Ledgers'
    BY <1>13, <2>4, <2>5, <2>6, <2>7, <2>8
  <2>10. QED
    BY <1>15, <2>9 DEF Generating
<1>16. QED
  BY <1>12, <1>14, <1>15

\* A stateless prefill has lane 0 to itself.
LEMMA LedgersStateless ==
    ASSUME IInv, Blocking, Ledgers, Generating, PrefillStateless
    PROVE  Ledgers' /\ Generating'
<1>1. StoreInv /\ ThreadType /\ Holding /\ EngineBusy
  BY IInvParts
<1>2. /\ epc = "prefill" /\ ptr[eng] = NoSlot /\ Valid(eng)
      /\ UNCHANGED <<live, lane, ledger, ptr, pc, req, eng, ngen>>
  BY DEF PrefillStateless, handlers, store, slot, Valid
<1>3. eng \in Ids
  BY <1>1, <1>2 DEF EngineBusy
<1>4. LaneOfJob = 0 /\ 0 \in Lanes /\ LaneOfJob' = 0 /\ Prompt' = Prompt
  BY <1>2, StoreAssumption DEF LaneOfJob, Lanes, Prompt
<1>5. kv' \in [Lanes -> Seq(Tokens)] /\ ledger' \in [Convs -> Seq(Tokens)]
  <2>1. IInv'
    BY EngineStepKeeps DEF EngineStep, PrefillStateless, Finish
  <2>2. StoreInv'
    BY <2>1, IInvParts, PTL
  <2>3. QED
    BY <2>2 DEF StoreInv, StoreType, Lanes
<1>6. kv \in [Lanes -> Seq(Tokens)]
  BY <1>1 DEF StoreInv, StoreType
<1>7. \A l \in Lanes : l # LaneOfJob => kv'[l] = kv[l]
  BY <1>4, <1>6 DEF PrefillStateless
<1>8. Ledgers'
  BY <1>2, <1>3, <1>5, <1>7, LedgersOthers
<1>9. Generating'
  <2>1. epc' \in {"gen", "finish"} /\ (epc' = "gen" => kv'[0] = Prompt)
    BY <1>4, <1>6 DEF PrefillStateless
  <2>2. ngen' = 0
    BY <1>2 DEF Generating
  <2>3. Prompt \in Seq(Tokens)
    <3>1. req[eng] \in Request
      BY <1>1, <1>3, ServerAssumption DEF ThreadType
    <3>2. QED
      BY <3>1 DEF Request, Prompt
  <2>4. Len(Prompt) = Len(Prompt) + 0 /\ Prefix(Prompt, Len(Prompt)) = Prompt
    BY <2>3, PrefixEnds, LenProperties
  <2>5. QED
    BY <1>2, <1>4, <2>1, <2>2, <2>4 DEF Generating
<1>10. QED
  BY <1>8, <1>9

\* A prefix is not affected by what comes after it.
LEMMA PrefixAppend ==
    ASSUME NEW s \in Seq(Tokens), NEW t \in Tokens, NEW n \in 0 .. Len(s)
    PROVE  /\ Append(s, t) \in Seq(Tokens) /\ Len(Append(s, t)) = Len(s) + 1
           /\ Prefix(Append(s, t), n) = Prefix(s, n)
<1>1. /\ Append(s, t) \in Seq(Tokens) /\ Len(Append(s, t)) = Len(s) + 1
      /\ \A i \in 1 .. Len(s) : Append(s, t)[i] = s[i]
  BY AppendProperties
<1>2. Len(s) \in Nat /\ n \in 0 .. Len(s) + 1 /\ \A i \in 1 .. n : i \in 1 .. Len(s)
  BY LenProperties
<1>3. n \in 0 .. Len(Append(s, t))
  BY <1>1, <1>2
<1> DEFINE a == Prefix(Append(s, t), n)
           b == Prefix(s, n)
<1>4. a \in Seq(Tokens) /\ Len(a) = n /\ \A i \in 1 .. n : a[i] = Append(s, t)[i]
  BY <1>1, <1>3, PrefixOf
<1>5. b \in Seq(Tokens) /\ Len(b) = n /\ \A i \in 1 .. n : b[i] = s[i]
  BY PrefixOf
<1> HIDE DEF a, b
<1>6. a = b
  BY <1>1, <1>2, <1>4, <1>5, SeqEqual
<1>7. QED
  BY <1>1, <1>6 DEF a, b

\* A turn of the generation loop: token and lane stay together, and a failed
\* decode leaves a ledger one token too long, which is noticed.
LEMMA LedgersDecode ==
    ASSUME IInv, Blocking, Ledgers, Generating, NEW t \in Tokens, DecodeToken(t)
    PROVE  Ledgers' /\ Generating'
<1>1. StoreInv /\ ThreadType /\ Holding /\ EngineBusy
  BY IInvParts
<1>2. /\ epc = "gen" /\ Valid(eng)
      /\ UNCHANGED <<live, lane, ptr, pc, req, eng>>
  BY DEF DecodeToken, handlers
<1>3. eng \in Ids /\ pc[eng] = "await"
  BY <1>1, <1>2 DEF EngineBusy, Blocking
<1>4. LaneOfJob \in Lanes /\ (ptr[eng] # NoSlot => Conv \in Convs /\ LaneOfJob = lane[Conv])
  <2>1. CASE ptr[eng] = NoSlot
    BY <2>1, StoreAssumption DEF LaneOfJob, Lanes
  <2>2. CASE ptr[eng] # NoSlot
    BY <1>1, <1>2, <1>3, <2>2, JobLane
  <2>3. QED
    BY <2>1, <2>2
<1>5. Conv' = Conv /\ Prompt' = Prompt /\ LaneOfJob' = LaneOfJob
  BY <1>2 DEF Conv, Prompt, LaneOfJob
<1>6. ledger \in [Convs -> Seq(Tokens)] /\ kv \in [Lanes -> Seq(Tokens)] /\ ngen \in Nat
  <2>1. ngen \in 0 .. NGen
    BY DEF IInv, TypeOK
  <2>2. QED
    BY <1>1, <2>1, ServerAssumption DEF StoreInv, StoreType
<1>7. Prompt \in Seq(Tokens) /\ Prompt # <<>> /\ Len(Prompt) \in Nat \ {0}
  <2>1. req[eng] \in Request
    BY <1>1, <1>3, ServerAssumption DEF ThreadType
  <2>2. Prompt \in Seq(Tokens) /\ Prompt # <<>>
    BY <2>1 DEF Request, Prompt
  <2>3. QED
    BY <2>2, EmptySeq, LenProperties
<1> DEFINE s == kv[LaneOfJob]
<1>8. s \in Seq(Tokens) /\ Len(s) = Len(Prompt) + ngen /\ Prefix(s, Len(Prompt)) = Prompt
      /\ (ptr[eng] # NoSlot => ledger[Conv] = s)
  BY <1>2, <1>4, <1>6 DEF Generating
<1> HIDE DEF s
<1>9. s # <<>> /\ Len(Prompt) \in 0 .. Len(s) /\ Len(s) \in Nat
  BY <1>6, <1>7, <1>8, EmptySeq
<1>10. /\ Append(s, t) \in Seq(Tokens) /\ Len(Append(s, t)) = Len(s) + 1
       /\ Prefix(Append(s, t), Len(Prompt)) = Prompt
  BY <1>8, <1>9, PrefixAppend
<1>11. /\ ptr[eng] = NoSlot => ledger' = ledger
       /\ ptr[eng] # NoSlot => ledger' = [ledger EXCEPT ![Conv] = Append(s, t)]
  BY <1>8, <1>6, <1>4 DEF DecodeToken
<1>12. /\ ledger' \in [Convs -> Seq(Tokens)]
       /\ \A c \in Convs : ptr[eng] = NoSlot \/ c # Conv => ledger'[c] = ledger[c]
       /\ ptr[eng] # NoSlot => ledger'[Conv] = Append(s, t)
  BY <1>4, <1>6, <1>10, <1>11
<1>13. \/ kv' = [kv EXCEPT ![LaneOfJob] = Append(s, t)] /\ ngen' = ngen + 1 /\ epc' = "gen"
       \/ kv' = kv /\ ngen' = ngen /\ epc' = "finish"
  BY <1>2 DEF DecodeToken, s
<1>14. CASE kv' = [kv EXCEPT ![LaneOfJob] = Append(s, t)] /\ ngen' = ngen + 1 /\ epc' = "gen"
  <2>1. /\ kv' \in [Lanes -> Seq(Tokens)] /\ kv'[LaneOfJob] = Append(s, t)
        /\ \A l \in Lanes : l # LaneOfJob => kv'[l] = kv[l]
    BY <1>4, <1>6, <1>10, <1>14
  <2>2. Append(s, t) # <<>>
    BY <1>9, <1>10
  <2>3. ptr[eng] # NoSlot => Trusted(Conv)'
    BY <1>2, <1>4, <1>5, <1>12, <2>1 DEF Trusted
  <2>4. Ledgers'
    BY <1>2, <1>3, <1>12, <2>1, <2>2, <2>3, LedgersOthers
  <2>5. Len(Append(s, t)) = Len(Prompt) + (ngen + 1)
    BY <1>6, <1>7, <1>8, <1>10
  <2>6. Generating'
    BY <1>2, <1>5, <1>10, <1>12, <1>14, <2>1, <2>5 DEF Generating
  <2>7. QED
    BY <2>4, <2>6
<1>15. CASE kv' = kv /\ ngen' = ngen /\ epc' = "finish"
  <2>1. kv'[LaneOfJob] = s
    BY <1>15 DEF s
  <2>2. Len(Append(s, t)) # Len(s)
    BY <1>9, <1>10
  <2>3. ptr[eng] # NoSlot => Trusted(Conv)'
    BY <1>2, <1>4, <1>5, <1>12, <2>1, <2>2 DEF Trusted
  <2>4. Ledgers'
    BY <1>2, <1>3, <1>6, <1>9, <1>12, <1>15, <2>1, <2>3, LedgersOthers
  <2>5. Generating'
    BY <1>15 DEF Generating
  <2>6. QED
    BY <2>4, <2>5
<1>16. QED
  BY <1>13, <1>14, <1>15

\* The steps around a job change no lane that this server has use for.
LEMMA LedgersAround ==
    ASSUME IInv, Blocking, Ledgers, Generating, \A q \in Requests : ~q.stream,
           Take \/ UseAfterFree \/ GenerationEnds \/ Finish
    PROVE  Ledgers' /\ Generating'
<1>1. StoreInv /\ ThreadType /\ Holding /\ EngineBusy
  BY IInvParts
<1>2. UNCHANGED <<live, lane, ledger, ptr, pc, req>>
  BY DEF Take, UseAfterFree, GenerationEnds, Finish, handlers, store, slot
<1>3. UNCHANGED kv
  <2>1. CASE Finish
    <3>1. eng \in Ids
      BY <1>1, <2>1 DEF Finish, EngineBusy
    <3>2. ~req[eng].stream
      BY <1>1, <3>1 DEF ThreadType
    <3>3. QED
      BY <2>1, <3>2 DEF Finish
  <2>2. QED
    BY <2>1 DEF Take, UseAfterFree, GenerationEnds
<1>4. Ledgers'
  BY <1>2, <1>3 DEF Ledgers, Guest, Trusted, SlotsOnly
<1>5. Generating'
  BY DEF Generating, Take, UseAfterFree, GenerationEnds, Finish
<1>6. QED
  BY <1>4, <1>5

\* A server whose clients never stream: when a token is sampled, the lane holds
\* the request's own prompt and what the request has generated, whatever
\* earlier requests, evictions, failed trims and failed decodes left there, so
\* that comparing the two lengths (session_prefill, cne_session.cpp:80) is all
\* the check the reuse needs.  Requests without a conversation use lane 0 over
\* the head of its owner and leave a ledger behind that says too much; that is
\* harmless unless a decode fails too, which the second hypothesis excludes.
THEOREM ReuseUnobservable ==
    ASSUME \A q \in Requests : ~q.stream,
           SlotsOnly \/ ~DecodeMayFail
    PROVE  Spec => []CleanContext
<1>1. Init => Ledgers /\ Generating
  <2> SUFFICES ASSUME Init PROVE Ledgers /\ Generating
    OBVIOUS
  <2>1. live = {} /\ ledger = [c \in Convs |-> <<>>] /\ epc = "idle"
    BY DEF Init, StoreInit
  <2>2. \A i \in Ids : pc[i] = "new"
    BY DEF Init
  <2>3. QED
    BY <2>1, <2>2 DEF Ledgers, Generating
<1>2. IInv /\ Blocking /\ Ledgers /\ Generating /\ [Next]_vars => Ledgers' /\ Generating'
  <2> SUFFICES ASSUME IInv, Blocking, Ledgers, Generating, [Next]_vars
               PROVE  Ledgers' /\ Generating'
    OBVIOUS
  <2>1. ASSUME NEW i \in Ids, HandlerStep(i) \/ Disconnect(i) PROVE Ledgers' /\ Generating'
    <3>1. PICK q : q \in Requests
      BY ServerAssumption
    <3>2. QED
      BY <2>1, <3>1, LedgersThreads, LedgersBinds, LedgersAnswer DEF HandlerStep
  <2>2. ASSUME NEW i \in Ids, NEW q \in Requests, Arrive(i, q) PROVE Ledgers' /\ Generating'
    BY <2>2, LedgersThreads
  <2>3. ASSUME EngineStep PROVE Ledgers' /\ Generating'
    BY <2>3, LedgersPrefill, LedgersStateless, LedgersDecode, LedgersAround DEF EngineStep
  <2>4. CASE UNCHANGED vars
    <3>1. UNCHANGED <<live, lane, ledger, kv, ptr, pc, req, eng, epc, ngen>>
      BY <2>4 DEF vars, store, slot, handlers, engine
    <3>2. Ledgers'
      BY <3>1 DEF Ledgers, Guest, Trusted, SlotsOnly
    <3>3. Generating'
      BY <3>1 DEF Generating, LaneOfJob, Conv, Prompt
    <3>4. QED
      BY <3>2, <3>3
  <2>5. QED
    BY <2>1, <2>2, <2>3, <2>4 DEF Next, Quiet
<1>3. Generating => CleanContext
  BY DEF Generating, CleanContext
<1>4. Spec => []Blocking
  BY BlockingHolds
<1>5. QED
  BY <1>1, <1>2, <1>3, <1>4, Inductive, PTL DEF Spec
=============================================================================
