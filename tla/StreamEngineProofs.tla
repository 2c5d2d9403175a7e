------------------------- MODULE StreamEngineProofs -------------------------
(***************************************************************************)
(* Theorems about StreamEngine, for every graph, routing and cache size:   *)
(* its calls are calls of SliceCache, so what is proved of the cache holds *)
(* under the streaming runtime, and the window registry is not shared.     *)
(***************************************************************************)
EXTENDS StreamEngine, SliceCacheProofs

\* The model's graph and the draft graphs are sequences of nodes.
LEMMA GraphType ==
    ASSUME NEW g \in {Graph} \cup Drafts
    PROVE  g \in Seq(Node) /\ Len(g) \in Nat
  <1>1. g \in Seq(Node)
    BY StreamAssumption
  <1> QED BY <1>1

\* What a node of a graph is made of.
LEMMA NodeType ==
    ASSUME NEW g \in {Graph} \cup Drafts, NEW n \in 1 .. Len(g)
    PROVE  /\ g[n].op = "router" => g[n].layer \in Layers
           /\ g[n].op = "mmid" => g[n].tensor \in Tensors /\ LayerOf[g[n].tensor] \in Layers
           /\ g[n].op \in {"router", "mmid"}
  <1>1. g[n] \in Node
    BY GraphType
  <1>2. CASE g[n] \in [op : {"router"}, layer : Layers]
    BY <1>2
  <1>3. CASE g[n] \in [op : {"mmid"}, tensor : Tensors]
    BY <1>3 DEF Layers
  <1> QED BY <1>1, <1>2, <1>3 DEF Node

\* A function on 1 .. n is a sequence.
LEMMA TupleIsSeq ==
    ASSUME NEW S, NEW n \in Nat, NEW f \in [1 .. n -> S]
    PROVE  f \in Seq(S)
  OBVIOUS

\* Where the decode thread is in the graph while its callback is at work.
AtNode ==
    /\ epc = "harvest" => node <= Len(graph) /\ Here.op = "router"
    /\ epc \in {"insert", "serve", "look", "kernel"} =>
          node <= Len(graph) /\ Here.op = "mmid"

\* A token is evaluated by the model's own graph.
TokenGraph == decoding => graph = Graph

StreamInv == StreamTypeOK /\ AtNode /\ TokenGraph

\* What the callback finds at its node.
LEMMA HereType ==
    ASSUME StreamInv, node <= Len(graph)
    PROVE  /\ LayerHere \in Layers
           /\ Here.op = "mmid" => Here.tensor \in Tensors
           /\ kept[LayerHere] \in SUBSET Experts
           /\ Wanted \in SUBSET Experts
  <1>1. node \in 1 .. Len(graph) /\ graph \in {Graph} \cup Drafts
    BY GraphType DEF StreamInv, StreamTypeOK
  <1>2. LayerHere \in Layers /\ (Here.op = "mmid" => Here.tensor \in Tensors)
    BY <1>1, NodeType DEF LayerHere, Here
  <1> QED BY <1>2 DEF StreamInv, StreamTypeOK, Wanted

\* What history_kick queues is a sequence of batches.
LEMMA KicksType ==
    ASSUME StreamInv, NEW q \in Kicks
    PROVE  q \in Seq(Batch)
  <1> DEFINE T == {t \in Tensors : ids[slotNo][t] # {}}
             F == {f \in [1 .. Cardinality(T) -> T] : {f[i] : i \in DOMAIN f} = T}
  <1>1. Cardinality(T) \in Nat
    BY SizeAssumption, FS_Subset, FS_CardinalityType
  <1>2. PICK f \in F : q = [i \in DOMAIN f |-> [tensor |-> f[i], experts |-> ids[slotNo][f[i]]]]
    BY DEF Kicks
  <1>3. f \in [1 .. Cardinality(T) -> Tensors]
    OBVIOUS
  <1>4. ids[slotNo] \in [Tensors -> SUBSET Experts]
    BY DEF StreamInv, StreamTypeOK
  <1>5. q \in [1 .. Cardinality(T) -> Batch]
    <2> HIDE DEF T
    <2> QED BY <1>2, <1>3, <1>4 DEF Batch
  <1> QED BY <1>1, <1>5, TupleIsSeq

\* A new engine satisfies the invariant.
LEMMA StreamStart == StreamInit => StreamInv
  <1> SUFFICES ASSUME StreamInit PROVE StreamInv
    OBVIOUS
  <1>1. Len(Graph) \in Nat /\ -1 \in -1 .. MaxStep /\ 0 \in 0 .. MaxEvals /\ <<>> \in Seq(Batch)
    BY StreamAssumption
  <1>2. NoBatch \in Batch
    BY NoBatchType
  <1>3. decoding \in BOOLEAN /\ stop \in BOOLEAN
    BY Zenon DEF StreamInit
  <1>4. /\ routed \in [Layers -> SUBSET Experts] /\ kept \in [Layers -> SUBSET Experts]
        /\ ids \in [{0, 1} -> [Tensors -> SUBSET Experts]]
    BY DEF StreamInit, NoIds
  <1>5. /\ mode \in PfModes /\ epc = "idle" /\ node = 1 /\ graph = Graph
        /\ decoding = FALSE /\ evals = 0 /\ step = -1
        /\ fills = {} /\ windows = {} /\ slotNo = 0 /\ looked = {} /\ lookedStep = -1
        /\ queue = <<>> /\ wpc \in {"exited", "wait"} /\ item = NoBatch
    BY DEF StreamInit
  <1> QED BY <1>1, <1>2, <1>3, <1>4, <1>5 DEF StreamInv, StreamTypeOK, AtNode, TokenGraph

\* One step of the callback or of the worker.
LEMMA StreamStep ==
    ASSUME StreamInv, [StreamNext]_allvars
    PROVE  StreamInv'
  <1> USE DEF evaluation, routing, history, prefetcher, svars, StreamInv, StreamTypeOK, AtNode, TokenGraph
  <1>0. /\ Len(Graph) \in Nat /\ MaxStep \in Nat /\ MaxEvals \in Nat
        /\ Len(graph) \in Nat /\ Graph \in {Graph} \cup Drafts
    BY StreamAssumption, GraphType
  <1>1. ASSUME NEW g \in {Graph} \cup Drafts, NEW s \in -1 .. MaxStep, BeginPass(g, s)
        PROVE  StreamInv'
    <2>1. decoding' \in BOOLEAN
      BY <1>1, Zenon DEF BeginPass
    <2>2. Len(g) \in Nat
      BY GraphType
    <2> QED BY <1>0, <1>1, <2>1, <2>2 DEF BeginPass
  <1>2. ASSUME NEW s \in 0 .. MaxStep, BeginToken(s) PROVE StreamInv'
    BY <1>0, <1>2 DEF BeginToken
  <1>3. ASSUME NEW R \in SUBSET Experts, NEW K \in SUBSET R, Router(R, K) PROVE StreamInv'
    <2>1. R \in SUBSET Experts
      OBVIOUS
    <2>2. LayerHere \in Layers
      BY <1>0, <1>3, HereType DEF Router, At
    <2>3. /\ routed' \in [Layers -> SUBSET Experts]
          /\ kept' \in [Layers -> SUBSET Experts]
          /\ fills' \subseteq Tensors
      BY <2>1, <2>2, <1>3 DEF Router
    <2>4. /\ UNCHANGED <<mode, node, evaluation, windows, ids, slotNo, looked,
                        lookedStep, queue, wpc, item, stop>>
          /\ epc' = "harvest" /\ node <= Len(graph) /\ Here.op = "router"
      BY <1>3 DEF Router, At
    <2> QED BY <2>3, <2>4 DEF Here
  <1>4. ASSUME NEW t \in Tensors, HarvestCall(t) PROVE StreamInv'
    BY <1>4 DEF HarvestCall, Here
  <1>5. CASE HarvestReturn
    BY <1>5 DEF HarvestReturn, Here
  <1>6. CASE HarvestDone
    BY <1>0, <1>6 DEF HarvestDone
  <1>7. CASE InsertWindow
    BY <1>7 DEF InsertWindow, At, Here
  <1>8. CASE WindowInserted
    <2>1. Here.tensor \in Tensors
      BY <1>8, HereType DEF WindowInserted
    <2> QED BY <1>8, <2>1 DEF WindowInserted
  <1>9. CASE Serve
    BY <1>9 DEF Serve, At, Here
  <1>10. CASE Record
    <2>1. Here.tensor \in Tensors /\ Wanted \in SUBSET Experts
      BY <1>10, HereType DEF Record
    <2>2. ids' \in [{0, 1} -> [Tensors -> SUBSET Experts]]
      BY <1>10, <2>1 DEF Record
    <2>3. looked' \subseteq Tensors /\ lookedStep' \in -1 .. MaxStep
      BY <1>10 DEF Record
    <2>4. /\ UNCHANGED <<mode, node, evaluation, routed, kept, fills, windows, slotNo,
                        queue, wpc, item, stop>>
          /\ epc = "serve" /\ epc' = "look"
      BY <1>10 DEF Record
    <2> QED BY <2>2, <2>3, <2>4 DEF Here
  <1>11. ASSUME NEW t \in Tensors, LookaheadPush(t) PROVE StreamInv'
    <2>1. [tensor |-> t, experts |-> ids[1 - slotNo][t]] \in Batch
      BY DEF Batch
    <2>2. queue' \in Seq(Batch) /\ looked' \subseteq Tensors
      BY <1>11, <2>1 DEF LookaheadPush
    <2> QED BY <1>11, <2>2 DEF LookaheadPush, Here
  <1>12. CASE KernelStarts
    BY <1>12 DEF KernelStarts, Here
  <1>13. CASE KernelDone
    BY <1>0, <1>13 DEF KernelDone
  <1>14. CASE EvalFails
    <2>1. decoding' \in BOOLEAN
      BY <1>14, Zenon DEF EvalFails
    <2> QED BY <1>0, <1>14, <2>1 DEF EvalFails
  <1>15. CASE EndPass
    <2>1. decoding' \in BOOLEAN
      BY <1>15, Zenon DEF EndPass
    <2> QED BY <1>0, <1>15, <2>1 DEF EndPass
  <1>16. CASE EndToken
    <2>1. queue' \in Seq(Batch)
      BY <1>16, KicksType DEF EndToken
    <2>2. slotNo' \in {0, 1} /\ ids' \in [{0, 1} -> [Tensors -> SUBSET Experts]]
      BY <1>16 DEF EndToken, NoIds
    <2>3. lookedStep' \in -1 .. MaxStep /\ looked' \subseteq Tensors
      BY <1>0, <1>16 DEF EndToken
    <2>4. /\ UNCHANGED <<mode, evals, step, routed, kept, fills, windows, wpc, item, stop>>
          /\ epc' = "idle" /\ node' = 1 /\ graph' = Graph
      BY <1>16 DEF EndToken
    <2>5. decoding' \in BOOLEAN
      BY <1>16, Zenon DEF EndToken
    <2> QED BY <1>0, <2>1, <2>2, <2>3, <2>4, <2>5
  <1>17. CASE TakeItem
    <2>1. item' \in Batch /\ queue' \in Seq(Batch)
      BY <1>17 DEF TakeItem
    <2> QED BY <1>17, <2>1 DEF TakeItem, Here
  <1>18. CASE StartPrefetch
    BY <1>18 DEF StartPrefetch, Here
  <1>19. CASE SkipItem
    BY <1>19, NoBatchType DEF SkipItem, Here
  <1>20. CASE PrefetchReturns
    BY <1>20, NoBatchType DEF PrefetchReturns, Here
  <1>21. CASE StopPrefetch
    BY <1>21 DEF StopPrefetch, Here
  <1>22. CASE WorkerExits
    BY <1>22 DEF WorkerExits, Here
  <1>23. CASE UNCHANGED svars
    BY <1>23 DEF Here
  <1> QED
    BY <1>1, <1>2, <1>3, <1>4, <1>5, <1>6, <1>7, <1>8, <1>9, <1>10, <1>11, <1>12, <1>13,
       <1>14, <1>15, <1>16, <1>17, <1>18, <1>19, <1>20, <1>21, <1>22, <1>23
    DEF StreamNext, CallbackStep, WorkerStep, InDemand, InPrefetch, Ended, allvars

\* The inductive invariant holds in every state of the engine.
LEMMA StreamInductive == StreamSpec => []StreamInv
  <1>1. StreamInit => StreamInv
    BY StreamStart
  <1>2. StreamInv /\ [StreamNext]_allvars => StreamInv'
    BY StreamStep
  <1> QED BY <1>1, <1>2, PTL DEF StreamSpec

\* The streaming runtime's state is well typed, and what it queues for the
\* prefetch worker are batches of the model's tensors and experts.
THEOREM StreamTypeCorrect == StreamSpec => []StreamTypeOK
  <1>1. StreamInv => StreamTypeOK
    BY DEF StreamInv
  <1> QED BY <1>1, StreamInductive, PTL

-----------------------------------------------------------------------------
(* The runtime drives the cache only through the calls SliceCache allows.  *)

\* Every step of the engine is a step of the cache or leaves it alone.
LEMMA CacheStep ==
    ASSUME StreamInv, [StreamNext]_allvars
    PROVE  [Next]_vars
  <1>1. ASSUME NEW t \in Tensors, HarvestCall(t) PROVE Next
    <2>1. kept[LayerHere] \in SUBSET Experts
      BY <1>1, HereType DEF HarvestCall, StreamInv, AtNode
    <2>2. [tensor |-> t, experts |-> kept[LayerHere]] \in Calls
      BY <2>1, StreamAssumption DEF Batch
    <2>3. BeginCall([tensor |-> t, experts |-> kept[LayerHere]], FALSE)
      BY <1>1 DEF HarvestCall
    <2> QED BY <2>2, <2>3 DEF Next
  <1>2. CASE Serve
    <2>1. Wanted \in SUBSET Experts /\ Here.tensor \in Tensors
      BY <1>2, HereType DEF Serve, At
    <2>2. [tensor |-> Here.tensor, experts |-> Wanted] \in Calls
      BY <2>1, StreamAssumption DEF Batch
    <2>3. BeginCall([tensor |-> Here.tensor, experts |-> Wanted], ~UseOdirect)
      BY <1>2 DEF Serve
    <2>4. \E s \in BOOLEAN : BeginCall([tensor |-> Here.tensor, experts |-> Wanted], s)
      <3>1. CASE UseOdirect
        <4>1. BeginCall([tensor |-> Here.tensor, experts |-> Wanted], FALSE)
          BY <2>3, <3>1 DEF BeginCall
        <4> QED BY <4>1
      <3>2. CASE ~UseOdirect
        <4>1. BeginCall([tensor |-> Here.tensor, experts |-> Wanted], TRUE)
          BY <2>3, <3>2 DEF BeginCall
        <4> QED BY <4>1
      <3> QED BY <3>1, <3>2
    <2> QED BY <2>2, <2>4 DEF Next
  <1>3. CASE StartPrefetch
    <2>1. item \in Prefetches
      BY StreamAssumption DEF StreamInv, StreamTypeOK
    <2>2. PrefetchFilter(item)
      BY <1>3 DEF StartPrefetch
    <2> QED BY <2>1, <2>2 DEF Next
  <1>4. CASE HarvestReturn \/ KernelDone
    BY <1>4 DEF HarvestReturn, KernelDone, Next
  <1>5. CASE InDemand \/ InPrefetch
    BY <1>5 DEF InDemand, InPrefetch, Next
  <1>6. CASE (\E g, s : BeginPass(g, s)) \/ (\E s \in 0 .. MaxStep : BeginToken(s))
    BY <1>6 DEF BeginPass, BeginToken
  <1>7. ASSUME NEW R, NEW K, Router(R, K) PROVE UNCHANGED vars
    BY <1>7 DEF Router
  <1>8. CASE HarvestDone \/ InsertWindow \/ WindowInserted \/ Record
    BY <1>8 DEF HarvestDone, InsertWindow, WindowInserted, Record
  <1>9. ASSUME NEW t, LookaheadPush(t) PROVE UNCHANGED vars
    BY <1>9 DEF LookaheadPush
  <1>10. CASE KernelStarts \/ EvalFails \/ EndPass \/ EndToken
    BY <1>10 DEF KernelStarts, EvalFails, EndPass, EndToken
  <1>11. CASE TakeItem \/ SkipItem \/ PrefetchReturns \/ WorkerExits \/ StopPrefetch
    BY <1>11 DEF TakeItem, SkipItem, PrefetchReturns, WorkerExits, StopPrefetch
  <1>12. CASE Ended \/ UNCHANGED allvars
    BY <1>12 DEF Ended, allvars
  <1> QED
    BY <1>1, <1>2, <1>3, <1>4, <1>5, <1>6, <1>7, <1>8, <1>9, <1>10, <1>11, <1>12
    DEF StreamNext, CallbackStep, WorkerStep

\* The evaluation callback and the prefetch worker use the cache as SliceCache
\* says: every behaviour of the streaming runtime is one of the cache.
THEOREM DrivesCache == StreamSpec => Spec
  <1>1. StreamInit => Init
    BY DEF StreamInit
  <1>2. StreamInv /\ [StreamNext]_allvars => [Next]_vars
    BY CacheStep
  <1> QED BY <1>1, <1>2, StreamInductive, PTL DEF StreamSpec, Spec

\* Under the streaming runtime too, used_ is the size of the entries and each
\* entry is in the list once.
THEOREM StreamAccounting == StreamSpec => []Accounting
  BY DrivesCache, AccountingHolds, PTL

-----------------------------------------------------------------------------
(* The window registry.                                                    *)

\* Something is queued, or may be looked ahead for, only when every window of
\* the model's own graph exists; the nodes an evaluation has passed have theirs.
WindowsFirst ==
    /\ \A i \in 1 .. Len(graph) :
          i < node /\ graph[i].op = "mmid" => graph[i].tensor \in windows
    /\ epc = "insert" => Here.tensor \notin windows
    /\ epc \in {"serve", "look", "kernel"} => Here.tensor \in windows
    /\ \/ queue # <<>>
       \/ wpc \in {"find", "prefetch"}
       \/ \E t \in Tensors : ids[1 - slotNo][t] # {}
       => MainTensors \subseteq windows

\* No step queues or looks ahead before every window of the model exists.
LEMMA WindowsStep ==
    ASSUME StreamInv, WindowsFirst, [StreamNext]_allvars
    PROVE  WindowsFirst'
  <1> USE DEF evaluation, routing, history, prefetcher, svars, WindowsFirst
  <1>0. /\ Len(Graph) \in Nat /\ Len(graph) \in Nat /\ node \in Nat
        /\ slotNo \in {0, 1} /\ ids \in [{0, 1} -> [Tensors -> SUBSET Experts]]
        /\ queue \in Seq(Batch)
    BY StreamAssumption, GraphType DEF StreamInv, StreamTypeOK
  <1>1. ASSUME NEW g \in {Graph} \cup Drafts, NEW s, BeginPass(g, s) PROVE WindowsFirst'
    <2>1. Len(g) \in Nat
      BY GraphType
    <2> QED BY <1>0, <1>1, <2>1 DEF BeginPass
  <1>2. ASSUME NEW s, BeginToken(s) PROVE WindowsFirst'
    BY <1>0, <1>2 DEF BeginToken
  <1>3. ASSUME NEW R, NEW K, Router(R, K) PROVE WindowsFirst'
    BY <1>3 DEF Router
  <1>4. ASSUME NEW t, HarvestCall(t) PROVE WindowsFirst'
    BY <1>4 DEF HarvestCall
  <1>5. CASE HarvestReturn \/ UNCHANGED svars
    BY <1>5 DEF HarvestReturn, Here
  <1>6. CASE HarvestDone
    <2>1. graph[node].op # "mmid"
      BY <1>6 DEF HarvestDone, StreamInv, AtNode, Here
    <2> QED BY <1>0, <1>6, <2>1 DEF HarvestDone
  <1>7. CASE InsertWindow
    BY <1>7 DEF InsertWindow, Here
  <1>8. CASE WindowInserted
    BY <1>8 DEF WindowInserted
  <1>9. CASE Serve
    BY <1>9 DEF Serve, Here
  <1>10. CASE Record
    <2>1. ids'[1 - slotNo] = ids[1 - slotNo]
      BY <1>0, <1>10 DEF Record
    <2> QED BY <1>10, <2>1 DEF Record, Here
  <1>11. ASSUME NEW t \in Tensors, LookaheadPush(t) PROVE WindowsFirst'
    <2>1. ids[1 - slotNo][t] # {}
      BY <1>11 DEF LookaheadPush, Ahead
    <2> QED BY <1>11, <2>1 DEF LookaheadPush, Here
  <1>12. CASE KernelStarts
    BY <1>12 DEF KernelStarts, Here
  <1>13. CASE KernelDone
    <2>1. graph[node].tensor \in windows
      BY <1>13 DEF KernelDone, Here
    <2> QED BY <1>0, <1>13, <2>1 DEF KernelDone
  <1>14. CASE EvalFails
    BY <1>0, <1>14 DEF EvalFails
  <1>15. CASE EndPass
    BY <1>0, <1>15 DEF EndPass
  <1>16. CASE EndToken
    <2>1. MainTensors \subseteq windows
      BY <1>0, <1>16 DEF EndToken, AtEnd, MainTensors, StreamInv, TokenGraph
    <2>2. windows' = windows /\ epc' = "idle" /\ node' = 1
      BY <1>16 DEF EndToken
    <2> QED BY <1>0, <2>1, <2>2
  <1>17. CASE TakeItem
    BY <1>17 DEF TakeItem, Here
  <1>18. CASE StartPrefetch
    BY <1>18 DEF StartPrefetch, Here
  <1>19. CASE SkipItem \/ PrefetchReturns \/ WorkerExits \/ StopPrefetch
    BY <1>19 DEF SkipItem, PrefetchReturns, WorkerExits, StopPrefetch, Here
  <1> QED
    BY <1>1, <1>2, <1>3, <1>4, <1>5, <1>6, <1>7, <1>8, <1>9, <1>10, <1>11, <1>12, <1>13,
       <1>14, <1>15, <1>16, <1>17, <1>18, <1>19
    DEF StreamNext, CallbackStep, WorkerStep, InDemand, InPrefetch, Ended, allvars

\* While the prefetch worker searches the window registry, which no lock
\* protects, the evaluation callback inserts no window of the model's own
\* graph: for every graph, every draft graph, routing and failed evaluation.
THEOREM ModelRegistryUnshared == StreamSpec => []RegistryUnshared
  <1>1. StreamInit => WindowsFirst
    <2> SUFFICES ASSUME StreamInit PROVE WindowsFirst
      OBVIOUS
    <2>1. Len(Graph) \in Nat
      BY StreamAssumption
    <2> QED BY <2>1 DEF StreamInit, WindowsFirst, NoIds
  <1>2. StreamInv /\ WindowsFirst /\ [StreamNext]_allvars => WindowsFirst'
    BY WindowsStep
  <1>3. StreamInv /\ WindowsFirst => RegistryUnshared
    <2> SUFFICES ASSUME StreamInv, WindowsFirst, epc = "insert", wpc = "find"
                 PROVE  Here.tensor \notin MainTensors
      BY DEF RegistryUnshared
    <2> QED BY DEF WindowsFirst
  <1> QED BY <1>1, <1>2, <1>3, StreamInductive, PTL DEF StreamSpec

\* Without a draft graph that runs tensors of its own, which is to say without
\* MTP, the registry never changes while the worker searches it.
THEOREM RegistryNeverShared ==
    ASSUME \A g \in Drafts : \A i \in 1 .. Len(g) :
              g[i].op = "mmid" => g[i].tensor \in MainTensors
    PROVE  StreamSpec => [](~(epc = "insert" /\ wpc = "find"))
  <1>1. StreamInv /\ RegistryUnshared => ~(epc = "insert" /\ wpc = "find")
    <2> SUFFICES ASSUME StreamInv, RegistryUnshared, epc = "insert", wpc = "find"
                 PROVE  FALSE
      OBVIOUS
    <2>1. /\ node \in 1 .. Len(graph) /\ graph \in {Graph} \cup Drafts
          /\ graph[node].op = "mmid"
      BY GraphType DEF StreamInv, StreamTypeOK, AtNode, Here
    <2>2. graph[node].tensor \in Tensors
      BY <2>1, NodeType
    <2>3. graph[node].tensor \in MainTensors
      BY <2>1, <2>2 DEF MainTensors
    <2> QED BY <2>3 DEF RegistryUnshared, Here
  <1> QED BY <1>1, ModelRegistryUnshared, StreamInductive, PTL

-----------------------------------------------------------------------------
(* The queue in full mode.                                                 *)

\* In full mode whatever is queued is the routing of the latest token, also
\* when the evaluation of the next token or prompt is under way or has failed.
THEOREM LatestAlwaysWins == StreamSpec => []LatestWins
  <1>1. StreamInit => LatestWins
    BY DEF StreamInit, LatestWins
  <1>2. ASSUME StreamInv, LatestWins, [StreamNext]_allvars PROVE LatestWins'
    <2> USE DEF evaluation, routing, history, prefetcher, svars, LatestWins
    <2>0. /\ slotNo \in {0, 1} /\ ids \in [{0, 1} -> [Tensors -> SUBSET Experts]]
          /\ queue \in Seq(Batch)
      BY <1>2 DEF StreamInv, StreamTypeOK
    <2>1. CASE Record
      <3>1. ids'[1 - slotNo] = ids[1 - slotNo]
        BY <2>0, <2>1 DEF Record
      <3> QED BY <1>2, <2>1, <3>1 DEF Record
    <2>2. ASSUME NEW t, LookaheadPush(t) PROVE LatestWins'
      BY <2>2 DEF LookaheadPush, Ahead
    <2>3. CASE EndToken
      <3>1. SUFFICES ASSUME mode = "full", NEW i \in 1 .. Len(queue')
                     PROVE  queue'[i].experts = ids'[1 - slotNo'][queue'[i].tensor]
        BY <2>3 DEF EndToken
      <3>2. ids'[1 - slotNo'] = ids[slotNo]
        BY <2>0, <2>3 DEF EndToken
      <3>3. queue' \in Kicks
        BY <2>3, <3>1 DEF EndToken
      <3>4. PICK f : queue' = [j \in DOMAIN f |->
                         [tensor |-> f[j], experts |-> ids[slotNo][f[j]]]]
        BY <3>3 DEF Kicks
      <3>5. queue' \in Seq(Batch)
        BY <1>2, <3>3, KicksType
      <3>6. i \in DOMAIN queue'
        BY <3>5
      <3>7. queue'[i] = [tensor |-> f[i], experts |-> ids[slotNo][f[i]]]
        BY <3>4, <3>6
      <3> QED BY <3>2, <3>7
    <2>4. CASE TakeItem
      <3>1. \A i \in 1 .. Len(queue') : i + 1 \in 1 .. Len(queue) /\ queue'[i] = queue[i + 1]
        BY <2>0, <2>4 DEF TakeItem
      <3> QED BY <1>2, <2>4, <3>1 DEF TakeItem
    <2>5. CASE UNCHANGED <<mode, queue, ids, slotNo>>
      BY <1>2, <2>5
    <2>6. CASE (\E g, s : BeginPass(g, s)) \/ (\E s \in 0 .. MaxStep : BeginToken(s))
      BY <2>5, <2>6 DEF BeginPass, BeginToken
    <2>7. ASSUME NEW R, NEW K, Router(R, K) PROVE LatestWins'
      BY <2>5, <2>7 DEF Router
    <2>8. ASSUME NEW t, HarvestCall(t) PROVE LatestWins'
      BY <2>5, <2>8 DEF HarvestCall
    <2>9. CASE HarvestReturn \/ HarvestDone \/ InsertWindow \/ WindowInserted \/ Serve
      BY <2>5, <2>9 DEF HarvestReturn, HarvestDone, InsertWindow, WindowInserted, Serve
    <2>10. CASE KernelStarts \/ KernelDone \/ EvalFails \/ EndPass
      BY <2>5, <2>10 DEF KernelStarts, KernelDone, EvalFails, EndPass
    <2>11. CASE StartPrefetch \/ SkipItem \/ PrefetchReturns \/ WorkerExits \/ StopPrefetch
      BY <2>5, <2>11 DEF StartPrefetch, SkipItem, PrefetchReturns, WorkerExits, StopPrefetch
    <2>12. CASE UNCHANGED svars
      BY <2>5, <2>12
    <2> QED
      BY <1>2, <2>1, <2>2, <2>3, <2>4, <2>6, <2>7, <2>8, <2>9, <2>10, <2>11, <2>12
      DEF StreamNext, CallbackStep, WorkerStep, InDemand, InPrefetch, Ended, allvars
  <1> QED BY <1>1, <1>2, StreamInductive, PTL DEF StreamSpec

-----------------------------------------------------------------------------
(* What the kernels find without prefetch.                                 *)

\* From its lookup to its kernel, the call is the one of the node.
OwnCall ==
    /\ epc \in {"serve", "look", "kernel"} => call = [tensor |-> Here.tensor, experts |-> Wanted]
    /\ epc \in {"look", "kernel"} => dpc = "compute"

\* With prefetch off there is no worker.
WorkerOff == mode = "off" => wpc = "exited" /\ ppc = "idle"

\* The batch under way stays the one of the node.
LEMMA OwnCallStep ==
    ASSUME StreamInv, OwnCall, [StreamNext]_allvars
    PROVE  OwnCall'
  <1> USE DEF evaluation, routing, history, prefetcher, svars, demand, OwnCall, Here, Wanted, LayerHere
  <1>1. CASE (\E g, s : BeginPass(g, s)) \/ (\E s \in 0 .. MaxStep : BeginToken(s))
    BY <1>1 DEF BeginPass, BeginToken
  <1>2. ASSUME NEW R, NEW K, Router(R, K) PROVE OwnCall'
    BY <1>2 DEF Router
  <1>3. ASSUME NEW t, HarvestCall(t) PROVE OwnCall'
    BY <1>3 DEF HarvestCall
  <1>4. CASE HarvestReturn
    BY <1>4 DEF HarvestReturn
  <1>5. CASE HarvestDone \/ InsertWindow \/ WindowInserted
    BY <1>5 DEF HarvestDone, InsertWindow, WindowInserted
  <1>6. CASE Serve
    BY <1>6 DEF Serve, BeginCall
  <1>7. CASE Record
    BY <1>7 DEF Record, vars
  <1>8. ASSUME NEW t, LookaheadPush(t) PROVE OwnCall'
    BY <1>8 DEF LookaheadPush, vars
  <1>9. CASE KernelStarts
    BY <1>9 DEF KernelStarts, vars
  <1>10. CASE KernelDone
    BY <1>10 DEF KernelDone
  <1>11. CASE EvalFails \/ EndPass \/ EndToken
    BY <1>11 DEF EvalFails, EndPass, EndToken
  <1>12. CASE UNCHANGED <<epc, node, graph, routed, kept, call, dpc>>
    BY <1>12
  <1>13. CASE WorkerStep \/ StopPrefetch
    <2>1. UNCHANGED <<epc, node, graph, routed, kept, call, dpc>>
      BY <1>13 DEF WorkerStep, TakeItem, StartPrefetch, SkipItem, PrefetchReturns,
                   WorkerExits, StopPrefetch, PrefetchFilter, vars
    <2> QED BY <1>12, <2>1
  <1>14. CASE InDemand
    <2>1. UNCHANGED <<epc, node, graph, routed, kept, call>> /\ dpc # "compute"
      BY <1>14 DEF InDemand, DemandStep, Hit, Miss, DemandEvict, FillAndCommit, QueueMiss,
                   FillMisses, FillFails, CommitMiss, Return
    <2> QED BY <2>1
  <1>15. CASE InPrefetch
    <2>1. UNCHANGED <<epc, node, graph, routed, kept, call, dpc>>
      BY <1>15 DEF InPrefetch, PrefetchStep, PrefetchRead, PrefetchReadFails, PrefetchGiveUp,
                   PrefetchLock, PrefetchSkip, PrefetchTake, PrefetchEvict, PrefetchCommit,
                   PrefetchDone
    <2> QED BY <1>12, <2>1
  <1>16. CASE Ended \/ UNCHANGED allvars
    <2>1. UNCHANGED <<epc, node, graph, routed, kept, call, dpc>>
      BY <1>16 DEF Ended, allvars, vars
    <2> QED BY <1>12, <2>1
  <1> QED
    BY <1>1, <1>2, <1>3, <1>4, <1>5, <1>6, <1>7, <1>8, <1>9, <1>10, <1>11, <1>13, <1>14,
       <1>15, <1>16 DEF StreamNext, CallbackStep

\* Without prefetch the worker never starts.
LEMMA WorkerOffStep ==
    ASSUME StreamInv, WorkerOff, [StreamNext]_allvars
    PROVE  WorkerOff' /\ mode' = mode
  <1> USE DEF evaluation, routing, history, prefetcher, svars, worker
  <1>1. mode' = mode
    BY DEF StreamNext, CallbackStep, WorkerStep, InDemand, InPrefetch, Ended, allvars,
           BeginPass, BeginToken, Router, HarvestCall, HarvestReturn, HarvestDone,
           InsertWindow, WindowInserted, Serve, Record, LookaheadPush, KernelStarts,
           KernelDone, EvalFails, EndPass, EndToken, TakeItem, StartPrefetch, SkipItem,
           PrefetchReturns, WorkerExits, StopPrefetch
  <1> SUFFICES ASSUME mode = "off" PROVE wpc' = "exited" /\ ppc' = "idle"
    BY <1>1 DEF WorkerOff
  <1>2. wpc = "exited" /\ ppc = "idle"
    BY DEF WorkerOff
  <1>3. wpc' = "exited"
    BY <1>2 DEF StreamNext, CallbackStep, WorkerStep, InDemand, InPrefetch, Ended, allvars,
           BeginPass, BeginToken, Router, HarvestCall, HarvestReturn, HarvestDone,
           InsertWindow, WindowInserted, Serve, Record, LookaheadPush, KernelStarts,
           KernelDone, EvalFails, EndPass, EndToken, TakeItem, StartPrefetch, SkipItem,
           PrefetchReturns, WorkerExits, StopPrefetch
  <1>4. [Next]_vars
    BY CacheStep
  <1>5. ASSUME NEW b \in Prefetches, PrefetchFilter(b), ppc' # "idle" PROVE FALSE
    <2>1. ~InPrefetch
      BY <1>2 DEF InPrefetch, PrefetchStep, PrefetchRead, PrefetchReadFails, PrefetchGiveUp,
                  PrefetchLock, PrefetchSkip, PrefetchTake, PrefetchEvict, PrefetchCommit,
                  PrefetchDone
    <2>2. ~InDemand
      BY <1>2, <1>5 DEF InDemand, DemandStep, Hit, Miss, DemandEvict, FillAndCommit, QueueMiss,
                  FillMisses, FillFails, CommitMiss, Return
    <2>3. ~WorkerStep
      BY <1>2, <1>5 DEF WorkerStep, TakeItem, StartPrefetch, SkipItem, PrefetchReturns,
                        WorkerExits
    <2>4. ~CallbackStep
      BY <1>2, <1>5 DEF CallbackStep, Router, HarvestCall, HarvestReturn, HarvestDone,
           InsertWindow, WindowInserted, Serve, Record, LookaheadPush, KernelStarts,
           KernelDone, EvalFails, EndPass, EndToken, BeginCall, ComputeDone, vars
    <2> QED BY <1>2, <1>5, <2>1, <2>2, <2>3, <2>4 DEF StreamNext, BeginPass, BeginToken,
               StopPrefetch, Ended, allvars, vars
  <1> QED BY <1>2, <1>3, <1>4, <1>5, OnlyDemand

\* Without prefetch, and with slices that are whole pages, a kernel finds every
\* expert its router has kept, if the batch fits the cache: the fills at the
\* router may evict each other and what is left of them may be gone when the
\* matmul's own call is made, but not from that call to the kernel.
THEOREM KernelsServed ==
    ASSUME Aligned
    PROVE  StreamSpec => []KernelServed
  <1> DEFINE Off == mode = "off" => Service /\ ContentInv
             Inv == OwnCall /\ WorkerOff /\ Off
  <1>1. StreamInit => Inv
    <2> SUFFICES ASSUME StreamInit PROVE Inv
      OBVIOUS
    <2>1. Init
      BY DEF StreamInit
    <2>2. OwnCall /\ WorkerOff
      BY DEF StreamInit, Init, OwnCall, WorkerOff
    <2> QED BY <2>1, <2>2, ServiceInit
  <1>2. StreamInv /\ IInv /\ Queued /\ Inv /\ [StreamNext]_allvars => Inv'
    <2> SUFFICES ASSUME StreamInv, IInv, Queued, Inv, [StreamNext]_allvars PROVE Inv'
      OBVIOUS
    <2>1. OwnCall' /\ WorkerOff' /\ mode' = mode /\ [Next]_vars
      BY OwnCallStep, WorkerOffStep, CacheStep
    <2>2. ASSUME mode = "off" PROVE Service' /\ ContentInv'
      <3>1. ppc = "idle" /\ ppc' = "idle"
        BY <2>1, <2>2 DEF WorkerOff
      <3>2. DemandSide
        BY <2>1, <3>1, OnlyDemand
      <3> QED BY <2>2, <3>2, ServiceStep, ContentStep
    <2> QED BY <2>1, <2>2
  <1>3. Inv => KernelServed
    <2> SUFFICES ASSUME Inv, mode = "off", epc = "kernel", Fits(call)
                 PROVE  Slices({Here.tensor} \X Wanted) \subseteq window
      BY DEF KernelServed
    <2>1. ServedAtUse /\ dpc = "compute"
      BY ServiceServes DEF OwnCall
    <2>2. BatchKeys(call) = {Here.tensor} \X Wanted
      BY DEF OwnCall, BatchKeys
    <2> QED BY <2>1, <2>2 DEF ServedAtUse
  <1>4. StreamSpec => []IInv
    BY DrivesCache, Inductive, PTL
  <1>5. StreamSpec => []Queued
    BY DrivesCache, QueuedHolds, PTL
  <1> QED BY <1>1, <1>2, <1>3, <1>4, <1>5, StreamInductive, PTL DEF StreamSpec

=============================================================================
